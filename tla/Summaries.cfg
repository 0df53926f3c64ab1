CONSTANTS
  Requests = {}
  Leads = {}
  Contacts = {}
  Numbers = {}
  MaxFile = 0
  Chats = {c1, c2}
  Messages = {m1, m2}
  Runs = {r1, r2}
  Activity = 1
  Window = 1
  MaxTime = 2
  MaxDigests = 2
SPECIFICATION ConversationsSpec
SYMMETRY Symmetry
INVARIANTS
  NothingLost
  SummarisedOnce
  DigestsComplete
CHECK_DEADLOCK FALSE
