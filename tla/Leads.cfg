CONSTANTS
  Requests = {r1, r2, r3}
  Leads = {l1, l2}
  Contacts = {k1, k2}
  Numbers = {n1}
  MaxFile = 2
  Chats = {c1}
  Messages = {}
  Runs = {}
  Activity = 0
  Window = 0
  MaxTime = 0
  MaxDigests = 0
SPECIFICATION ConversationsSpec
SYMMETRY Symmetry
INVARIANTS
  ReviewedOnce
  BookAgrees
  PhoneOnce
CHECK_DEADLOCK FALSE
