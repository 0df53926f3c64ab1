CONSTANTS
  Chats = {c1}
  Messages = {m1, m2}
  Timestamps = {1, 2}
  MinReplyInterval = 1
  MaxTasks = 2
  MaxTime = 1
SPECIFICATION FairSpec
INVARIANTS AtMostOneReply PromiseKept
PROPERTIES TakeoverSticks TasksEnd
