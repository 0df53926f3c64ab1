CONSTANTS
  Chats = {c1}
  Messages = {m1, m2, m3}
  Timestamps = {1, 2}
  MinReplyInterval = 1
  MaxTasks = 2
  MaxTime = 1
SYMMETRY Symmetry
SPECIFICATION Spec
CONSTRAINT SwitchedOn
INVARIANTS
  RateLimited
  MarkedProcessed
PROPERTIES
  WatermarkAdvances
