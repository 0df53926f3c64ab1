CONSTANTS
  Properties = {p1, p2}
  Requests = {r1}
  Policies <- SummerAndWinter
  Instants <- AroundShabbat
  MaxSlots = 3
  MaxHops = 5
  Floors <- MCFloors
  Schedules <- MCSchedules
  Taken <- MCTaken
SPECIFICATION PostingSpec
INVARIANTS
  OvershootBounded
  OnePendingWhileAvailable
  ReturnsEarliest
  LoopComputesNextPostSlot
PROPERTIES
  ImplementsRotation
CHECK_DEADLOCK FALSE
