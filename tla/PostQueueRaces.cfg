SPECIFICATION Spec
CONSTANTS
  Properties = {p1, p2}
  Requests = {r1, r2}
  Policies <- SummerAndWinter
  Instants <- AroundShabbat
  MaxSlots = 2
  MaxHops = 5
SYMMETRY Symmetry
INVARIANTS
  SkipRolls
PROPERTIES
  StaysInRotation
CHECK_DEADLOCK FALSE
