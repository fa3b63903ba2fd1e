\* Three requests of one client, in the process and in Redis, around a boundary of windows.
SPECIFICATION Spec
CHECK_DEADLOCK FALSE  \* requests end and the clock stops
CONSTANTS
  Requests = {r1, r2, r3}
  None = None
  c1 = c1
  o1 = o1
  Clients = {c1}
  Officers = {o1}
  Shapes <- SomeShapes
  W = 2
  Limit <- SomeLimits
  Horizon = 3
SYMMETRY Symmetry
INVARIANTS TypeOK ServedWithinLimits RefusedOnlyOverLimit
