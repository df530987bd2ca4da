CONSTANTS
  Users = {u1, u2, u3}
  Conns = {c1, c2}
  Alarms = {a1, a2}
  Addr = {x1, x2}
  None = None
  Null = Null
  MaxUsers = 1
  Repeats = {0, 1}
  Counts = {1}
  Requests = {"start", "stop"}
SPECIFICATION Spec
SYMMETRY Symmetry
CHECK_DEADLOCK FALSE
INVARIANTS
  TypeOK
  LockInv
  RegistryInv
  CapacityBound
  WakeMeansStop
  ServedAlarm
PROPERTIES
  ImplementsRegistry
