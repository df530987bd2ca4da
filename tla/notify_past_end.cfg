SPECIFICATION Spec
CONSTANTS
  Users = {u1}
  Conns = {c1}
  Alarms = {a1}
  Addr = {x1}
  None = None
  Null = Null
  MaxUsers = 1
  Repeats = {2}
  Counts = {1}
  Requests = {"start"}
INVARIANT
  PushInRange
