CONSTANTS
  Users = {u1}
  Conns = {c1}
  Alarms = {a1, a2}
  Addr = {x1, x2}
  None = None
  Null = Null
  MaxUsers = 1
  Repeats = {1}
  Counts = {1}
  Requests = {"start", "stop"}
SPECIFICATION Spec
SYMMETRY Symmetry
PROPERTIES
  EndsByOwner
