CONSTANTS
  Users = {u1, u2}
  Conns = {c1, c2}
  Alarms = {a1, a2}
  Addr = {x1, x2}
  None = None
  Null = Null
  MaxUsers = 0
  Repeats = {1}
  Counts = {1}
  Requests = {"start"}
SPECIFICATION FairSpec
CHECK_DEADLOCK FALSE
PROPERTIES
  RequestAnswered
