CONSTANTS
  Users = {u1}
  Conns = {c1, c2}
  Alarms = {a1, a2}
  Addr = {x1}
  None = None
  Null = Null
  MaxUsers = 1
  Repeats = {2}
  Counts = {1}
  Requests = {"start", "stop"}
SPECIFICATION FairSpec
PROPERTIES
  AlarmsEnd
  RequestAnswered
