SPECIFICATION Spec
CONSTANTS
  s1 = s1
  s2 = s2
  t1 = t1
  Sessions = {s1, s2}
  Tasks = {t1}
  Requests <- SomeRequests
  Asks <- Repertoire
  MaxRequests <- TwoAndOne
  MaxHandles = 2
  Builds = {FALSE}
CHECK_DEADLOCK FALSE
INVARIANT
  ErrorSet
