SPECIFICATION Spec
CONSTANTS
  a1 = a1
  l1 = l1
  Alarms = {a1}
  Loggers = {l1}
  Settings <- MCSettings
  SECONDS = 2
  HOURS = 3
  Width = 32
  MaxNow = 12
CHECK_DEADLOCK FALSE
INVARIANTS
  ReadsOwnTime
  StoredTime
  TimeOfDay
  RingsAsStored
