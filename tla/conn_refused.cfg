CONSTANTS
  Thds = {t1, t2}
  Fds = {f1, f2}
  Main = Main
  None = None
  MaxConnections = 0
  Failures = {}
SPECIFICATION Spec
INVARIANTS
  NoMemoryLeak
SYMMETRY Symmetry
