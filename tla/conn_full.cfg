CONSTANTS
  Thds = {t1, t2, t3}
  Fds = {f1, f2}
  Main = Main
  None = None
  MaxConnections = 0
  Failures = {"setup", "buffer", "thread"}
SPECIFICATION FairSpec
INVARIANTS
  TypeOK
  LockInv
  CountersInv
  ConnectionBound
  NoUseAfterFree
  OwnSocket
  NoDescriptorLeak
  ThreadFreesAll
PROPERTIES
  AcceptorReturns
  ConnectionsEnd
