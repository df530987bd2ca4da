CONSTANTS
  Base = 2
  NET_BUFFER_LENGTH = 5
  IO_SIZE = 4
  MaxSizes = {5, 12, 20}
  Packets <- MCPackets
  MaxSends = 2
  Writers = {"netWriteCommand", "myNetWrite", "StartAlarm"}
  Stray = 0
SPECIFICATION FairSpec
CHECK_DEADLOCK FALSE
INVARIANTS
  BufferBound
  MemoryBound
  InOrder
  RefusesOnlyLarge
PROPERTIES
  ImplementsQueue
  Delivered
