\* Safety, refinement of ByteFifo and liveness of the circular buffer.
CONSTANTS
  Size = 4
  Wrap = 64
  MaxPacket = 3
  MaxRecv = 3
  MaxBytes = 10
SPECIFICATION FairSpec
INVARIANTS TypeOK OccupancyBounded NoLostWakeup
PROPERTIES ImplementsFifo RecvCompletes PacketStored
CHECK_DEADLOCK FALSE
