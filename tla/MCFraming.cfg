\* Both directions; the transport takes a buffer whole or not at all.
CONSTANTS
  Buffers <- MCBuffers
  DevicePackets <- MCDevicePackets
  Works <- MCWorks
  Transports <- MCTransports
  ShortWrites = FALSE
SPECIFICATION FairSpec
INVARIANTS TypeOK FramesIntact DeliveredInOrder
PROPERTIES PacketsArrive PacketsDispatched ListenEndsWhenClosed
CHECK_DEADLOCK FALSE
