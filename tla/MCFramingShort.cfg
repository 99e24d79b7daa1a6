\* A non-blocking socket takes part of a buffer.
CONSTANTS
  Buffers <- MCBuffers
  DevicePackets <- MCDevicePackets
  Works <- OneCommand
  Transports <- MCTransports
  ShortWrites = TRUE
SPECIFICATION Spec
INVARIANT FramesIntact
CHECK_DEADLOCK FALSE
