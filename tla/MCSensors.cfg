CONSTANTS
  accel = accel
  gyro = gyro
  Accel <- accel
  Gyro <- gyro
  Capacity <- Capacities
  FrameSize <- FrameSizes
  Prefix <- Prefixes
  Prefetch = 5
  Bytes <- DrainBytes
  MaxSamples = 3
  MaxFrames = 5
  Assume <- AllPromises
  BaroReads <- ReadsOfBaro
  MagReads <- ReadsOfMag
  PwrValues <- Powers
  ConvFrames = 4
SPECIFICATION SensorSpec
INVARIANTS FramesAccounted NoSilentGap PulseEnds ForcedOnce UnreadAnnounced
CHECK_DEADLOCK FALSE
