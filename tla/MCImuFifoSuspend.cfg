CONSTANTS
  accel = accel
  gyro = gyro
  Accel <- accel
  Gyro <- gyro
  Capacity <- Capacities
  FrameSize <- FrameSizes
  Prefix <- Prefixes
  Prefetch = 5
  Bytes <- DrainBytes
  MaxSamples = 3
  MaxFrames = 5
  Assume <- AllPromises
SPECIFICATION Spec
INVARIANTS BiasFinite
CHECK_DEADLOCK FALSE
