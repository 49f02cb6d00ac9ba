CONSTANTS
  NDev <- Devices
  NReg <- Registers
  Dummy <- DummyBytes
  WMask <- Masks
  StreamMax = 2
  StreamSize <- StreamSizes
  StreamAddr <- StreamAddrs
  StreamPrefix <- StreamPrefixes
  ClearOnRead <- Clears
  RxDepth = 1
  TxDepth = 1
  MasterBytes <- FreeBytes
  Samples <- NoCommit
  MaxFrames = 2
  MaxResyncs = 1
  MaxLen = 3
  Assume <- AllPromises
SPECIFICATION Spec
PROPERTIES FrameDelivered
CHECK_DEADLOCK FALSE
