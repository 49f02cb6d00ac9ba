CONSTANTS
  NDev <- Devices
  NReg <- Registers
  Dummy <- DummyBytes
  WMask <- Masks
  StreamMax = 2
  StreamSize <- StreamSizes
  StreamAddr <- StreamAddrs
  StreamPrefix <- StreamPrefixes
  ClearOnRead <- Clears
  RxDepth = 2
  TxDepth = 2
  MasterBytes <- Bytes
  Samples <- Commits
  MaxFrames = 2
  MaxResyncs = 0
  MaxLen = 3
  Assume <- AllPromises
SPECIFICATION Spec
INVARIANTS TypeOK LinesResolved BurstExact NoFrameLost
PROPERTIES FrameDelivered StrayFree
