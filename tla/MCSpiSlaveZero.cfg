CONSTANTS
  NDev <- Devices
  NReg <- Registers
  Dummy <- DummyBytes
  WMask <- Masks
  StreamMax = 0
  StreamSize <- NoStreams
  StreamAddr <- StreamAddrs
  StreamPrefix <- StreamPrefixes
  ClearOnRead <- Clears
  RxDepth = 1
  TxDepth = 1
  MasterBytes <- FreeBytes
  Samples <- OneCommit
  MaxFrames = 3
  MaxResyncs = 0
  MaxLen = 1
  Assume <- AllPromises
SPECIFICATION Spec
INVARIANT HardZero
