SPECIFICATION Spec
CONSTANTS
  Transfers <- MCTransfers
  QLen = 2
  Width = 4
  Buffers = 2
  DrainMax = 3
  InHandler = 1
  Mishaps = 2
  RxFrames = 2
PROPERTY InOrder Settles
