CONSTANTS
  Wrap = 64
  Period = 2
  Rest = 10
  Persist = 3
  MaxRound = 2
  RxSize = 8
  RxChunk = 3
  RxDepth = 2
  RxBytes = 9
  TxSize = 4
  TxLine = 3
  TxDepth = 2
  TxBytes = 13
  MaxCrashes = 3
  MaxResets = 3
  Lines = 5
  Room = 7
  Packet = 4
  Events = 4
  QueueSize = 4
  CursorWidth = 8
  Jobs = 10
  Value = {1, 2}
  Tries = 2
  Calls = 3
  Mishaps = 2
  StartByte = 7
  Known = {1}
  Unknown = {2}
  Payloads <- LookAlikes
  Frames = 3
  Gaps = 1
SPECIFICATION ServiceSpec
INVARIANTS
  Cured Sparing BytesServed
  PostMortem ReportsGenuine ReportsArrive SpiServed BenchHeard
CHECK_DEADLOCK FALSE
