CONSTANTS
  Packets <- AllPackets
  MaxRequests = 4
  MaxResets = 2
  Prompt = TRUE
  Lines = 3
  Room = 3
  Flood = 2
SPECIFICATION Spec
INVARIANTS Agreed NoSilentLoss FramesGenuine
PROPERTIES TransferEnds
CHECK_DEADLOCK FALSE
