CONSTANTS
  Box <- Boxes
  Order <- DecodeOrder
  InitBox = "init"
  PosBox = "pos"
  Width = 2
  Tries = 2
  Transports <- BothTransports
  MaxFrames = 5
SPECIFICATION FairSpec
INVARIANTS AirStartPlaced
PROPERTIES MailKept NewestDecoded
