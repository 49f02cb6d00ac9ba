CONSTANTS
  Prefetch = 5
  BaroReads <- ReadsOfBaro
  MagReads <- ReadsOfMag
  PwrValues <- Powers
  MaxFrames = 4
SPECIFICATION FairSpec
PROPERTIES Answered
CHECK_DEADLOCK FALSE
