CONSTANTS
  Wrap = 32
  Slots = 3
  TruthPeriod = 2
  FixPeriod = 4
  Lags <- AllLags
  MaxRound = 2
  Horizon = 18
  MaxCommands = 3
  Base = 10000
  Shot = 1000
  Sensors = {"baro"}
  Single = {"baro"}
  Rates = {0, 1500, 2000}
  Fastest = 2000
  TickPeriod = 4
  TickCost = 1
  PhysCost = 3
  FdmCost = 10
  SampleCost = 2
  RestCost = 6
  MaxLag = 5
  MaxHeld = 12
  MaxEdges = 5
  Hold = 1
  Trim = 3
  Turn = 6
  Switches = 3
SPECIFICATION LoopSpec
INVARIANTS OnTime FixLagged RatesKept CatchesUp Understood SnapshotWhole SilentFallsBack
PROPERTY FailsafeOnlySilent
