CONSTANTS
  Threads <- MCThreads
  Priority <- MCPriority
  MaxWait = 7
  SemValueMax = 4
  MbSize = 2
  LoopPeriod = 2
  Gap = 2
  Pause = 6
  DisplayRest = 7
  TurnTime <- MCTurnTime
  ParseTime = 1
  LineQuiet = 7
  Rounds = 5
SPECIFICATION FairSpec
INVARIANTS TasksTypeOK NoLostWakeup TokensCountReadings NeverFull PairsMatch LoopOnTime ClimateReal
PROPERTIES ImplementsTokens InOrder ReadingsArrive
