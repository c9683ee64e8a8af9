CONSTANTS
  TickMod = 28
  LeaveConfirm = 4
  CleanDelay = 2
  TimeoutToPos2 = 11
  TimeoutToPos3 = 11
  TimeoutToPos1 = 6
  CleanTotal = 26
  LoopTicks <- MCLoopTicks
  HallReading <- MCHallReading
  UseMod = 1
  SamplePeriod = 1
  Debounce = 2
  Last = 6
  SandEnd = 0
  HomeFrom = 1
  HomeTo = 5
  DumpFrom = 6
VIEW MCView
SPECIFICATION SpecBox
INVARIANT NoFalseTimeout
PROPERTIES PhaseEndsThere GetsHome
