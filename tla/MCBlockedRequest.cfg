CONSTANTS
  TickMod = 5
  LeaveConfirm = 1
  CleanDelay = 2
  TimeoutToPos2 = 1
  TimeoutToPos3 = 2
  TimeoutToPos1 = 1
  CleanTotal = 4
  LoopTicks <- MCLoopTicks
  HallReading <- MCHallReading
  UseMod = 1
SPECIFICATION SpecH
PROPERTY BlockedRequestStartsNothing
