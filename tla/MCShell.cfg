CONSTANTS
  TickMod = 3
  LeaveConfirm = 1
  CleanDelay = 1
  TimeoutToPos2 = 1
  TimeoutToPos3 = 1
  TimeoutToPos1 = 1
  CleanTotal = 2
  LoopTicks <- MCLoopTicks
  HallReading <- MCHallReading
  UseMod = 1
SPECIFICATION SpecS
INVARIANT MotorSafeAtRest
PROPERTIES MotorComesToRest CleaningEndsAnyway
