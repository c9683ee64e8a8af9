CONSTANTS
  TickMod = 5
  LeaveConfirm = 1
  CleanDelay = 2
  TimeoutToPos2 = 2
  TimeoutToPos3 = 1
  TimeoutToPos1 = 2
  CleanTotal = 4
SPECIFICATION Spec
INVARIANTS TypeOK MotorFollowsPhase FaultCodeFollowsState
PROPERTIES TimeoutLatched ImplementsCycle
