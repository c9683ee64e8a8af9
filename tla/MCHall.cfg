CONSTANTS
  TickMod = 25
  SamplePeriod = 2
  Debounce = 4
  PollTicks <- MCPollTicks
SPECIFICATION Spec
PROPERTIES SampledInTime ImplementsDebounce Settles
