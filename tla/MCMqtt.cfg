CONSTANTS
  PublishEvery = 3
SPECIFICATION FairSpec
INVARIANTS LinkTruthful NothingLeaks
PROPERTIES ImplementsSession ComesOnline KeepsReporting
