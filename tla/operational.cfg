SPECIFICATION Spec
CONSTANTS
    Limits <- TwoAgents
    MaxTime = 2
    MaxUpsets = 1
INVARIANTS
  RowIsTrue
  OutageIsTracked
PROPERTIES
  CorrelationIsJustified
  LifecycleSpec
CHECK_DEADLOCK FALSE
