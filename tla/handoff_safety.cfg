SPECIFICATION Spec
CONSTANTS
    d1 = d1  d2 = d2  d3 = d3  r1 = r1  r2 = r2
    Deliveries <- AllDeliveries
    Requests <- AllRequests
    Legacy = {}
    EventBuffer = 1
    DetectorWindow = 2
    Timeouts = TRUE
    ClockMonotone = TRUE
    MaxFaults = 1
    MaxCrashes = 1
SYMMETRY HandlerSymmetry
INVARIANTS
  HandoffIsSafe
  WindowMatchesHistory
PROPERTY
  QueueSpec
