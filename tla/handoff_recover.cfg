SPECIFICATION FairSpec
CONSTANTS
    d1 = d1  d2 = d2  d3 = d3  r1 = r1  r2 = r2
    Deliveries <- AllDeliveries
    Requests <- OneRequest
    Legacy <- OldDeliveries
    EventBuffer = 1
    DetectorWindow = 1
    Timeouts = TRUE
    ClockMonotone = FALSE
    MaxFaults = 1
    MaxCrashes = 1
INVARIANT
  HandoffIsSafe
PROPERTIES
  EventuallyProcessed
  NextDrainRecovers
