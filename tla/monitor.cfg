SPECIFICATION FairSpec
CONSTANTS
    k1 = k1
    Keys <- OneKey
    Cooldown = 2
    MaxAttempts = 2
    MaxSends = 2
    MaxTime = 2
    MaxFaults = 2
    MaxCrashes = 1
    MaxScans = 1
INVARIANT
  StateMatchesTold
PROPERTIES
  CooldownHolds
  CriticalGetsThrough
