SPECIFICATION Spec
CONSTANTS
    f1 = f1  f2 = f2  f3 = f3
    liquidity = liquidity  drift = drift  settlement = settlement
    Findings <- AllFindings
    Scopes <- AllScopes
    ScopeOf <- Scoping
    Pipelines <- MonitorAndAgent
    Recommending <- MonitorScopes
    Unprovenanced <- WebhookScopes
    MaxTime = 2
INVARIANTS
  ResolvedOnlyAfterAbsence
  AbsenceResolves
  SeenIntervalIsExact
  AdviceIsConsistent
