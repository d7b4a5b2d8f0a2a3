CONSTANTS
  f = f
  g = g
  c = c
  d = d
  FindingIds = {f, g}
  SubjectOf <- OneSubject
  SeverityAt <- Severities
  Channels <- TwoChannels
  Statuses = {"Active", "WaitingClose"}
  Policies <- SomePolicies
  Runs <- SomeRuns
  Sims <- SomeSims
  Events <- SomeEvents
  Deliveries = {1, 2}
  Focuses = {"findings", "advice", "snapshots", "runs", "events", "queue", "operational", "alerts", "audit"}
  Advised = {f}
  Times = {1, 2}
  SnapTimes = {1, 2, 3}
  MaxSnapshots = 3
  MaxTxCalls = 2
  MaxAudit = 2
SPECIFICATION Spec
INVARIANTS
  TypeOK
  LifecycleAgrees
  RetentionAgrees
  RecordsAgree
CHECK_DEADLOCK FALSE
