CONSTANTS
  Procs = {"monitor", "agent", "scan"}
  NoProc = "none"
  Lockers = {"monitor", "agent"}
  Daemons = {"agent"}
  Pollers = {"agent"}
  Databases <- SomeDatabases
  Schemas <- SomeSchemas
  MaxStarts <- Twice
  MaxOps <- Twice
SPECIFICATION Spec
INVARIANTS
  MigrationsAreWhole
  OneWriter
  StuckOnlyByFault
  AckedIsDurable
PROPERTY
  LockIsReleased
CHECK_DEADLOCK FALSE
