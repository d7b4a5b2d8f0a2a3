CONSTANTS
  a = a
  b = b
  Node = Node
  LiveNode = LiveNode
  Channels <- TwoChannels
  Target = a
  Reports <- SomeReports
  Reserve = 1
  Commands <- SomeCommands
  Window = 3
  MinHistory = 2
  Freshness = 1
  MaxAge = 1
  MaxTime = 2
  MaxObservations = 2
  MaxSims = 2
  MaxFaults = 1
  GraphNodes <- FourNodes
  Ppm = 2
  Edges <- SomeEdges
  MaxUpserts = 4
  Amounts = {1, 3}
SPECIFICATION SideBySide
INVARIANTS
  TypeOK
  ServedProjectionIsFresh
  RunsAreCoherent
  ProjectionsAreSound
  PathsAreCheapest
CHECK_DEADLOCK FALSE
