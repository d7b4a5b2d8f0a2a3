CONSTANTS
  a = a
  b = b
  Channels <- TwoChannels
  RawChannels <- TwoChannelReports
  Fixtures <- TwoChannelFixtures
  Node = Node
  LiveNode = LiveNode
  Identities <- OwnNode
  InvoiceWindows <- Invoices
  Retention <- CappedRetention
  DefaultRetention <- ShortRetention
  Window = 3
  MinHistory = 2
  MaxHistory = 3
  MaxTime = 4
SPECIFICATION Spec
INVARIANTS
  TypeOK
  DetectorsAreSound
  
  AdviceCoversFinding
PROPERTIES
  SilenceIsNotAbsence
  ImplementsLifecycle
