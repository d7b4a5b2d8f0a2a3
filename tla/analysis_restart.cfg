CONSTANTS
  a = a
  b = b
  Channels <- OneChannel
  RawChannels <- OneChannelReports
  Fixtures <- OneChannelReports
  Node = Node
  LiveNode = LiveNode
  Identities <- EitherNode
  InvoiceWindows <- Invoices
  Retention <- LongRetention
  DefaultRetention <- LongRetention
  Window = 4
  MinHistory = 2
  MaxHistory = 5
  MaxTime = 5
SPECIFICATION MonitorSpec
INVARIANT TrendSurvivesRestart
