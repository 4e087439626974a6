SPECIFICATION FairSpec
CONSTANTS
  Portal = P
  Channels = {c1}
  PortalChannels = {}
  PortalRepeats = 0
  ChannelRepeats <- OwnEndpoint
  Upload = TRUE
  ClientVersions <- ThisVersion
  Faults = {"loss", "shutdown"}
  MaxFaults = 2
CHECK_DEADLOCK FALSE
INVARIANTS
  LiveClientIsKnown
  ShutdownLeavesNoClient
  NobodyIsStuck
  WaitsAreExact
PROPERTIES
  NothingRunsForever
  HandshakeSettles
  ServerShutsDown
