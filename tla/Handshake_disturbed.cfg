SPECIFICATION Spec
CONSTANTS
  Portal = P
  Channels = {c1, c2}
  PortalChannels = {c1, c2}
  PortalRepeats = 2
  ChannelRepeats <- NoEndpoints
  Upload = FALSE
  ClientVersions <- LaterVersions
  Faults = {"loss", "refuse", "interrupt", "crash"}
  MaxFaults = 1
SYMMETRY Symmetry
CHECK_DEADLOCK FALSE
INVARIANTS
  HandshakeInv
  DisposedInstanceIsIdle
PROPERTY
  ChannelsMeet
