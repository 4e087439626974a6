SPECIFICATION FairSpec
CONSTANTS
  k1 = k1
  k2 = k2
  c1 = c1
  Clients = {k1, k2}
  Channels = {c1}
  Owner <- OneChannel
  NEndpoints = 1
  Erring = {0}
CHECK_DEADLOCK FALSE
INVARIANTS
  PortalInv
  NoUseAfterDestruction
  OnlyUntrackedThreadsOutlivePortal
  WaitsAreExact
  NobodyIsStuck
PROPERTIES
  NothingRunsForever
  ServerExits
  DisposedIsDestroyed
