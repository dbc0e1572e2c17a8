CONSTANTS
  NoSource = NoSource
  Node = {n1, n2}
  MaxRoutes = 1
  MaxKcpLinks = 1
  MaxRouteHops = 1
  HopMax = 2
  GiveUpAttempts = 1
  BadFailureThreshold = 1
  CounterMax = 1
  HasRouteFile = TRUE
  AdvertisedHops = {0}
  Capabilities = {"absent"}
SPECIFICATION BothSpec
SYMMETRY Symmetry
INVARIANTS
  LinkCountExact
  EntriesBounded
PROPERTIES
  EvictionSparesLinks
  LostLinkStaysLost
