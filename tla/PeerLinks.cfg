CONSTANTS
  NoSource = NoSource
  Node = {n1, n2}
  MaxRoutes = 2
  MaxKcpLinks = 1
  MaxRouteHops = 1
  HopMax = 1
  GiveUpAttempts = 1
  BadFailureThreshold = 1
  CounterMax = 0
  AdvertisedHops = {0}
  Capabilities = {"idle"}
  Sessions = {s1}
  Bootstraps = {b1}
  Feelers = {f1}
  Senders = {x1}
  StaticPeers = {}
SPECIFICATION Spec
SYMMETRY Symmetry
INVARIANTS
  TunnelCoversTable
  LinksBounded

  
