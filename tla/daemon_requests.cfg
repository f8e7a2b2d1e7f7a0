SPECIFICATION Spec
CONSTANTS
  n1 = n1
  n2 = n2
  h1 = h1
  Names = {n1, n2}
  Keys = {k1, k2}
  BadKey = BadKey
  Hosts = {h1, h2}
  Versions = {v1, v2}
  Nothing = Nothing
  FullHosts = {h2}
  FirstFiles <- MCFirstFiles
  MaxUnsettled = 2
  Environment = {"supply", "wg", "exit"}
SYMMETRY Symmetry
INVARIANTS
  TypeOK
  CacheIsOwn
  SwitchedIsListed
  ConnectingIsLive
  FallbackFresh
PROPERTIES
  EditSparesActive
