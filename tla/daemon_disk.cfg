SPECIFICATION FairSpec
CONSTANTS
  n1 = n1
  n2 = n2
  h1 = h1
  Names = {n1, n2}
  Keys = {k1, k2}
  BadKey = BadKey
  Hosts = {h1}
  Versions = {v1}
  Nothing = Nothing
  FullHosts = {h1}
  FirstFiles <- MCFirstFiles
  MaxUnsettled = 2
  Environment = {"disk", "wg", "unread", "exit", "power"}
INVARIANTS
  AckedIsDurable
  AtMostOneActive
PROPERTIES
  RequestAnswered
