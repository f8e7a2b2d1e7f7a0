SPECIFICATION Spec
CONSTANTS
  key = key
  net = net
  home = home
  wide = wide
  Tokens = {key, net, home, wide, Ipv4All}
  Empty = Empty
  Unset = Unset
  Ipv4All = Ipv4All
  Fits <- MCFits
  Lines <- MCLines
  MaxLines = 7
CHECK_DEADLOCK FALSE
INVARIANTS
  TypeOK
  SectionStarted
  MeansWhatItSays
