SPECIFICATION FairSpec
CONSTANTS
  Home = Home
  Work = Work
  Lab = Lab
  Broken = Broken
  a1 = a1
  a2 = a2
  a3 = a3
  lo = lo
  tun = tun
  NoServer = NoServer
  NoMark = NoMark
  Servers = {Home, Work, Lab, Broken}
  Addresses = {a1, a2, a3}
  V4Addresses = {a1, a2}
  Width = 2
  LinePrefixes = {lo, tun}
  Bare = Bare
  NoFile = NoFile
  Marks = {m1, m2}
  WithDns = {Home}
  BadKey = {Broken}
  Worlds <- FaultWorlds
  AddressesOf <- MCAddressesOf
  AllowedOf <- MCAllowedOf
INVARIANTS
  TypeOK
  Sequencing
  OneKillSwitch
  OldServerRetired
PROPERTIES
  KillSwitchHeld
  SharedRouteHeld
  GuardHeld
  WarmKeepsExemption
  ImplementsWireguard
  IntentEnds
