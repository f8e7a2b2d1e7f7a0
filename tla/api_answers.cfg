SPECIFICATION Spec
CONSTANTS
  home = home
  homePad = homePad
  work = work
  pk = pk
  pkPad = pkPad
  pkHex = pkHex
  junk = junk
  ep = ep
  lan = lan
  file = file
  Lan = Lan
  DualStack = DualStack
  psk1 = psk1
  port1 = port1
  Slots = {s1, s2}
  Texts <- MCTexts
  Blank = Blank
  Trim <- MCTrim
  Lower <- Itself
  PeerOf <- MCPeerOf
  Contains <- MCContains
  Endpoints = {ep}
  AllowedIps = {Lan, DualStack}
  Keys = {k1, k2, k3}
  BadKey = BadKey
  Psks = {psk1}
  Ports = {port1}
  NoPort = NoPort
  None = None
  Epoch = Epoch
  AllowedOf <- MCAllowedOf
  Confs <- MCConfs
  FileStem <- MCFileStem
  Argvs <- MCArgvs
  NewForms <- MCNewForms
  FormPeers = {pkHex}
  FirstFiles <- MCFirstFiles
  StaleAfter = 2
  Window = 1
  MaxStep = 1
SYMMETRY Symmetry
INVARIANTS
  TypeOK
  ListedIsReachable
  EditKeeps
  StateIsTrue
PROPERTIES
  LateSaveIsEdit
