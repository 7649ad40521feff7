SPECIFICATION FairPairingSpec
CONSTANTS
  home = home
  other = other
  NoDongle = NoDongle
  Home = home
  SHELL_CMDS = TRUE
  Dongles <- MCDongles
INVARIANTS NoStall ConnectedHasPeer
PROPERTIES HandshakeEnds
