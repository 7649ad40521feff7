SPECIFICATION Spec
CONSTANTS
  home = home
  other = other
  NoDongle = NoDongle
  Home = home
  SHELL_CMDS = FALSE
  MSGQ_DEPTH = 2
  Dongles <- MCDongles
INVARIANTS FollowsProfile
