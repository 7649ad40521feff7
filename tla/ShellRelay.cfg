SPECIFICATION Spec
CONSTANTS
  BUF = 2
INVARIANTS
  ShellTypeOK
  TimersMatchSession
  OutputHasRunner
PROPERTIES
  PeerLearns
