SPECIFICATION Spec
CONSTANTS
  boot = boot
  c1 = c1
  c2 = c2
  Invalid = Invalid
  BootChannel = boot
  COOP_HOP = TRUE
  RENDEZVOUS = FALSE
  QUARANTINE_PERSIST = FALSE
  Channels <- MCChannels
INVARIANTS CoopEnds
