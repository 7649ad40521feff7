SPECIFICATION FairSpec
CONSTANTS
  boot = boot
  c1 = c1
  c2 = c2
  Invalid = Invalid
  BootChannel = boot
  COOP_HOP = FALSE
  RENDEZVOUS = TRUE
  QUARANTINE_PERSIST = TRUE
  Channels <- MCChannels
INVARIANTS HopTypeOK ActiveTicks RendezvousUsable FallbackHasRunner
PROPERTIES DeadLinkKeepsMoving
