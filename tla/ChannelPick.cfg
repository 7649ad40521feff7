SPECIFICATION Spec
CONSTANTS
  CHANNEL_COUNT = 5
  BootChannel = 0
  HALF = 5
  QUARANTINE_MS = 2
  COOP_QUARANTINE_MS = 1
  MIN_DISTANCE = 2
  PERSIST_SIZE = 1
  ALPHA = 200
  SCALE = 1000
  WEIGHT_MIN = 2
  WEIGHT_MAX = 7
  Samples <- MCSamples
  MaxUptime = 8
  MaxCalls = 3
INVARIANTS HoldsKept PickIsClearest DrawFollowsWeights
CHECK_DEADLOCK FALSE
