SPECIFICATION Spec
CONSTANTS
  FIFO_SIZE <- MCFifoSize
  INFLIGHT_CAP <- MCInflightCap
  MaxMotion <- MCMaxMotion
  MaxSlots <- MCMaxSlots
INVARIANTS
  TxTypeOK
  InflightMatchesRing
  MotionBooked
  Lockstep
  StrandedOnlyByInput
PROPERTY
  LockstepForgetsNothing
