SPECIFICATION Spec
CONSTANTS
  FIFO_SIZE <- MCFifoSize
  INFLIGHT_CAP <- MCInflightCap
  MaxMotion <- MCMaxMotion
  MaxSlots <- MCMaxSlots
INVARIANT
  KbNotForgotten
