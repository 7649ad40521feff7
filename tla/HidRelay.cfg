SPECIFICATION Spec
CONSTANTS
  Inputs <- MCInputs
  PAGE <- MCPAGE
  EXPLICIT <- MCEXPLICIT
  IMPLICIT <- MCIMPLICIT
  Before = {"vol"}
  DEPTH <- MCDEPTH
  FIFO_SIZE = 2
  MaxEvents = 2
  MaxFaults = 2
INVARIANTS
  HidTypeOK
  ModsFollowKeys
PROPERTIES
  EveryEdgeInOrder
  NewestArrives
