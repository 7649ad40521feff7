SPECIFICATION Spec
CONSTANTS
  rv = rv
  zero = zero
  c1 = c1
  c2 = c2
  Channels <- MCChannels
  Rendezvous = rv
  Zero = zero
  SIZE = 1
  HIT_TABLE_SIZE = 2
  THRESHOLD = 2
  PERIOD = 2
  MaxHits = 3
  MaxElapsed = 1
INVARIANTS RecordCurrent RendezvousNotAvoided
PROPERTIES OffenderAgesOut
