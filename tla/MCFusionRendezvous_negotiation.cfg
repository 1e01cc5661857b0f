CONSTANTS
  n1 = n1
  n2 = n2
  n3 = n3
  None = None
  Nodes = {n1, n2, n3}
  MinSafe = 2
  Elect <- MCElect
  MaxTries = 2
  Faults = TRUE
SPECIFICATION RendezvousLossySpec
INVARIANTS RendezvousTypeOK StartedByFullAck SessionAgreement
PROPERTIES OnlyAYieldedOneWaits
CHECK_DEADLOCK FALSE
