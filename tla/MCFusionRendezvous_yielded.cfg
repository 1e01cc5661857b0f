CONSTANTS
  n1 = n1
  n2 = n2
  n3 = n3
  None = None
  Nodes = {n1, n2, n3}
  MinSafe = 2
  Elect <- MCElect
  MaxTries = 1
  Faults = TRUE
SPECIFICATION RendezvousLossySpec
PROPERTIES EveryNegotiationEnds
CHECK_DEADLOCK FALSE
