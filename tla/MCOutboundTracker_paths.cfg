SPECIFICATION TrackerFairSpec
CONSTANTS
  Roles = {"sender", "coordinator", "peer"}
  Windows = {w1}
  KnownReplies = {FALSE, TRUE}
  None = None
INVARIANTS TrackerTypeOK OnWireIsTracked HandedOverIsParked
PROPERTIES LiveIsResolved NoStaleBroadcasting
