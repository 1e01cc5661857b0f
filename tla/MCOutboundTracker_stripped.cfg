SPECIFICATION TrackerSpec
CONSTANTS
  Roles = {"sender"}
  Windows = {w1}
  KnownReplies = {FALSE}
  None = None
INVARIANT SeenMeansOnWire
