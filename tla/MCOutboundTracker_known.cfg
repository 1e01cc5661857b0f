SPECIFICATION TrackerSpec
CONSTANTS
  Roles = {"sender"}
  Windows = {w1}
  KnownReplies = {TRUE}
  None = None
INVARIANT KnownIsTracked
