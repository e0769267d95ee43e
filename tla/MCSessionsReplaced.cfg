CONSTANTS
  None = None
  Count = 2
  Forced = {2}
  Kept = {}
SPECIFICATION Spec
INVARIANT StopsOwnStreams
CHECK_DEADLOCK FALSE
