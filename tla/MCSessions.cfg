CONSTANTS
  None = None
  Count = 2
  Forced = {2}
  Kept = {1}
SPECIFICATION FairSpec
INVARIANTS TypeOK DeletedOnce
PROPERTIES OneSession StartsEnd ConnectionCloses
CHECK_DEADLOCK FALSE
