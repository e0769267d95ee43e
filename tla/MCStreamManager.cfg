CONSTANTS
  QueueMax = 1
  MaxControls = 2
SPECIFICATION FairSpec
INVARIANTS TypeOK NoUseAfterRelease
PROPERTIES StopCompletes LossReported
CHECK_DEADLOCK FALSE
