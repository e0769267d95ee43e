SPECIFICATION FairSpec
CONSTANTS
  Retries = 3
  Addresses = 2
INVARIANTS TypeOK ResultTrue ClosedOnce
PROPERTIES EveryoneEnds
