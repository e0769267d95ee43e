CONSTANTS
  Capacity = 4
  MaxBytes = 6
  Reads <- MCReads
SPECIFICATION FairSpec
INVARIANTS TypeOK NoDataRace
PROPERTIES IsFifo WaitsEnd
