CONSTANTS
  s1 = s1
  w1 = w1
  w2 = w2
  p1 = p1
  p2 = p2
  p3 = p3
  Streams <- OneStream
  Writers <- TwoWriters
  StreamOf <- Shared
  ChunkLimit = 1
  QueueLimit = 3
  RingSpace = 1
  CompactAt = 3
  Pointers <- ThreePointers
  MaxPending <- Pending
  MaxAccepted <- Accepted
  MaxDeviceWrites <- DeviceWrote
SYMMETRY Symmetry
SPECIFICATION Spec
INVARIANTS TypeOK OneOutstanding CreditKept BytesAccounted
CHECK_DEADLOCK FALSE
