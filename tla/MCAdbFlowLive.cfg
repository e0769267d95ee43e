CONSTANTS
  s1 = s1
  w1 = w1
  w2 = w2
  p1 = p1
  p2 = p2
  p3 = p3
  Streams <- OneStream
  Writers <- OneWriter
  StreamOf <- Mine
  ChunkLimit = 1
  QueueLimit = 3
  RingSpace = 1
  CompactAt = 1
  Pointers <- OnePointer
  MaxPending <- PendingLive
  MaxAccepted <- AcceptedLive
  MaxDeviceWrites <- DeviceWroteLive
SPECIFICATION FairSpec
PROPERTIES BytesSent CallsReturn
CHECK_DEADLOCK FALSE
