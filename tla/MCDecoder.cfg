SPECIFICATION FairSpec
CONSTANTS
  None = None
  Kinds = {"video", "audio", "raw"}
  InBuffers = {i1}
  OutBuffers = {o1, o2}
  PoolSize = 2
  FrameLen = 3
  Period = 2
  Timelines <- Streams
  Interval = 2
  Tolerance = 1
  LeadCap = 3
  LagLimit = 4
  GapLimit = 8
  MaxLate = 5
INVARIANTS TypeOK Owned ShownInOrder LatencyBounded
PROPERTIES NothingStuck
