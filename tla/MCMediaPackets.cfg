CONSTANTS
  p1 = p1
  p2 = p2
  p3 = p3
  Packets <- TwoPackets
  MaxFrames = 3
  MaxConfigs = 2
SPECIFICATION FairSpec
INVARIANTS TypeOK OnePlace FramesKept ConfigFirst
PROPERTY NobodyStuck
CHECK_DEADLOCK FALSE
