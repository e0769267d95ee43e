CONSTANTS
  s1 = s1
  s2 = s2
  Streams = {s1, s2}
  Mixes <- MCMixes
  RingSpace = 1
  MaxWrites = 1
  MaxAtClose = 1
SPECIFICATION Spec
INVARIANT LoopUsesNoDeleted
CHECK_DEADLOCK FALSE
