SPECIFICATION WriteSpec
CONSTANTS
  WriteStreams = {s1}
  WriteCap = 2
  Sizes = {1}
  MaxWritten = 2
  MaxWrites <- TwoWrites
  MaxWindow = 2
  Limited = {s1}
  CanStop = {}
INVARIANTS NoGap
CHECK_DEADLOCK FALSE
