SPECIFICATION FairWriteSpec
CONSTANTS
  WriteStreams = {s1, s2}
  WriteCap = 2
  Sizes = {2}
  MaxWritten = 2
  MaxWrites <- OneIfLimited
  MaxWindow = 2
  Limited = {s1}
  CanStop = {s2}
INVARIANTS WriteTypeOK NoLostWakeup NoStarvation
PROPERTIES ImplementsPipe WrittenIsSent
CHECK_DEADLOCK FALSE
