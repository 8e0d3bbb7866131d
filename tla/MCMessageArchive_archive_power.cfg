SPECIFICATION Spec
CONSTANTS
  k1 = k1
  k2 = k2
  r1 = r1
  r2 = r2
  r3 = r3
  r4 = r4
  NoID = NoID
  Messages <- WithLegacy
  RowIDs <- MCRowIDs
  Legacy <- Two
  Start = "upgraded"
  LowRAM = FALSE
  Faults = {"write", "flush", "power"}
  SegmentSize = 2
  MaxRows = 4
SYMMETRY NewAlike
INVARIANTS
  TurnsCountUsers
  ReloadsWhatItServes
  AcknowledgedArchived
  NeverRefuses
PROPERTIES
  ImplementsMessageLog
