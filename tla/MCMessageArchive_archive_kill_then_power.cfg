SPECIFICATION Spec
CONSTANTS
  k1 = k1
  k2 = k2
  r1 = r1
  r2 = r2
  r3 = r3
  r4 = r4
  NoID = NoID
  Messages <- MCMessages
  RowIDs <- MCRowIDs
  Legacy <- None
  Start = "fresh"
  LowRAM = FALSE
  Faults = {"kill", "power"}
  SegmentSize = 2
  MaxRows = 4
SYMMETRY AllAlike
INVARIANTS
  AcknowledgedArchived
