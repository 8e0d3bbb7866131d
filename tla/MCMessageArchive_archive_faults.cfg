SPECIFICATION Spec
CONSTANTS
  k1 = k1
  k2 = k2
  r1 = r1
  r2 = r2
  r3 = r3
  r4 = r4
  NoID = NoID
  Messages <- MCMessages
  RowIDs <- Few
  Legacy <- One
  Start = "upgraded"
  LowRAM = TRUE
  Faults = {"write", "short", "sync", "index", "flush", "kill"}
  SegmentSize = 2
  MaxRows = 3
SYMMETRY FewAlike
INVARIANTS
  AnsweredAgain
