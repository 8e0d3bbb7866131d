SPECIFICATION Spec
CONSTANTS
  m1 = m1
  m2 = m2
  m3 = m3
  x1 = x1
  NoMemory = NoMemory
  NoRequest = NoRequest
  MemoryIDs <- MCMemoryIDs
  Imported <- MCImported
  Requests <- Growing
  Rejecters = {}
  LowRAM = FALSE
  Reopened = TRUE
  Faults = {"kill", "power"}
  MaxEvents = 2
SYMMETRY MCSymmetry
CHECK_DEADLOCK FALSE
INVARIANT
  NoRowWithoutEvent
