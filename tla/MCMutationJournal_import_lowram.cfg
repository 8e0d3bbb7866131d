SPECIFICATION Spec
CONSTANTS
  m1 = m1
  m2 = m2
  m3 = m3
  x1 = x1
  NoMemory = NoMemory
  NoRequest = NoRequest
  MemoryIDs <- MCMemoryIDs
  Imported <- MCImported
  Requests <- Contending
  Rejecters = {}
  LowRAM = TRUE
  Reopened = FALSE
  Faults = {}
  MaxEvents = 2
SYMMETRY MCSymmetry
PROPERTY
  NothingHardDeleted
