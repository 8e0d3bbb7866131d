SPECIFICATION Spec
CONSTANTS
  m1 = m1
  m2 = m2
  m3 = m3
  x1 = x1
  NoMemory = NoMemory
  NoRequest = NoRequest
  MemoryIDs <- MCMemoryIDs
  Imported <- MCImported
  Requests <- Mixed
  Rejecters = {x1}
  LowRAM = FALSE
  Reopened = FALSE
  Faults = {"append", "flush", "index", "kill"}
  MaxEvents = 2
SYMMETRY MCSymmetry
INVARIANTS
  TypeOK
  OneSuccessor
  AppliedOnce
  StateMatchesJournal
  FailedCommitLeavesNoEvent
