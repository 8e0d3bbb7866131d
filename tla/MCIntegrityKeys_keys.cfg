SPECIFICATION Spec
CONSTANTS
  k1 = k1
  k2 = k2
  k3 = k3
  Keys = {k1, k2, k3}
  Faults = {"kill", "power", "short", "sync"}
  MaxRecords = 5
SYMMETRY Symmetry
INVARIANTS
  ToldKeyOpens
  RetiredStaysOut
  SecondReadingAgrees
  SnapshotOpens
