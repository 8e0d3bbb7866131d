SPECIFICATION Spec
CONSTANTS
  k1 = k1
  k2 = k2
  k3 = k3
  Keys = {k1, k2, k3}
  Faults = {"power"}
  MaxRecords = 3
SYMMETRY Symmetry
INVARIANT SomeKeyOpens
