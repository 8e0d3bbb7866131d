SPECIFICATION Spec
CONSTANTS
  m1 = m1
  m2 = m2
  s1 = s1
  s2 = s2
  Memories = {m1, m2}
  Sessions = {s1, s2}
  Modes = {FALSE}
  Faults = {}
  Top = 2
  Harm = 1
  MaxCalls = 5
INVARIANTS
  RestartsAtMax
CHECK_DEADLOCK FALSE
