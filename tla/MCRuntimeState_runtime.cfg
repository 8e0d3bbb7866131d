SPECIFICATION Spec
CONSTANTS
  m1 = m1
  m2 = m2
  s1 = s1
  s2 = s2
  Memories = {m1, m2}
  Sessions = {s1, s2}
  Modes = {TRUE, FALSE}
  Faults = {"index", "file", "sessions", "meta"}
  Top = 2
  Harm = 1
  MaxCalls = 5
SYMMETRY Symmetry
INVARIANTS
  FeedbackKept
  CountedOnce
  ClockRunsForward
  CopiesAgree
CHECK_DEADLOCK FALSE
