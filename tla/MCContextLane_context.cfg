SPECIFICATION Spec
CONSTANTS
  CJK = {}
  Stop = {}
  Numbered = {}
  Synonyms <- MCNone
  Canonical <- MCCanonical
  Aliases <- MCAliases
  Facts <- MCFacts
  Sessions = {s1, s2}
  Projects = {"", "P"}
  Query <- MCQuery
  Evidence = {0, 500}
  IdentityMax = 5
  ItemsMax = 1
  PacketMax = 1
  ItemBudget = 3
  TextBudget = 5
  DeltaRows = 2
  DeltaMax = 1
  InjectMax = 1
  DiffLimits = {1, 2}
  Calls = {a, b}
  Born = {1, 2, 3}
  Changing = {2}
  MaxEvents = 3
SYMMETRY MCSymmetry
INVARIANTS
  TypeOK
  ToldOnceInOrder
  CursorStaysGood
  WakeUpLeavesNoGap
  NotShownAgain
  NewIsInjected
