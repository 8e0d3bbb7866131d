SPECIFICATION Spec
CONSTANTS
  CJK = {"c1", "c2", "c3", "c4", "c5"}
  Stop = {"the"}
  Numbered = {"key7"}
  Synonyms <- MCSynonyms
  Canonical <- MCCanonical
  Aliases <- MCAliases
  Facts <- MCFacts
  Queries <- MCQueries
  Projects = {"", "P"}
  Kinds = {{}, {"LESSON"}}
  Limits = {1}
  SearchModes = {"LEXICAL", "SEMANTIC_FALLBACK", "SEMANTIC"}
  Merges = {"union"}
  Cosine <- MCCosine
  CandidateCap = 4
  IdentityMax = 1
  Faults = {"bm25", "fts", "hydrate", "scan", "vector", "upsert"}
  Changing = {2}
  MaxChanges = 2
INVARIANTS
  OnlyEligibleServed
  UndisturbedIsIdeal
  ExactIsServed
  WidensOnly
