SPECIFICATION Spec
CONSTANTS
  m1 = m1
  m2 = m2
  m3 = m3
  NoSource = NoSource
  Sources = {m1, m2}
  Models = {"A", "B"}
  Dims = {1, 2}
  Queries = {"q"}
  Capacity = 1
  FirstSources = {m1}
  Faults = {"record", "map", "count", "manifest", "activate", "index", "provider"}
  Embedders <- MCEmbedders
  Sidecars <- MCSidecars
  LowRAM = FALSE
  MaxGenerations = 2
  FirstProvider <- MCProvider
  MaxEvents = 2
INVARIANTS
  HitsOwnVector
  CurrentReopens
  PresentIsFindable
PROPERTIES
  BuildingEnds
CHECK_DEADLOCK FALSE
