SPECIFICATION Spec
CONSTANTS
  Nil = Nil
  FlowFamily <- FlowsWithEntry
INVARIANTS
  QueuedOnce
  Frontier
  SearchIsExact
  FixpointIsSearch
PROPERTIES
  SearchEnds
