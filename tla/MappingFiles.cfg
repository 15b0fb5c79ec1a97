CONSTANTS
  Kind <- MCKind
  Begins <- MCBegins
  Values <- MCValues
  MaxReferences = 1
  Files <- MCFiles
SPECIFICATION Spec
INVARIANTS
  NodesBrowsable
  UnusedIsUnmapped
  KnownVariablesAreMapped
  MappedOrReported
  HistoryReachesNode
PROPERTIES
  IdsKeepTheirSource
  WholeFolderVisible
CHECK_DEADLOCK FALSE
