SPECIFICATION Spec
CONSTANTS
  None = None
  Inputs <- MCInputs
  BuiltinNames = {"Double"}
INVARIANTS
  MeaningKept
  EncodableConverges
  NodesOnce
  ReferencesHaveEnds
  ReferencesArrive
PROPERTY
  Terminates
CHECK_DEADLOCK FALSE
