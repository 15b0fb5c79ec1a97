SPECIFICATION Spec
CONSTANTS
  None = None
  Dirs <- MCDirs
  Vars <- MCVars
  Inputs <- MCInputs
  DefaultNames <- MCDefaultNames
  Names = {"n"}
  Texts = {"t"}
  Sessions <- MCSessions
  MaxSettings = 3
INVARIANTS
  HistoryServedAsShown
  SavedHistoriesDefined
  ExclusionsSavedAsShown
  SavedIsLoaded
PROPERTY
  LoadForgetsEdits
CHECK_DEADLOCK FALSE
