SPECIFICATION FairSpec
CONSTANTS
  Nodes <- MCNodes
  Folders <- MCFolders
  Mapped <- MCMapped
  Contents <- MCContents
  SetupLists <- MCSetupLists
  VariableLists <- MCVariableLists
  FolderLists <- MCFolderLists
INVARIANTS
  FirstSettingIsUsed
  HistorizedIsPolled
PROPERTIES
  SetupEnds
