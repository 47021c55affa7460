SPECIFICATION LoadingSpec
CONSTANTS
  Files <- MCFiles
INVARIANTS
  ArrayInOrder CursorOnElement EntriesExact NextIsSuccessor
PROPERTIES KeptClusters LoadsAll CallsReturn
