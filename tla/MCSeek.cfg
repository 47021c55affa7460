SPECIFICATION Spec
CONSTANTS
  NULL = NULL
  Files <- MCFiles
  kMaxWalk = 3
  Tracks = {1, 2}
  Types <- MCTypes
  MaxPreloaded = 1
  Times = {0, 1, 4, 5, 8, 9}
INVARIANTS CuesMoved PointsFindBlocks SeekExact SeeksAgree
PROPERTIES WalkFollows PointsLoad
CHECK_DEADLOCK FALSE
