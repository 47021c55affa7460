SPECIFICATION Spec
CONSTANTS
  Tracks <- MCTracks
  Video = {1}
  Audio = {2}
  MaxTrackNumber = 126
  Scale = 1
  MaxBlockTimecode = 3
  WordSize = 4096
  Inputs <- MCInputs
  Configs <- MCConfigs
  MaxCalls = 4
INVARIANTS
  TypeOK QueueFitsCluster UndefinedOnlyIfUnfit TrackOrderKept FileInTimeOrder
  NothingLost CuesExact SeekHeadExact CuesLead
PROPERTIES LastBlocksHaveDuration ClosedClustersStay CallsReturn
