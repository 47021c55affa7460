\* Streams of five frames.
SPECIFICATION Spec
CONSTANTS
  Frames <- MCFrames
  Steps = {0, 1}
  MaxFrames = 5
  MaxTime = 2
  kSecond = 2
  kCpbFrames = 3
  Table <- MCTable
  Durations <- MCDurations
INVARIANTS
  StatsExact
  LevelFits
