SPECIFICATION Spec
CONSTANTS
  kMaxPayloadSize = 4
  kTsPayloadSize = 9
  Frames <- MCFrames
  MaxFrames = 3
  Cuts = {0, 1, 2, 7, 12, 20}
  Beyond = {1, 3}
INVARIANT TsCarriesPes
INVARIANT FramesComeBack
CHECK_DEADLOCK FALSE
