\* WebVTT texts through muxer and demuxer.
SPECIFICATION Spec
CONSTANTS
  kMaxLineLength = 40
  kIntMax = 9999
  Inputs <- MCInputs
  FrameTimes <- MCFrameTimes
  MaxFrames = 2
INVARIANTS
  LoadsWhatIsWritten
  BlocksInOrder
  CuesComeBack
