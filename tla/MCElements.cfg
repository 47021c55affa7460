SPECIFICATION ReadSpec
CONSTANTS
  NULL = NULL
  kMaxTrackNumber = 126
  MaxCalls = 4
  TrackNumbers = {0, 2}
  Uids = {200}
  Av1 <- ModelAv1
  Values <- ModelValues
  Cues <- ModelCues
  Seeks <- ModelSeeks
  Emptied = {"TrackUID", "DisplayWidth", "CodecDelay", "Language", "SamplingFrequency", "ChapLanguage", "DocType"}
INVARIANTS NumbersUnique MkvReadsBack WebmReadsBack
CHECK_DEADLOCK FALSE
