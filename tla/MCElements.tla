----------------------------- MODULE MCElements -----------------------------
EXTENDS ElementProperties

ModelValues ==
  [ track |-> { << "TrackType", 33 >>, << "CodecID", << 7 >> >>, << "CodecPrivate", << 3, 4 >> >>,
                << "CodecDelay", 300 >>, << "Language", << 102, 114 >> >>, << "DisplayWidth", 400 >>,
                << "BitDepth", 16 >> },
    encoding |-> { << "ContentEncKeyID", << 1, 2 >> >>, << "ContentEncodingScope", 0 >> },
    colour |-> { << "MatrixCoefficients", 9 >>, << "Range", 4 >> },
    mastering |-> { << {"LuminanceMax"}, 1000 >>, << {"LuminanceMin"}, 1 >>,
                    << {"PrimaryRChromaticityX", "PrimaryRChromaticityY"}, 1 >> },
    projection |-> { << "ProjectionPoseYaw", 90 >>, << "ProjectionPrivate", << 5 >> >> },
    size |-> {640}, rate |-> {0, 48000},
    info |-> { << "Duration", 12 >>, << "DateUTC", 77 >>, << "WritingApp", << >> >> },
    chapter |-> { << "ChapterStringUID", << 65 >> >> },
    string |-> { << << 66 >>, NULL, << >> >>, << << 66 >>, << 102 >>, << 67 >> >> },
    tag |-> { << << 68 >>, << >> >> } ]
ModelCues ==
  { [ CueTime |-> 0, CueTrack |-> 1, CueClusterPosition |-> 300, CueBlockNumber |-> 2, output |-> TRUE ],
    [ CueTime |-> 256, CueTrack |-> 2, CueClusterPosition |-> 70000, CueBlockNumber |-> 3, output |-> FALSE ] }
ModelSeeks == { [ SeekID |-> << 28, 83, 187, 107 >>, SeekPosition |-> 500 ] }
ModelAv1 == << 7 >>
=============================================================================
