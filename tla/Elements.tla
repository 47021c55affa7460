------------------------------ MODULE Elements ------------------------------
(* EBML elements as both libraries see them: an id, and either a value or     *)
(* children.  Values are sequences of numbers: << n >> for a number, a date    *)
(* or a float (floats are taken at whole values), the characters or bytes of   *)
(* a string or binary.  size is the payload size that the header declares.     *)
EXTENDS Integers, Sequences, SequencesExt, FiniteSetsExt

CONSTANT NULL   \* a null pointer in mkvmuxer and mkvparser, a value not present
ASSUME NullAssumption == NULL \notin Nat

FourByteIds ==
  { "EBML", "SeekHead", "Info", "Tracks", "Cues", "Chapters", "Tags" }
ThreeByteIds == { "TimecodeScale", "DefaultDuration", "Language", "ColourSpace", "FrameRate" }
OneByteIds ==
  { "Void", "TrackEntry", "TrackNumber", "TrackType", "FlagLacing", "CodecID", "Video",
    "PixelWidth", "PixelHeight", "Audio", "SamplingFrequency", "Channels", "CuePoint",
    "CueTime", "CueTrackPositions", "CueTrack", "CueClusterPosition", "ChapterAtom",
    "ChapterTimeStart", "ChapterTimeEnd", "ChapterDisplay", "ChapString" }
FloatIds ==
  { "Duration", "SamplingFrequency", "OutputSamplingFrequency", "FrameRate", "LuminanceMax",
    "LuminanceMin", "PrimaryRChromaticityX", "PrimaryRChromaticityY", "PrimaryGChromaticityX",
    "PrimaryGChromaticityY", "PrimaryBChromaticityX", "PrimaryBChromaticityY",
    "WhitePointChromaticityX", "WhitePointChromaticityY", "ProjectionPoseYaw",
    "ProjectionPosePitch", "ProjectionPoseRoll" }
TextIds ==
  { "DocType", "SeekID", "Title", "MuxingApp", "WritingApp", "Name", "Language", "CodecID",
    "CodecPrivate", "CodecName", "ColourSpace", "ProjectionPrivate", "ContentEncKeyID",
    "ChapterStringUID", "ChapString", "ChapLanguage", "ChapCountry", "TagName", "TagString" }

GetUIntSize(v) ==
  CASE v < 256 -> 1 [] v < 65536 -> 2 [] v < 16777216 -> 3 [] v \div 256 < 16777216 -> 4
    [] v \div 65536 < 16777216 -> 5 [] v \div 16777216 < 16777216 -> 6
    [] (v \div 16777216) \div 256 < 16777216 -> 7 [] OTHER -> 8
GetCodedUIntSize(v) ==
  CASE v < 127 -> 1 [] v < 16383 -> 2 [] v < 2097151 -> 3 [] v < 268435455 -> 4
    [] (v + 1) \div 128 < 268435456 -> 5 [] (v + 1) \div 16384 < 268435456 -> 6
    [] (v + 1) \div 2097152 < 268435456 -> 7 [] OTHER -> 8

IdSize(id) ==
  CASE id \in FourByteIds -> 4 [] id \in ThreeByteIds -> 3
    [] id \in OneByteIds -> 1 [] OTHER -> 2

PayloadOf(id, v) ==
  CASE id \in TextIds -> Len(v) [] id \in FloatIds -> 4
    [] id = "DateUTC" -> 8 [] OTHER -> GetUIntSize(v)

EbmlMasterElementSize(id, size) == IdSize(id) + GetCodedUIntSize(size)

Whole(id, size) == EbmlMasterElementSize(id, size) + size
EbmlElementSize(id, v) == IF v = NULL THEN 0 ELSE Whole(id, PayloadOf(id, v))

Leaf(id, v) ==
  [ id |-> id, val |-> IF id \in TextIds THEN v ELSE << v >>, kids |-> << >>,
    size |-> PayloadOf(id, v) ]
Master(id, size, kids) == [ id |-> id, val |-> << >>, kids |-> kids, size |-> size ]

\* The elements and the bytes of a sequence of elements.
Bytes(es) == FoldLeft(LAMBDA n, e : n + Whole(e.id, e.size), 0, es)
KidsOf(e, id) == SelectSeq(e.kids, LAMBDA k : k.id = id)
=============================================================================
