----------------------------- MODULE MuxElements -----------------------------
(* The objects a caller of mkvmuxer fills in around the frames: tracks with    *)
(* their video and audio settings, colour, projection and encryption,          *)
(* SegmentInfo, chapters, tags, cue points and seek entries.  Every class has  *)
(* a function that computes the size its header declares and another that      *)
(* writes the elements; here the fields either lists are named by the element  *)
(* a field becomes.                                                            *)
EXTENDS Elements

CONSTANTS kMaxTrackNumber,   \* 0x7E
          MaxCalls,          \* bounds the calls before the elements are written
          TrackNumbers,      \* track numbers that callers pass to AddTrack
          Uids,              \* what MakeUID returns
          Av1,               \* Tracks::kAv1CodecId
          Values,            \* for each setter the values that callers pass
          Cues, Seeks        \* cue points and seek entries that callers add

VARIABLES tracks, info, chapters, tags, cues, seeks,
          calls,             \* calls made
          pc,                \* "build", "written", "failed"
          file               \* the elements written

ASSUME NumberAssumption == kMaxTrackNumber \in Nat
\* No caller sets the number of a track that it has added (Track::set_number).
ASSUME SettersAssumption == \A f \in Values.track : f[1] # "TrackNumber"

muxVars == << tracks, info, chapters, tags, cues, seeks, calls, pc, file >>

-----------------------------------------------------------------------------
(* A field whose value is its value in absent is not written.                  *)
Present(o, absent, id) == id \in DOMAIN absent => o[id] # absent[id]

Fields(o, absent, ids) ==
  LET written == SelectSeq(ids, LAMBDA id : Present(o, absent, id))
  IN  [ i \in DOMAIN written |-> Leaf(written[i], o[written[i]]) ]

FieldsSize(o, absent, ids) ==
  MapThenSumSet(LAMBDA id : EbmlElementSize(id, o[id]), { id \in ids : Present(o, absent, id) })

Null(ids) == [ id \in ids |-> NULL ]
\* An object of a class that extends another's fields.
With(o, fields) ==
  [ id \in DOMAIN o \cup DOMAIN fields |-> IF id \in DOMAIN fields THEN fields[id] ELSE o[id] ]
Opt(o, element) == IF o = NULL THEN << >> ELSE << element >>

-----------------------------------------------------------------------------
(* ContentEncoding and ContentEncAESSettings.                                  *)
NewEncoding ==
  [ ContentEncAlgo |-> 5, ContentEncKeyID |-> NULL, ContentEncodingOrder |-> 0,
    ContentEncodingScope |-> 1, ContentEncodingType |-> 1, AESSettingsCipherMode |-> 1 ]

AESPayloadSize(e) == EbmlElementSize("AESSettingsCipherMode", e.AESSettingsCipherMode)
EncryptionSize(e) ==
  FieldsSize(e, << >>, {"ContentEncKeyID", "ContentEncAlgo"})
    + Whole("ContentEncAESSettings", AESPayloadSize(e))
EncodingSize(e) ==
  Whole("ContentEncryption", EncryptionSize(e))
    + FieldsSize(e, << >>, {"ContentEncodingType", "ContentEncodingScope", "ContentEncodingOrder"})

WriteEncoding(e) ==
  Master("ContentEncoding", EncodingSize(e),
    Fields(e, << >>, << "ContentEncodingOrder", "ContentEncodingScope", "ContentEncodingType" >>)
    \o << Master("ContentEncryption", EncryptionSize(e),
            Fields(e, << >>, << "ContentEncAlgo", "ContentEncKeyID" >>)
            \o << Master("ContentEncAESSettings", AESPayloadSize(e),
                    Fields(e, << >>, << "AESSettingsCipherMode" >>)) >>) >>)

EncodingsSize(t) ==
  FoldLeft(LAMBDA n, e : n + Whole("ContentEncoding", EncodingSize(e)), 0, t.encodings)

-----------------------------------------------------------------------------
(* Colour with MasteringMetadata, and Projection.                              *)
ChromaticityIds ==
  << "PrimaryRChromaticityX", "PrimaryRChromaticityY", "PrimaryGChromaticityX",
     "PrimaryGChromaticityY", "PrimaryBChromaticityX", "PrimaryBChromaticityY",
     "WhitePointChromaticityX", "WhitePointChromaticityY" >>
MasteringIds == << "LuminanceMax", "LuminanceMin" >> \o ChromaticityIds
NewMastering == Null(Range(MasteringIds))

MasteringValid(m) ==
  LET min == m.LuminanceMin   max == m.LuminanceMax
  IN  /\ min # NULL => min \in 0 .. 999 /\ (max # NULL => min <= max)
      /\ max # NULL => max \in 0 .. 9999 /\ min # NULL /\ max >= min
      /\ \A id \in Range(ChromaticityIds) : m[id] # NULL => m[id] \in 0 .. 1

MasteringPayloadSize(m) == FieldsSize(m, NewMastering, Range(MasteringIds))

ColourIds ==
  << "MatrixCoefficients", "BitsPerChannel", "ChromaSubsamplingHorz", "ChromaSubsamplingVert",
     "CbSubsamplingHorz", "CbSubsamplingVert", "ChromaSitingHorz", "ChromaSitingVert", "Range",
     "TransferCharacteristics", "Primaries", "MaxCLL", "MaxFALL" >>
NewColour == Null(Range(ColourIds) \cup {"MasteringMetadata"})

ValidColourValues ==
  [ MatrixCoefficients |-> 0 .. 10, ChromaSitingHorz |-> 0 .. 2, ChromaSitingVert |-> 0 .. 2,
    Range |-> 0 .. 3, TransferCharacteristics |-> 1 .. 18, Primaries |-> 0 .. 10 \cup {22} ]
ColourValid(c) ==
  /\ c.MasteringMetadata # NULL => MasteringValid(c.MasteringMetadata)
  /\ \A id \in DOMAIN ValidColourValues : c[id] # NULL => c[id] \in ValidColourValues[id]

ColourPayloadSize(c) ==
  LET mastering == IF c.MasteringMetadata = NULL THEN 0 ELSE MasteringPayloadSize(c.MasteringMetadata)
  IN  FieldsSize(c, NewColour, Range(ColourIds))
        + IF mastering = 0 THEN 0 ELSE Whole("MasteringMetadata", mastering)

WriteMastering(m) ==
  LET size == MasteringPayloadSize(m)
  IN  IF size = 0 THEN << >>
      ELSE << Master("MasteringMetadata", size, Fields(m, NewMastering, MasteringIds)) >>

WriteColour(c) ==
  LET size == ColourPayloadSize(c)
  IN  IF size = 0 THEN << >>
      ELSE << Master("Colour", size,
                Fields(c, NewColour, ColourIds)
                \o IF c.MasteringMetadata = NULL THEN << >> ELSE WriteMastering(c.MasteringMetadata)) >>

NewProjection ==
  [ ProjectionType |-> 0, ProjectionPrivate |-> NULL, ProjectionPoseYaw |-> 0,
    ProjectionPosePitch |-> 0, ProjectionPoseRoll |-> 0 ]
ProjectionPayloadSize(p) ==
  FieldsSize(p, [ ProjectionPrivate |-> NULL ], DOMAIN NewProjection)
WriteProjection(p) ==
  Master("Projection", ProjectionPayloadSize(p),
    Fields(p, [ ProjectionPrivate |-> NULL ],
      << "ProjectionType", "ProjectionPrivate", "ProjectionPoseYaw", "ProjectionPosePitch",
         "ProjectionPoseRoll" >>))

-----------------------------------------------------------------------------
(* Track, VideoTrack and AudioTrack.                                           *)
TrackAbsent ==
  [ MaxBlockAdditionID |-> 0, CodecDelay |-> 0, SeekPreRoll |-> 0, DefaultDuration |-> 0,
    CodecID |-> NULL, CodecPrivate |-> NULL, Language |-> NULL, Name |-> NULL ]
TrackIds ==
  << "TrackNumber", "TrackUID", "TrackType", "MaxBlockAdditionID", "CodecDelay", "SeekPreRoll",
     "DefaultDuration", "CodecID", "CodecPrivate", "Language", "Name" >>
NewTrack(uid) ==
  With(TrackAbsent,
    [ TrackNumber |-> 0, TrackUID |-> uid, TrackType |-> 0, encodings |-> << >> ])

VideoAbsent ==
  [ DisplayWidth |-> 0, DisplayHeight |-> 0, PixelCropLeft |-> 0, PixelCropRight |-> 0,
    PixelCropTop |-> 0, PixelCropBottom |-> 0, StereoMode |-> 0, AlphaMode |-> 0,
    ColourSpace |-> NULL, FrameRate |-> 0 ]
VideoIds ==
  << "PixelWidth", "PixelHeight", "DisplayWidth", "DisplayHeight", "PixelCropLeft",
     "PixelCropRight", "PixelCropTop", "PixelCropBottom", "StereoMode", "AlphaMode",
     "ColourSpace", "FrameRate" >>
NewVideoTrack(uid, width, height) ==
  With(With(NewTrack(uid), VideoAbsent),
    [ width |-> width, height |-> height, PixelWidth |-> 0, PixelHeight |-> 0,
      Colour |-> NULL, Projection |-> NULL ])

AudioAbsent == [ BitDepth |-> 0 ]
AudioIds == << "SamplingFrequency", "Channels", "BitDepth" >>
NewAudioTrack(uid, rate, channels) ==
  With(With(NewTrack(uid), AudioAbsent), [ SamplingFrequency |-> rate, Channels |-> channels ])

IsVideo(t) == "PixelWidth" \in DOMAIN t
IsAudio(t) == "SamplingFrequency" \in DOMAIN t

\* What is written as PixelWidth and PixelHeight.
Sized(t) ==
  [ t EXCEPT !.PixelWidth = IF @ > 0 THEN @ ELSE t.width,
             !.PixelHeight = IF @ > 0 THEN @ ELSE t.height ]

VideoPayloadSize(t) ==
  LET colour == IF t.Colour = NULL THEN 0 ELSE ColourPayloadSize(t.Colour)
  IN  FieldsSize(Sized(t), VideoAbsent, Range(VideoIds))
        + (IF colour = 0 THEN 0 ELSE Whole("Colour", colour))
        + (IF t.Projection = NULL THEN 0
           ELSE Whole("Projection", ProjectionPayloadSize(t.Projection)))
AudioPayloadSize(t) == FieldsSize(t, AudioAbsent, Range(AudioIds))

TrackPayloadSize(t) ==
  FieldsSize(t, TrackAbsent, Range(TrackIds))
    + (IF t.encodings = << >> THEN 0 ELSE Whole("ContentEncodings", EncodingsSize(t)))
    + (IF IsVideo(t) THEN Whole("Video", VideoPayloadSize(t)) ELSE 0)
    + (IF IsAudio(t) THEN Whole("Audio", AudioPayloadSize(t)) ELSE 0)

WriteVideo(t) ==
  Master("Video", VideoPayloadSize(t),
    Fields(Sized(t), VideoAbsent, VideoIds)
    \o (IF t.Colour = NULL THEN << >> ELSE WriteColour(t.Colour))
    \o (IF t.Projection = NULL THEN << >> ELSE << WriteProjection(t.Projection) >>))
WriteAudio(t) == Master("Audio", AudioPayloadSize(t), Fields(t, AudioAbsent, AudioIds))

WriteTrack(t) ==
  Master("TrackEntry", TrackPayloadSize(t),
    Fields(t, TrackAbsent, TrackIds)
    \o (IF t.encodings = << >> THEN << >>
        ELSE << Master("ContentEncodings", EncodingsSize(t),
                  [ i \in DOMAIN t.encodings |-> WriteEncoding(t.encodings[i]) ]) >>)
    \o (IF IsVideo(t) THEN << WriteVideo(t) >> ELSE << >>)
    \o (IF IsAudio(t) THEN << WriteAudio(t) >> ELSE << >>))

\* Whether Write of a track succeeds.
CanWriteTrack(t) ==
  /\ t.TrackType # 0 /\ t.CodecID # NULL
  /\ t.CodecID = Av1 => t.CodecPrivate # NULL
  /\ \A i \in DOMAIN t.encodings : t.encodings[i].ContentEncKeyID # NULL
  /\ IsVideo(t) /\ t.Colour # NULL => ColourPayloadSize(t.Colour) = 0 \/ ColourValid(t.Colour)

WriteTracks ==
  LET entries == [ i \in DOMAIN tracks |-> WriteTrack(tracks[i]) ]
  IN  Master("Tracks", Bytes(entries), entries)

-----------------------------------------------------------------------------
(* SegmentInfo, Chapters, Tags, Cues and SeekHead.                             *)
InfoAbsent == [ Duration |-> -1, DateUTC |-> NULL ]
InfoIds == << "TimecodeScale", "Duration", "DateUTC", "MuxingApp", "WritingApp" >>
NewInfo ==
  With(InfoAbsent,
    [ TimecodeScale |-> 1000000, MuxingApp |-> << 1 >>, WritingApp |-> << 1 >> ])
WriteInfo == Master("Info", FieldsSize(info, InfoAbsent, Range(InfoIds)), Fields(info, InfoAbsent, InfoIds))

AtomIds == << "ChapterStringUID", "ChapterUID", "ChapterTimeStart", "ChapterTimeEnd" >>
NewChapter(uid) ==
  [ ChapterStringUID |-> NULL, ChapterUID |-> uid, ChapterTimeStart |-> 0, ChapterTimeEnd |-> 0,
    displays |-> << >> ]
DisplayAbsent == Null({"ChapLanguage", "ChapCountry"})
DisplayIds == << "ChapString", "ChapLanguage", "ChapCountry" >>

WriteDisplay(d) ==
  Master("ChapterDisplay", FieldsSize(d, DisplayAbsent, Range(DisplayIds)), Fields(d, DisplayAbsent, DisplayIds))
WriteAtom(c) ==
  LET displays == [ i \in DOMAIN c.displays |-> WriteDisplay(c.displays[i]) ]
  IN  Master("ChapterAtom", FieldsSize(c, << >>, Range(AtomIds)) + Bytes(displays),
        Fields(c, << >>, AtomIds) \o displays)
WriteChapters ==
  LET atoms == [ i \in DOMAIN chapters |-> WriteAtom(chapters[i]) ]
  IN  Master("Chapters", Whole("EditionEntry", Bytes(atoms)),
        << Master("EditionEntry", Bytes(atoms), atoms) >>)
CanWriteChapter(c) ==
  c.ChapterStringUID # NULL /\ \A i \in DOMAIN c.displays : c.displays[i].ChapString # NULL

WriteSimpleTag(st) ==
  Master("SimpleTag", FieldsSize(st, << >>, {"TagName", "TagString"}), Fields(st, << >>, << "TagName", "TagString" >>))
WriteTag(tag) ==
  LET simple_tags == [ i \in DOMAIN tag |-> WriteSimpleTag(tag[i]) ]
  IN  Master("Tag", Bytes(simple_tags), simple_tags)
WriteTags ==
  LET written == [ i \in DOMAIN tags |-> WriteTag(tags[i]) ]
  IN  Master("Tags", Bytes(written), written)

CueIds == << "CueTrack", "CueClusterPosition", "CueBlockNumber" >>
CueAbsent(cue) == IF cue.output THEN [ CueBlockNumber |-> 1 ] ELSE [ CueBlockNumber |-> cue.CueBlockNumber ]
WriteCuePoint(cue) ==
  LET size == FieldsSize(cue, CueAbsent(cue), Range(CueIds))
  IN  Master("CuePoint",
        EbmlElementSize("CueTime", cue.CueTime) + Whole("CueTrackPositions", size),
        << Leaf("CueTime", cue.CueTime),
           Master("CueTrackPositions", size, Fields(cue, CueAbsent(cue), CueIds)) >>)
WriteCues ==
  LET points == [ i \in DOMAIN cues |-> WriteCuePoint(cues[i]) ]
  IN  Master("Cues", Bytes(points), points)

SeekIds == << "SeekID", "SeekPosition" >>
kSeekEntryCount == 5
MaxEntrySize == Whole("Seek", 7 + 11)
WriteSeekHead ==
  LET entries == [ i \in DOMAIN seeks |->
                     Master("Seek", FieldsSize(seeks[i], << >>, Range(SeekIds)), Fields(seeks[i], << >>, SeekIds)) ]
      reserved == Whole("SeekHead", kSeekEntryCount * MaxEntrySize)
      left == reserved - (IF seeks = << >> THEN 0 ELSE Whole("SeekHead", Bytes(entries)))
  IN  (IF seeks = << >> THEN << >> ELSE << Master("SeekHead", Bytes(entries), entries) >>)
      \o << [ Leaf("Void", 0) EXCEPT !.size = left - 1 - GetCodedUIntSize(left - 1) ] >>

-----------------------------------------------------------------------------
(* The calls.  Chapters and tags are filled in before the next is added: the   *)
(* pointers that AddChapter and AddTag return point into arrays that grow.     *)
Init ==
  /\ tracks = << >> /\ info = NewInfo /\ chapters = << >> /\ tags = << >>
  /\ cues = << >> /\ seeks = << >> /\ calls = 0 /\ pc = "build" /\ file = << >>

Call == pc = "build" /\ calls < MaxCalls /\ calls' = calls + 1 /\ UNCHANGED << pc, file >>

NumbersUsed == { tracks[i].TrackNumber : i \in DOMAIN tracks }
\* Mutant: the number of tracks is taken for a free number.
NextNumber == Len(tracks) + 1

FreeNumber ==
  LET count == Len(tracks) + 1
  IN  CHOOSE n \in count .. count + Len(tracks) :
        n \notin NumbersUsed /\ count .. n - 1 \subseteq NumbersUsed

AddTrack(track, number) ==
  /\ Call /\ number \in 0 .. kMaxTrackNumber
  /\ number > 0 => number \notin NumbersUsed
  /\ tracks' = Append(tracks, [ track EXCEPT !.TrackNumber = IF number = 0 THEN FreeNumber ELSE number ])
  /\ UNCHANGED << info, chapters, tags, cues, seeks >>

AddVideoTrack(uid, width, height, number) ==
  AddTrack([ NewVideoTrack(uid, width, height) EXCEPT !.TrackType = 1, !.CodecID = << 8 >> ], number)
AddAudioTrack(uid, rate, channels, number) ==
  AddTrack([ NewAudioTrack(uid, rate, channels) EXCEPT !.TrackType = 2, !.CodecID = << 9 >> ], number)
AddOtherTrack(uid, number) == AddTrack(NewTrack(uid), number)

\* Setters that refuse a value.
Accepts(id, v) ==
  CASE id = "StereoMode" -> v \in {0, 1, 2, 3, 11}
    [] id = "AlphaMode" -> v \in {0, 1}
    [] id \in {"CodecPrivate", "ProjectionPrivate", "ContentEncKeyID"} -> v # << >>
    [] OTHER -> TRUE

ChangeTrack(i, t) ==
  Call /\ tracks' = [ tracks EXCEPT ![i] = t ] /\ UNCHANGED << info, chapters, tags, cues, seeks >>

SetTrackField(i, id, v) ==
  id \in DOMAIN tracks[i] /\ Accepts(id, v) /\ ChangeTrack(i, [ tracks[i] EXCEPT ![id] = v ])

AddContentEncoding(i) == ChangeTrack(i, [ tracks[i] EXCEPT !.encodings = Append(@, NewEncoding) ])
SetEncodingField(i, id, v) ==
  /\ tracks[i].encodings # << >> /\ Accepts(id, v)
  /\ ChangeTrack(i, [ tracks[i] EXCEPT !.encodings[Len(tracks[i].encodings)][id] = v ])

\* SetColour and SetProjection with the object of the call before, one field changed.
OrNew(o, new) == IF o = NULL THEN new ELSE o
SetColour(i, id, v) ==
  IsVideo(tracks[i])
    /\ ChangeTrack(i, [ tracks[i] EXCEPT !.Colour = [ OrNew(@, NewColour) EXCEPT ![id] = v ] ])
SetMasteringMetadata(i, ids, v) ==
  /\ IsVideo(tracks[i])
  /\ LET colour == OrNew(tracks[i].Colour, NewColour)
         mastering == OrNew(colour.MasteringMetadata, NewMastering)
     IN  ChangeTrack(i, [ tracks[i] EXCEPT !.Colour =
           [ colour EXCEPT !.MasteringMetadata =
               [ id \in DOMAIN mastering |-> IF id \in ids THEN v ELSE mastering[id] ] ] ])
SetProjection(i, id, v) ==
  IsVideo(tracks[i]) /\ Accepts(id, v)
    /\ ChangeTrack(i, [ tracks[i] EXCEPT !.Projection = [ OrNew(@, NewProjection) EXCEPT ![id] = v ] ])

SetInfoField(id, v) ==
  Call /\ info' = [ info EXCEPT ![id] = v ] /\ UNCHANGED << tracks, chapters, tags, cues, seeks >>

ChangeChapters(cs) == Call /\ chapters' = cs /\ UNCHANGED << tracks, info, tags, cues, seeks >>
AddChapter(uid) == ChangeChapters(Append(chapters, NewChapter(uid)))
SetChapterField(id, v) ==
  chapters # << >> /\ ChangeChapters([ chapters EXCEPT ![Len(chapters)][id] = v ])
AddString(title, language, country) ==
  /\ chapters # << >>
  /\ ChangeChapters([ chapters EXCEPT ![Len(chapters)].displays = Append(@,
       [ ChapString |-> title, ChapLanguage |-> language, ChapCountry |-> country ]) ])

ChangeTags(ts) == Call /\ tags' = ts /\ UNCHANGED << tracks, info, chapters, cues, seeks >>
AddTag == ChangeTags(Append(tags, << >>))
AddSimpleTag(name, string) ==
  tags # << >> /\ ChangeTags([ tags EXCEPT ![Len(tags)] = Append(@, [ TagName |-> name, TagString |-> string ]) ])

AddCue(cue) == Call /\ cues' = Append(cues, cue) /\ UNCHANGED << tracks, info, chapters, tags, seeks >>
AddSeekEntry(seek) ==
  /\ Call /\ Len(seeks) < kSeekEntryCount
  /\ seeks' = Append(seeks, seek) /\ UNCHANGED << tracks, info, chapters, tags, cues >>

WriteEbmlHeader ==
  LET header == [ EBMLVersion |-> 1, EBMLReadVersion |-> 1, EBMLMaxIDLength |-> 4,
                  EBMLMaxSizeLength |-> 8, DocType |-> << 2 >>, DocTypeVersion |-> 4,
                  DocTypeReadVersion |-> 2 ]
      ids == << "EBMLVersion", "EBMLReadVersion", "EBMLMaxIDLength", "EBMLMaxSizeLength",
                "DocType", "DocTypeVersion", "DocTypeReadVersion" >>
  IN  Master("EBML", FieldsSize(header, << >>, DOMAIN header), Fields(header, << >>, ids))

CanWrite ==
  /\ \A i \in DOMAIN tracks : CanWriteTrack(tracks[i])
  /\ \A i \in DOMAIN chapters : CanWriteChapter(chapters[i])
  /\ \A i \in DOMAIN tags : \A j \in DOMAIN tags[i] : NULL \notin Range(tags[i][j])
  /\ \A i \in DOMAIN cues : cues[i].CueTrack >= 1 /\ cues[i].CueClusterPosition >= 1

Write ==
  /\ pc = "build"
  /\ IF CanWrite
     THEN /\ pc' = "written"
          /\ file' = << WriteEbmlHeader >> \o WriteSeekHead \o << WriteInfo, WriteTracks >>
               \o (IF chapters = << >> THEN << >> ELSE << WriteChapters >>)
               \o (IF tags = << >> THEN << >> ELSE << WriteTags >>)
               \o (IF cues = << >> THEN << >> ELSE << WriteCues >>)
     ELSE pc' = "failed" /\ UNCHANGED file
  /\ UNCHANGED << tracks, info, chapters, tags, cues, seeks, calls >>

Set(i) ==
  \/ \E f \in Values.track : SetTrackField(i, f[1], f[2])
  \/ AddContentEncoding(i)
  \/ \E f \in Values.encoding : SetEncodingField(i, f[1], f[2])
  \/ \E f \in Values.colour : SetColour(i, f[1], f[2])
  \/ \E f \in Values.mastering : SetMasteringMetadata(i, f[1], f[2])
  \/ \E f \in Values.projection : SetProjection(i, f[1], f[2])

Next ==
  \/ \E uid \in Uids, n \in TrackNumbers :
       \/ \E size \in Values.size : AddVideoTrack(uid, size, size, n)
       \/ \E rate \in Values.rate : AddAudioTrack(uid, rate, 1, n)
       \/ AddOtherTrack(uid, n)
  \/ \E i \in DOMAIN tracks : Set(i)
  \/ \E f \in Values.info : SetInfoField(f[1], f[2])
  \/ \E uid \in Uids : AddChapter(uid)
  \/ \E f \in Values.chapter : SetChapterField(f[1], f[2])
  \/ \E f \in Values.string : AddString(f[1], f[2], f[3])
  \/ AddTag \/ \E f \in Values.tag : AddSimpleTag(f[1], f[2])
  \/ \E cue \in Cues : AddCue(cue)
  \/ \E seek \in Seeks : AddSeekEntry(seek)
  \/ Write

Spec == Init /\ [][Next]_muxVars

-----------------------------------------------------------------------------
\* No two tracks have one number, however numbers were asked for and left to
\* AddTrack.
NumbersUnique ==
  \A i, j \in DOMAIN tracks : tracks[i].TrackNumber = tracks[j].TrackNumber => i = j
=============================================================================
