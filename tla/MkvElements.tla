----------------------------- MODULE MkvElements -----------------------------
(* How mkvparser reads the elements around the clusters.  A Parse function     *)
(* walks the children of its element: it reads those it knows, the last of a   *)
(* kind wins, and it fails on the first value that it refuses.  A rule names   *)
(* the values that it takes for a child and the one the object starts with.    *)
EXTENDS Elements

E_FILE_FORMAT_INVALID == -2
Rule(values, default) == [ values |-> values, default |-> default ]
Rules(ids, values, default) == [ id \in ids |-> Rule(values, default) ]

\* UnserializeUInt for a child whose result is not checked.
UnserializeUInt(k) == IF k.size \in 1 .. 8 THEN k.val[1] ELSE E_FILE_FORMAT_INVALID
\* The first byte of a value carries its sign.
UnserializeInt(k) ==
  LET modulus == 256 ^ k.size
  IN  IF 2 * k.val[1] >= modulus THEN k.val[1] - modulus ELSE k.val[1]

NumberReads(k) == k.size \in IF k.id \in FloatIds THEN {4, 8} ELSE 1 .. 8

Accepted(e, rules) ==
  \A k \in Range(e.kids) :
    k.id \in DOMAIN rules => NumberReads(k) /\ k.val[1] \in rules[k.id].values

LastValue(e, id, default, Value(_)) ==
  LET found == KidsOf(e, id) IN IF found = << >> THEN default ELSE Value(Last(found))

Numbers(e, rules) ==
  [ id \in DOMAIN rules |-> LastValue(e, id, rules[id].default, LAMBDA k : k.val[1]) ]
Texts(e, ids) == [ id \in ids |-> LastValue(e, id, NULL, LAMBDA k : k.val) ]

OnlyKnown(e, ids) == \A k \in Range(e.kids) : k.id \in ids
AtMostOne(e, id) == Len(KidsOf(e, id)) <= 1
NonEmpty(e, ids) == \A k \in Range(e.kids) : k.id \in ids => k.size > 0

\* Parsers that skip children of size 0.
WithoutEmpty(e) == [ e EXCEPT !.kids = SelectSeq(@, LAMBDA k : k.size > 0) ]

-----------------------------------------------------------------------------
EbmlHeaderRules ==
  Rules({"EBMLVersion", "EBMLReadVersion", "DocTypeVersion", "DocTypeReadVersion"}, Nat \ {0}, 1)
    @@ [ EBMLMaxIDLength |-> Rule(1 .. 4, 4), EBMLMaxSizeLength |-> Rule(1 .. 8, 8) ]
EbmlHeaderReads(e) ==
  /\ \A k \in Range(e.kids) : k.size > 0
  /\ Accepted(e, EbmlHeaderRules) /\ Len(KidsOf(e, "DocType")) = 1

InfoRules == [ TimecodeScale |-> Rule(Nat \ {0}, 1000000), Duration |-> Rule(Nat, -1) ]
InfoTexts == {"MuxingApp", "WritingApp", "Title"}
InfoReads(e) == Accepted(e, InfoRules)
MkvInfo(e) == Numbers(e, InfoRules) @@ Texts(e, InfoTexts)

\* An entry that does not parse is left out.
ParseEntry(e) ==
  /\ Len(e.kids) = 2 /\ e.kids[1].id = "SeekID" /\ e.kids[2].id = "SeekPosition"
  /\ e.kids[1].size = 4 /\ e.kids[2].size \in 1 .. 8
MkvSeekHead(e) ==
  LET entries == SelectSeq(KidsOf(e, "Seek"), ParseEntry)
  IN  [ i \in DOMAIN entries |->
          [ SeekID |-> entries[i].kids[1].val, SeekPosition |-> entries[i].kids[2].val[1] ] ]

-----------------------------------------------------------------------------
(* The content encodings of a track: those before the first that does not      *)
(* parse are kept, and the track is kept without the others.                   *)
AesReads(e) == Accepted(e, [ AESSettingsCipherMode |-> Rule({1}, 1) ])

EncryptionReads(e) ==
  /\ Accepted(e, [ ContentEncAlgo |-> Rule({5}, 0) ])
  /\ NonEmpty(e, {"ContentEncKeyID", "ContentSignature", "ContentSigKeyID"})
  /\ \A k \in Range(KidsOf(e, "ContentEncAESSettings")) : AesReads(k)
CompressionReads(e) ==
  /\ Accepted(e, [ ContentCompAlgo |-> Rule(Nat, 0) ]) /\ KidsOf(e, "ContentCompAlgo") # << >>
  /\ NonEmpty(e, {"ContentCompSettings"}) /\ AtMostOne(e, "ContentCompSettings")

\* Mutant: the scope is not checked.
EncodingReadsAnyScope(e) ==
  /\ \A k \in Range(KidsOf(e, "ContentEncryption")) : EncryptionReads(k)

EncodingReads(e) ==
  /\ Accepted(e, [ ContentEncodingScope |-> Rule(Nat \ {0}, 1) ])
  /\ KidsOf(e, "ContentCompression") \o KidsOf(e, "ContentEncryption") # << >>
  /\ \A k \in Range(KidsOf(e, "ContentCompression")) : CompressionReads(k)
  /\ \A k \in Range(KidsOf(e, "ContentEncryption")) : EncryptionReads(k)

MkvEncoding(e) ==
  LET Uint(id, default) == LastValue(e, id, default, UnserializeUInt)
      encryption == KidsOf(e, "ContentEncryption")
  IN  [ ContentEncodingOrder |-> Uint("ContentEncodingOrder", 0),
        ContentEncodingScope |-> Uint("ContentEncodingScope", 1),
        ContentEncodingType |-> Uint("ContentEncodingType", 0),
        keys |-> [ i \in DOMAIN encryption |-> Texts(encryption[i], {"ContentEncKeyID"}).ContentEncKeyID ] ]

ParseContentEncodingsEntry(e) ==
  LET found == KidsOf(e, "ContentEncoding")
      parsed == CHOOSE n \in 0 .. Len(found) :
                  /\ \A i \in 1 .. n : EncodingReads(found[i])
                  /\ n < Len(found) => ~EncodingReads(found[n + 1])
  IN  [ i \in 1 .. parsed |-> MkvEncoding(found[i]) ]

-----------------------------------------------------------------------------
(* Colour, MasteringMetadata and Projection fail on a child they do not know,  *)
(* a Void element included.                                                    *)
ChromaticityRules ==
  Rules({ "PrimaryRChromaticityX", "PrimaryRChromaticityY", "PrimaryGChromaticityX",
          "PrimaryGChromaticityY", "PrimaryBChromaticityX", "PrimaryBChromaticityY",
          "WhitePointChromaticityX", "WhitePointChromaticityY" }, 0 .. 1, NULL)
MasteringRules ==
  ChromaticityRules
    @@ [ LuminanceMax |-> Rule(0 .. 9999, NULL), LuminanceMin |-> Rule(0 .. 999, NULL) ]
MasteringReads(e) == OnlyKnown(e, DOMAIN MasteringRules) /\ Accepted(e, MasteringRules)

ColourRules ==
  Rules({ "MatrixCoefficients", "BitsPerChannel", "ChromaSubsamplingHorz", "ChromaSubsamplingVert",
          "CbSubsamplingHorz", "CbSubsamplingVert", "ChromaSitingHorz", "ChromaSitingVert", "Range",
          "TransferCharacteristics", "Primaries", "MaxCLL", "MaxFALL" }, Nat, NULL)
ColourReads(e) ==
  /\ OnlyKnown(e, DOMAIN ColourRules \cup {"MasteringMetadata"}) /\ Accepted(e, ColourRules)
  /\ AtMostOne(e, "MasteringMetadata")
  /\ \A k \in Range(KidsOf(e, "MasteringMetadata")) : MasteringReads(k)
MkvColour(e) ==
  Numbers(e, ColourRules)
    @@ [ MasteringMetadata |->
           LastValue(e, "MasteringMetadata", NULL, LAMBDA k : Numbers(k, MasteringRules)) ]

ProjectionRules ==
  [ ProjectionType |-> Rule(Nat, -1) ]
    @@ Rules({"ProjectionPoseYaw", "ProjectionPosePitch", "ProjectionPoseRoll"}, Int, NULL)
ProjectionReads(e) ==
  /\ OnlyKnown(e, DOMAIN ProjectionRules \cup {"ProjectionPrivate"})
  /\ Accepted(e, ProjectionRules) /\ AtMostOne(e, "ProjectionPrivate")
MkvProjection(e) == Numbers(e, ProjectionRules) @@ Texts(e, {"ProjectionPrivate"})

-----------------------------------------------------------------------------
(* Tracks.                                                                     *)
VideoRules ==
  Rules({"PixelWidth", "PixelHeight", "DisplayWidth", "DisplayHeight", "FrameRate"}, Nat \ {0}, 0)
    @@ Rules({"DisplayUnit", "StereoMode"}, Nat, 0)
VideoReads(e) ==
  /\ Accepted(e, VideoRules)
  /\ \A k \in Range(KidsOf(e, "Colour")) : ColourReads(k)
  /\ \A k \in Range(KidsOf(e, "Projection")) : ProjectionReads(k)
MkvVideo(e) ==
  Numbers(e, VideoRules) @@ Texts(e, {"ColourSpace"})
    @@ [ Colour |-> LastValue(e, "Colour", NULL, MkvColour),
         Projection |-> LastValue(e, "Projection", NULL, MkvProjection) ]

AudioRules ==
  [ SamplingFrequency |-> Rule(Nat \ {0}, 8000), Channels |-> Rule(Nat \ {0}, 1),
    BitDepth |-> Rule(Nat \ {0}, 0) ]
AudioReads(e) == Accepted(e, AudioRules)
MkvAudio(e) == Numbers(e, AudioRules)

kVideo == 1
kAudio == 2
kMetadata == 33

TrackRules ==
  [ TrackNumber |-> Rule(1 .. 127, 0), TrackType |-> Rule(1 .. 254, 0),
    FlagLacing |-> Rule({0, 1}, 1), DefaultDuration |-> Rule(Nat, 0) ]
TrackTexts == {"Name", "Language", "CodecID", "CodecName"}

TrackReads(e) ==
  LET type == Numbers(e, TrackRules).TrackType
      Has(id) == KidsOf(e, id) # << >>
      Settings(id) == Last(KidsOf(e, id))
  IN  /\ Accepted(e, TrackRules) /\ Has("TrackNumber") /\ Has("TrackType")
      /\ \A k \in Range(KidsOf(e, "TrackUID")) : k.size <= 8
      /\ Has("Video") = (type = kVideo) /\ Has("Audio") = (type = kAudio)
      /\ type = kVideo => VideoReads(Settings("Video"))
      /\ type = kAudio => AudioReads(Settings("Audio"))
      /\ type = kMetadata => ~Has("ContentEncodings")

\* A private of no bytes is none, a UID of no bytes is 0.
MkvTrack(e) ==
  LET rules == Numbers(e, TrackRules)
  IN  rules @@ Texts(e, TrackTexts)
        @@ [ TrackUID |-> LastValue(e, "TrackUID", 0, LAMBDA k : IF k.size = 0 THEN 0 ELSE k.val[1]),
             CodecDelay |-> LastValue(e, "CodecDelay", 0, UnserializeUInt),
             SeekPreRoll |-> LastValue(e, "SeekPreRoll", 0, UnserializeUInt),
             CodecPrivate |->
               LastValue(e, "CodecPrivate", NULL, LAMBDA k : IF k.size = 0 THEN NULL ELSE k.val),
             encodings |->
               IF rules.TrackType \in {kVideo, kAudio}
               THEN LastValue(e, "ContentEncodings", << >>, ParseContentEncodingsEntry) ELSE << >> ]
        @@ CASE rules.TrackType = kVideo -> MkvVideo(Last(KidsOf(e, "Video")))
             [] rules.TrackType = kAudio -> MkvAudio(Last(KidsOf(e, "Audio")))
             [] OTHER -> << >>

TracksRead(e) ==
  LET entries == KidsOf(WithoutEmpty(e), "TrackEntry")
      Number(i) == Numbers(entries[i], TrackRules).TrackNumber
  IN  /\ \A i \in DOMAIN entries : TrackReads(entries[i])
      /\ \A i, j \in DOMAIN entries : i # j => Number(i) # Number(j)
MkvTracks(e) ==
  LET entries == KidsOf(WithoutEmpty(e), "TrackEntry")
  IN  [ i \in DOMAIN entries |-> MkvTrack(entries[i]) ]

-----------------------------------------------------------------------------
(* Chapters and tags: children of size 0 are skipped.                          *)
DisplayTexts == {"ChapString", "ChapLanguage", "ChapCountry"}
MkvDisplay(e) == Texts(WithoutEmpty(e), DisplayTexts)

MkvAtom(e) ==
  LET atom == WithoutEmpty(e)
      displays == KidsOf(atom, "ChapterDisplay")
  IN  Texts(atom, {"ChapterStringUID"})
        @@ [ ChapterUID |-> LastValue(atom, "ChapterUID", 0, UnserializeInt),
             ChapterTimeStart |-> LastValue(atom, "ChapterTimeStart", -1, UnserializeUInt),
             ChapterTimeEnd |-> LastValue(atom, "ChapterTimeEnd", -1, UnserializeUInt),
             displays |-> [ i \in DOMAIN displays |-> MkvDisplay(displays[i]) ] ]
MkvEdition(e) ==
  LET atoms == KidsOf(WithoutEmpty(e), "ChapterAtom") IN [ i \in DOMAIN atoms |-> MkvAtom(atoms[i]) ]
MkvChapters(e) ==
  LET editions == KidsOf(WithoutEmpty(e), "EditionEntry")
  IN  [ i \in DOMAIN editions |-> MkvEdition(editions[i]) ]

MkvSimpleTag(e) == Texts(WithoutEmpty(e), {"TagName", "TagString"})
MkvTag(e) ==
  LET simple_tags == KidsOf(WithoutEmpty(e), "SimpleTag")
  IN  [ i \in DOMAIN simple_tags |-> MkvSimpleTag(simple_tags[i]) ]
MkvTags(e) ==
  LET found == KidsOf(WithoutEmpty(e), "Tag") IN [ i \in DOMAIN found |-> MkvTag(found[i]) ]

-----------------------------------------------------------------------------
(* Cue points, read when LoadCuePoint comes to them.                           *)
TrackPositionReads(e) ==
  /\ LastValue(e, "CueTrack", -1, UnserializeUInt) > 0
  /\ LastValue(e, "CueClusterPosition", -1, UnserializeUInt) >= 0
  /\ LastValue(e, "CueBlockNumber", 1, UnserializeUInt) >= 0
MkvTrackPosition(e) ==
  [ CueTrack |-> LastValue(e, "CueTrack", -1, UnserializeUInt),
    CueClusterPosition |-> LastValue(e, "CueClusterPosition", -1, UnserializeUInt),
    CueBlockNumber |-> LastValue(e, "CueBlockNumber", 1, UnserializeUInt) ]
CuePointReads(e) ==
  /\ LastValue(e, "CueTime", -1, UnserializeUInt) >= 0
  /\ KidsOf(e, "CueTrackPositions") # << >>
  /\ \A k \in Range(KidsOf(e, "CueTrackPositions")) : TrackPositionReads(k)
MkvCuePoint(e) ==
  LET positions == KidsOf(e, "CueTrackPositions")
  IN  [ time |-> LastValue(e, "CueTime", -1, UnserializeUInt),
        positions |-> [ i \in DOMAIN positions |-> MkvTrackPosition(positions[i]) ] ]

-----------------------------------------------------------------------------
(* EBMLHeader::Parse and Segment::ParseHeaders on a whole file.  The first     *)
(* element of a kind counts.                                                   *)
TopLevel(es, id) == SelectSeq(es, LAMBDA e : e.id = id)
ParseHeadersSucceeds(es) ==
  LET First(id, Reads(_)) == TopLevel(es, id) # << >> => Reads(Head(TopLevel(es, id)))
  IN  First("EBML", EbmlHeaderReads) /\ First("Info", InfoReads) /\ First("Tracks", TracksRead)

ParseHeaders(es) ==
  LET First(id, Value(_)) == IF TopLevel(es, id) = << >> THEN << >> ELSE Value(Head(TopLevel(es, id)))
  IN  [ info |-> First("Info", MkvInfo), tracks |-> First("Tracks", MkvTracks),
        chapters |-> First("Chapters", MkvChapters), tags |-> First("Tags", MkvTags),
        seeks |-> First("SeekHead", MkvSeekHead),
        cues |-> First("Cues", LAMBDA e : [ i \in DOMAIN KidsOf(e, "CuePoint") |-> MkvCuePoint(KidsOf(e, "CuePoint")[i]) ]) ]
=============================================================================
