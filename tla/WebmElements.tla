----------------------------- MODULE WebmElements -----------------------------
(* How webm_parser reads the elements around the clusters into the structs of  *)
(* dom_types.h.  A struct gives every field its default; the parser of the     *)
(* struct names a parser for every child: one of the value parsers or the      *)
(* parser of another struct.  A child that no parser is named for is skipped.  *)
EXTENDS Elements

One(default) == [ many |-> FALSE, default |-> default ]
Many(defaults) == [ many |-> TRUE, default |-> defaults ]
Each(ids, field) == [ id \in ids |-> field ]
Zero == One(<< 0 >>)
Empty == One(<< >>)
Nested == One(NULL)         \* its fields have their own defaults
Parse(ids, parser) == [ id \in ids |-> parser ]

Matroska == << 109, 97, 116, 114, 111, 115, 107, 97 >>
Eng == << 101, 110, 103 >>
Und == << 117, 110, 100 >>

-----------------------------------------------------------------------------
EbmlStruct ==
  Each({"EBMLVersion", "EBMLReadVersion", "DocTypeVersion", "DocTypeReadVersion"}, One(<< 1 >>))
    @@ [ EBMLMaxIDLength |-> One(<< 4 >>), EBMLMaxSizeLength |-> One(<< 8 >>), DocType |-> One(Matroska) ]
EbmlParser ==
  Parse({ "EBMLVersion", "EBMLReadVersion", "EBMLMaxIDLength", "EBMLMaxSizeLength", "DocTypeVersion",
          "DocTypeReadVersion" }, "uint")
    @@ [ DocType |-> "string" ]

InfoStruct ==
  [ TimecodeScale |-> One(<< 1000000 >>), Duration |-> Zero, DateUTC |-> Zero ]
    @@ Each({"Title", "MuxingApp", "WritingApp"}, Empty)
InfoParser ==
  [ TimecodeScale |-> "uint", Duration |-> "float", DateUTC |-> "date" ]
    @@ Parse({"Title", "MuxingApp", "WritingApp"}, "string")

SeekStruct == [ SeekID |-> Zero, SeekPosition |-> Zero ]
SeekParser == [ SeekID |-> "id", SeekPosition |-> "uint" ]

AudioStruct ==
  [ SamplingFrequency |-> One(<< 8000 >>), OutputSamplingFrequency |-> One(<< 8000 >>),
    Channels |-> One(<< 1 >>), BitDepth |-> Zero ]
AudioParser ==
  Parse({"SamplingFrequency", "OutputSamplingFrequency"}, "float") @@ Parse({"Channels", "BitDepth"}, "uint")

Chromaticities ==
  { "PrimaryRChromaticityX", "PrimaryRChromaticityY", "PrimaryGChromaticityX", "PrimaryGChromaticityY",
    "PrimaryBChromaticityX", "PrimaryBChromaticityY", "WhitePointChromaticityX", "WhitePointChromaticityY" }
MasteringMetadataStruct == Each(Chromaticities \cup {"LuminanceMax", "LuminanceMin"}, Zero)
MasteringMetadataParser == Parse(Chromaticities \cup {"LuminanceMax", "LuminanceMin"}, "float")

ColourStruct ==
  Each({ "BitsPerChannel", "ChromaSubsamplingHorz", "ChromaSubsamplingVert", "CbSubsamplingHorz",
         "CbSubsamplingVert", "ChromaSitingHorz", "ChromaSitingVert", "Range", "MaxCLL", "MaxFALL" }, Zero)
    @@ Each({"MatrixCoefficients", "TransferCharacteristics", "Primaries"}, One(<< 2 >>))
    @@ [ MasteringMetadata |-> Nested ]
ColourParser ==
  Parse({ "MatrixCoefficients", "BitsPerChannel", "ChromaSubsamplingHorz", "ChromaSubsamplingVert",
          "CbSubsamplingHorz", "CbSubsamplingVert", "ChromaSitingHorz", "ChromaSitingVert", "Range",
          "TransferCharacteristics", "Primaries", "MaxCLL", "MaxFALL" }, "uint")
    @@ [ MasteringMetadata |-> "MasteringMetadata" ]

ProjectionStruct ==
  Each({"ProjectionType", "ProjectionPoseYaw", "ProjectionPosePitch", "ProjectionPoseRoll"}, Zero)
    @@ [ ProjectionPrivate |-> Empty ]
ProjectionParser ==
  Parse({"ProjectionPoseYaw", "ProjectionPosePitch", "ProjectionPoseRoll"}, "float")
    @@ [ ProjectionType |-> "uint", ProjectionPrivate |-> "binary" ]

VideoUints ==
  { "FlagInterlaced", "StereoMode", "AlphaMode", "PixelWidth", "PixelHeight", "PixelCropBottom",
    "PixelCropTop", "PixelCropLeft", "PixelCropRight", "DisplayWidth", "DisplayHeight", "DisplayUnit",
    "AspectRatioType" }
VideoStruct == Each(VideoUints \cup {"FrameRate"}, Zero) @@ Each({"Colour", "Projection"}, Nested)
VideoParser ==
  Parse(VideoUints, "uint")
    @@ [ FrameRate |-> "float", Colour |-> "Colour", Projection |-> "Projection" ]

AesStruct == [ AESSettingsCipherMode |-> One(<< 1 >>) ]
AesParser == [ AESSettingsCipherMode |-> "uint" ]
EncryptionStruct == [ ContentEncAlgo |-> Zero, ContentEncKeyID |-> Empty, ContentEncAESSettings |-> Nested ]
EncryptionParser ==
  [ ContentEncAlgo |-> "uint", ContentEncKeyID |-> "binary", ContentEncAESSettings |-> "ContentEncAESSettings" ]
EncodingStruct ==
  [ ContentEncodingOrder |-> Zero, ContentEncodingScope |-> One(<< 1 >>), ContentEncodingType |-> Zero,
    ContentEncryption |-> Nested ]
EncodingParser ==
  Parse({"ContentEncodingOrder", "ContentEncodingScope", "ContentEncodingType"}, "uint")
    @@ [ ContentEncryption |-> "ContentEncryption" ]
EncodingsStruct == [ ContentEncoding |-> Many(<< >>) ]
EncodingsParser == [ ContentEncoding |-> "ContentEncoding" ]

TrackFlags == {"FlagEnabled", "FlagDefault", "FlagForced", "FlagLacing"}
TrackUints == {"TrackNumber", "TrackUID", "TrackType", "DefaultDuration", "CodecDelay", "SeekPreRoll"}
TrackStrings == {"Name", "Language", "CodecID", "CodecName"}
TrackEntryStruct ==
  [ FlagForced |-> Zero, Language |-> One(Eng) ]
    @@ Each(TrackFlags, One(<< 1 >>)) @@ Each(TrackUints, Zero)
    @@ Each(TrackStrings \cup {"CodecPrivate"}, Empty) @@ Each({"Video", "Audio", "ContentEncodings"}, Nested)
TrackEntryParser ==
  Parse(TrackUints, "uint") @@ Parse(TrackFlags, "bool") @@ Parse(TrackStrings, "string")
    @@ [ CodecPrivate |-> "binary", Video |-> "Video", Audio |-> "Audio",
         ContentEncodings |-> "ContentEncodings" ]

CueTrackPositionsStruct ==
  Each({"CueTrack", "CueClusterPosition", "CueRelativePosition", "CueDuration"}, Zero)
    @@ [ CueBlockNumber |-> One(<< 1 >>) ]
CueTrackPositionsParser == Parse(DOMAIN CueTrackPositionsStruct, "uint")
CuePointStruct == [ CueTime |-> Zero, CueTrackPositions |-> Many(<< >>) ]
CuePointParser == [ CueTime |-> "uint", CueTrackPositions |-> "CueTrackPositions" ]

ChapterDisplayStruct ==
  [ ChapString |-> Empty, ChapLanguage |-> Many(<< Eng >>), ChapCountry |-> Many(<< >>) ]
ChapterDisplayParser == Parse({"ChapString", "ChapLanguage", "ChapCountry"}, "string")
ChapterAtomStruct ==
  Each({"ChapterUID", "ChapterTimeStart", "ChapterTimeEnd"}, Zero) @@ [ ChapterStringUID |-> Empty ]
    @@ Each({"ChapterDisplay", "ChapterAtom"}, Many(<< >>))
ChapterAtomParser ==
  Parse({"ChapterUID", "ChapterTimeStart", "ChapterTimeEnd"}, "uint")
    @@ [ ChapterStringUID |-> "string", ChapterDisplay |-> "ChapterDisplay", ChapterAtom |-> "ChapterAtom" ]
EditionEntryStruct == [ ChapterAtom |-> Many(<< >>) ]
EditionEntryParser == [ ChapterAtom |-> "ChapterAtom" ]

SimpleTagStruct ==
  [ TagLanguage |-> One(Und), TagDefault |-> One(<< 1 >>), SimpleTag |-> Many(<< >>) ]
    @@ Each({"TagName", "TagString", "TagBinary"}, Empty)
SimpleTagParser ==
  Parse({"TagName", "TagString", "TagLanguage"}, "string")
    @@ [ TagDefault |-> "bool", TagBinary |-> "binary", SimpleTag |-> "SimpleTag" ]
TagStruct == [ Targets |-> Nested, SimpleTag |-> Many(<< >>) ]
TagParser == [ Targets |-> "Targets", SimpleTag |-> "SimpleTag" ]
TargetsStruct == [ TargetTypeValue |-> One(<< 50 >>), TargetType |-> Empty, TagTrackUID |-> Many(<< >>) ]
TargetsParser == [ TargetTypeValue |-> "uint", TargetType |-> "string", TagTrackUID |-> "uint" ]

Structs ==
  [ EBML |-> EbmlStruct, Info |-> InfoStruct, Seek |-> SeekStruct, TrackEntry |-> TrackEntryStruct,
    Video |-> VideoStruct, Audio |-> AudioStruct, Colour |-> ColourStruct,
    MasteringMetadata |-> MasteringMetadataStruct, Projection |-> ProjectionStruct,
    ContentEncodings |-> EncodingsStruct, ContentEncoding |-> EncodingStruct,
    ContentEncryption |-> EncryptionStruct, ContentEncAESSettings |-> AesStruct,
    CuePoint |-> CuePointStruct, CueTrackPositions |-> CueTrackPositionsStruct,
    EditionEntry |-> EditionEntryStruct, ChapterAtom |-> ChapterAtomStruct,
    ChapterDisplay |-> ChapterDisplayStruct, Tag |-> TagStruct, SimpleTag |-> SimpleTagStruct,
    Targets |-> TargetsStruct ]
Parsers ==
  [ EBML |-> EbmlParser, Info |-> InfoParser, Seek |-> SeekParser, TrackEntry |-> TrackEntryParser,
    Video |-> VideoParser, Audio |-> AudioParser, Colour |-> ColourParser,
    MasteringMetadata |-> MasteringMetadataParser, Projection |-> ProjectionParser,
    ContentEncodings |-> EncodingsParser, ContentEncoding |-> EncodingParser,
    ContentEncryption |-> EncryptionParser, ContentEncAESSettings |-> AesParser,
    CuePoint |-> CuePointParser, CueTrackPositions |-> CueTrackPositionsParser,
    EditionEntry |-> EditionEntryParser, ChapterAtom |-> ChapterAtomParser,
    ChapterDisplay |-> ChapterDisplayParser, Tag |-> TagParser, SimpleTag |-> SimpleTagParser,
    Targets |-> TargetsParser ]

-----------------------------------------------------------------------------
(* The value parsers.  An element without a payload has the default of its     *)
(* field; strings lose the zeros at their end.                                 *)
WithoutTrailingZeros(v) == SubSeq(v, 1, Max({0} \cup { i \in DOMAIN v : v[i] # 0 }))

ParsedSizes ==
  [ uint |-> 0 .. 8, float |-> {0, 4, 8}, date |-> {0, 8}, id |-> 1 .. 4, bool |-> 0 .. 8,
    string |-> Nat, binary |-> Nat ]
ValueReads(parser, e) ==
  /\ e.size \in ParsedSizes[parser]
  /\ parser = "bool" /\ e.size > 0 => e.val[1] \in {0, 1}

NoValue(parser) == IF parser \in {"string", "binary"} THEN << >> ELSE << 0 >>
\* The default that the parser of a child is constructed with.
DefaultOf(struct, id) ==
  LET field == Structs[struct][id]
  IN  IF ~field.many THEN field.default
      ELSE IF field.default # << >> THEN field.default[1] ELSE NoValue(Parsers[struct][id])

ParsedValue(struct, e) ==
  IF e.size = 0 THEN DefaultOf(struct, e.id)
  ELSE IF Parsers[struct][e.id] = "string" THEN WithoutTrailingZeros(e.val) ELSE e.val

-----------------------------------------------------------------------------
(* MasterValueParser: the last child of a kind sets a field, every child is    *)
(* added to a vector.  A default in a vector goes when the first child comes.  *)
Given(v) == [ present |-> TRUE, value |-> v ]
NotGiven(v) == [ present |-> FALSE, value |-> v ]

\* FixMissingOutputFrequency and FixMissingDisplaySize: a frequency or a size
\* whose last element had no payload, or that had no element, follows another.
Follows == [ OutputSamplingFrequency |-> "SamplingFrequency",
             DisplayWidth |-> "PixelWidth", DisplayHeight |-> "PixelHeight" ]
\* Mutant: an element without a payload counts as a value.
FixUnlessPresent(e, parsed) ==
  [ id \in DOMAIN parsed |->
      IF id \in DOMAIN Follows /\ KidsOf(e, id) = << >>
      THEN [ parsed[id] EXCEPT !.value = parsed[Follows[id]].value ] ELSE parsed[id] ]

FixMissing(e, parsed) ==
  [ id \in DOMAIN parsed |->
      IF id \in DOMAIN Follows /\ (KidsOf(e, id) # << >> => Last(KidsOf(e, id)).size = 0)
      THEN [ parsed[id] EXCEPT !.value = parsed[Follows[id]].value ] ELSE parsed[id] ]

RECURSIVE Parsed(_, _), ParseSucceeds(_, _)
Parsed(struct, e) ==
  LET Value(k) ==
        IF Parsers[struct][k.id] \in DOMAIN Structs THEN Parsed(Parsers[struct][k.id], k)
        ELSE ParsedValue(struct, k)
      Field(id) ==
        LET field == Structs[struct][id]
            found == KidsOf(e, id)
        IN  IF field.many
            THEN IF found = << >> THEN [ i \in DOMAIN field.default |-> NotGiven(field.default[i]) ]
                 ELSE [ i \in DOMAIN found |-> Given(Value(found[i])) ]
            ELSE IF found = << >> THEN NotGiven(field.default) ELSE Given(Value(Last(found)))
  IN  FixMissing(e, [ id \in DOMAIN Parsers[struct] |-> Field(id) ])

ParseSucceeds(struct, e) ==
  \A k \in Range(e.kids) : k.id \in DOMAIN Parsers[struct] =>
    LET parser == Parsers[struct][k.id]
    IN  IF parser \in DOMAIN Structs THEN ParseSucceeds(parser, k) ELSE ValueReads(parser, k)

-----------------------------------------------------------------------------
(* The parsers of the level-1 elements hand every child to the callback.       *)
Level1 ==
  [ SeekHead |-> "Seek", Tracks |-> "TrackEntry", Cues |-> "CuePoint", Chapters |-> "EditionEntry",
    Tags |-> "Tag" ]
Reported(es) ==
  FlattenSeq([ i \in DOMAIN es |->
    IF es[i].id \in {"EBML", "Info"} THEN << es[i] >>
    ELSE IF es[i].id \in DOMAIN Level1 THEN KidsOf(es[i], Level1[es[i].id]) ELSE << >> ])

DocumentParses(es) == \A e \in Range(Reported(es)) : ParseSucceeds(e.id, e)
\* What the callback is given: a struct for each element, in their order.
Callbacks(es) ==
  LET found == Reported(es) IN [ i \in DOMAIN found |-> << found[i].id, Parsed(found[i].id, found[i]) >> ]
=============================================================================
