-------------------------- MODULE ElementProperties --------------------------
(* The elements that mkvmuxer writes, read by both parsers: as they were       *)
(* written, with the children of the structs in another order, with Void       *)
(* elements between them, or with one kind of element without a payload, as    *)
(* other muxers write them.                                                    *)
EXTENDS MuxElements, MkvElements, WebmElements

CONSTANT Emptied        \* the kinds of elements that may have no payload

VARIABLES copy,         \* what was done to the file that is read
          mkv,          \* what mkvparser's getters return, NULL if it refused the file
          webm          \* the calls of webm_parser's callback, NULL if it refused the file
vars == << muxVars, copy, mkv, webm >>

-----------------------------------------------------------------------------
Resized(e, kids) == Master(e.id, Bytes(kids), kids)
OrderFree ==
  { "EBML", "Info", "TrackEntry", "Video", "Audio", "Colour", "MasteringMetadata", "Projection",
    "ContentEncoding", "ContentEncryption", "CuePoint", "CueTrackPositions", "SimpleTag" }
NoVoids == {"Colour", "MasteringMetadata", "Projection", "Seek"}
EmptyLeaf(id) == [ id |-> id, val |-> << >>, kids |-> << >>, size |-> 0 ]

\* The children of an element in a copy of the file: how it differs, and the
\* kind of element that is empty or missing in it.
Changed(id, kids, how, what) ==
  CASE how = "order" /\ id \in OrderFree -> Reverse(kids)
    [] how = "voids" /\ id \notin NoVoids -> << Leaf("Void", 0) >> \o kids \o << Leaf("Void", 0) >>
    [] how = "empty" -> [ i \in DOMAIN kids |-> IF kids[i].id = what THEN EmptyLeaf(what) ELSE kids[i] ]
    [] how = "without" -> SelectSeq(kids, LAMBDA k : k.id # what)
    [] OTHER -> kids

RECURSIVE Copy(_, _, _)
Copy(es, how, what) ==
  [ i \in DOMAIN es |->
      IF es[i].kids = << >> THEN es[i]
      ELSE Resized(es[i], Changed(es[i].id, Copy(es[i].kids, how, what), how, what)) ]

ReadInit == Init /\ copy = << >> /\ mkv = NULL /\ webm = NULL

ReadFile(how, what) ==
  /\ pc = "written" /\ pc' = "read" /\ copy' = << how, what >>
  /\ \E es \in { Copy(file, how, what) } :
       /\ mkv' = IF ParseHeadersSucceeds(es) THEN ParseHeaders(es) ELSE NULL
       /\ webm' = IF DocumentParses(es) THEN Callbacks(es) ELSE NULL
  /\ UNCHANGED << tracks, info, chapters, tags, cues, seeks, calls, file >>

ReadNext ==
  \/ Next /\ UNCHANGED << copy, mkv, webm >>
  \/ \E how \in {"same", "order", "voids"} : ReadFile(how, "")
  \/ \E id \in Emptied : ReadFile("empty", id)
ReadSpec == ReadInit /\ [][ReadNext]_vars

-----------------------------------------------------------------------------
RECURSIVE SizeExact(_)
SizeExact(e) ==
  /\ e.kids # << >> => e.size = Bytes(e.kids)
  /\ \A k \in Range(e.kids) : SizeExact(k)

SizesExact == \A e \in Range(file) : SizeExact(e)

-----------------------------------------------------------------------------
Same == pc = "read" /\ copy[1] # "empty"
Agree(read, set) == \A id \in DOMAIN read \cap DOMAIN set : read[id] = set[id]

\* A colour or mastering metadata none of whose fields is set is not written.
Written(o, new) == IF o = new THEN NULL ELSE o
WrittenColour(c) ==
  IF c = NULL THEN NULL
  ELSE LET m == c.MasteringMetadata
       IN  Written([ c EXCEPT !.MasteringMetadata = IF m = NULL THEN NULL ELSE Written(m, NewMastering) ],
                   NewColour)

\* The type of a track is that of its object, and its picture or sound has a size.
FitTrack(t) ==
  /\ IsVideo(t) = (t.TrackType = 1) /\ IsAudio(t) = (t.TrackType = 2)
  /\ IsVideo(t) => t.width > 0 /\ t.height > 0
  /\ IsAudio(t) => t.SamplingFrequency > 0
  /\ t.TrackType = 33 => t.encodings = << >>

\* mkvparser takes no content encoding from the first whose scope is 0 on.
TrackBack(read, t) ==
  /\ Agree([ id \in DOMAIN read \ {"PixelWidth", "PixelHeight", "Colour", "encodings"} |-> read[id] ], t)
  /\ IsVideo(t) => /\ read.PixelWidth = Sized(t).PixelWidth /\ read.PixelHeight = Sized(t).PixelHeight
                   /\ read.Colour = WrittenColour(t.Colour)
  /\ LET bad == SelectInSeq(t.encodings, LAMBDA e : e.ContentEncodingScope = 0)
     IN  Len(read.encodings) =
           IF ~IsVideo(t) /\ ~IsAudio(t) THEN 0 ELSE IF bad = 0 THEN Len(t.encodings) ELSE bad - 1
  /\ \A i \in DOMAIN read.encodings :
       /\ Agree(read.encodings[i], t.encodings[i])
       /\ read.encodings[i].keys = << t.encodings[i].ContentEncKeyID >>

\* A text of no characters comes back as none.
TextBack(read, set) == read = IF set = << >> THEN NULL ELSE set
DisplayBack(read, d) == \A id \in DOMAIN d : TextBack(read[id], d[id])
\* A UID whose first bit is set comes back as what it is below the next power of
\* 256: mkvmuxer writes it without a sign, mkvparser reads it with one.
UidBack(uid) ==
  LET bits == 8 * GetUIntSize(uid) IN IF uid < 2 ^ (bits - 1) THEN uid ELSE uid - 2 ^ bits
ChapterBack(read, c) ==
  /\ read.ChapterUID = UidBack(c.ChapterUID)
  /\ read.ChapterTimeStart = c.ChapterTimeStart /\ read.ChapterTimeEnd = c.ChapterTimeEnd
  /\ TextBack(read.ChapterStringUID, c.ChapterStringUID)
  /\ Len(read.displays) = Len(c.displays)
  /\ \A i \in DOMAIN c.displays : DisplayBack(read.displays[i], c.displays[i])

CueBack(read, cue) ==
  /\ read.time = cue.CueTime
  /\ read.positions =
       << [ CueTrack |-> cue.CueTrack, CueClusterPosition |-> cue.CueClusterPosition,
            CueBlockNumber |-> IF cue.output THEN cue.CueBlockNumber ELSE 1 ] >>

All(read, set, Back(_, _)) == Len(read) = Len(set) /\ \A i \in DOMAIN set : Back(read[i], set[i])

\* The size in the header of every master that mkvmuxer wrote is what is behind it:
\* the functions that compute sizes and those that write agree on which fields are
\* written and how long each is.  mkvparser takes the file whenever every track is
\* of its object's type and has a size, in any order and with Void elements
\* between, and its getters return what the setters of mkvmuxer were given.
MkvReadsBack ==
  /\ pc = "written" => SizesExact
  /\ Same =>
    /\ (mkv # NULL) = \A i \in DOMAIN tracks : FitTrack(tracks[i])
    /\ mkv # NULL =>
         /\ Agree(mkv.info, info) /\ All(mkv.tracks, tracks, TrackBack)
         /\ chapters # << >> => All(mkv.chapters[1], chapters, ChapterBack)
         /\ All(mkv.cues, cues, CueBack) /\ mkv.seeks = seeks
         /\ All(mkv.tags, SelectSeq(tags, LAMBDA t : t # << >>),
                LAMBDA read, tag : All(read, tag, LAMBDA r, st : \A id \in DOMAIN st : TextBack(r[id], st[id])))

-----------------------------------------------------------------------------
Calls(id) == LET found == SelectSeq(webm, LAMBDA c : c[1] = id) IN [ i \in DOMAIN found |-> found[i][2] ]

\* A field that is set is present with its value, one that is not is not present.
FieldBack(read, o, absent, id) ==
  LET given == Present(o, absent, id) /\ o[id] # NULL
  IN  /\ read.present = given
      /\ given => read.value = IF id \in TextIds THEN o[id] ELSE << o[id] >>
StructBack(read, o, absent) ==
  \A id \in DOMAIN read \cap (DOMAIN o \ {"Colour", "Projection", "MasteringMetadata"}) :
    FieldBack(read[id], o, absent, id)
NestedBack(read, o, absent) == read.present = (o # NULL) /\ (o # NULL => StructBack(read.value, o, absent))

VideoBack(read, t) ==
  /\ StructBack(read, Sized(t), VideoAbsent)
  /\ read.DisplayWidth.value = << IF t.DisplayWidth = 0 THEN Sized(t).PixelWidth ELSE t.DisplayWidth >>
  /\ read.DisplayHeight.value = << IF t.DisplayHeight = 0 THEN Sized(t).PixelHeight ELSE t.DisplayHeight >>
  /\ LET colour == WrittenColour(t.Colour)
     IN  /\ NestedBack(read.Colour, colour, NewColour)
         /\ colour # NULL => NestedBack(read.Colour.value.MasteringMetadata, colour.MasteringMetadata, NewMastering)
  /\ NestedBack(read.Projection, t.Projection, [ ProjectionPrivate |-> NULL ])

EncodingBack(read, e) ==
  /\ read.present /\ StructBack(read.value, e, << >>)
  /\ read.value.ContentEncryption.present /\ StructBack(read.value.ContentEncryption.value, e, << >>)

TrackCalled(read, t) ==
  /\ StructBack(read, t, TrackAbsent)
  /\ read.Video.present = IsVideo(t) /\ (IsVideo(t) => VideoBack(read.Video.value, t))
  /\ read.Audio.present = IsAudio(t)
  /\ IsAudio(t) => /\ StructBack(read.Audio.value, t, AudioAbsent)
                   /\ read.Audio.value.OutputSamplingFrequency.value = << t.SamplingFrequency >>
  /\ read.ContentEncodings.present = (t.encodings # << >>)
  /\ t.encodings # << >> => All(read.ContentEncodings.value.ContentEncoding, t.encodings, EncodingBack)

LanguagesBack(read, d) ==
  read = << [ present |-> d.ChapLanguage # NULL,
              value |-> IF d.ChapLanguage = NULL THEN Eng ELSE d.ChapLanguage ] >>
AtomBack(read, c) ==
  /\ StructBack(read.value, c, << >>)
  /\ All(read.value.ChapterDisplay, c.displays,
         LAMBDA r, d : r.value.ChapString.value = d.ChapString /\ LanguagesBack(r.value.ChapLanguage, d))

CueCalled(read, cue) ==
  /\ read.CueTime.value = << cue.CueTime >> /\ Len(read.CueTrackPositions) = 1
  /\ LET position == read.CueTrackPositions[1].value
     IN  /\ position.CueTrack.value = << cue.CueTrack >>
         /\ position.CueBlockNumber.value = << IF cue.output THEN cue.CueBlockNumber ELSE 1 >>
         /\ position.CueClusterPosition.value = << cue.CueClusterPosition >>

\* The fields of a struct without their presence.
RECURSIVE ValuesOf(_, _)
ValuesOf(struct, read) ==
  [ id \in DOMAIN read |->
      LET V(f) == IF Parsers[struct][id] \in DOMAIN Structs
                  THEN IF f.value = NULL THEN NULL ELSE ValuesOf(Parsers[struct][id], f.value)
                  ELSE f.value
      IN  IF Structs[struct][id].many THEN [ i \in DOMAIN read[id] |-> V(read[id][i]) ] ELSE V(read[id]) ]

\* To webm_parser an element without a payload is as good as none: the callback
\* gets the values that it would get had the element been left out.
EmptyIsDefault ==
  pc = "read" /\ copy[1] = "empty" =>
    /\ webm # NULL
    /\ \E without \in { Callbacks(Copy(file, "without", copy[2])) } :
         /\ Len(webm) = Len(without)
         /\ \A i \in DOMAIN webm : ValuesOf(webm[i][1], webm[i][2]) = ValuesOf(without[i][1], without[i][2])

\* webm_parser takes whatever mkvmuxer writes.  Its callback gets, in their
\* order, the objects that were set, each field that was written present with its
\* value and the others with the defaults of Matroska, the display size and the
\* output frequency taken from the size and frequency they default to.  What it
\* gets of an empty element are the same defaults.
WebmReadsBack ==
  /\ EmptyIsDefault
  /\ Same =>
    /\ webm # NULL
    /\ All(Calls("TrackEntry"), tracks, TrackCalled)
    /\ Len(Calls("Info")) = 1 /\ StructBack(Calls("Info")[1], info, InfoAbsent)
    /\ All(Calls("CuePoint"), cues, CueCalled)
    /\ All(Calls("Seek"), seeks, LAMBDA r, s : r.SeekID.value = s.SeekID /\ r.SeekPosition.value = << s.SeekPosition >>)
    /\ chapters # << >> => All(Calls("EditionEntry")[1].ChapterAtom, chapters, AtomBack)
    /\ All(Calls("Tag"), tags,
           LAMBDA r, tag : All(r.SimpleTag, tag, LAMBDA s, st : StructBack(s.value, st, << >>)))
=============================================================================
