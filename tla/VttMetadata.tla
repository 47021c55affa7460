---------------------------- MODULE VttMetadata ----------------------------
(* WebVTT through a WebM file: libwebvtt::Parser reads texts for the sample
   muxer (mkvmuxer_sample.cc, sample_muxer_metadata.cc), which writes their cues
   as blocks and chapters between the frames of a video; vttdemux.cc makes texts
   of them again. The file itself, muxer and parser, is what these programs put in
   and get out: blocks in the order of the calls, chapters. Times are
   milliseconds, the unit of a cue and of the muxer's timecodes. *)
EXTENDS WebVtt

CONSTANTS
  Inputs,      \* command lines: sequences of [kind, text]
  FrameTimes,  \* the times a video frame can have
  MaxFrames    \* bound: frames of the video

VARIABLES
  files,          \* metadata_files
  pc,             \* where the program stands
  file,           \* the file that is being loaded
  rest,           \* what its parser has still to read
  cue,            \* the cue that Parser::Parse is filling in
  loaded,         \* the cues of each file so far
  tracks,         \* the kinds of the output's tracks
  cues_set_,      \* cues not written yet, by time and track
  chapter_cues_,
  blocks,         \* the clusters of the file
  next,           \* the block that vttdemux looks at
  out             \* the texts vttdemux writes, by file name
loadVars == << file, rest, cue, loaded, tracks >>
vars == << files, pc, loadVars, cues_set_, chapter_cues_, blocks, next, out >>

NoCue == [identifier |-> << >>, start |-> 0, stop |-> 0, settings |-> << >>, payload |-> << >>]

Init ==
  /\ files \in Inputs
  /\ pc = "load" /\ file = 1 /\ rest = << >> /\ cue = NoCue
  /\ loaded = << >> /\ tracks = << "video" >>
  /\ cues_set_ = << >> /\ chapter_cues_ = << >>
  /\ blocks = << >> /\ next = 1 /\ out = << >>

-----------------------------------------------------------------------------
(* Loading *)
Loading(step) == pc = step /\ UNCHANGED << files, blocks, next, out >>

kind == files[file].kind

Fail == pc' = "failed" /\ UNCHANGED << loadVars, cues_set_, chapter_cues_ >>

\* SampleMuxerMetadata::Load up to the first call of Parser::Parse.
Load ==
  /\ Loading("load") /\ file <= Len(files)
  /\ LET init == ParserInit(files[file].text)
     IN  IF init.e < 0 \/ (kind = "chapters" /\ chapter_cues_ # << >>) THEN Fail
         ELSE /\ pc' = "first" /\ rest' = init.rest
              /\ loaded' = Append(loaded, << >>)
              /\ tracks' = IF kind = "chapters" THEN tracks ELSE Append(tracks, kind)
              /\ UNCHANGED << file, cue, cues_set_, chapter_cues_ >>

\* What ParseTimingsLine makes of the line that has the arrow.
TakeTimings(identifier, timings) ==
  IF timings.e < 0 THEN Fail
  ELSE /\ pc' = "payload"
       /\ cue' = [identifier |-> identifier, start |-> timings.start, stop |-> timings.stop,
                  settings |-> timings.settings, payload |-> << >>]
       /\ rest' = GetLine(rest).rest
       /\ UNCHANGED << file, loaded, tracks, cues_set_, chapter_cues_ >>

\* Parse: the first line that is not empty. At the end ParseChapters' list is kept.
First ==
  /\ Loading("first")
  /\ LET got == GetLine(rest)
     IN  CASE got.e < 0 -> Fail
           [] got.e > 0 -> /\ pc' = "load" /\ file' = file + 1
                           /\ chapter_cues_' = IF kind = "chapters" THEN Last(loaded) ELSE chapter_cues_
                           /\ UNCHANGED << rest, cue, loaded, tracks, cues_set_ >>
           [] got.e = 0 /\ HasArrow(got.line) -> TakeTimings(<< >>, ParseTimingsLine(got.line))
           [] OTHER -> /\ pc' = IF got.line = << >> THEN "first" ELSE "timings"
                       /\ cue' = [NoCue EXCEPT !.identifier = got.line]
                       /\ rest' = got.rest
                       /\ UNCHANGED << file, loaded, tracks, cues_set_, chapter_cues_ >>

Timings ==
  /\ Loading("timings")
  /\ LET got == GetLine(rest)
     IN  IF got.e # 0 \/ ~ HasArrow(got.line) THEN Fail
         ELSE TakeTimings(cue.identifier, ParseTimingsLine(got.line))

\* Mutant: cues are kept in the order of loading.
InsertCueLast(set, c) == Append(set, c)

\* SortableCue::operator<, and where std::multiset puts a cue: behind its equals.
Before(a, b) == a.start < b.start \/ (a.start = b.start /\ a.track < b.track)
InsertCue(set, c) == LET i == Cardinality({k \in DOMAIN set : ~ Before(c, set[k])})
                     IN  InsertAt(set, i + 1, c)

\* What Parse and ParseChapters check of a cue before they keep it.
InOrder(c, earlier) == (earlier = << >> \/ c.start >= Last(earlier).start) /\ c.stop >= c.start

Payload ==
  /\ Loading("payload")
  /\ LET got == GetLine(rest)
     IN  CASE got.e < 0 -> Fail
           [] got.line # << >> ->
                /\ cue' = [cue EXCEPT !.payload = Append(@, got.line)]
                /\ rest' = got.rest
                /\ UNCHANGED << pc, file, loaded, tracks, cues_set_, chapter_cues_ >>
           [] cue.payload = << >> \/ ~ InOrder(cue, loaded[file]) -> Fail
           [] OTHER ->
                /\ pc' = "first" /\ rest' = got.rest
                /\ loaded' = [loaded EXCEPT ![file] = Append(@, cue)]
                /\ cues_set_' = IF kind = "chapters" THEN cues_set_
                                ELSE InsertCue(cues_set_, cue @@ [track |-> Len(tracks)])
                /\ UNCHANGED << file, cue, tracks, chapter_cues_ >>

\* All files are loaded; AddChapters hands the chapters to the segment.
Loaded ==
  /\ Loading("load") /\ file > Len(files)
  /\ pc' = "mux"
  /\ UNCHANGED << loadVars, cues_set_, chapter_cues_ >>

-----------------------------------------------------------------------------
(* Muxing *)
Line(chars) == Append(chars, LF)
Lines(list) == FoldLeft(LAMBDA text, line : text \o Line(line), << >>, list)
WriteCueSettings(settings) ==
  Line(FoldLeft(LAMBDA text, s : IF text = << >> THEN s ELSE text \o << SP >> \o s, << >>, settings))
MakeFrame(c) == Line(c.identifier) \o WriteCueSettings(c.settings) \o Lines(c.payload)

\* SortableCue::Write; Frame::CanBeSimpleBlock makes a SimpleBlock of a frame without duration.
Block(c) == [track |-> c.track, time |-> c.start, group |-> c.stop # c.start,
             duration |-> c.stop - c.start, payload |-> MakeFrame(c)]
Frame(t) == [track |-> 1, time |-> t, group |-> FALSE, duration |-> 0, payload |-> << >>]

\* SampleMuxerMetadata::Write: the cues up to a time, which are in front.
Due(set, t) == Cardinality({i \in DOMAIN set : set[i].start <= t})

Write(n) ==
  /\ cues_set_' = SubSeq(cues_set_, n + 1, Len(cues_set_))
  /\ UNCHANGED << files, loadVars, chapter_cues_, next, out >>
Written(n) == blocks \o [i \in 1 .. n |-> Block(cues_set_[i])]

FramesWritten == Cardinality({i \in DOMAIN blocks : blocks[i].track = 1})

WriteFrame ==
  /\ pc = "mux" /\ FramesWritten < MaxFrames
  /\ \E t \in FrameTimes :
       /\ \A i \in DOMAIN blocks : blocks[i].track = 1 => blocks[i].time < t
       /\ Write(Due(cues_set_, t))
       /\ blocks' = Append(Written(Due(cues_set_, t)), Frame(t))
  /\ UNCHANGED pc

\* The video has ended: Write(-1) and Finalize.
Finish ==
  /\ pc = "mux" /\ pc' = "open"
  /\ Write(Len(cues_set_))
  /\ blocks' = Written(Len(cues_set_))

-----------------------------------------------------------------------------
(* vttdemux *)
Demuxing(step) ==
  /\ pc = step
  /\ UNCHANGED << files, loadVars, cues_set_, chapter_cues_, blocks >>

Number(n, width) == [i \in 1 .. width |-> Digits[((n \div 10 ^ (width - i)) % 10) + 1]]
\* Mutant: the hours are left to the minutes, of which there are then too many digits.
WriteCueTimeMinutes(ms) ==
  Number((ms \div 60000) % 60, 2) \o << ":" >> \o Number((ms \div 1000) % 60, 2)
  \o << "." >> \o Number(ms % 1000, 3)

WriteCueTime(ms) ==
  (IF ms < 3600000 THEN << >> ELSE Append(Number(ms \div 3600000, 2), ":"))
  \o Number((ms \div 60000) % 60, 2) \o << ":" >> \o Number((ms \div 1000) % 60, 2)
  \o << "." >> \o Number(ms % 1000, 3)

\* The lines a payload is read back as: up to the first empty one.
RECURSIVE PayloadLines(_)
PayloadLines(chars) ==
  LET got == GetLine(chars)
  IN  IF got.line = << >> THEN << >> ELSE << got.line >> \o PayloadLines(got.rest)

CueText(identifier, start, stop, settings, payload) ==
  << LF >> \o (IF identifier = << >> THEN << >> ELSE Line(identifier))
  \o WriteCueTime(start) \o << SP, kArrow, SP >> \o WriteCueTime(stop)
  \o Line(IF settings = << >> THEN << >> ELSE << SP >> \o settings)
  \o Lines(payload)

\* Segment::AddChapter's title, the payload's lines with line ends between them.
Title(c) == Front(Lines(c.payload))

ChapterText(c) == CueText(c.identifier, c.start, c.stop, << >>, PayloadLines(Title(c)))

\* OpenFiles: the type, and the track's number where the type does not say enough.
FileName(track) ==
  LET alike == {i \in DOMAIN tracks : tracks[i] = tracks[track]}
  IN  << tracks[track], IF Cardinality(alike) > 1 THEN track ELSE 0 >>
Chapters == << "chapters", 0 >>

\* BuildMap, OpenFiles, InitializeFiles and WriteChaptersFile.
OpenFiles ==
  /\ Demuxing("open")
  /\ LET names == {FileName(i) : i \in 2 .. Len(tracks)}
                  \cup IF chapter_cues_ = << >> THEN {} ELSE {Chapters}
         header == Line(<< kId >>)
         chapters == FoldLeft(LAMBDA text, c : text \o ChapterText(c), << >>, chapter_cues_)
     IN  /\ pc' = IF names = {} THEN "refused" ELSE "demux"
         /\ out' = [name \in names |-> IF name = Chapters THEN header \o chapters ELSE header]
  /\ UNCHANGED next

\* ProcessBlockEntry: WriteCue for a block of a metadata track, which has to be a group.
ProcessBlockEntry ==
  /\ Demuxing("demux") /\ next <= Len(blocks)
  /\ LET block == blocks[next]
         identifier == GetLine(block.payload)
         settings == GetLine(identifier.rest)
         payload == PayloadLines(settings.rest)
         name == FileName(block.track)
     IN  CASE block.track = 1 -> UNCHANGED << pc, out >>
           [] ~ block.group \/ identifier.e # 0 \/ settings.e # 0 \/ payload = << >> ->
                pc' = "refused" /\ UNCHANGED out
           [] OTHER ->
                /\ out' = [out EXCEPT ![name] = @ \o CueText(identifier.line, block.time,
                             block.time + block.duration, settings.line, payload)]
                /\ UNCHANGED pc
  /\ next' = next + 1

Close ==
  /\ Demuxing("demux") /\ next > Len(blocks)
  /\ pc' = "done" /\ UNCHANGED << next, out >>

Terminated == pc \in {"failed", "refused", "done"} /\ UNCHANGED vars

-----------------------------------------------------------------------------
Next ==
  \/ Load \/ First \/ Timings \/ Payload \/ Loaded
  \/ WriteFrame \/ Finish
  \/ OpenFiles \/ ProcessBlockEntry \/ Close
  \/ Terminated

Spec == Init /\ [][Next]_vars
=============================================================================
