--------------------------- MODULE VttProperties ---------------------------
(* What must hold of WebVTT on its way through a WebM file. *)
EXTENDS VttMetadata

-----------------------------------------------------------------------------
(* What a text says, whatever ends its lines: a reference for the parser, which
   reads it character by character and puts characters back. *)
LinesOf(text) ==
  LET ends == SelectSeq([i \in DOMAIN text |-> i],
                        LAMBDA i : ~ (i > 1 /\ text[i] = LF /\ text[i - 1] = CR))
  IN  Fields([k \in DOMAIN ends |-> IF text[ends[k]] = CR THEN LF ELSE text[ends[k]]], LF)

\* The runs of lines that are not empty.
BlocksOf(lines) == Fields(lines, << >>)

CueFrom(identifier, timings, payload) ==
  [identifier |-> identifier, start |-> timings.start, stop |-> timings.stop,
   settings |-> timings.settings, payload |-> payload]

CueOf(block) ==
  LET n == IF HasArrow(block[1]) THEN 1 ELSE 2
  IN  CueFrom(IF n = 1 THEN << >> ELSE block[1], ParseTimingsLine(block[n]),
              SubSeq(block, n + 1, Len(block)))

IsCueBlock(block) ==
  \E n \in 1 .. Min({2, Len(block)}) :
    /\ HasArrow(block[n]) /\ (n = 2 => ~ HasArrow(block[1]))
    /\ ParseTimingsLine(block[n]).e = 0
    /\ Len(block) > n

\* The blocks behind the one that WEBVTT begins.
CueBlocks(text) == SelectSeq(BlocksOf(Tail(LinesOf(text))), LAMBDA block : block # << >>)
CuesOf(text) == LET blocksOf == CueBlocks(text) IN [i \in DOMAIN blocksOf |-> CueOf(blocksOf[i])]

IsVtt(text) ==
  LET lines == LinesOf(text)
      header == IF lines[1] # << >> /\ Head(lines[1]) = BOM THEN Tail(lines[1]) ELSE lines[1]
      blocksOf == CueBlocks(text)
      cues == CuesOf(text)
  IN  /\ header # << >> /\ header[1] = kId /\ (Len(header) > 1 => header[2] = SP)
      /\ Len(lines) > 1 => lines[2] = << >>
      /\ ToSet(text) \cap {NotUtf8, ReadError} = {}
      /\ \A i \in DOMAIN lines : Len(lines[i]) <= kMaxLineLength
      /\ \A i \in DOMAIN blocksOf : IsCueBlock(blocksOf[i])
      /\ \A i \in DOMAIN blocksOf : InOrder(cues[i], SubSeq(cues, 1, i - 1))

(* A text is loaded exactly if it is one of cues, in order of their times, and its
   cues are those that it has by its lines, however these end and wherever a
   character was put back (Parser::Parse, LineReader::GetLine). *)
LoadsWhatIsWritten ==
  /\ pc = "load" /\ file > 1 =>
       IsVtt(files[file - 1].text) /\ loaded[file - 1] = CuesOf(files[file - 1].text)
  /\ pc = "failed" => \/ ~ IsVtt(files[file].text)
                      \/ kind = "chapters" /\ chapter_cues_ # << >>

-----------------------------------------------------------------------------
(* Blocks are in order of their times over all tracks, and no cue is left for
   later once a frame that does not begin before it is written
   (SampleMuxerMetadata::Write, SortableCue::operator<). *)
BlocksInOrder ==
  /\ \A j \in DOMAIN blocks : \A i \in 1 .. j - 1 :
       \/ blocks[i].time < blocks[j].time
       \/ blocks[i].time = blocks[j].time /\ (blocks[j].track # 1 => blocks[i].track # 1)
  /\ \A i \in DOMAIN blocks, c \in ToSet(cues_set_) :
       blocks[i].time >= c.start => blocks[i].track # 1 /\ blocks[i].track <= c.track

-----------------------------------------------------------------------------
\* A fraction of a second that ParseTime takes for what WriteCueTime wrote.
Readable(ms) == ms % 1000 = 0 \/ ms % 1000 >= 100

\* The text that file i comes out as: the chapters' or its track's.
OutOf(i) ==
  IF files[i].kind = "chapters" THEN Chapters
  ELSE FileName(1 + Cardinality({k \in 1 .. i : files[k].kind # "chapters"}))

\* A chapter has no settings.
CarriedOf(i) ==
  IF files[i].kind = "chapters" THEN [k \in DOMAIN loaded[i] |-> [loaded[i][k] EXCEPT !.settings = << >>]]
  ELSE loaded[i]

HasChapters == chapter_cues_ # << >> \/ Len(tracks) > 1

CuesLast == \A i \in DOMAIN loaded : \A c \in ToSet(loaded[i]) :
              files[i].kind = "chapters" \/ c.start < c.stop

(* What vttdemux makes of a file is, read again, the cues that went in, a text of
   its own for every track and for the chapters, if the fraction of each time is one
   that ParseTime reads as it is written.  It refuses a file exactly if some cue ends
   as it starts: that cue is a SimpleBlock (mkvmuxer.cc:269), which vttdemux does not
   take. *)
CuesComeBack ==
  pc \in {"refused", "done"} /\ HasChapters =>
  /\ pc = "done" <=> CuesLast
  /\ pc = "done" => \A i \in DOMAIN files :
       (files[i].kind # "chapters" \/ loaded[i] # << >>)
       => /\ IsVtt(out[OutOf(i)])
          /\ (\A c \in ToSet(loaded[i]) : Readable(c.start) /\ Readable(c.stop))
             => CuesOf(out[OutOf(i)]) = CarriedOf(i)
=============================================================================
