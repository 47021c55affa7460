----------------------------- MODULE WebmParser -----------------------------
(***************************************************************************)
(* webm_parser's WebmParser: a stack of element parsers, fed by one call    *)
(* after another, that tells a Callback what it finds.                     *)
(*                                                                         *)
(* Every parser of the chain from the document down keeps its state when   *)
(* Feed returns in the middle of an element, because the reader would      *)
(* block or the callback has not finished, and goes on from there when     *)
(* Feed is called again.  Only the top of the stack takes steps.  An        *)
(* element's header is three units, two for its ID and one for its size.    *)
(***************************************************************************)
EXTENDS Integers, SequencesExt

CONSTANTS
  Files,     \* the documents a reader may be given
  MaxSeeks   \* bound on the seeks of a behaviour

Unknown    == -1   \* an unknown size, or no cap
HeaderSize == 3

Blocks  == {"SimpleBlock", "Block"}
Masters == {"Segment", "Cluster", "BlockGroup", "Cues"}
Values  == {"Ebml", "CuePoint", "Timecode", "BlockDuration"}

\* The children a parser knows, and the parsers above one that a seek finds.
Children(parser) ==
  CASE parser = "Document"   -> {"Ebml", "Segment", "Void"}
    [] parser = "Segment"    -> {"Cluster", "Cues", "Void"}
    [] parser = "Cluster"    -> {"Timecode", "SimpleBlock", "BlockGroup", "Void"}
    [] parser = "BlockGroup" -> {"Block", "BlockDuration", "Void"}
    [] parser = "Cues"       -> {"CuePoint", "Void"}

Ancestors(id) ==
  CASE id \in {"Cluster", "Cues"}                         -> << "Segment" >>
    [] id = "CuePoint"                                    -> << "Segment", "Cues" >>
    [] id \in {"Timecode", "SimpleBlock", "BlockGroup"}   -> << "Segment", "Cluster" >>
    [] id \in {"Block", "BlockDuration"} -> << "Segment", "Cluster", "BlockGroup" >>
    [] OTHER                                              -> << >>

Begins(f, p) == p \in DOMAIN f.hdr \/ p >= f.length

\* hdr: the headers by position, from 1.  An element follows where one ends, and
\* in a master element, or one of no known size, behind the header.  skips: the
\* events the callback answers with kSkip.  seeks: where the caller may seek to.
ASSUME WebmFilesAssumption ==
  /\ MaxSeeks \in Nat
  /\ \A f \in Files :
       /\ f.length \in Nat \ {0} /\ f.seeks \subseteq DOMAIN f.hdr
       /\ Begins(f, 1) /\ DOMAIN f.hdr \subseteq 1 .. f.length - 1
       /\ \A p \in DOMAIN f.hdr :
            /\ f.hdr[p].size \in Nat \cup {Unknown}
            /\ f.hdr[p].id \in Masters \cup Values \cup Blocks \cup {"Void", "Foreign"}
            /\ f.hdr[p].size # Unknown => Begins(f, p + HeaderSize + f.hdr[p].size)
            /\ f.hdr[p].size = Unknown \/ f.hdr[p].id \in Masters
                 => Begins(f, p + HeaderSize)

VARIABLES
  file,
  position,   \* the reader's
  pc,         \* "idle" between two calls of Feed, "feed" in one
  status,     \* what Feed returned
  stack,      \* the active parsers, the document's first
  didSeek,    \* did_seek_
  events,     \* history: what the callback has completed
  start       \* history: where parsing began, and how often

vars == << file, position, pc, status, stack, didSeek, events, start >>

-----------------------------------------------------------------------------
(* A parser.  skip: the action for its current child is kSkip; own: the     *)
(* action for itself is.  begun: its begin event is done; framed: a block's *)
(* frame is.  left: what a parser without children has still to read.       *)

NoChild == [ id |-> "None", size |-> 0, header |-> 0, pos |-> 0 ]

\* cap: where the parser must end; a parent's, if its own size is unknown.
NewParser(parser, child, cap) ==
  [ parser |-> parser, size |-> child.size, header |-> child.header, pos |-> child.pos,
    cap |-> IF child.size = Unknown THEN cap ELSE child.size,
    state |-> IF child.size = 0 THEN "end" ELSE "firstId",
    child |-> NoChild, skip |-> FALSE, own |-> FALSE, total |-> 0,
    cached |-> FALSE, begun |-> FALSE, framed |-> FALSE, left |-> child.size ]

DocumentMeta == [ id |-> "Document", size |-> Unknown, header |-> 0, pos |-> 0 ]
NewDocument  == NewParser("Document", DocumentMeta, Unknown)

Init == /\ file \in Files /\ position = 1
        /\ pc = "idle" /\ status = "none" /\ stack = << NewDocument >>
        /\ didSeek = FALSE /\ events = << >> /\ start = [ at |-> 1, seeks |-> 0 ]

Depth  == Len(stack)
Top    == stack[Depth]
Parent == stack[Depth - 1]

SetTop(t) == stack' = [stack EXCEPT ![Depth] = t]

\* Mutant: a parent does not count what its child's children read.
ReadUncounted(t) ==
  /\ stack' = [ k \in 1 .. Depth |->
                  [IF k = Depth THEN t ELSE stack[k] EXCEPT
                     !.total = IF k + 1 < Depth THEN @ ELSE @ + 1] ]
  /\ position' = position + 1

\* A unit is read: every parser of the chain counts it.
Read(t) ==
  /\ stack' = [ k \in 1 .. Depth |->
                  [IF k = Depth THEN t ELSE stack[k] EXCEPT !.total = @ + 1] ]
  /\ position' = position + 1

IsMaster == Top.parser \in Masters \cup {"Document"}

\* Mutant: the child that is to be skipped, but not as a whole, gets the callback.
MutedByOwn(k) == \E j \in 1 .. k : stack[j].own

\* Parser k gives its children, or itself, a callback that skips.
Muted(k) == \/ \E j \in 1 .. k : stack[j].own
            \/ \E j \in 1 .. k - 1 : stack[j].skip

\* A callback is called by parser k and completes: what the user has seen then
\* and the action that is set.
Called(event, k) ==
  IF Muted(k) THEN [ events |-> events, skip |-> TRUE ]
  ELSE [ events |-> Append(events, event), skip |-> event \in file.skips ]

-----------------------------------------------------------------------------
(* Calls.                                                                   *)

Errors == {"overflow", "indefinite", "invalid"}

Feed == /\ pc = "idle" /\ status \notin Errors \cup {"completed"}
        /\ pc' = "feed" /\ status' = "running"
        /\ UNCHANGED << file, position, stack, didSeek, events, start >>

Return(s) == pc' = "idle" /\ status' = s

\* The caller moves the reader to the start of an element and tells the parser.
DidSeek(p) ==
  /\ pc = "idle" /\ start.seeks < MaxSeeks
  /\ position' = p /\ status' = "none" /\ didSeek' = TRUE
  /\ stack' = << NewDocument >>
  /\ events' = << >> /\ start' = [ at |-> p, seeks |-> start.seeks + 1 ]
  /\ UNCHANGED << file, pc >>

-----------------------------------------------------------------------------
(* Where the top parser stands.                                             *)

AtId   == IsMaster /\ Top.state \in {"firstId", "restId"}
AtSize == IsMaster /\ Top.state = "size"

\* The first SimpleBlock or BlockGroup of a Cluster begins the Cluster.
AtClusterStart == /\ Top.parser \in {"SimpleBlock", "BlockGroup"}
                  /\ Parent.parser = "Cluster" /\ ~Parent.begun

\* A Segment and a BlockGroup begin before their children, a block behind its
\* own header, a Cluster without blocks at its end.
AtBegin ==
  /\ ~AtClusterStart /\ ~Top.begun
  /\ \/ Top.parser \in {"Segment", "BlockGroup"}
     \/ Top.parser \in Blocks /\ Top.left = Top.size - 1
     \/ Top.parser = "Cluster" /\ Top.state = "end"

AtBody == /\ ~IsMaster /\ Top.left > 0 /\ ~AtBegin /\ ~AtClusterStart

AtFrame == Top.parser \in Blocks /\ Top.left = 0 /\ ~Top.own /\ ~Top.framed

AtEnd == /\ ~AtBegin /\ ~AtClusterStart /\ ~AtFrame
         /\ IF IsMaster THEN Top.state = "end" ELSE Top.left = 0

\* Ready to go on with what is inside a master element.
Inside == ~AtBegin /\ ~AtClusterStart

-----------------------------------------------------------------------------
(* A child's header.                                                        *)

ReadId ==
  /\ pc = "feed" /\ Inside /\ AtId /\ position < file.length
  /\ IF Top.state = "firstId"
     THEN Read([Top EXCEPT !.state = "restId", !.child.pos = position])
     ELSE Read([Top EXCEPT !.state = "size"])
  /\ UNCHANGED << file, pc, status, didSeek, events, start >>

ReadSize ==
  /\ pc = "feed" /\ AtSize /\ position < file.length
  /\ LET p == Top.child.pos
     IN  Read([Top EXCEPT !.state = "validate",
                          !.child = [ id |-> file.hdr[p].id, size |-> file.hdr[p].size,
                                      header |-> HeaderSize, pos |-> p ]])
  /\ UNCHANGED << file, pc, status, didSeek, events, start >>

\* The end of the file ends what has no size, between two children.
EndsAtEof == IsMaster /\ Top.size = Unknown /\ Top.state = "firstId"

EndOfFile ==
  /\ pc = "feed" /\ Inside /\ (AtId \/ AtSize \/ AtBody) /\ position = file.length
  /\ \/ /\ EndsAtEof /\ SetTop([Top EXCEPT !.state = "end"])
        /\ UNCHANGED << pc, status >>
     \/ ~EndsAtEof /\ Return("eof") /\ UNCHANGED stack
  /\ UNCHANGED << file, position, didSeek, events, start >>

Known == Top.child.id \in Children(Top.parser)

Overflows == /\ Top.cap # Unknown
             /\ Top.total + (IF Top.child.size = Unknown THEN 0 ELSE Top.child.size) > Top.cap

Validate ==
  /\ pc = "feed" /\ Top.parser \in Masters /\ Top.state = "validate"
  /\ \/ Overflows /\ Return("overflow") /\ UNCHANGED stack
     \/ /\ ~Overflows /\ ~Known /\ Top.size = Unknown   \* it is the parent's next
        /\ SetTop([Top EXCEPT !.state = "end", !.cached = TRUE])
        /\ UNCHANGED << pc, status >>
     \/ /\ ~Overflows /\ ~Known /\ Top.size # Unknown /\ Top.child.size = Unknown
        /\ Return("indefinite") /\ UNCHANGED stack
     \/ /\ ~Overflows /\ (Known \/ (Top.size # Unknown /\ Top.child.size # Unknown))
        /\ SetTop([Top EXCEPT !.state = "action"]) /\ UNCHANGED << pc, status >>
  /\ UNCHANGED << file, position, didSeek, events, start >>

-----------------------------------------------------------------------------
(* A child of the document.                                                 *)

\* InitAfterSeek: the parsers of the elements around the child, whose headers
\* were not read, down to the one that tells of it.
Surround(child) ==
  LET around == Ancestors(child.id)
      At(k)  == [ id |-> around[k], size |-> Unknown, header |-> 0, pos |-> 0 ]
      Next(k) == IF k = Len(around) THEN child ELSE At(k + 1)
  IN  [ k \in 1 .. Len(around) |->
          [NewParser(around[k], At(k), Unknown) EXCEPT
             !.begun = TRUE, !.child = Next(k),
             !.state = IF k = Len(around) THEN "action" ELSE "body"] ]

ValidateDocument ==
  /\ pc = "feed" /\ Top.parser = "Document" /\ Top.state = "validate"
  /\ LET child  == Top.child
         known  == child.id \in {"Segment", "Ebml"}
         inside == didSeek /\ Ancestors(child.id) # << >>
     IN  \/ /\ known /\ didSeek' = FALSE
            /\ SetTop([Top EXCEPT !.state = "action"]) /\ UNCHANGED << pc, status >>
         \/ /\ ~known /\ inside /\ didSeek' = FALSE
            /\ stack' = << [Top EXCEPT !.state = "body", !.skip = FALSE] >> \o Surround(child)
            /\ UNCHANGED << pc, status >>
         \/ /\ ~known /\ ~inside /\ child.id # "Void" /\ child.size = Unknown
            /\ Return("indefinite") /\ UNCHANGED << stack, didSeek >>
         \/ /\ ~known /\ ~inside /\ (child.id = "Void" \/ child.size # Unknown)
            /\ SetTop([Top EXCEPT !.state = "action"])
            /\ UNCHANGED << pc, status, didSeek >>
  /\ UNCHANGED << file, position, events, start >>

-----------------------------------------------------------------------------
(* Callbacks before an element is read.                                     *)

ParserFor(id, skip, size) ==
  IF skip /\ size # Unknown THEN "Skip"
  ELSE IF id \in Children(Top.parser) THEN id ELSE "Unknown"

InitFails(parser, size) == \/ parser \notin Masters /\ size = Unknown
                           \/ parser \in Blocks /\ size < 2

\* kGettingAction and kInitializingChildParser.
BeginElement ==
  /\ pc = "feed" /\ IsMaster /\ Top.state = "action"
  /\ LET child  == Top.child
         called == Called(<< "Element", child.id, child.pos >>, Depth)
         parser == ParserFor(child.id, called.skip, child.size)
         cap    == IF Top.cap = Unknown THEN Unknown ELSE Top.cap - Top.total
     IN  /\ events' = called.events
         /\ \/ InitFails(parser, child.size) /\ Return("invalid") /\ UNCHANGED stack
            \/ /\ ~InitFails(parser, child.size)
               /\ stack' = Append([stack EXCEPT ![Depth].state = "body",
                                                ![Depth].skip = called.skip],
                                  NewParser(parser, child, cap))
               /\ UNCHANGED << pc, status >>
  /\ UNCHANGED << file, position, didSeek, start >>

BeginCluster ==
  /\ pc = "feed" /\ AtClusterStart
  /\ LET called == Called(<< "Begin", "Cluster", Parent.pos >>, Depth)
     IN  /\ events' = called.events
         /\ stack' = [stack EXCEPT ![Depth - 1].begun = TRUE, ![Depth - 1].own = called.skip]
  /\ UNCHANGED << file, position, pc, status, didSeek, start >>

Begin ==
  /\ pc = "feed" /\ AtBegin
  /\ LET called == Called(<< "Begin", Top.parser, Top.pos >>, Depth)
     IN  events' = called.events /\ SetTop([Top EXCEPT !.begun = TRUE, !.own = called.skip])
  /\ UNCHANGED << file, position, pc, status, didSeek, start >>

-----------------------------------------------------------------------------
(* An element's own data and its end.                                       *)

ReadBody ==
  /\ pc = "feed" /\ AtBody /\ position < file.length
  /\ Read([Top EXCEPT !.left = @ - 1])
  /\ UNCHANGED << file, pc, status, didSeek, events, start >>

Frame ==
  /\ pc = "feed" /\ AtFrame
  /\ events' = Called(<< "Frame", Top.parser, Top.pos >>, Depth).events
  /\ SetTop([Top EXCEPT !.framed = TRUE])
  /\ UNCHANGED << file, position, pc, status, didSeek, start >>

HasEnd == Top.parser \notin {"Timecode", "BlockDuration", "Cues", "Skip", "Document"}

\* kChildFullyParsed: the next child's header may have been read already.
NextChild(p, cached, child) ==
  IF cached THEN [p EXCEPT !.skip = FALSE, !.state = "validate", !.child = child]
  ELSE [p EXCEPT !.skip = FALSE, !.state = "firstId"]

Filled(p) == p.cap # Unknown /\ p.total = p.cap

\* Mutant: every parser takes the position of such a header from the reader.
FinishAtReader ==
  /\ pc = "feed" /\ Depth > 1 /\ AtEnd
  /\ events' = IF HasEnd THEN Called(<< "End", Top.parser, Top.pos >>, Depth).events
               ELSE events
  /\ LET child == [Top.child EXCEPT !.pos = position]
         next  == IF Parent.parser # "Document" /\ Filled(Parent)
                  THEN [Parent EXCEPT !.state = "end"]
                  ELSE NextChild(Parent, Top.cached, child)
     IN  stack' = Append(SubSeq(stack, 1, Depth - 2), next)
  /\ UNCHANGED << file, position, pc, status, didSeek, start >>

\* The document takes the position of such a header from the reader.
Finish ==
  /\ pc = "feed" /\ Depth > 1 /\ AtEnd
  /\ events' = IF HasEnd THEN Called(<< "End", Top.parser, Top.pos >>, Depth).events
               ELSE events
  /\ LET child == IF Parent.parser = "Document" THEN [Top.child EXCEPT !.pos = position]
                  ELSE Top.child
         next  == IF Parent.parser # "Document" /\ Filled(Parent)
                  THEN [Parent EXCEPT !.state = "end"]
                  ELSE NextChild(Parent, Top.cached, child)
     IN  stack' = Append(SubSeq(stack, 1, Depth - 2), next)
  /\ UNCHANGED << file, position, pc, status, didSeek, start >>

Completed ==
  /\ pc = "feed" /\ Depth = 1 /\ AtEnd /\ Return("completed")
  /\ UNCHANGED << file, position, stack, didSeek, events, start >>

-----------------------------------------------------------------------------
(* Where Feed returns: the reader has nothing, or a callback that the user   *)
(* sees has not completed and will be called again.                         *)

WouldBlock ==
  /\ pc = "feed" /\ Inside /\ (AtId \/ AtSize \/ AtBody) /\ position < file.length
  /\ Return("block")
  /\ UNCHANGED << file, position, stack, didSeek, events, start >>

AtCallback == \/ AtClusterStart \/ AtBegin \/ AtFrame
              \/ IsMaster /\ Top.state = "action"
              \/ AtEnd /\ HasEnd

NotCompleted ==
  /\ pc = "feed" /\ AtCallback /\ ~Muted(Depth)
  /\ Return("partial")
  /\ UNCHANGED << file, position, stack, didSeek, events, start >>

Terminated == pc = "idle" /\ status \in Errors \cup {"completed"} /\ UNCHANGED vars

-----------------------------------------------------------------------------
Progress == \/ ReadId \/ ReadSize \/ EndOfFile \/ Validate \/ ValidateDocument
            \/ BeginElement \/ BeginCluster \/ Begin \/ ReadBody \/ Frame
            \/ Finish \/ Completed

Next == \/ Feed \/ Progress \/ WouldBlock \/ NotCompleted \/ Terminated
        \/ \E p \in file.seeks : DidSeek(p)

\* The caller feeds the parser until it is done, the reader does not block for
\* ever and no callback refuses for ever.
Spec == Init /\ [][Next]_vars /\ WF_vars(Feed) /\ SF_vars(Progress)
=============================================================================
