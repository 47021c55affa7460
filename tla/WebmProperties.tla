--------------------------- MODULE WebmProperties ---------------------------
(***************************************************************************)
(* What webm_parser must guarantee of where its parsers are, however its     *)
(* document is cut into pieces, whatever its callback skips and wherever    *)
(* the caller seeks.  What the callback is told in all is in WebmDelivery.   *)
(***************************************************************************)
EXTENDS WebmParser

Ids == Masters \cup Values \cup Blocks \cup {"Void", "Foreign", "None"}

Parsers == (Ids \ {"Foreign", "None"}) \cup {"Document", "Unknown", "Skip"}

States == {"firstId", "restId", "size", "validate", "action", "body", "end"}

Sizes == Nat \cup {Unknown}

Headers == [ id : Ids, size : Sizes, header : {0, HeaderSize}, pos : Nat ]

ParserRecords ==
  [ parser : Parsers, size : Sizes, header : {0, HeaderSize}, pos : Nat, cap : Sizes,
    state : States, child : Headers, skip : BOOLEAN, own : BOOLEAN, total : Nat,
    cached : BOOLEAN, begun : BOOLEAN, framed : BOOLEAN, left : Sizes ]

Told == {"Element", "Begin", "Frame", "End"} \X (Ids \cup Parsers) \X Nat

\* The type of every variable.
TypeOK ==
  /\ file \in Files /\ position \in 1 .. file.length
  /\ pc \in {"idle", "feed"}
  /\ status \in {"none", "running", "block", "partial", "eof", "completed"} \cup Errors
  /\ didSeek \in BOOLEAN
  /\ start \in [ at : 1 .. file.length, seeks : 0 .. MaxSeeks ]
  /\ stack \in Seq(ParserRecords) \ {<< >>}
  /\ events \in Seq(Told)

\* The element that ends a Segment of unknown size is told of by the document with
\* the reader's position, which is behind its header.
IsLate(at) == /\ at - HeaderSize \in DOMAIN file.hdr
              /\ file.hdr[at - HeaderSize].id \notin Children("Segment")

\* In every well-typed state all parsers of the chain agree with the reader on how
\* far it is, across every return from Feed and every header that was read for
\* another parser.  None has read beyond its end, or its parent's, but for the
\* header that the innermost of them is about to refuse.
CountersExact ==
  /\ TypeOK
  /\ \A k \in 2 .. Depth : stack[k].pos > 0 =>
      LET t == stack[k]
      IN  /\ \/ position = t.pos + t.header + t.total
             \/ k = 2 /\ IsLate(t.pos) /\ position = t.pos + t.total
          /\ t.parser \notin Masters => t.left = t.size - t.total
  /\ Top.state \notin {"restId", "size", "validate"} =>
      \A k \in 1 .. Depth : stack[k].cap # Unknown => stack[k].total <= stack[k].cap

\* at is the position of an element of that kind, or of that kind and late.
Names(at, id) ==
  \/ at \in DOMAIN file.hdr /\ id \in {file.hdr[at].id, "Unknown"}
  \/ IsLate(at) /\ id \in {file.hdr[at - HeaderSize].id, "Unknown"}

\* Every event names an element by its position: whatever was cached, sought or
\* skipped before, no parser takes over the position of another's element.  The
\* document does, of the header that has ended a Segment of unknown size.
PositionsTrue ==
  \A i \in DOMAIN events : events[i][3] # 0 => Names(events[i][3], events[i][2])
=============================================================================
