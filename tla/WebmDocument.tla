---------------------------- MODULE WebmDocument ----------------------------
(***************************************************************************)
(* What a document tells a callback that sees it whole: the events in the  *)
(* order of the elements, by recursion over the document's tree.  It is    *)
(* what WebmParser's callbacks are compared with; it has no parser state.   *)
(*                                                                         *)
(* A part of the document yields the events of its elements, where the next *)
(* element is, and whether all was well: nothing follows a fault or an end  *)
(* of the file in the middle.                                               *)
(***************************************************************************)
EXTENDS WebmParser

Part(log, next, whole) == [ log |-> log, next |-> next, whole |-> whole ]

Then(part, log) == IF part.whole THEN [part EXCEPT !.log = @ \o log] ELSE part

Before(log, part) == [part EXCEPT !.log = log \o @]

Silent(part) == [part EXCEPT !.log = << >>]

StartsCluster(f, p) == /\ f.hdr[p].id \in {"SimpleBlock", "BlockGroup"}
                       /\ << "Element", f.hdr[p].id, p >> \notin f.skips

\* An element without children.  at: its position, as it is told.
Leaf(f, id, at, stop) ==
  LET begin == << "Begin", id, at >>
      all   == IF stop <= f.length THEN Part(<< >>, stop, TRUE) ELSE Part(<< >>, stop, FALSE)
      size  == stop - at - HeaderSize
  IN  CASE id \in {"Timecode", "BlockDuration"} -> all
        [] id \in Blocks ->
             IF size < 2 \/ at + HeaderSize + 1 > f.length THEN Part(<< >>, stop, FALSE)
             ELSE IF begin \in f.skips THEN Before(<< begin >>, all)
             ELSE Before(<< begin >>, Then(all, << << "Frame", id, at >>, << "End", id, at >> >>))
        [] OTHER -> Then(all, << << "End", id, at >> >>)

RECURSIVE Elements(_, _, _, _, _, _, _)

\* The children of a master element, from p on.  stop: its end, or its
\* parent's; at: its own position; begun: its begin event is done.
Master(f, id, p, stop, sized, at, begun) ==
  LET begin == << "Begin", id, at >>
      end   == << << "End", id, at >> >>
  IN  CASE id = "Cues" -> Elements(f, id, p, p, stop, sized, << >>)
        [] id \in {"Segment", "BlockGroup"} \/ (id = "Cluster" /\ begun) ->
             IF begun THEN Then(Elements(f, id, p, p, stop, sized, << >>), end)
             ELSE IF begin \in f.skips
             THEN Before(<< begin >>, Silent(Elements(f, id, p, p, stop, sized, << >>)))
             ELSE Before(<< begin >>, Then(Elements(f, id, p, p, stop, sized, << >>), end))
        [] id = "Cluster" /\ ~begun ->
             LET part  == Elements(f, id, p, p, stop, sized, << begin >>)
                 begins == \E i \in DOMAIN part.log : part.log[i] = begin
             IN  IF begins
                 THEN IF begin \in f.skips
                      THEN [part EXCEPT !.log = SubSeq(@, 1, CHOOSE i \in DOMAIN @ : @[i] = begin)]
                      ELSE Then(part, end)
                 ELSE Then(part, << begin >> \o IF begin \in f.skips THEN << >> ELSE end)

\* One element, in its parent.  at: the position that is told of it.  pending:
\* what is told as soon as its header is.
Element(f, parent, p, at, limit, pending) ==
  LET e     == f.hdr[p]
      sized == e.size # Unknown
      body  == p + HeaderSize
      stop  == IF sized THEN body + e.size ELSE limit
      id    == IF e.id \in Children(parent) THEN e.id ELSE "Unknown"
      told  == << << "Element", e.id, at >> >>
      what  == IF id \in Masters THEN Master(f, id, body, stop, sized, at, FALSE)
               ELSE Leaf(f, id, at, stop)
      fails == \/ id \notin Masters /\ ~sized
               \/ id \in Blocks /\ e.size < 2
  IN  CASE told[1] \in f.skips ->
             IF sized THEN Before(told, Part(<< >>, stop, stop <= f.length))
             ELSE IF fails THEN Part(told, body, FALSE)
             ELSE Before(told, Silent(what))
        [] told[1] \notin f.skips /\ fails  -> Part(told, body, FALSE)
        [] told[1] \notin f.skips /\ ~fails -> Before(told \o pending, what)

\* The position told of the element at p that ends a Segment of unknown size.
Late(p) == p + HeaderSize

EndsLate(f, parent, p) ==
  parent = "Document" /\ f.hdr[p].id = "Segment" /\ f.hdr[p].size = Unknown

\* The elements from p on; at: the position told of the first.  The first that
\* does not belong ends an element of unknown size; the file's end ends it and
\* the document.
Elements(f, parent, p, at, stop, sized, pending) ==
  LET e       == f.hdr[p]
      known   == e.id \in Children(parent)
      starts  == StartsCluster(f, p)
      element == Element(f, parent, p, at, stop, IF starts THEN pending ELSE << >>)
      next    == element.next
  IN  IF stop # Unknown /\ p >= stop THEN Part(<< >>, p, TRUE)
      ELSE IF p >= f.length THEN Part(<< >>, p, ~sized)
      ELSE IF p + HeaderSize > f.length THEN Part(<< >>, p, FALSE)
      ELSE IF stop # Unknown /\ p + HeaderSize + (IF e.size = Unknown THEN 0 ELSE e.size) > stop
      THEN Part(<< >>, p, FALSE)
      ELSE IF ~known /\ ~sized /\ parent # "Document" THEN Part(<< >>, p, TRUE)
      ELSE IF ~known /\ e.size = Unknown THEN Part(<< >>, p, FALSE)
      ELSE IF ~element.whole THEN element
      ELSE Before(element.log,
                  Elements(f, parent, next, IF EndsLate(f, parent, p) THEN Late(next) ELSE next,
                           stop, sized, IF starts THEN << >> ELSE pending))

\* Behind a seek: the elements around the one at p, from the innermost out.
RECURSIVE Around(_, _, _)
Around(f, p, parsers) ==
  IF parsers = << >> THEN Elements(f, "Document", p, Late(p), Unknown, FALSE, << >>)
  ELSE LET part == Master(f, Last(parsers), p, Unknown, FALSE, 0, TRUE)
       IN  IF part.whole THEN Before(part.log, Around(f, part.next, Front(parsers)))
           ELSE part

\* The elements that give no hint of where they are come first.
RECURSIVE AfterSeek(_, _)
AfterSeek(f, p) ==
  IF p >= f.length \/ p + HeaderSize > f.length \/ f.hdr[p].id \in {"Segment", "Ebml"}
  THEN Elements(f, "Document", p, p, Unknown, FALSE, << >>)
  ELSE IF Ancestors(f.hdr[p].id) # << >> THEN Around(f, p, Ancestors(f.hdr[p].id))
  ELSE IF f.hdr[p].id # "Void" /\ f.hdr[p].size = Unknown THEN Part(<< >>, p, FALSE)
  ELSE LET element == Element(f, "Document", p, p, Unknown, << >>)
       IN  IF element.whole THEN Before(element.log, AfterSeek(f, element.next))
           ELSE element

Script(f, p, sought) == IF sought THEN AfterSeek(f, p)
                        ELSE Elements(f, "Document", p, p, Unknown, FALSE, << >>)
=============================================================================
