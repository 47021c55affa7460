----------------------------- MODULE WebmProofs -----------------------------
(* That the parsers of webm_parser's stack agree with the reader on where they *)
(* are, and that the callback is told the positions of elements: for any       *)
(* documents, cut into pieces, skipped and sought anywhere.                    *)
EXTENDS WebmProperties, TLAPS, SequenceTheorems

-----------------------------------------------------------------------------
(* The invariant.                                                           *)

Composite == Masters \cup {"Document"}

\* Where the element of parser t begins: t has counted what was read behind its header.
Origin(t) == position - t.total - HeaderSize

IsElement(p) == p \in DOMAIN file.hdr

\* Only the innermost parser is anywhere but in a child's body, and what holds it all
\* is a document and, if there is one, a Segment.
ChainInv ==
  /\ stack[1].cap = Unknown
  /\ \A k \in 1 .. Depth : (stack[k].parser = "Document") = (k = 1)
  /\ \A k \in 1 .. Depth - 1 :
       stack[k].parser \in Composite /\ stack[k].state = "body" /\ ~stack[k].cached
  /\ Depth > 1 /\ stack[2].parser \in Masters => stack[2].parser = "Segment"

\* A parser knows the position of its element and what its header said; the document
\* is late with the one that ended a Segment.  Those around a seek know nothing.
Anchored(t, k) ==
  IF t.pos = 0 THEN t.parser \in Masters /\ t.size = Unknown
  ELSE /\ IsElement(Origin(t)) /\ t.size = file.hdr[Origin(t)].size /\ t.header = HeaderSize
       /\ t.parser \in {file.hdr[Origin(t)].id, "Unknown", "Skip"}
       /\ \/ t.pos = Origin(t)
          \/ k = 2 /\ IsLate(t.pos) /\ t.pos = Origin(t) + HeaderSize

AnchorInv == \A k \in 2 .. Depth : Anchored(stack[k], k)

\* What the innermost parser t knows of the header it is at, or has read.
Partial(t, n) == IsElement(t.child.pos) /\ position = t.child.pos + n

Held(t) ==
  LET p == position - HeaderSize
  IN  /\ IsElement(p) /\ t.child.id = file.hdr[p].id /\ t.child.size = file.hdr[p].size
      /\ t.child.header = HeaderSize
      /\ \/ t.child.pos = p
         \/ t.parser = "Document" /\ t.child.pos = p + HeaderSize /\ IsLate(t.child.pos)

AtHeader(t) ==
  /\ t.state \in {"firstId", "end"} /\ ~t.cached => Begins(file, position)
  /\ t.state = "restId" => Partial(t, 1)
  /\ t.state = "size"   => Partial(t, 2)
  /\ t.state \in {"validate", "action"} \/ t.cached => Held(t)
  /\ t.state # "body"

\* What ended an element of unknown size is none of its children.
Cached(t) ==
  t.cached => /\ t.state = "end" /\ t.parser \in Masters
              /\ t.child.id \notin Children(t.parser)

\* A parser without children counts down what it counts up.
Leaf(t) == /\ t.size # Unknown /\ t.left = t.size - t.total /\ t.cap = t.size
           /\ t.state \in {"firstId", "end"} /\ ~t.cached

\* It fits what it has read, and what it has accepted, or refused as its child.
Fits(t) ==
  t.cap # Unknown /\ t.state \notin {"restId", "size", "validate"} =>
    t.total + (IF (t.state = "action" \/ t.cached) /\ t.child.size # Unknown
               THEN t.child.size ELSE 0) <= t.cap

TopInv(t) == /\ t.parser \in Composite => AtHeader(t)
             /\ t.parser \notin Composite => Leaf(t)
             /\ Cached(t) /\ Fits(t)

\* A parser may read no more than any of those around it.
Within(u, t) == t.cap # Unknown => u.cap # Unknown /\ u.cap - u.total <= t.cap - t.total

CapInv == \A k \in 1 .. Depth : \A j \in 1 .. k : Within(stack[k], stack[j])

\* Behind a seek no header is late: there was no Segment yet.
InTime(t) ==
  /\ t.state \in {"validate", "action"} => t.child.pos = position - HeaderSize
  /\ t.state = "action" => t.child.id # "Segment"

SeekInv == didSeek => /\ \A k \in 2 .. Depth : stack[k].parser \notin Masters
                      /\ Depth = 1 => InTime(Top)

WebmInv == /\ TypeOK /\ ChainInv /\ AnchorInv /\ TopInv(Top) /\ CapInv /\ SeekInv
           /\ PositionsTrue

-----------------------------------------------------------------------------
(* The files and the stack.                                                 *)

\* An element's header is one of the file, and another element or the file's end is
\* where one ends or what is in it begins.
LEMMA ElementFacts ==
  ASSUME TypeOK, NEW p, IsElement(p)
  PROVE  /\ p \in Nat \ {0} /\ p < file.length
         /\ file.hdr[p].size \in Sizes /\ file.hdr[p].id \in Ids \ {"None"}
         /\ file.hdr[p].size # Unknown => Begins(file, p + HeaderSize + file.hdr[p].size)
         /\ file.hdr[p].size = Unknown \/ file.hdr[p].id \in Masters
              => Begins(file, p + HeaderSize)
<1>1. file \in Files /\ p \in DOMAIN file.hdr
  BY DEF TypeOK, IsElement
<1>2. p \in 1 .. file.length - 1 /\ file.length \in Nat
  BY <1>1, WebmFilesAssumption
<1>3. file.hdr[p].id \in Masters \cup Values \cup Blocks \cup {"Void", "Foreign"}
  BY <1>1, WebmFilesAssumption
<1>4. "None" \notin Masters \cup Values \cup Blocks \cup {"Void", "Foreign"}
  BY DEF Masters, Values, Blocks
<1> QED
  BY <1>1, <1>2, <1>3, <1>4, WebmFilesAssumption DEF Sizes, Ids

\* The stack's records, and the innermost of them.
LEMMA StackFacts ==
  ASSUME TypeOK
  PROVE  /\ Depth \in Nat \ {0} /\ Top \in ParserRecords
         /\ \A k \in 1 .. Depth : stack[k] \in ParserRecords
         /\ position \in Nat \ {0} /\ file.length \in Nat /\ position <= file.length
<1>1. stack \in Seq(ParserRecords) /\ stack # << >> /\ file \in Files
  BY DEF TypeOK
<1>2. Depth \in Nat /\ Depth # 0 /\ \A k \in 1 .. Depth : stack[k] \in ParserRecords
  BY <1>1 DEF Depth
<1>3. Top \in ParserRecords
  BY <1>2 DEF Top
<1>4. file.length \in Nat
  BY <1>1, WebmFilesAssumption
<1>5. position \in 1 .. file.length
  BY DEF TypeOK
<1> QED
  BY <1>2, <1>3, <1>4, <1>5

\* The types of a record's fields.
LEMMA RecordFacts ==
  ASSUME NEW t \in ParserRecords
  PROVE  /\ t.parser \in Parsers /\ t.size \in Sizes /\ t.header \in {0, HeaderSize}
         /\ t.pos \in Nat /\ t.cap \in Sizes /\ t.state \in States
         /\ t.child \in Headers /\ t.total \in Nat /\ t.cached \in BOOLEAN
         /\ t.left \in Sizes /\ t.skip \in BOOLEAN /\ t.own \in BOOLEAN
         /\ t.begun \in BOOLEAN /\ t.framed \in BOOLEAN
BY DEF ParserRecords

\* What a parser has for its whole life, and what only a step of its own changes.
Kept(u, t) == /\ u.parser = t.parser /\ u.size = t.size /\ u.header = t.header
              /\ u.pos = t.pos /\ u.cap = t.cap

Same(u, t) == /\ Kept(u, t) /\ u.state = t.state /\ u.child = t.child
              /\ u.cached = t.cached /\ u.left = t.left

\* d units are read, by the innermost parser, and counted by all.
Stays(d) ==
  /\ file' = file /\ position' = position + d
  /\ stack' \in Seq(ParserRecords) /\ Len(stack') = Depth
  /\ \A k \in 1 .. Depth : Kept(stack'[k], stack[k]) /\ stack'[k].total = stack[k].total + d
  /\ \A k \in 1 .. Depth - 1 : Same(stack'[k], stack[k])

LEMMA SetTopStays ==
  ASSUME TypeOK, NEW u \in ParserRecords, SetTop(u), Kept(u, Top), u.total = Top.total,
         file' = file, position' = position
  PROVE  Stays(0) /\ Top' = u /\ Depth' = Depth
<1>1. stack \in Seq(ParserRecords) /\ Depth \in 1 .. Len(stack)
  BY StackFacts DEF TypeOK, Depth
<1>2. stack' = [stack EXCEPT ![Depth] = u]
  BY DEF SetTop
<1>3. /\ stack' \in Seq(ParserRecords) /\ Len(stack') = Len(stack)
      /\ \A k \in 1 .. Len(stack) : stack'[k] = IF k = Depth THEN u ELSE stack[k]
  BY <1>1, <1>2, ExceptSeq
<1>4. Depth' = Depth /\ Top' = u
  BY <1>1, <1>3 DEF Depth, Top
<1>5. ASSUME NEW k \in 1 .. Depth
      PROVE  Kept(stack'[k], stack[k]) /\ stack'[k].total = stack[k].total + 0
  <2>1. CASE k = Depth
    BY <2>1, <1>1, <1>3, StackFacts, RecordFacts DEF Top, Depth
  <2>2. CASE k # Depth
    <3>1. stack'[k] = stack[k] /\ stack[k].total \in Nat
      BY <2>2, <1>3, StackFacts, RecordFacts DEF Depth
    <3> QED
      BY <3>1 DEF Kept
  <2> QED
    BY <2>1, <2>2
<1>6. ASSUME NEW k \in 1 .. Depth - 1
      PROVE  Same(stack'[k], stack[k])
  <2>1. stack'[k] = stack[k]
    BY <1>1, <1>3 DEF Depth
  <2> QED
    BY <2>1 DEF Same, Kept
<1>7. position' = position + 0
  BY StackFacts
<1> QED
  BY <1>3, <1>4, <1>5, <1>6, <1>7 DEF Stays, Depth

LEMMA ReadStays ==
  ASSUME TypeOK, NEW u \in ParserRecords, Read(u), Kept(u, Top), u.total = Top.total,
         file' = file
  PROVE  Stays(1) /\ Same(Top', u) /\ Top'.total = u.total + 1 /\ Depth' = Depth
<1> DEFINE w(k) == IF k = Depth THEN u ELSE stack[k]
           r(k) == [w(k) EXCEPT !.total = @ + 1]
<1>1. stack \in Seq(ParserRecords) /\ Depth = Len(stack) /\ Depth \in Nat \ {0}
  BY StackFacts DEF TypeOK, Depth
<1>2. stack' = [k \in 1 .. Depth |-> r(k)] /\ position' = position + 1
  BY DEF Read
<1>3. ASSUME NEW k \in 1 .. Depth
      PROVE  /\ r(k) \in ParserRecords /\ Same(r(k), w(k)) /\ r(k).total = w(k).total + 1
  <2>1. w(k) \in ParserRecords
    BY <1>1, StackFacts
  <2> HIDE DEF w
  <2>2. w(k).total \in Nat
    BY <2>1, RecordFacts
  <2>3. r(k) \in ParserRecords
    BY <2>1, <2>2 DEF ParserRecords
  <2>4. r(k).total = w(k).total + 1
    BY <2>1 DEF ParserRecords
  <2>5. Same(r(k), w(k))
    BY <2>1 DEF ParserRecords, Same, Kept
  <2> QED
    BY <2>3, <2>4, <2>5
<1> HIDE DEF r
<1>4. /\ stack' \in Seq(ParserRecords) /\ Len(stack') = Depth
      /\ \A k \in 1 .. Depth : stack'[k] = r(k)
  BY <1>1, <1>2, <1>3
<1>5. Depth' = Depth /\ Top' = r(Depth) /\ w(Depth) = u
  BY <1>1, <1>4 DEF Depth, Top
<1>6. ASSUME NEW k \in 1 .. Depth
      PROVE  Kept(stack'[k], stack[k]) /\ stack'[k].total = stack[k].total + 1
  <2>1. CASE k = Depth
    BY <2>1, <1>3, <1>4, <1>5 DEF Same, Kept, Top
  <2>2. CASE k # Depth
    <3>1. w(k) = stack[k]
      BY <2>2
    <3> QED
      BY <3>1, <1>3, <1>4 DEF Same
  <2> QED
    BY <2>1, <2>2
<1>7. ASSUME NEW k \in 1 .. Depth - 1
      PROVE  Same(stack'[k], stack[k])
  <2>1. w(k) = stack[k] /\ k \in 1 .. Depth
    BY <1>1
  <2> QED
    BY <2>1, <1>3, <1>4
<1>8. Same(Top', u) /\ Top'.total = u.total + 1
  BY <1>1, <1>3, <1>5
<1> QED
  BY <1>2, <1>4, <1>5, <1>6, <1>7, <1>8 DEF Stays

-----------------------------------------------------------------------------
(* What every step keeps that neither begins nor ends an element.            *)

LEMMA ParserNames ==
  /\ \A p \in Parsers : p = "Document" \/ p \in Masters
                          \/ p \in (Values \cup Blocks) \cup {"Void", "Unknown", "Skip"}
  /\ "Document" \notin Ids /\ "Document" \notin Masters
  /\ "Unknown" \notin Masters \cup Blocks /\ "Skip" \notin Masters \cup Blocks
  /\ Masters \cap (Values \cup Blocks \cup {"Void", "Unknown", "Skip"}) = {}
  /\ Ids \ {"None", "Foreign"} \subseteq Parsers
  /\ {"Document", "Unknown", "Skip"} \subseteq Parsers
BY DEF Parsers, Ids, Masters, Values, Blocks

LEMMA StaysInv ==
  ASSUME TypeOK, ChainInv, AnchorInv, CapInv, NEW d \in {0, 1}, Stays(d)
  PROVE  ChainInv' /\ AnchorInv' /\ CapInv'
<1>1. Depth \in Nat \ {0} /\ Depth' = Depth /\ position \in Nat
  BY StackFacts DEF Stays, Depth
<1>2. /\ \A k \in 1 .. Depth : Kept(stack'[k], stack[k])
      /\ \A k \in 1 .. Depth : stack'[k].total = stack[k].total + d
      /\ \A k \in 1 .. Depth - 1 : Same(stack'[k], stack[k])
      /\ file' = file /\ position' = position + d
  BY DEF Stays
<1>3. ChainInv'
  <2>1. stack'[1].cap = Unknown
    BY <1>1, <1>2 DEF Kept, ChainInv
  <2>2. \A k \in 1 .. Depth : (stack'[k].parser = "Document") = (k = 1)
    BY <1>2 DEF Kept, ChainInv
  <2>3. \A k \in 1 .. Depth - 1 :
          stack'[k].parser \in Composite /\ stack'[k].state = "body" /\ ~stack'[k].cached
    BY <1>1, <1>2 DEF Same, Kept, ChainInv
  <2>4. Depth > 1 /\ stack'[2].parser \in Masters => stack'[2].parser = "Segment"
    BY <1>1, <1>2 DEF Kept, ChainInv
  <2> QED
    BY <1>1, <2>1, <2>2, <2>3, <2>4 DEF ChainInv
<1>4. AnchorInv'
  <2> SUFFICES ASSUME NEW k \in 2 .. Depth
               PROVE  Anchored(stack[k], k)'
    BY <1>1 DEF AnchorInv
  <2>1. Anchored(stack[k], k) /\ stack[k].total \in Nat
    BY <1>1, StackFacts, RecordFacts DEF AnchorInv
  <2>2. Kept(stack'[k], stack[k]) /\ stack'[k].total = stack[k].total + d
    BY <1>1, <1>2
  <2>3. position' - stack'[k].total = position - stack[k].total
    BY <1>1, <1>2, <2>1, <2>2
  <2>4. Origin(stack[k])' = Origin(stack[k])
    BY <2>3 DEF Origin
  <2> QED
    BY <1>2, <2>1, <2>2, <2>4 DEF Anchored, IsElement, IsLate, Kept
<1>5. CapInv'
  <2> SUFFICES ASSUME NEW k \in 1 .. Depth, NEW j \in 1 .. k
               PROVE  Within(stack'[k], stack'[j])
    BY <1>1 DEF CapInv, Within
  <2>1. Within(stack[k], stack[j]) /\ j \in 1 .. Depth
    BY <1>1 DEF CapInv
  <2>2. /\ stack[k].total \in Nat /\ stack[j].total \in Nat
        /\ stack[k].cap \in Nat \cup {Unknown} /\ stack[j].cap \in Nat \cup {Unknown}
    BY <2>1, StackFacts, RecordFacts DEF Sizes
  <2>3. /\ stack'[k].total = stack[k].total + d /\ stack'[j].total = stack[j].total + d
        /\ stack'[k].cap = stack[k].cap /\ stack'[j].cap = stack[j].cap
    BY <2>1, <1>2 DEF Kept
  <2> QED
    BY <2>1, <2>2, <2>3 DEF Within, Unknown
<1> QED
  BY <1>3, <1>4, <1>5

\* The types of what only some steps change.
Unmoved == /\ pc' \in {"idle", "feed"} /\ didSeek' \in BOOLEAN
           /\ status' \in {"none", "running", "block", "partial", "eof", "completed"} \cup Errors
           /\ events' \in Seq(Told) /\ start' = start /\ file' = file

LEMMA TypeKept ==
  ASSUME TypeOK, Unmoved, stack' \in Seq(ParserRecords) \ {<< >>},
         position' \in 1 .. file.length
  PROVE  TypeOK'
BY DEF TypeOK, Unmoved

\* An event that names its element keeps PositionsTrue.
LEMMA CalledKeeps ==
  ASSUME TypeOK, PositionsTrue, NEW e \in Told, NEW k,
         e[3] # 0 => Names(e[3], e[2]),
         file' = file, events' = Called(e, k).events
  PROVE  PositionsTrue' /\ events' \in Seq(Told)
<1>1. events' = events \/ events' = Append(events, e)
  BY DEF Called
<1>2. events \in Seq(Told)
  BY DEF TypeOK
<1>3. CASE events' = events
  BY <1>2, <1>3 DEF PositionsTrue, Names, IsLate
<1>4. CASE events' = Append(events, e)
  <2>1. events' \in Seq(Told)
    BY <1>2, <1>4
  <2>2. ASSUME NEW i \in DOMAIN events', events'[i][3] # 0
        PROVE  Names(events'[i][3], events'[i][2])
    <3>1. CASE i = Len(events) + 1
      BY <1>2, <1>4, <2>2, <3>1
    <3>2. CASE i # Len(events) + 1
      <4>1. i \in DOMAIN events /\ events'[i] = events[i]
        BY <1>2, <1>4, <2>2, <3>2
      <4> QED
        BY <4>1, <2>2 DEF PositionsTrue
    <3> QED
      BY <3>1, <3>2
  <2> QED
    BY <2>1, <2>2 DEF PositionsTrue, Names, IsLate
<1> QED
  BY <1>1, <1>3, <1>4

LEMMA CalledSkip ==
  ASSUME NEW e, NEW k
  PROVE  Called(e, k).skip \in BOOLEAN
<1>1. CASE Muted(k)
  <2>1. Called(e, k) = [ events |-> events, skip |-> TRUE ]
    BY <1>1 DEF Called
  <2> QED
    BY <2>1
<1>2. CASE ~Muted(k)
  <2>1. Called(e, k) = [ events |-> Append(events, e), skip |-> e \in file.skips ]
    BY <1>2 DEF Called
  <2>2. Called(e, k).skip = (e \in file.skips)
    BY <2>1
  <2> QED
    BY <2>2
<1> QED
  BY <1>1, <1>2

\* The events stay.
LEMMA EventsKept ==
  ASSUME TypeOK, PositionsTrue, UNCHANGED << file, events >>
  PROVE  PositionsTrue' /\ events' \in Seq(Told)
BY DEF TypeOK, PositionsTrue, Names, IsLate

\* A parser of the chain is told of by the position of its element.
LEMMA NamesOwn ==
  ASSUME TypeOK, AnchorInv, NEW k \in 2 .. Depth,
         stack[k].parser \in Masters \cup Blocks \cup Values \cup {"Void", "Unknown"}
  PROVE  stack[k].pos # 0 => Names(stack[k].pos, stack[k].parser)
<1> SUFFICES ASSUME stack[k].pos # 0 PROVE Names(stack[k].pos, stack[k].parser)
  OBVIOUS
<1>1. Anchored(stack[k], k)
  BY DEF AnchorInv
<1>2. stack[k].parser # "Skip"
  BY ParserNames DEF Values
<1>3. /\ IsElement(Origin(stack[k]))
      /\ stack[k].parser \in {file.hdr[Origin(stack[k])].id, "Unknown"}
      /\ \/ stack[k].pos = Origin(stack[k])
         \/ IsLate(stack[k].pos) /\ stack[k].pos = Origin(stack[k]) + HeaderSize
  BY <1>1, <1>2 DEF Anchored
<1>4. Origin(stack[k]) \in Int
  BY <1>3, ElementFacts
<1> HIDE DEF Origin
<1> QED
  BY <1>3, <1>4 DEF Names, IsElement, HeaderSize

LEMMA NamesHeld ==
  ASSUME TypeOK, NEW t, Held(t)
  PROVE  /\ t.child.pos # 0 /\ Names(t.child.pos, t.child.id)
         /\ t.child.id \in Ids \ {"None"} /\ t.child.size \in Sizes /\ t.child.pos \in Nat
<1> DEFINE p == position - HeaderSize
<1>1. /\ IsElement(p) /\ t.child.id = file.hdr[p].id /\ t.child.size = file.hdr[p].size
      /\ t.child.pos = p \/ (t.child.pos = p + HeaderSize /\ IsLate(t.child.pos))
  BY DEF Held
<1>2. p \in Nat \ {0} /\ file.hdr[p].size \in Sizes /\ file.hdr[p].id \in Ids \ {"None"}
  BY <1>1, ElementFacts
<1> HIDE DEF p
<1> QED
  BY <1>1, <1>2 DEF Names, IsElement, HeaderSize

LEMMA StaysStep ==
  ASSUME WebmInv, NEW d \in {0, 1}, Stays(d), Unmoved, position' \in 1 .. file.length,
         PositionsTrue', TopInv(Top)', didSeek' => didSeek /\ (Depth = 1 => InTime(Top)')
  PROVE  WebmInv'
<1>1. Depth \in Nat \ {0} /\ Depth' = Depth
  BY StackFacts DEF WebmInv, Stays, Depth
<1>2. ChainInv' /\ AnchorInv' /\ CapInv'
  BY StaysInv DEF WebmInv
<1>3. stack' # << >>
  BY <1>1 DEF Depth
<1>4. TypeOK'
  BY <1>3, TypeKept DEF Stays, WebmInv
<1>5. SeekInv'
  <2> SUFFICES ASSUME didSeek'
               PROVE  /\ \A k \in 2 .. Depth : stack'[k].parser \notin Masters
                      /\ Depth = 1 => InTime(Top)'
    BY <1>1 DEF SeekInv, InTime, Top
  <2>1. \A k \in 2 .. Depth : stack'[k].parser = stack[k].parser
    BY <1>1 DEF Stays, Kept
  <2> QED
    BY <2>1 DEF WebmInv, SeekInv
<1> QED
  BY <1>2, <1>4, <1>5 DEF WebmInv

\* A parser that has not ended has no header of another's.
LEMMA TopFacts ==
  ASSUME WebmInv
  PROVE  /\ TypeOK /\ Top \in ParserRecords /\ Depth \in Nat \ {0} /\ TopInv(Top)
         /\ Top.state # "end" => ~Top.cached
         /\ IsMaster <=> Top.parser \in Composite
         /\ IsMaster => AtHeader(Top)
BY StackFacts DEF WebmInv, TopInv, Cached, IsMaster, Composite

-----------------------------------------------------------------------------
(* Reading a header.                                                        *)

LEMMA ReadIdKeeps ==
  ASSUME WebmInv, ReadId
  PROVE  WebmInv'
<1>1. /\ IsMaster /\ Top.state \in {"firstId", "restId"} /\ position < file.length
      /\ UNCHANGED << file, pc, status, didSeek, events, start >>
  BY DEF ReadId, AtId
<1>2. /\ TypeOK /\ Top \in ParserRecords /\ AtHeader(Top) /\ ~Top.cached
      /\ Top.parser \in Composite /\ position \in Nat \ {0} /\ file.length \in Nat
      /\ Top.child \in Headers
  BY <1>1, TopFacts, StackFacts, RecordFacts
<1> DEFINE first == [Top EXCEPT !.state = "restId", !.child.pos = position]
           rest  == [Top EXCEPT !.state = "size"]
<1>3. Unmoved
  BY <1>1, <1>2 DEF Unmoved, TypeOK
<1>4. /\ Stays(1) /\ Depth' = Depth /\ Top'.parser = Top.parser /\ ~Top'.cached
      /\ Top'.state \in {"restId", "size"}
      /\ Top'.state = "restId" => Partial(Top, 1)'
      /\ Top'.state = "size"   => Partial(Top, 2)'
  <2>1. CASE Top.state = "firstId"
    <3>1. /\ first \in ParserRecords /\ Kept(first, Top) /\ first.total = Top.total
          /\ ~first.cached /\ first.state = "restId" /\ first.child.pos = position
      BY <1>2 DEF ParserRecords, Headers, Kept, States
    <3>2. Read(first)
      BY <2>1 DEF ReadId
    <3> HIDE DEF first
    <3>3. Stays(1) /\ Same(Top', first) /\ Depth' = Depth
      BY <1>1, <1>2, <3>1, <3>2, ReadStays
    <3>4. Begins(file, position)
      BY <1>2, <2>1 DEF AtHeader
    <3>5. IsElement(position)
      BY <1>1, <1>2, <3>4 DEF Begins, IsElement
    <3>6. position' = position + 1 /\ file' = file
      BY <3>3 DEF Stays
    <3> QED
      BY <3>1, <3>3, <3>5, <3>6 DEF Same, Kept, Partial, IsElement
  <2>2. CASE Top.state = "restId"
    <3>1. /\ rest \in ParserRecords /\ Kept(rest, Top) /\ rest.total = Top.total
          /\ ~rest.cached /\ rest.state = "size" /\ rest.child = Top.child
      BY <1>2 DEF ParserRecords, Kept, States
    <3>2. Read(rest)
      BY <2>2 DEF ReadId
    <3> HIDE DEF rest
    <3>3. Stays(1) /\ Same(Top', rest) /\ Depth' = Depth
      BY <1>1, <1>2, <3>1, <3>2, ReadStays
    <3>4. Partial(Top, 1)
      BY <1>2, <2>2 DEF AtHeader
    <3>5. Top.child.pos \in Nat
      BY <1>2 DEF Headers
    <3>6. position' = position + 1 /\ file' = file
      BY <3>3 DEF Stays
    <3> QED
      BY <3>1, <3>3, <3>4, <3>5, <3>6 DEF Same, Kept, Partial, IsElement
  <2> QED
    BY <1>1, <2>1, <2>2
<1>5. position' \in 1 .. file.length
  BY <1>1, <1>2, <1>4 DEF Stays
<1>6. PositionsTrue'
  BY <1>1, EventsKept DEF WebmInv
<1>7. TopInv(Top)'
  BY <1>2, <1>4 DEF TopInv, AtHeader, Cached, Fits
<1>8. didSeek' => didSeek /\ InTime(Top)'
  BY <1>1, <1>4 DEF InTime
<1> QED
  BY <1>3, <1>4, <1>5, <1>6, <1>7, <1>8, StaysStep

LEMMA ReadSizeKeeps ==
  ASSUME WebmInv, ReadSize
  PROVE  WebmInv'
<1> DEFINE p == Top.child.pos
           child == [ id |-> file.hdr[p].id, size |-> file.hdr[p].size,
                      header |-> HeaderSize, pos |-> p ]
           u == [Top EXCEPT !.state = "validate", !.child = child]
<1>1. /\ IsMaster /\ Top.state = "size" /\ position < file.length /\ Read(u)
      /\ UNCHANGED << file, pc, status, didSeek, events, start >>
  BY DEF ReadSize, AtSize
<1>2. /\ TypeOK /\ Top \in ParserRecords /\ AtHeader(Top) /\ ~Top.cached
      /\ Top.parser \in Composite /\ position \in Nat \ {0} /\ file.length \in Nat
  BY <1>1, TopFacts, StackFacts
<1>3. IsElement(p) /\ position = p + 2
  BY <1>1, <1>2 DEF AtHeader, Partial
<1>4. p \in Nat /\ file.hdr[p].id \in Ids \ {"None"} /\ file.hdr[p].size \in Sizes
  BY <1>2, <1>3, ElementFacts
<1> HIDE DEF p
<1>5. child \in Headers /\ child.id = file.hdr[p].id /\ child.size = file.hdr[p].size
      /\ child.header = HeaderSize /\ child.pos = p
  BY <1>4 DEF Headers
<1> HIDE DEF child
<1>6. /\ u \in ParserRecords /\ Kept(u, Top) /\ u.total = Top.total
      /\ ~u.cached /\ u.state = "validate" /\ u.child = child
  BY <1>2, <1>5 DEF ParserRecords, Kept, States
<1> HIDE DEF u
<1>7. Stays(1) /\ Same(Top', u) /\ Depth' = Depth
  BY <1>1, <1>2, <1>6, ReadStays
<1>8. position' = position + 1 /\ position' - HeaderSize = p /\ file' = file
  BY <1>3, <1>4, <1>7 DEF Stays, HeaderSize
<1>9. /\ Top'.state = "validate" /\ ~Top'.cached /\ Top'.parser = Top.parser
      /\ Top'.child = child
  BY <1>6, <1>7 DEF Same, Kept
<1>10. Held(Top)'
  BY <1>3, <1>5, <1>8, <1>9 DEF Held, IsElement
<1>11. TopInv(Top)'
  BY <1>2, <1>9, <1>10 DEF TopInv, AtHeader, Cached, Fits
<1>12. didSeek' => didSeek /\ InTime(Top)'
  BY <1>1, <1>5, <1>8, <1>9 DEF InTime
<1>13. Unmoved /\ PositionsTrue'
  BY <1>1, <1>2, EventsKept DEF Unmoved, TypeOK, WebmInv
<1>14. position' \in 1 .. file.length
  BY <1>1, <1>2, <1>8
<1> QED
  BY <1>7, <1>11, <1>12, <1>13, <1>14, StaysStep

\* Only what Feed returns changes, or the events.
LEMMA StackKept ==
  ASSUME WebmInv, UNCHANGED << stack, position, file >>, Unmoved, PositionsTrue',
         didSeek' = didSeek
  PROVE  WebmInv'
<1>1. Depth' = Depth /\ Top' = Top
  BY DEF Depth, Top
<1>2. TypeOK'
  BY TypeKept DEF WebmInv, TypeOK
<1>3. ChainInv' /\ CapInv'
  BY <1>1 DEF WebmInv, ChainInv, CapInv
<1>4. AnchorInv'
  BY <1>1 DEF WebmInv, AnchorInv, Anchored, IsElement, IsLate, Origin
<1>5. TopInv(Top)'
  BY <1>1 DEF WebmInv, TopInv, AtHeader, Partial, Held, IsElement, IsLate, Cached, Leaf, Fits
<1>6. SeekInv'
  BY <1>1 DEF WebmInv, SeekInv, InTime
<1> QED
  BY <1>2, <1>3, <1>4, <1>5, <1>6 DEF WebmInv

\* A step of the innermost parser that reads nothing and is told to nobody.
LEMMA SetTopStep ==
  ASSUME WebmInv, NEW u \in ParserRecords, SetTop(u), Kept(u, Top), u.total = Top.total,
         UNCHANGED << file, position, pc, status, start >>, didSeek' \in BOOLEAN,
         PositionsTrue', events' \in Seq(Told),
         TopInv(u), didSeek' => didSeek /\ (Depth = 1 => InTime(u))
  PROVE  WebmInv'
<1>1. TypeOK
  BY DEF WebmInv
<1>2. Stays(0) /\ Top' = u
  BY <1>1, SetTopStays
<1>3. TopInv(Top)' /\ (InTime(u) => InTime(Top)')
  BY <1>2 DEF TopInv, AtHeader, Partial, Held, IsElement, IsLate, Cached, Leaf, Fits, InTime
<1>4. Unmoved /\ position' \in 1 .. file.length
  BY <1>1 DEF Unmoved, TypeOK
<1> QED
  BY <1>2, <1>3, <1>4, StaysStep

LEMMA EndOfFileKeeps ==
  ASSUME WebmInv, EndOfFile
  PROVE  WebmInv'
<1>1. /\ position = file.length /\ UNCHANGED << file, position, didSeek, events, start >>
      /\ TypeOK /\ Top \in ParserRecords
  BY TopFacts DEF EndOfFile
<1>2. PositionsTrue' /\ events' \in Seq(Told)
  BY <1>1, EventsKept DEF WebmInv
<1>3. CASE /\ EndsAtEof /\ SetTop([Top EXCEPT !.state = "end"])
           /\ UNCHANGED << pc, status >>
  <2> DEFINE u == [Top EXCEPT !.state = "end"]
  <2>1. IsMaster /\ Top.state = "firstId" /\ ~Top.cached /\ Top.parser \in Composite
    BY <1>3, TopFacts DEF EndsAtEof
  <2>2. /\ u \in ParserRecords /\ Kept(u, Top) /\ u.total = Top.total /\ u.state = "end"
        /\ ~u.cached
    BY <1>1, <2>1 DEF ParserRecords, Kept, States
  <2> HIDE DEF u
  <2>3. Begins(file, position)
    BY <1>1 DEF Begins, TypeOK
  <2>4. Fits(u)
    BY <2>1, <2>2 DEF Fits, Kept, WebmInv, TopInv
  <2>5. TopInv(u)
    BY <2>1, <2>2, <2>3, <2>4 DEF TopInv, AtHeader, Cached, Kept
  <2>6. SetTop(u)
    BY <1>3 DEF u
  <2>7. didSeek' => didSeek /\ InTime(u)
    BY <1>1, <2>2 DEF InTime
  <2> QED
    BY <1>1, <1>2, <1>3, <2>2, <2>5, <2>6, <2>7, SetTopStep DEF TypeOK
<1>4. CASE Return("eof") /\ UNCHANGED stack
  <2>1. Unmoved
    BY <1>1, <1>4 DEF Unmoved, Return, TypeOK
  <2> QED
    BY <1>1, <1>2, <1>4, <2>1, StackKept
<1> QED
  BY <1>3, <1>4 DEF EndOfFile

LEMMA ValidateKeeps ==
  ASSUME WebmInv, Validate
  PROVE  WebmInv'
<1>1. /\ Top.parser \in Masters /\ Top.state = "validate"
      /\ UNCHANGED << file, position, didSeek, events, start >>
  BY DEF Validate
<1>2. /\ TypeOK /\ Top \in ParserRecords /\ ~Top.cached /\ Top.parser \in Composite
      /\ AtHeader(Top) /\ Depth \in Nat \ {0}
  BY <1>1, TopFacts DEF Composite, IsMaster
<1>3. Held(Top)
  BY <1>1, <1>2 DEF AtHeader
<1>4. /\ Top.total \in Nat /\ Top.cap \in Nat \cup {Unknown}
      /\ Top.child.size \in Nat \cup {Unknown}
  BY <1>2, RecordFacts DEF Sizes, Headers
<1>5. ~didSeek /\ didSeek' \in BOOLEAN
  <2>1. Depth > 1
    BY <1>1, <1>2, ParserNames DEF WebmInv, ChainInv, Top
  <2> QED
    BY <1>1, <1>2, <2>1 DEF WebmInv, SeekInv, Top, TypeOK
<1>6. PositionsTrue' /\ events' \in Seq(Told)
  BY <1>1, <1>2, EventsKept DEF WebmInv
<1>7. CASE \E s \in {"overflow", "indefinite"} : Return(s) /\ UNCHANGED stack
  <2>1. Unmoved
    BY <1>1, <1>2, <1>7 DEF Unmoved, Return, TypeOK, Errors
  <2> QED
    BY <1>1, <1>6, <1>7, <2>1, StackKept
<1>8. CASE /\ ~Overflows /\ ~Known
           /\ SetTop([Top EXCEPT !.state = "end", !.cached = TRUE])
           /\ UNCHANGED << pc, status >>
  <2> DEFINE u == [Top EXCEPT !.state = "end", !.cached = TRUE]
  <2>1. /\ u \in ParserRecords /\ Kept(u, Top) /\ u.total = Top.total /\ u.state = "end"
        /\ u.cached /\ u.child = Top.child
    BY <1>2 DEF ParserRecords, Kept, States
  <2>2. SetTop(u)
    BY <1>8
  <2> HIDE DEF u
  <2>3. AtHeader(u)
    BY <1>3, <2>1 DEF AtHeader, Held, Kept
  <2>4. Cached(u)
    BY <1>1, <1>8, <2>1 DEF Cached, Known, Kept
  <2>5. Fits(u)
    BY <1>4, <1>8, <2>1 DEF Fits, Overflows, Kept, Unknown
  <2>6. TopInv(u)
    BY <1>2, <2>1, <2>3, <2>4, <2>5 DEF TopInv, Kept
  <2> QED
    BY <1>1, <1>5, <1>6, <1>8, <2>1, <2>2, <2>6, SetTopStep
<1>9. CASE /\ ~Overflows /\ SetTop([Top EXCEPT !.state = "action"])
           /\ UNCHANGED << pc, status >>
  <2> DEFINE u == [Top EXCEPT !.state = "action"]
  <2>1. /\ u \in ParserRecords /\ Kept(u, Top) /\ u.total = Top.total /\ u.state = "action"
        /\ ~u.cached /\ u.child = Top.child
    BY <1>2 DEF ParserRecords, Kept, States
  <2>2. SetTop(u)
    BY <1>9
  <2> HIDE DEF u
  <2>3. AtHeader(u)
    BY <1>3, <2>1 DEF AtHeader, Held, Kept
  <2>4. Fits(u)
    BY <1>4, <1>9, <2>1 DEF Fits, Overflows, Kept, Unknown
  <2>5. TopInv(u)
    BY <1>2, <2>1, <2>3, <2>4 DEF TopInv, Kept, Cached
  <2> QED
    BY <1>1, <1>5, <1>6, <1>9, <2>1, <2>2, <2>5, SetTopStep
<1> QED
  BY <1>7, <1>8, <1>9 DEF Validate

-----------------------------------------------------------------------------
(* A child of the document.                                                 *)

\* The elements around one that is sought: parsers that know no position, the
\* innermost with the child's header.
LEMMA SurroundFacts ==
  ASSUME NEW child \in Headers, Ancestors(child.id) # << >>
  PROVE  LET n == Len(Ancestors(child.id))
             s == Surround(child)
         IN  /\ n \in 1 .. 3 /\ s \in Seq(ParserRecords) /\ Len(s) = n
             /\ s[1].parser = "Segment"
             /\ \A k \in 1 .. n :
                  /\ s[k].parser \in Masters /\ s[k].size = Unknown /\ s[k].pos = 0
                  /\ s[k].cap = Unknown /\ ~s[k].cached /\ s[k].total = 0
                  /\ s[k].state = IF k = n THEN "action" ELSE "body"
             /\ s[n].child = child
<1> DEFINE around == Ancestors(child.id)
           n      == Len(around)
           At(k)  == [ id |-> around[k], size |-> Unknown, header |-> 0, pos |-> 0 ]
           NextOf(k) == IF k = n THEN child ELSE At(k + 1)
           r(k)   == [NewParser(around[k], At(k), Unknown) EXCEPT
                        !.begun = TRUE, !.child = NextOf(k),
                        !.state = IF k = n THEN "action" ELSE "body"]
<1>1. n \in 1 .. 3 /\ around[1] = "Segment" /\ \A k \in 1 .. n : around[k] \in Masters
  BY DEF Ancestors, Masters
<1> HIDE DEF around, n
<1>2. ASSUME NEW k \in 1 .. n
      PROVE  /\ r(k) \in ParserRecords /\ r(k).parser = around[k]
             /\ r(k).size = Unknown /\ r(k).pos = 0 /\ r(k).cap = Unknown
             /\ ~r(k).cached /\ r(k).total = 0 /\ r(k).child = NextOf(k)
             /\ r(k).state = IF k = n THEN "action" ELSE "body"
  <2>1. At(k) \in Headers /\ NextOf(k) \in Headers
    BY <1>1 DEF Headers, Ids, Sizes
  <2>2. around[k] \in Parsers
    BY <1>1, ParserNames DEF Ids, Masters, Parsers
  <2>3. NoChild \in Headers
    BY DEF NoChild, Headers, Ids, Sizes
  <2> DEFINE np == NewParser(around[k], At(k), Unknown)
  <2>4. /\ np \in ParserRecords /\ np.parser = around[k] /\ np.size = Unknown
        /\ np.pos = 0 /\ np.cap = Unknown /\ ~np.cached /\ np.total = 0
    BY <2>2, <2>3 DEF NewParser, ParserRecords, Sizes, States, Unknown
  <2>5. r(k) = [np EXCEPT !.begun = TRUE, !.child = NextOf(k),
                          !.state = IF k = n THEN "action" ELSE "body"]
    OBVIOUS
  <2> HIDE DEF NextOf, np, r
  <2>6. (IF k = n THEN "action" ELSE "body") \in States
    BY DEF States
  <2>7. r(k) \in ParserRecords
    BY <2>1, <2>4, <2>5, <2>6 DEF ParserRecords
  <2> QED
    BY <2>4, <2>5, <2>7
<1>3. Surround(child) = [k \in 1 .. n |-> r(k)]
  BY DEF Surround, around, n
<1> HIDE DEF r, NextOf, At
<1>4. /\ Surround(child) \in Seq(ParserRecords) /\ Len(Surround(child)) = n
      /\ \A k \in 1 .. n : Surround(child)[k] = r(k)
  BY <1>1, <1>2, <1>3
<1>5. n \in 1 .. n /\ 1 \in 1 .. n
  BY <1>1
<1>6. r(n).child = child /\ r(1).parser = "Segment"
  BY <1>1, <1>2, <1>5 DEF NextOf
<1>7. \A k \in 1 .. n :
        /\ r(k).parser \in Masters /\ r(k).size = Unknown /\ r(k).pos = 0
        /\ r(k).cap = Unknown /\ ~r(k).cached /\ r(k).total = 0
        /\ r(k).state = IF k = n THEN "action" ELSE "body"
  BY <1>1, <1>2
<1> QED
  BY <1>1, <1>4, <1>5, <1>6, <1>7 DEF around, n

LEMMA ValidateDocumentKeeps ==
  ASSUME WebmInv, ValidateDocument
  PROVE  WebmInv'
<1> DEFINE child == Top.child
           known == child.id \in {"Segment", "Ebml"}
<1>1. /\ Top.parser = "Document" /\ Top.state = "validate"
      /\ UNCHANGED << file, position, events, start >>
  BY DEF ValidateDocument
<1>2. /\ TypeOK /\ Top \in ParserRecords /\ ~Top.cached /\ Top.parser \in Composite
      /\ AtHeader(Top) /\ Depth \in Nat \ {0} /\ position \in Nat /\ didSeek \in BOOLEAN
  BY <1>1, TopFacts, StackFacts DEF Composite, IsMaster, TypeOK
<1>3. Held(Top)
  BY <1>1, <1>2 DEF AtHeader
<1>4. child \in Headers
  BY <1>2, RecordFacts
<1>5. Depth = 1 /\ Top.cap = Unknown /\ stack[1] = Top
  BY <1>1, <1>2 DEF WebmInv, ChainInv, Top
<1>6. PositionsTrue' /\ events' \in Seq(Told)
  BY <1>1, <1>2, EventsKept DEF WebmInv
<1>7. didSeek => child.pos = position - HeaderSize
  BY <1>1, <1>5 DEF WebmInv, SeekInv, InTime
<1>8. CASE /\ SetTop([Top EXCEPT !.state = "action"]) /\ UNCHANGED << pc, status >>
           /\ didSeek' \in BOOLEAN /\ (didSeek' => didSeek /\ ~known)
  <2> DEFINE u == [Top EXCEPT !.state = "action"]
  <2>1. /\ u \in ParserRecords /\ Kept(u, Top) /\ u.total = Top.total /\ u.state = "action"
        /\ ~u.cached /\ u.child = Top.child
    BY <1>2 DEF ParserRecords, Kept, States
  <2>2. SetTop(u)
    BY <1>8
  <2> HIDE DEF u
  <2>3. AtHeader(u)
    BY <1>3, <2>1 DEF AtHeader, Held, Kept
  <2>4. TopInv(u)
    BY <1>2, <1>5, <2>1, <2>3 DEF TopInv, Kept, Cached, Fits
  <2>5. didSeek' => didSeek /\ InTime(u)
    BY <1>7, <1>8, <2>1 DEF InTime
  <2> QED
    BY <1>1, <1>6, <1>8, <2>1, <2>2, <2>4, <2>5, SetTopStep
<1>9. CASE /\ ~didSeek' /\ didSeek /\ Ancestors(child.id) # << >>
           /\ stack' = << [Top EXCEPT !.state = "body", !.skip = FALSE] >> \o Surround(child)
           /\ UNCHANGED << pc, status >> /\ didSeek' = FALSE
  <2> DEFINE b == [Top EXCEPT !.state = "body", !.skip = FALSE]
             n == Len(Ancestors(child.id))
             s == Surround(child)
  <2>1. /\ b \in ParserRecords /\ b.parser = "Document" /\ b.cap = Unknown
        /\ b.state = "body" /\ ~b.cached
    BY <1>1, <1>2, <1>5 DEF ParserRecords, States
  <2>2. /\ n \in 1 .. 3 /\ s \in Seq(ParserRecords) /\ Len(s) = n
        /\ s[1].parser = "Segment"
        /\ \A k \in 1 .. n :
             /\ s[k].parser \in Masters /\ s[k].size = Unknown /\ s[k].pos = 0
             /\ s[k].cap = Unknown /\ ~s[k].cached /\ s[k].total = 0
             /\ s[k].state = IF k = n THEN "action" ELSE "body"
        /\ s[n].child = child
    BY <1>4, <1>9, SurroundFacts
  <2>3. stack' = << b >> \o s
    BY <1>9
  <2> HIDE DEF b, s, n
  <2>4. /\ stack' \in Seq(ParserRecords) /\ Len(stack') = n + 1 /\ stack'[1] = b
        /\ \A k \in 2 .. n + 1 : k - 1 \in 1 .. n /\ stack'[k] = s[k - 1]
    BY <2>1, <2>2, <2>3
  <2>5. Depth' = n + 1 /\ Top' = s[n]
    BY <2>2, <2>4 DEF Depth, Top
  <2>6. TypeOK'
    <3>1. stack' # << >>
      BY <2>2, <2>4
    <3> QED
      BY <1>1, <1>2, <1>6, <1>9, <2>4, <3>1 DEF TypeOK
  <2>7. \A k \in 2 .. n + 1 :
          /\ stack'[k].parser \in Masters /\ stack'[k].size = Unknown /\ stack'[k].pos = 0
          /\ stack'[k].cap = Unknown /\ ~stack'[k].cached
          /\ stack'[k].state = IF k = n + 1 THEN "action" ELSE "body"
    BY <2>2, <2>4
  <2>8. ChainInv'
    <3>1. \A k \in 1 .. n + 1 : (stack'[k].parser = "Document") = (k = 1)
      BY <2>1, <2>2, <2>4, <2>7, ParserNames
    <3>2. \A k \in 1 .. n :
            stack'[k].parser \in Composite /\ stack'[k].state = "body" /\ ~stack'[k].cached
      BY <2>1, <2>2, <2>4, <2>7 DEF Composite
    <3>3. stack'[2].parser = "Segment"
      BY <2>2, <2>4
    <3> QED
      BY <2>1, <2>2, <2>4, <2>5, <3>1, <3>2, <3>3 DEF ChainInv
  <2>9. AnchorInv'
    BY <2>5, <2>7 DEF AnchorInv, Anchored
  <2>10. TopInv(Top)'
    <3>1. Top'.parser \in Masters /\ Top'.state = "action" /\ ~Top'.cached
          /\ Top'.cap = Unknown /\ Top'.child = child
      BY <2>2, <2>5
    <3>2. Held(Top)'
      BY <1>1, <1>3, <1>7, <1>9, <3>1 DEF Held, IsElement
    <3> QED
      BY <3>1, <3>2 DEF TopInv, AtHeader, Cached, Fits, Composite
  <2>11. CapInv'
    <3>1. \A k \in 1 .. n + 1 : stack'[k].cap = Unknown
      BY <2>1, <2>2, <2>4, <2>7
    <3>2. \A k \in 1 .. n + 1 : \A j \in 1 .. k : j \in 1 .. n + 1
      BY <2>2
    <3> QED
      BY <2>5, <3>1, <3>2 DEF CapInv, Within
  <2>12. SeekInv'
    BY <1>9 DEF SeekInv
  <2> QED
    BY <1>6, <2>6, <2>8, <2>9, <2>10, <2>11, <2>12 DEF WebmInv
<1>10. CASE Return("indefinite") /\ UNCHANGED << stack, didSeek >>
  <2>1. Unmoved
    BY <1>1, <1>2, <1>6, <1>10 DEF Unmoved, Return, TypeOK, Errors
  <2> QED
    BY <1>1, <1>6, <1>10, <2>1, StackKept
<1> DEFINE inside == didSeek /\ Ancestors(child.id) # << >>
<1>11. CASE /\ known /\ didSeek' = FALSE
            /\ SetTop([Top EXCEPT !.state = "action"]) /\ UNCHANGED << pc, status >>
  BY <1>8, <1>11
<1>12. CASE /\ ~known /\ SetTop([Top EXCEPT !.state = "action"])
            /\ UNCHANGED << pc, status, didSeek >>
  BY <1>2, <1>8, <1>12
<1>13. CASE /\ inside /\ didSeek' = FALSE
            /\ stack' = << [Top EXCEPT !.state = "body", !.skip = FALSE] >> \o Surround(child)
            /\ UNCHANGED << pc, status >>
  BY <1>9, <1>13
<1> QED
  BY <1>10, <1>11, <1>12, <1>13 DEF ValidateDocument

-----------------------------------------------------------------------------
(* An element begins.                                                       *)

\* What the child's parser is, and that it may have it.
LEMMA ParserForFacts ==
  ASSUME WebmInv, IsMaster, Top.state = "action", NEW skip \in BOOLEAN
  PROVE  LET child  == Top.child
             parser == ParserFor(child.id, skip, child.size)
             p      == position - HeaderSize
         IN  /\ parser \in Parsers \ {"Document"}
             /\ parser \in {file.hdr[p].id, "Unknown", "Skip"}
             /\ parser \in Masters => parser = file.hdr[p].id
             /\ parser \in Masters /\ Depth = 1 => parser = "Segment" /\ child.id = "Segment"
             /\ ~InitFails(parser, child.size) /\ parser \notin Masters
                  => child.size # Unknown
<1> DEFINE child  == Top.child
           parser == ParserFor(child.id, skip, child.size)
           p      == position - HeaderSize
<1>1. TypeOK /\ Held(Top)
  BY TopFacts DEF AtHeader
<1>2. child.id = file.hdr[p].id /\ child.id \in Ids \ {"None"}
  BY <1>1, NamesHeld DEF Held
<1> HIDE DEF child, p
<1>3. /\ parser \in {child.id, "Unknown", "Skip"}
      /\ parser \notin {"Unknown", "Skip"} => child.id \in Children(Top.parser)
  BY DEF ParserFor
<1>4. Depth = 1 => Top.parser = "Document"
  BY TopFacts DEF WebmInv, ChainInv, Top
<1>5. Children("Document") = {"Ebml", "Segment", "Void"}
  BY DEF Children
<1>6. "Foreign" \notin Children(Top.parser)
  BY TopFacts DEF Children, Composite, Masters
<1>7. ~InitFails(parser, child.size) /\ parser \notin Masters => child.size # Unknown
  BY DEF InitFails
<1> HIDE DEF parser
<1>8. parser \in Parsers \ {"Document"}
  BY <1>2, <1>3, <1>6, ParserNames DEF Parsers, Ids
<1>9. parser \in Masters => parser = child.id /\ child.id \in Children(Top.parser)
  BY <1>3, ParserNames
<1>10. parser \in Masters /\ Depth = 1 => parser = "Segment"
  BY <1>4, <1>5, <1>9 DEF Masters
<1> QED
  BY <1>2, <1>3, <1>7, <1>8, <1>9, <1>10 DEF parser, child, p

\* A parser is put on the stack; the one below it waits in its child's body.
Pushes(b, u) ==
  /\ stack' \in Seq(ParserRecords) /\ Len(stack') = Depth + 1
  /\ stack'[Depth + 1] = u /\ stack'[Depth] = b
  /\ \A k \in 1 .. Depth - 1 : stack'[k] = stack[k]

LEMMA AppendBehind ==
  ASSUME NEW S, NEW q \in Seq(S), Len(q) # 0, NEW b \in S, NEW u \in S
  PROVE  LET n == Len(q)
             r == Append([q EXCEPT ![n] = b], u)
         IN  /\ r \in Seq(S) /\ Len(r) = n + 1 /\ r[n + 1] = u /\ r[n] = b
             /\ \A k \in 1 .. n - 1 : r[k] = q[k]
<1> DEFINE n == Len(q)
           s == [q EXCEPT ![n] = b]
<1>1. n \in 1 .. Len(q)
  OBVIOUS
<1>2. /\ s \in Seq(S) /\ Len(s) = n
      /\ \A k \in 1 .. n : s[k] = IF k = n THEN b ELSE q[k]
  BY <1>1, ExceptSeq
<1> HIDE DEF s
<1>3. /\ Append(s, u) \in Seq(S) /\ Len(Append(s, u)) = n + 1
      /\ Append(s, u)[n + 1] = u /\ \A k \in 1 .. n : Append(s, u)[k] = s[k]
  BY <1>2, AppendProperties
<1>4. Append(s, u)[n] = b /\ \A k \in 1 .. n - 1 : Append(s, u)[k] = q[k]
  BY <1>1, <1>2, <1>3
<1> QED
  BY <1>3, <1>4 DEF s

LEMMA PushFacts ==
  ASSUME TypeOK, NEW skip \in BOOLEAN, NEW u \in ParserRecords,
         stack' = Append([stack EXCEPT ![Depth].state = "body", ![Depth].skip = skip], u)
  PROVE  \E b \in ParserRecords :
           /\ Pushes(b, u) /\ Kept(b, Top) /\ b.total = Top.total
           /\ b.state = "body" /\ b.child = Top.child /\ b.cached = Top.cached
<1> DEFINE b == [Top EXCEPT !.state = "body", !.skip = skip]
<1>1. /\ b \in ParserRecords /\ Kept(b, Top) /\ b.total = Top.total
      /\ b.state = "body" /\ b.child = Top.child /\ b.cached = Top.cached
  BY StackFacts DEF ParserRecords, Kept, States
<1>2. stack \in Seq(ParserRecords) /\ Depth = Len(stack) /\ Depth \in Nat \ {0}
  BY StackFacts DEF TypeOK, Depth
<1>3. [stack EXCEPT ![Depth].state = "body", ![Depth].skip = skip] = [stack EXCEPT ![Depth] = b]
  BY <1>2 DEF Top
<1> HIDE DEF b
<1>4. stack' = Append([stack EXCEPT ![Depth] = b], u)
  BY <1>3
<1> DEFINE n == Len(stack)
           r == Append([stack EXCEPT ![n] = b], u)
<1>5. /\ r \in Seq(ParserRecords) /\ Len(r) = n + 1 /\ r[n + 1] = u /\ r[n] = b
      /\ \A k \in 1 .. n - 1 : r[k] = stack[k]
  BY <1>1, <1>2, AppendBehind
<1>6. stack' = r
  BY <1>2, <1>4
<1> HIDE DEF r
<1>7. Pushes(b, u)
  BY <1>2, <1>5, <1>6 DEF Pushes
<1> QED
  BY <1>1, <1>7

\* A child's parser, as it is made.
LEMMA NewParserFacts ==
  ASSUME NEW parser \in Parsers, NEW child \in Headers, NEW cap \in Sizes
  PROVE  LET u == NewParser(parser, child, cap)
         IN  /\ u \in ParserRecords /\ u.parser = parser /\ u.size = child.size
             /\ u.header = child.header /\ u.pos = child.pos /\ ~u.cached
             /\ u.total = 0 /\ u.left = child.size
             /\ u.state = IF child.size = 0 THEN "end" ELSE "firstId"
             /\ u.cap = IF child.size = Unknown THEN cap ELSE child.size
<1>1. NoChild \in Headers
  BY DEF NoChild, Headers, Ids, Sizes
<1> QED
  BY <1>1 DEF NewParser, ParserRecords, Headers, States

LEMMA WithinTransitive ==
  ASSUME NEW u \in ParserRecords, NEW b \in ParserRecords, NEW t \in ParserRecords,
         Within(u, b), Within(b, t)
  PROVE  Within(u, t)
<1>1. /\ u.total \in Nat /\ b.total \in Nat /\ t.total \in Nat
      /\ u.cap \in Nat \cup {Unknown} /\ b.cap \in Nat \cup {Unknown}
      /\ t.cap \in Nat \cup {Unknown}
  BY RecordFacts DEF Sizes
<1> QED
  BY <1>1 DEF Within, Unknown

\* What is below a new parser stays; u keeps the rest of the invariant.
LEMMA PushStep ==
  ASSUME WebmInv, NEW b \in ParserRecords, NEW u \in ParserRecords, Pushes(b, u),
         Kept(b, Top), b.total = Top.total, b.state = "body", ~b.cached,
         Top.parser \in Composite, UNCHANGED << file, position, pc, status, didSeek, start >>,
         PositionsTrue', events' \in Seq(Told),
         u.parser # "Document", Depth = 1 /\ u.parser \in Masters => u.parser = "Segment",
         Anchored(u, Depth + 1), TopInv(u), Within(u, Top),
         didSeek => Depth = 1 /\ u.parser \notin Masters
  PROVE  WebmInv'
<1>1. /\ TypeOK /\ Depth \in Nat \ {0} /\ Depth' = Depth + 1 /\ Top' = u
      /\ position \in Nat
  BY StackFacts DEF WebmInv, Pushes, Depth, Top
<1>2. /\ stack'[Depth + 1] = u /\ stack'[Depth] = b
      /\ \A k \in 1 .. Depth - 1 : stack'[k] = stack[k]
  BY DEF Pushes
<1>3. \A k \in 1 .. Depth : Kept(stack'[k], stack[k]) /\ stack'[k].total = stack[k].total
  <2> SUFFICES ASSUME NEW k \in 1 .. Depth
               PROVE  Kept(stack'[k], stack[k]) /\ stack'[k].total = stack[k].total
    OBVIOUS
  <2>1. CASE k = Depth
    BY <1>2, <2>1 DEF Top
  <2>2. CASE k # Depth
    BY <1>1, <1>2, <2>2 DEF Kept
  <2> QED
    BY <2>1, <2>2
<1>4. TypeOK'
  <2>1. stack' # << >> /\ stack' \in Seq(ParserRecords)
    BY <1>1 DEF Depth, Pushes
  <2> QED
    BY <1>1, <2>1 DEF TypeOK
<1>5. ChainInv'
  <2>1. stack'[1].cap = Unknown
    BY <1>1, <1>3 DEF Kept, WebmInv, ChainInv
  <2>2. \A k \in 1 .. Depth + 1 : (stack'[k].parser = "Document") = (k = 1)
    <3> SUFFICES ASSUME NEW k \in 1 .. Depth + 1
                 PROVE  (stack'[k].parser = "Document") = (k = 1)
      OBVIOUS
    <3>1. CASE k = Depth + 1
      BY <1>1, <1>2, <3>1
    <3>2. CASE k # Depth + 1
      BY <1>1, <1>3, <3>2 DEF Kept, WebmInv, ChainInv
    <3> QED
      BY <3>1, <3>2
  <2>3. ASSUME NEW k \in 1 .. Depth
        PROVE  stack'[k].parser \in Composite /\ stack'[k].state = "body" /\ ~stack'[k].cached
    <3>1. CASE k = Depth
      BY <1>2, <3>1 DEF Kept
    <3>2. CASE k # Depth
      BY <1>1, <1>2, <3>2 DEF WebmInv, ChainInv
    <3> QED
      BY <3>1, <3>2
  <2>4. stack'[2].parser \in Masters => stack'[2].parser = "Segment"
    <3>1. CASE Depth = 1
      BY <1>2, <3>1
    <3>2. CASE Depth # 1
      BY <1>1, <1>3, <3>2 DEF Kept, WebmInv, ChainInv
    <3> QED
      BY <3>1, <3>2
  <2> QED
    BY <1>1, <2>1, <2>2, <2>3, <2>4 DEF ChainInv
<1>6. AnchorInv'
  <2> SUFFICES ASSUME NEW k \in 2 .. Depth + 1
               PROVE  Anchored(stack[k], k)'
    BY <1>1 DEF AnchorInv
  <2>1. CASE k = Depth + 1
    BY <1>1, <1>2, <2>1 DEF Anchored, IsElement, IsLate, Origin
  <2>2. CASE k # Depth + 1
    <3>1. Anchored(stack[k], k) /\ Kept(stack'[k], stack[k]) /\ stack'[k].total = stack[k].total
      BY <1>1, <1>3, <2>2 DEF WebmInv, AnchorInv
    <3> QED
      BY <3>1 DEF Anchored, IsElement, IsLate, Origin, Kept
  <2> QED
    BY <2>1, <2>2
<1>7. CapInv'
  <2> SUFFICES ASSUME NEW k \in 1 .. Depth + 1, NEW j \in 1 .. k
               PROVE  Within(stack'[k], stack'[j])
    BY <1>1 DEF CapInv, Within
  <2>1. ASSUME NEW i \in 1 .. Depth, NEW h \in 1 .. i
        PROVE  Within(stack'[i], stack'[h])
    <3>1. Within(stack[i], stack[h]) /\ h \in 1 .. Depth
      BY <1>1 DEF WebmInv, CapInv
    <3>2. /\ stack'[i].cap = stack[i].cap /\ stack'[i].total = stack[i].total
          /\ stack'[h].cap = stack[h].cap /\ stack'[h].total = stack[h].total
      BY <1>3, <3>1 DEF Kept
    <3> QED
      BY <3>1, <3>2 DEF Within
  <2>2. CASE k # Depth + 1
    BY <1>1, <2>1, <2>2
  <2>3. CASE k = Depth + 1 /\ j = Depth + 1
    <3>1. u.cap - u.total <= u.cap - u.total \/ u.cap = Unknown
      BY RecordFacts DEF Sizes
    <3> QED
      BY <1>2, <2>3, <3>1 DEF Within
  <2>4. CASE k = Depth + 1 /\ j # Depth + 1
    <3>1. j \in 1 .. Depth /\ Depth \in 1 .. Depth
      BY <1>1, <2>4
    <3>2. Within(stack'[Depth], stack'[j]) /\ stack'[j] \in ParserRecords
      BY <1>1, <2>1, <3>1 DEF Pushes
    <3>3. Within(u, b)
      BY DEF Within, Kept
    <3>4. Within(b, stack'[j])
      BY <1>2, <3>2
    <3>5. Within(u, stack'[j])
      BY <3>2, <3>3, <3>4, WithinTransitive
    <3> QED
      BY <1>2, <2>4, <3>5
  <2> QED
    BY <1>1, <2>2, <2>3, <2>4
<1>8. SeekInv'
  <2> SUFFICES ASSUME didSeek'
               PROVE  /\ \A k \in 2 .. Depth + 1 : stack'[k].parser \notin Masters
                      /\ Depth + 1 = 1 => InTime(Top)'
    BY <1>1 DEF SeekInv, InTime, Top
  <2>1. Depth = 1 /\ u.parser \notin Masters
    OBVIOUS
  <2> QED
    BY <1>2, <2>1
<1>9. TopInv(Top)'
  BY <1>1 DEF TopInv, AtHeader, Partial, Held, IsElement, IsLate, Cached, Leaf, Fits
<1> QED
  BY <1>4, <1>5, <1>6, <1>7, <1>8, <1>9 DEF WebmInv

LEMMA BeginElementKeeps ==
  ASSUME WebmInv, BeginElement
  PROVE  WebmInv'
<1> DEFINE child  == Top.child
           event  == << "Element", child.id, child.pos >>
           called == Called(event, Depth)
           skip   == called.skip
           parser == ParserFor(child.id, skip, child.size)
           cap    == IF Top.cap = Unknown THEN Unknown ELSE Top.cap - Top.total
           u      == NewParser(parser, child, cap)
           p      == position - HeaderSize
<1>1. /\ IsMaster /\ Top.state = "action" /\ events' = called.events
      /\ UNCHANGED << file, position, didSeek, start >>
  BY DEF BeginElement
<1>2. /\ TypeOK /\ Top \in ParserRecords /\ ~Top.cached /\ Top.parser \in Composite
      /\ AtHeader(Top) /\ Fits(Top) /\ Depth \in Nat \ {0} /\ position \in Nat
  BY <1>1, TopFacts, StackFacts DEF TopInv
<1>3. Held(Top)
  BY <1>1, <1>2 DEF AtHeader
<1>4. /\ child \in Headers /\ child.size \in Nat \cup {Unknown}
      /\ Top.total \in Nat /\ Top.cap \in Nat \cup {Unknown}
  BY <1>2, RecordFacts DEF Headers, Sizes
<1>5. /\ IsElement(p) /\ child.id = file.hdr[p].id /\ child.size = file.hdr[p].size
      /\ child.header = HeaderSize /\ p \in Nat \ {0}
      /\ \/ child.pos = p
         \/ /\ Top.parser = "Document" /\ child.pos = p + HeaderSize
            /\ IsLate(child.pos)
  BY <1>2, <1>3, ElementFacts DEF Held
<1>6. PositionsTrue' /\ events' \in Seq(Told)
  <2>1. Names(child.pos, child.id) /\ child.id \in Ids /\ child.pos \in Nat
    BY <1>2, <1>3, NamesHeld
  <2>2. event \in Told /\ event[3] = child.pos /\ event[2] = child.id
    BY <2>1 DEF Told
  <2> HIDE DEF event
  <2> QED
    BY <1>1, <1>2, <2>1, <2>2, CalledKeeps DEF WebmInv
<1>7. skip \in BOOLEAN
  BY CalledSkip
<1>8. CASE Return("invalid") /\ UNCHANGED stack
  <2>1. Unmoved
    BY <1>1, <1>2, <1>6, <1>8 DEF Unmoved, Return, TypeOK, Errors
  <2> QED
    BY <1>1, <1>6, <1>8, <2>1, StackKept
<1>9. CASE /\ ~InitFails(parser, child.size) /\ UNCHANGED << pc, status >>
           /\ stack' = Append([stack EXCEPT ![Depth].state = "body",
                                            ![Depth].skip = called.skip], u)
  <2>1. /\ parser \in Parsers \ {"Document"} /\ parser \in {file.hdr[p].id, "Unknown", "Skip"}
        /\ parser \in Masters => parser = file.hdr[p].id
        /\ parser \in Masters /\ Depth = 1 => parser = "Segment" /\ child.id = "Segment"
        /\ parser \notin Masters => child.size # Unknown
    BY <1>1, <1>7, <1>9, ParserForFacts
  <2>2. cap \in Sizes /\ (Top.cap # Unknown => Top.total <= Top.cap)
        /\ (Top.cap # Unknown /\ child.size # Unknown => Top.total + child.size <= Top.cap)
    BY <1>1, <1>2, <1>4 DEF Fits, Sizes, Unknown
  <2> HIDE DEF parser, cap, child, p
  <2>3. /\ u \in ParserRecords /\ u.parser = parser /\ u.size = child.size
        /\ u.header = child.header /\ u.pos = child.pos /\ ~u.cached
        /\ u.total = 0 /\ u.left = child.size
        /\ u.state = IF child.size = 0 THEN "end" ELSE "firstId"
        /\ u.cap = IF child.size = Unknown THEN cap ELSE child.size
    BY <1>4, <2>1, <2>2, NewParserFacts
  <2>4. stack' = Append([stack EXCEPT ![Depth].state = "body", ![Depth].skip = skip], u)
    BY <1>9
  <2> HIDE DEF u, skip
  <2>5. PICK b \in ParserRecords :
           /\ Pushes(b, u) /\ Kept(b, Top) /\ b.total = Top.total
           /\ b.state = "body" /\ b.child = Top.child /\ b.cached = Top.cached
    BY <1>2, <1>7, <2>3, <2>4, PushFacts
  <2>6. Origin(u) = p
    BY <1>2, <2>3 DEF Origin, p, HeaderSize
  <2>7. Anchored(u, Depth + 1)
    <3>1. Top.parser = "Document" => Depth + 1 = 2
      BY <1>2 DEF WebmInv, ChainInv, Top
    <3>2. u.pos # 0
      BY <1>5, <2>3 DEF HeaderSize
    <3> QED
      BY <1>5, <2>1, <2>3, <2>6, <3>1, <3>2 DEF Anchored
  <2>8. TopInv(u)
    <3>1. CASE parser \in Masters
      <4>1. Begins(file, p + HeaderSize)
        BY <1>2, <1>5, <2>1, <3>1, ElementFacts
      <4>2. Begins(file, position)
        BY <1>2, <4>1 DEF p, HeaderSize
      <4>3. Fits(u)
        BY <1>4, <2>2, <2>3 DEF Fits, cap, Unknown
      <4> QED
        BY <2>3, <3>1, <4>2, <4>3 DEF TopInv, AtHeader, Cached, Composite
    <3>2. CASE parser \notin Masters
      <4>1. parser \notin Composite
        BY <2>1, <3>2 DEF Composite
      <4>2. Leaf(u) /\ Fits(u)
        BY <1>4, <2>1, <2>3, <3>2 DEF Leaf, Fits, Unknown
      <4> QED
        BY <2>3, <4>1, <4>2 DEF TopInv, Cached
    <3> QED
      BY <3>1, <3>2
  <2>9. Within(u, Top)
    BY <1>4, <2>2, <2>3 DEF Within, cap, Unknown
  <2>10. didSeek => Depth = 1 /\ u.parser \notin Masters
    <3> SUFFICES ASSUME didSeek PROVE Depth = 1 /\ u.parser \notin Masters
      OBVIOUS
    <3>1. Depth = 1
      BY <1>2 DEF WebmInv, SeekInv, ChainInv, Top, Composite
    <3> QED
      BY <1>1, <2>1, <2>3, <3>1 DEF WebmInv, SeekInv, InTime, child
  <2> QED
    BY <1>1, <1>2, <1>6, <1>9, <2>1, <2>3, <2>5, <2>7, <2>8, <2>9, <2>10, PushStep
<1> QED
  BY <1>8, <1>9 DEF BeginElement

\* A step of the innermost parser t that leaves what it knows.
LEMMA SameTop ==
  ASSUME NEW u, NEW t, Same(u, t), u.total = t.total, TopInv(t)
  PROVE  TopInv(u) /\ (InTime(t) => InTime(u))
BY DEF Same, Kept, TopInv, AtHeader, Partial, Held, Cached, Leaf, Fits, InTime

\* A block, or its group, begins the Cluster that holds it.
LEMMA BeginClusterKeeps ==
  ASSUME WebmInv, BeginCluster
  PROVE  WebmInv'
<1> DEFINE event  == << "Begin", "Cluster", Parent.pos >>
           skip   == Called(event, Depth).skip
           b      == [Parent EXCEPT !.begun = TRUE, !.own = skip]
<1>1. /\ Top.parser \in {"SimpleBlock", "BlockGroup"} /\ Parent.parser = "Cluster"
      /\ events' = Called(event, Depth).events
      /\ stack' = [stack EXCEPT ![Depth - 1].begun = TRUE, ![Depth - 1].own = skip]
      /\ UNCHANGED << file, position, pc, status, didSeek, start >>
  BY DEF BeginCluster, AtClusterStart
<1>2. /\ TypeOK /\ Depth \in Nat \ {0} /\ TopInv(Top) /\ position \in Nat
  BY TopFacts, StackFacts
<1>3. Depth \in Nat \ {0, 1, 2}
  <2>1. Top = stack[1] => Top.parser = "Document"
    BY <1>2 DEF WebmInv, ChainInv
  <2>2. Parent = stack[1] => Parent.parser = "Document"
    BY <1>2 DEF WebmInv, ChainInv
  <2>3. Depth # 1
    BY <1>1, <2>1 DEF Top
  <2>4. Depth # 2
    BY <1>1, <2>2 DEF Parent
  <2> QED
    BY <1>2, <2>3, <2>4
<1>4. /\ stack \in Seq(ParserRecords) /\ Depth - 1 \in 1 .. Len(stack) /\ Depth = Len(stack)
      /\ Parent \in ParserRecords
  <2>1. stack \in Seq(ParserRecords) /\ Depth = Len(stack)
    BY <1>2 DEF TypeOK, Depth
  <2>2. Depth - 1 \in 1 .. Depth
    BY <1>3
  <2> QED
    BY <1>2, <2>1, <2>2, StackFacts DEF Parent
<1>5. PositionsTrue' /\ events' \in Seq(Told)
  <2>1. Parent.pos # 0 => Names(Parent.pos, "Cluster")
    BY <1>1, <1>2, <1>3, NamesOwn DEF Parent, WebmInv, Masters
  <2>2. Parent.pos \in Nat /\ "Cluster" \in Ids
    BY <1>4, RecordFacts DEF Ids, Masters
  <2>3. event \in Told /\ event[3] = Parent.pos /\ event[2] = "Cluster"
    BY <2>2 DEF Told
  <2> HIDE DEF event
  <2> QED
    BY <1>1, <1>2, <2>1, <2>3, CalledKeeps DEF WebmInv
<1>5a. skip \in BOOLEAN
  BY CalledSkip
<1> HIDE DEF skip
<1>6. b \in ParserRecords /\ Same(b, Parent) /\ b.total = Parent.total
  BY <1>4, <1>5a DEF ParserRecords, Same, Kept
<1>7. stack' = [stack EXCEPT ![Depth - 1] = b]
  BY <1>1, <1>4 DEF Parent
<1> HIDE DEF b
<1>8. /\ stack' \in Seq(ParserRecords) /\ Len(stack') = Depth
      /\ \A k \in 1 .. Depth : stack'[k] = IF k = Depth - 1 THEN b ELSE stack[k]
  BY <1>4, <1>6, <1>7, ExceptSeq
<1>9. Depth' = Depth /\ Top' = Top
  BY <1>3, <1>8 DEF Depth, Top
<1>10. \A k \in 1 .. Depth : Same(stack'[k], stack[k]) /\ stack'[k].total = stack[k].total
  <2> SUFFICES ASSUME NEW k \in 1 .. Depth
               PROVE  Same(stack'[k], stack[k]) /\ stack'[k].total = stack[k].total
    OBVIOUS
  <2>1. CASE k = Depth - 1
    BY <1>6, <1>8, <2>1 DEF Parent
  <2>2. CASE k # Depth - 1
    BY <1>8, <2>2 DEF Same, Kept
  <2> QED
    BY <2>1, <2>2
<1>11. Stays(0)
  <2>1. \A k \in 1 .. Depth : stack[k].total \in Nat
    BY <1>2, StackFacts, RecordFacts
  <2>2. position' = position + 0
    BY <1>1, <1>2
  <2>3. \A k \in 1 .. Depth : Kept(stack'[k], stack[k]) /\ stack'[k].total = stack[k].total + 0
    BY <1>10, <2>1 DEF Same
  <2>4. \A k \in 1 .. Depth - 1 : Same(stack'[k], stack[k])
    BY <1>2, <1>10
  <2> QED
    BY <1>1, <1>8, <2>2, <2>3, <2>4 DEF Stays
<1>12. TopInv(Top)' /\ (InTime(Top) => InTime(Top)')
  BY <1>1, <1>2, <1>9
     DEF TopInv, AtHeader, Partial, Held, IsElement, IsLate, Cached, Leaf, Fits, InTime
<1>13. Unmoved /\ position' \in 1 .. file.length /\ (didSeek' => didSeek)
  BY <1>1, <1>2, <1>5 DEF Unmoved, TypeOK
<1> QED
  BY <1>3, <1>5, <1>11, <1>12, <1>13, StaysStep

LEMMA BeginKeeps ==
  ASSUME WebmInv, Begin
  PROVE  WebmInv'
<1> DEFINE event  == << "Begin", Top.parser, Top.pos >>
           skip   == Called(event, Depth).skip
           u      == [Top EXCEPT !.begun = TRUE, !.own = skip]
<1>1. /\ AtBegin /\ events' = Called(event, Depth).events /\ SetTop(u)
      /\ UNCHANGED << file, position, pc, status, didSeek, start >>
  BY DEF Begin
<1>2. /\ TypeOK /\ Depth \in Nat \ {0} /\ TopInv(Top) /\ Top \in ParserRecords
      /\ didSeek \in BOOLEAN
  BY TopFacts DEF TypeOK
<1>3. Top.parser \in Masters \cup Blocks
  BY <1>1 DEF AtBegin, Masters
<1>4. Depth > 1
  BY <1>2, <1>3, ParserNames DEF WebmInv, ChainInv, Top, Blocks
<1>5. PositionsTrue' /\ events' \in Seq(Told)
  <2>1. Top.pos # 0 => Names(Top.pos, Top.parser)
    BY <1>2, <1>3, <1>4, NamesOwn DEF Top, WebmInv
  <2>2. Top.pos \in Nat /\ Top.parser \in Parsers
    BY <1>2, RecordFacts
  <2>3. event \in Told /\ event[3] = Top.pos /\ event[2] = Top.parser
    BY <2>2 DEF Told
  <2> HIDE DEF event
  <2> QED
    BY <1>1, <1>2, <2>1, <2>3, CalledKeeps DEF WebmInv
<1>6. skip \in BOOLEAN
  BY CalledSkip
<1> HIDE DEF skip
<1>7. u \in ParserRecords /\ Same(u, Top) /\ u.total = Top.total
  BY <1>2, <1>6 DEF ParserRecords, Same, Kept
<1> HIDE DEF u
<1>8. TopInv(u)
  BY <1>2, <1>7, SameTop
<1> QED
  BY <1>1, <1>2, <1>4, <1>5, <1>7, <1>8, SetTopStep DEF Same

LEMMA ReadBodyKeeps ==
  ASSUME WebmInv, ReadBody
  PROVE  WebmInv'
<1> DEFINE u == [Top EXCEPT !.left = @ - 1]
<1>1. /\ ~IsMaster /\ Top.left > 0 /\ position < file.length /\ Read(u)
      /\ UNCHANGED << file, pc, status, didSeek, events, start >>
  BY DEF ReadBody, AtBody
<1>2. /\ TypeOK /\ Top \in ParserRecords /\ Top.parser \notin Composite /\ Leaf(Top)
      /\ position \in Nat \ {0} /\ file.length \in Nat /\ Depth \in Nat \ {0}
  BY <1>1, TopFacts, StackFacts DEF TopInv
<1>3. /\ Top.total \in Nat /\ Top.left \in Nat \ {0} /\ Top.size \in Nat
      /\ Top.left = Top.size - Top.total
  BY <1>1, <1>2, RecordFacts DEF Leaf, Sizes, Unknown
<1>4. /\ u \in ParserRecords /\ Kept(u, Top) /\ u.total = Top.total /\ u.state = Top.state
      /\ u.cached = Top.cached /\ u.left = Top.left - 1
  BY <1>2, <1>3 DEF ParserRecords, Kept, Sizes
<1> HIDE DEF u
<1>5. Stays(1) /\ Same(Top', u) /\ Top'.total = u.total + 1 /\ Depth' = Depth
  BY <1>1, <1>2, <1>4, ReadStays
<1>6. /\ Top'.total = Top.total + 1 /\ Top'.left = Top.left - 1 /\ Top'.state = Top.state
      /\ Top'.cached = Top.cached /\ Kept(Top', Top)
  BY <1>4, <1>5 DEF Same, Kept
<1>7. Leaf(Top')
  BY <1>2, <1>3, <1>6 DEF Leaf, Kept
<1>8. TopInv(Top)'
  <2>1. Top'.cap = Top.size /\ Top'.total <= Top.size
    BY <1>2, <1>3, <1>6 DEF Leaf, Kept
  <2>2. Top'.state \in {"firstId", "end"} /\ ~Top'.cached
    BY <1>7 DEF Leaf
  <2>3. Fits(Top')
    BY <1>3, <1>6, <2>1, <2>2 DEF Fits
  <2> QED
    BY <1>2, <1>6, <1>7, <2>2, <2>3 DEF TopInv, Kept, Cached, Leaf, Fits
<1>9. Unmoved /\ PositionsTrue' /\ position' \in 1 .. file.length
  <2>1. PositionsTrue' /\ events' \in Seq(Told)
    BY <1>1, <1>2, EventsKept DEF WebmInv
  <2>2. position' = position + 1
    BY <1>5 DEF Stays
  <2> QED
    BY <1>1, <1>2, <2>1, <2>2 DEF Unmoved, TypeOK
<1>10. Depth # 1
  BY <1>2 DEF WebmInv, ChainInv, Top, Composite
<1> QED
  BY <1>1, <1>5, <1>8, <1>9, <1>10, StaysStep

LEMMA FrameKeeps ==
  ASSUME WebmInv, Frame
  PROVE  WebmInv'
<1> DEFINE event  == << "Frame", Top.parser, Top.pos >>
           u      == [Top EXCEPT !.framed = TRUE]
<1>1. /\ Top.parser \in Blocks /\ events' = Called(event, Depth).events /\ SetTop(u)
      /\ UNCHANGED << file, position, pc, status, didSeek, start >>
  BY DEF Frame, AtFrame
<1>2. /\ TypeOK /\ Depth \in Nat \ {0} /\ TopInv(Top) /\ Top \in ParserRecords
      /\ didSeek \in BOOLEAN
  BY TopFacts DEF TypeOK
<1>3. Depth > 1
  BY <1>1, <1>2 DEF WebmInv, ChainInv, Top, Blocks
<1>4. PositionsTrue' /\ events' \in Seq(Told)
  <2>1. Top.pos # 0 => Names(Top.pos, Top.parser)
    BY <1>1, <1>2, <1>3, NamesOwn DEF Top, WebmInv
  <2>2. Top.pos \in Nat /\ Top.parser \in Parsers
    BY <1>2, RecordFacts
  <2>3. event \in Told /\ event[3] = Top.pos /\ event[2] = Top.parser
    BY <2>2 DEF Told
  <2> HIDE DEF event
  <2> QED
    BY <1>1, <1>2, <2>1, <2>3, CalledKeeps DEF WebmInv
<1>5. u \in ParserRecords /\ Same(u, Top) /\ u.total = Top.total
  BY <1>2 DEF ParserRecords, Same, Kept
<1> HIDE DEF u
<1>6. TopInv(u)
  BY <1>2, <1>5, SameTop
<1> QED
  BY <1>1, <1>2, <1>3, <1>4, <1>5, <1>6, SetTopStep DEF Same

-----------------------------------------------------------------------------
(* An element ends.                                                         *)

\* Behind an element another one begins, or the file ends; an element that fills its
\* parent has read no header of the next, or that of an element without a body.
LEMMA EndBegins ==
  ASSUME WebmInv, AtEnd, Depth > 1, ~Top.cached \/ Filled(Parent)
  PROVE  Begins(file, position)
<1>1. /\ TypeOK /\ Depth \in Nat \ {0} /\ TopInv(Top) /\ Top \in ParserRecords
      /\ position \in Nat
  BY TopFacts, StackFacts
<1>2. CASE IsMaster /\ ~Top.cached
  BY <1>1, <1>2, TopFacts DEF AtEnd, AtHeader
<1>3. CASE IsMaster /\ Top.cached /\ Filled(Parent)
  <2> DEFINE p == position - HeaderSize
  <2>1. Held(Top) /\ Top.state = "end"
    BY <1>1, <1>3, TopFacts DEF AtHeader, AtEnd
  <2>2. IsElement(p) /\ Top.child.size = file.hdr[p].size
    BY <2>1 DEF Held
  <2>3. Parent \in ParserRecords /\ Within(Top, Parent)
    <3>1. Depth - 1 \in 1 .. Depth /\ Depth \in 1 .. Depth
      BY <1>1
    <3> QED
      BY <1>1, <3>1, StackFacts DEF WebmInv, CapInv, Top, Parent
  <2>4. /\ Parent.cap \in Nat /\ Parent.total = Parent.cap
        /\ Top.cap \in Nat \cup {Unknown} /\ Top.total \in Nat
        /\ Top.child.size \in Nat \cup {Unknown}
    BY <1>1, <1>3, <2>3, RecordFacts DEF Filled, Sizes, Headers
  <2>5. Top.cap \in Nat /\ Top.cap <= Top.total
    BY <2>3, <2>4 DEF Within, Unknown
  <2>6. Top.child.size \in {0, Unknown}
    BY <1>1, <1>3, <2>1, <2>4, <2>5 DEF TopInv, Fits, Unknown
  <2>7. Begins(file, p + HeaderSize)
    BY <1>1, <2>2, <2>6, ElementFacts DEF Unknown, HeaderSize
  <2> QED
    BY <1>1, <2>7 DEF HeaderSize
<1>4. CASE ~IsMaster
  <2> DEFINE p == Origin(Top)
  <2>1. Top.left = 0 /\ Top.parser \notin Composite /\ Leaf(Top)
    BY <1>1, <1>4, TopFacts DEF AtEnd, TopInv
  <2>2. Top.total \in Nat /\ Top.size \in Nat /\ Top.total = Top.size
    BY <1>1, <2>1, RecordFacts DEF Leaf, Sizes, Unknown
  <2>3. Anchored(Top, Depth)
    BY <1>1 DEF WebmInv, AnchorInv, Top
  <2>4. IsElement(p) /\ Top.size = file.hdr[p].size
    BY <2>1, <2>3 DEF Anchored, Composite
  <2>5. Begins(file, p + HeaderSize + Top.size)
    BY <1>1, <2>2, <2>4, ElementFacts DEF Unknown
  <2>6. p + HeaderSize + Top.size = position
    BY <1>1, <2>2 DEF Origin, HeaderSize
  <2> QED
    BY <2>5, <2>6
<1> QED
  BY <1>2, <1>3, <1>4

\* A parser leaves the stack: the one below it goes on as n.
LEMMA PopStep ==
  ASSUME WebmInv, Depth > 1, NEW n \in ParserRecords,
         stack' = Append(SubSeq(stack, 1, Depth - 2), n), Kept(n, Parent),
         n.total = Parent.total,
         UNCHANGED << file, position, pc, status, didSeek, start >>,
         PositionsTrue', events' \in Seq(Told),
         TopInv(n), didSeek => (Depth = 2 => InTime(n))
  PROVE  WebmInv'
<1>1. /\ TypeOK /\ Depth \in Nat \ {0, 1} /\ stack \in Seq(ParserRecords)
      /\ \A k \in 1 .. Depth : stack[k] \in ParserRecords
  BY TopFacts, StackFacts DEF TypeOK
<1> DEFINE s == SubSeq(stack, 1, Depth - 2)
<1>2. /\ s \in Seq(ParserRecords) /\ Len(s) = Depth - 2
      /\ \A k \in 1 .. Depth - 2 : s[k] = stack[k]
  <2>1. \A k \in 1 .. Depth - 2 : stack[k] \in ParserRecords
    BY <1>1
  <2>2. /\ s \in Seq(ParserRecords)
        /\ Len(s) = IF 1 <= Depth - 2 THEN Depth - 2 - 1 + 1 ELSE 0
        /\ \A i \in 1 .. Depth - 2 - 1 + 1 : s[i] = stack[1 + i - 1]
    BY <1>1, <2>1, SubSeqProperties
  <2> HIDE DEF s
  <2>3. Len(s) = Depth - 2
    BY <1>1, <2>2
  <2>4. ASSUME NEW k \in 1 .. Depth - 2
        PROVE  s[k] = stack[k]
    <3>1. k \in 1 .. Depth - 2 - 1 + 1 /\ 1 + k - 1 = k
      BY <1>1
    <3> QED
      BY <2>2, <3>1
  <2> QED
    BY <2>2, <2>3, <2>4
<1>3. stack' = Append(s, n)
  OBVIOUS
<1> HIDE DEF s
<1>4. /\ stack' \in Seq(ParserRecords) /\ Len(stack') = Depth - 1 /\ stack'[Depth - 1] = n
      /\ \A k \in 1 .. Depth - 2 : stack'[k] = stack[k]
  <2>1. /\ Append(s, n) \in Seq(ParserRecords) /\ Len(Append(s, n)) = Len(s) + 1
        /\ Append(s, n)[Len(s) + 1] = n
        /\ \A k \in 1 .. Len(s) : Append(s, n)[k] = s[k]
    BY <1>2, AppendProperties
  <2>2. Len(s) + 1 = Depth - 1
    BY <1>1, <1>2
  <2> QED
    BY <1>2, <1>3, <2>1, <2>2
<1>5. Depth' = Depth - 1 /\ Top' = n
  BY <1>1, <1>4 DEF Depth, Top
<1>6. \A k \in 1 .. Depth - 1 : Kept(stack'[k], stack[k]) /\ stack'[k].total = stack[k].total
  <2> SUFFICES ASSUME NEW k \in 1 .. Depth - 1
               PROVE  Kept(stack'[k], stack[k]) /\ stack'[k].total = stack[k].total
    OBVIOUS
  <2>1. CASE k = Depth - 1
    BY <1>4, <2>1 DEF Parent
  <2>2. CASE k # Depth - 1
    <3>1. k \in 1 .. Depth - 2
      BY <1>1, <2>2
    <3> QED
      BY <1>4, <3>1 DEF Kept
  <2> QED
    BY <2>1, <2>2
<1>7. TypeOK'
  <2>1. stack' # << >>
    <3>1. Len(stack') # 0
      BY <1>1, <1>4
    <3> QED
      BY <3>1
  <2> QED
    BY <1>1, <1>4, <2>1 DEF TypeOK
<1>8. ChainInv'
  <2>1. stack'[1].cap = Unknown
    BY <1>1, <1>6 DEF Kept, WebmInv, ChainInv
  <2>2. \A k \in 1 .. Depth - 1 : (stack'[k].parser = "Document") = (k = 1)
    BY <1>1, <1>6 DEF Kept, WebmInv, ChainInv
  <2>3. ASSUME NEW k \in 1 .. Depth - 2
        PROVE  stack'[k].parser \in Composite /\ stack'[k].state = "body" /\ ~stack'[k].cached
    <3>1. k \in 1 .. Depth - 1
      BY <1>1
    <3> QED
      BY <1>4, <3>1 DEF WebmInv, ChainInv
  <2>4. Depth - 1 > 1 /\ stack'[2].parser \in Masters => stack'[2].parser = "Segment"
    BY <1>1, <1>6 DEF Kept, WebmInv, ChainInv
  <2>5. Depth - 1 - 1 = Depth - 2
    BY <1>1
  <2> QED
    BY <1>5, <2>1, <2>2, <2>3, <2>4, <2>5 DEF ChainInv
<1>9. AnchorInv'
  <2> SUFFICES ASSUME NEW k \in 2 .. Depth - 1
               PROVE  Anchored(stack[k], k)'
    BY <1>5 DEF AnchorInv
  <2>1. k \in 2 .. Depth /\ k \in 1 .. Depth - 1
    BY <1>1
  <2>2. Anchored(stack[k], k)
    BY <2>1 DEF WebmInv, AnchorInv
  <2>3. Kept(stack'[k], stack[k]) /\ stack'[k].total = stack[k].total
    BY <1>6, <2>1
  <2>4. UNCHANGED << file, position, start >>
    BY <1>1
  <2> QED
    BY <2>2, <2>3, <2>4 DEF Anchored, IsElement, IsLate, Origin, Kept
<1>10. CapInv'
  <2> SUFFICES ASSUME NEW k \in 1 .. Depth - 1, NEW j \in 1 .. k
               PROVE  Within(stack'[k], stack'[j])
    BY <1>5 DEF CapInv, Within
  <2>1. k \in 1 .. Depth /\ j \in 1 .. Depth - 1
    BY <1>1
  <2>2. Within(stack[k], stack[j])
    BY <2>1 DEF WebmInv, CapInv
  <2>3. /\ stack'[k].cap = stack[k].cap /\ stack'[k].total = stack[k].total
        /\ stack'[j].cap = stack[j].cap /\ stack'[j].total = stack[j].total
    BY <1>6, <2>1 DEF Kept
  <2> QED
    BY <2>2, <2>3 DEF Within
<1>11. TopInv(Top)' /\ (InTime(n) => InTime(Top)')
  BY <1>5 DEF TopInv, AtHeader, Partial, Held, IsElement, IsLate, Cached, Leaf, Fits, InTime
<1>12. SeekInv'
  <2> SUFFICES ASSUME didSeek'
               PROVE  /\ \A k \in 2 .. Depth - 1 : stack'[k].parser \notin Masters
                      /\ Depth - 1 = 1 => InTime(Top)'
    BY <1>5 DEF SeekInv, InTime, Top
  <2>1. \A k \in 2 .. Depth - 1 : stack'[k].parser \notin Masters
    BY <1>1, <1>6 DEF Kept, WebmInv, SeekInv
  <2>2. Depth - 1 = 1 => InTime(Top)'
    BY <1>1, <1>11
  <2> QED
    BY <2>1, <2>2
<1> QED
  BY <1>7, <1>8, <1>9, <1>10, <1>11, <1>12 DEF WebmInv

LEMMA FinishKeeps ==
  ASSUME WebmInv, Finish
  PROVE  WebmInv'
<1> DEFINE event == << "End", Top.parser, Top.pos >>
           child == IF Parent.parser = "Document" THEN [Top.child EXCEPT !.pos = position]
                    ELSE Top.child
           n     == IF Parent.parser # "Document" /\ Filled(Parent)
                    THEN [Parent EXCEPT !.state = "end"]
                    ELSE NextChild(Parent, Top.cached, child)
<1>1. /\ Depth > 1 /\ AtEnd /\ stack' = Append(SubSeq(stack, 1, Depth - 2), n)
      /\ events' = IF HasEnd THEN Called(event, Depth).events ELSE events
      /\ UNCHANGED << file, position, pc, status, didSeek, start >>
  BY DEF Finish
<1>2. /\ TypeOK /\ Depth \in Nat \ {0, 1} /\ TopInv(Top) /\ Top \in ParserRecords
      /\ Parent \in ParserRecords /\ position \in Nat
  <2>1. TypeOK /\ Depth \in Nat \ {0} /\ TopInv(Top) /\ Top \in ParserRecords /\ position \in Nat
    BY TopFacts, StackFacts
  <2>2. Depth - 1 \in 1 .. Depth
    BY <1>1, <2>1
  <2> QED
    BY <1>1, <2>1, <2>2, StackFacts DEF Parent
<1>3. /\ Parent.parser \in Composite /\ Parent.state = "body" /\ ~Parent.cached
      /\ (Parent.parser = "Document") = (Depth = 2)
      /\ Parent.parser = "Document" => Parent.cap = Unknown
  <2>1. Depth - 1 \in 1 .. Depth - 1 /\ Depth - 1 \in 1 .. Depth /\ (Depth - 1 = 1) = (Depth = 2)
    BY <1>2
  <2> QED
    BY <2>1 DEF WebmInv, ChainInv, Parent
<1>4. Top = stack[Depth] /\ Top.parser # "Document"
  BY <1>2 DEF WebmInv, ChainInv, Top
<1>5. PositionsTrue' /\ events' \in Seq(Told)
  <2>1. CASE HasEnd
    <3>1. Top.parser \in Parsers /\ Top.pos \in Nat
      BY <1>2, RecordFacts
    <3>2. Top.parser \in Masters \cup Blocks \cup Values \cup {"Void", "Unknown"}
      BY <2>1, <3>1, ParserNames DEF HasEnd
    <3>3. Top.pos # 0 => Names(Top.pos, Top.parser)
      BY <1>2, <1>4, <3>2, NamesOwn DEF WebmInv
    <3>4. event \in Told /\ event[3] = Top.pos /\ event[2] = Top.parser
      BY <3>1 DEF Told
    <3> HIDE DEF event
    <3> QED
      BY <1>1, <1>2, <2>1, <3>3, <3>4, CalledKeeps DEF WebmInv
  <2>2. CASE ~HasEnd
    BY <1>1, <1>2, <2>2, EventsKept DEF WebmInv
  <2> QED
    BY <2>1, <2>2
<1>6. Parent.cap # Unknown => Parent.total <= Parent.cap
  <2>1. Within(Top, Parent)
    <3>1. Depth - 1 \in 1 .. Depth /\ Depth \in 1 .. Depth
      BY <1>2
    <3> QED
      BY <3>1 DEF WebmInv, CapInv, Top, Parent
  <2>2. /\ Top.total \in Nat /\ Parent.total \in Nat
        /\ Top.cap \in Nat \cup {Unknown} /\ Parent.cap \in Nat \cup {Unknown}
        /\ Top.child.size \in Nat \cup {Unknown}
    BY <1>2, RecordFacts DEF Sizes, Headers
  <2>3. Top.state \in {"firstId", "end"}
    BY <1>1, <1>2 DEF AtEnd, TopInv, Leaf, IsMaster, Composite
  <2>4. Top.cap # Unknown => Top.total <= Top.cap
    BY <1>2, <2>2, <2>3 DEF TopInv, Fits, Unknown
  <2> QED
    BY <2>1, <2>2, <2>4 DEF Within, Unknown
<1>7. Top.cached => /\ Top.parser \in Masters /\ Held(Top)
                    /\ Top.child.id \notin Children(Top.parser)
  BY <1>2 DEF TopInv, Cached, AtHeader, Composite
<1>8. CASE Parent.parser # "Document" /\ Filled(Parent)
  <2>1. n = [Parent EXCEPT !.state = "end"]
    BY <1>8
  <2> HIDE DEF n
  <2>2. /\ n \in ParserRecords /\ Kept(n, Parent) /\ n.total = Parent.total
        /\ n.state = "end" /\ ~n.cached
    BY <1>2, <1>3, <2>1 DEF ParserRecords, Kept, States
  <2>3. Begins(file, position)
    BY <1>1, <1>8, EndBegins
  <2>4. TopInv(n)
    BY <1>2, <1>3, <1>6, <2>2, <2>3, RecordFacts
       DEF TopInv, AtHeader, Cached, Fits, Kept, Sizes, Unknown
  <2>5. Depth # 2
    BY <1>3, <1>8
  <2> QED
    BY <1>1, <1>2, <1>5, <2>2, <2>4, <2>5, PopStep
<1>9. CASE ~(Parent.parser # "Document" /\ Filled(Parent)) /\ ~Top.cached
  <2>1. n = [Parent EXCEPT !.skip = FALSE, !.state = "firstId"]
    BY <1>9 DEF NextChild
  <2> HIDE DEF n
  <2>2. /\ n \in ParserRecords /\ Kept(n, Parent) /\ n.total = Parent.total
        /\ n.state = "firstId" /\ ~n.cached
    BY <1>2, <1>3, <2>1 DEF ParserRecords, Kept, States
  <2>3. Begins(file, position)
    BY <1>1, <1>9, EndBegins
  <2>4. TopInv(n)
    BY <1>2, <1>3, <1>6, <2>2, <2>3, RecordFacts
       DEF TopInv, AtHeader, Cached, Fits, Kept, Sizes, Unknown
  <2>5. InTime(n)
    BY <2>2 DEF InTime
  <2> QED
    BY <1>1, <1>2, <1>5, <2>2, <2>4, <2>5, PopStep
<1>10. CASE ~(Parent.parser # "Document" /\ Filled(Parent)) /\ Top.cached
  <2> DEFINE p == position - HeaderSize
  <2>1. n = [Parent EXCEPT !.skip = FALSE, !.state = "validate", !.child = child]
    BY <1>10 DEF NextChild
  <2>2. Top.child \in Headers
    BY <1>2, RecordFacts
  <2>3. /\ child \in Headers /\ child.id = Top.child.id /\ child.size = Top.child.size
        /\ child.header = Top.child.header
        /\ child.pos = IF Parent.parser = "Document" THEN position ELSE Top.child.pos
    BY <1>2, <2>2 DEF Headers
  <2> HIDE DEF n, child
  <2>4. /\ n \in ParserRecords /\ Kept(n, Parent) /\ n.total = Parent.total
        /\ n.state = "validate" /\ ~n.cached /\ n.child = child
    BY <1>2, <1>3, <2>1, <2>3 DEF ParserRecords, Kept, States
  <2>5. /\ IsElement(p) /\ Top.child.id = file.hdr[p].id /\ Top.child.size = file.hdr[p].size
        /\ Top.child.header = HeaderSize /\ Top.child.pos = p
    BY <1>4, <1>7, <1>10 DEF Held
  <2>6. CASE Parent.parser # "Document"
    <3>1. Held(n)
      BY <2>3, <2>4, <2>5, <2>6 DEF Held
    <3> QED
      BY <1>1, <1>2, <1>3, <1>5, <2>4, <2>6, <3>1, PopStep
         DEF TopInv, AtHeader, Cached, Fits, Kept
  <2>7. CASE Parent.parser = "Document"
    <3>1. Depth = 2 /\ Top.parser = "Segment"
      BY <1>3, <1>4, <1>7, <1>10, <2>7 DEF WebmInv, ChainInv
    <3>2. child.pos = p + HeaderSize /\ child.pos - HeaderSize = p
      BY <1>2, <2>3, <2>7 DEF HeaderSize
    <3>3. IsLate(child.pos)
      BY <1>7, <1>10, <2>5, <3>1, <3>2 DEF IsLate, IsElement
    <3>4. Held(n)
      BY <2>3, <2>4, <2>5, <2>7, <3>2, <3>3 DEF Held, Kept
    <3>5. ~didSeek
      BY <1>2, <1>4, <3>1 DEF WebmInv, SeekInv, Masters
    <3> QED
      BY <1>1, <1>2, <1>3, <1>5, <2>4, <3>4, <3>5, PopStep
         DEF TopInv, AtHeader, Cached, Fits, Kept
  <2> QED
    BY <2>6, <2>7
<1> QED
  BY <1>8, <1>9, <1>10

-----------------------------------------------------------------------------
(* The invariant holds.                                                     *)

LEMMA InitInv ==
  ASSUME Init
  PROVE  WebmInv
<1>1. /\ file \in Files /\ position = 1 /\ pc = "idle" /\ status = "none"
      /\ stack = << NewDocument >> /\ didSeek = FALSE /\ events = << >>
      /\ start = [ at |-> 1, seeks |-> 0 ]
  BY DEF Init
<1>2. file.length \in Nat \ {0} /\ MaxSeeks \in Nat /\ Begins(file, 1)
  BY <1>1, WebmFilesAssumption
<1>3. NewDocument \in ParserRecords /\ NewDocument.parser = "Document"
      /\ NewDocument.cap = Unknown /\ NewDocument.state = "firstId" /\ ~NewDocument.cached
  BY DEF NewDocument, NewParser, DocumentMeta, NoChild, ParserRecords, Headers, Ids, Parsers,
         Sizes, States, Unknown
<1> HIDE DEF NewDocument
<1>4. /\ stack \in Seq(ParserRecords) /\ stack # << >> /\ Depth = 1 /\ Top = NewDocument
      /\ stack[1] = NewDocument
  BY <1>1, <1>3 DEF Depth, Top
<1>5. TypeOK
  <2>1. start \in [ at : 1 .. file.length, seeks : 0 .. MaxSeeks ]
    BY <1>1, <1>2
  <2>2. position \in 1 .. file.length
    BY <1>1, <1>2
  <2>3. << >> \in Seq(Told)
    OBVIOUS
  <2>4. events \in Seq(Told) /\ didSeek \in BOOLEAN
    BY <1>1, <2>3
  <2>5. pc \in {"idle", "feed"} /\ status = "none"
    BY <1>1
  <2> QED
    BY <1>1, <1>4, <2>1, <2>2, <2>4, <2>5 DEF TypeOK
<1>6. ChainInv /\ AnchorInv /\ CapInv
  BY <1>3, <1>4 DEF ChainInv, AnchorInv, CapInv, Within
<1>7. TopInv(Top)
  BY <1>1, <1>2, <1>3, <1>4 DEF TopInv, AtHeader, Cached, Fits, Composite
<1>8. SeekInv /\ PositionsTrue
  BY <1>1 DEF SeekInv, PositionsTrue
<1> QED
  BY <1>5, <1>6, <1>7, <1>8 DEF WebmInv

LEMMA DidSeekKeeps ==
  ASSUME WebmInv, NEW p \in file.seeks, DidSeek(p)
  PROVE  WebmInv'
<1>1. /\ start.seeks < MaxSeeks /\ position' = p /\ status' = "none" /\ didSeek' = TRUE
      /\ stack' = << NewDocument >> /\ events' = << >>
      /\ start' = [ at |-> p, seeks |-> start.seeks + 1 ] /\ UNCHANGED << file, pc >>
  BY DEF DidSeek
<1>2. TypeOK /\ file \in Files /\ start.seeks \in 0 .. MaxSeeks
  BY DEF WebmInv, TypeOK
<1>3. p \in 1 .. file.length - 1 /\ p \in DOMAIN file.hdr /\ MaxSeeks \in Nat
      /\ file.length \in Nat
  BY <1>2, WebmFilesAssumption
<1>4. NewDocument \in ParserRecords /\ NewDocument.parser = "Document"
      /\ NewDocument.cap = Unknown /\ NewDocument.state = "firstId" /\ ~NewDocument.cached
  BY DEF NewDocument, NewParser, DocumentMeta, NoChild, ParserRecords, Headers, Ids, Parsers,
         Sizes, States, Unknown
<1> HIDE DEF NewDocument
<1>5. /\ stack' \in Seq(ParserRecords) /\ stack' # << >> /\ Depth' = 1 /\ Top' = NewDocument
      /\ stack'[1] = NewDocument
  BY <1>1, <1>4 DEF Depth, Top
<1>6. TypeOK'
  BY <1>1, <1>2, <1>3, <1>5 DEF TypeOK
<1>7. ChainInv' /\ AnchorInv' /\ CapInv'
  BY <1>4, <1>5 DEF ChainInv, AnchorInv, CapInv, Within
<1>8. TopInv(Top)'
  BY <1>1, <1>3, <1>4, <1>5 DEF TopInv, AtHeader, Cached, Fits, Composite, Begins
<1>9. SeekInv' /\ PositionsTrue'
  <2>1. InTime(Top)'
    BY <1>4, <1>5 DEF InTime
  <2> QED
    BY <1>1, <1>5, <2>1 DEF SeekInv, PositionsTrue
<1> QED
  BY <1>6, <1>7, <1>8, <1>9 DEF WebmInv

LEMMA NextInv ==
  ASSUME WebmInv, [Next]_vars
  PROVE  WebmInv'
<1>1. TypeOK
  BY DEF WebmInv
<1>2. ASSUME UNCHANGED << stack, position, file, events, didSeek, start >>,
             pc' \in {"idle", "feed"},
             status' \in {"none", "running", "block", "partial", "eof", "completed"} \cup Errors
      PROVE  WebmInv'
  <2>1. PositionsTrue' /\ events' \in Seq(Told)
    BY <1>1, <1>2, EventsKept DEF WebmInv
  <2>2. Unmoved
    BY <1>1, <1>2, <2>1 DEF Unmoved, TypeOK
  <2> QED
    BY <1>2, <2>1, <2>2, StackKept
<1>3. CASE Feed
  BY <1>2, <1>3 DEF Feed
<1>4. CASE Completed \/ WouldBlock \/ NotCompleted
  BY <1>2, <1>4 DEF Completed, WouldBlock, NotCompleted, Return
<1>5. CASE Terminated \/ UNCHANGED vars
  BY <1>1, <1>2, <1>5 DEF Terminated, vars, TypeOK
<1>6. CASE Progress
  BY <1>4, <1>6, ReadIdKeeps, ReadSizeKeeps, EndOfFileKeeps, ValidateKeeps,
     ValidateDocumentKeeps, BeginElementKeeps, BeginClusterKeeps, BeginKeeps, ReadBodyKeeps,
     FrameKeeps, FinishKeeps DEF Progress
<1>7. CASE \E p \in file.seeks : DidSeek(p)
  BY <1>7, DidSeekKeeps
<1> QED
  BY <1>3, <1>4, <1>5, <1>6, <1>7 DEF Next

LEMMA InvHolds == Spec => []WebmInv
<1>1. Init => WebmInv
  BY InitInv
<1>2. WebmInv /\ [Next]_vars => WebmInv'
  BY NextInv
<1> QED
  BY <1>1, <1>2, PTL DEF Spec

-----------------------------------------------------------------------------
(* What follows.                                                            *)

\* The parsers agree with the reader, and none reads too far: what an element counts
\* is what was read behind its header.
LEMMA InvCounts ==
  ASSUME WebmInv
  PROVE  CountersExact
<1>1. /\ TypeOK /\ Depth \in Nat \ {0} /\ TopInv(Top) /\ position \in Nat
      /\ \A k \in 1 .. Depth : stack[k] \in ParserRecords
  BY TopFacts, StackFacts
<1>2. ASSUME NEW k \in 2 .. Depth, stack[k].pos > 0
      PROVE  LET t == stack[k]
             IN  /\ \/ position = t.pos + t.header + t.total
                    \/ k = 2 /\ IsLate(t.pos) /\ position = t.pos + t.total
                 /\ t.parser \notin Masters => t.left = t.size - t.total
  <2> DEFINE t == stack[k]
  <2>1. Anchored(t, k) /\ t.total \in Nat /\ t.pos \in Nat
    BY <1>1, RecordFacts DEF WebmInv, AnchorInv
  <2>2. /\ t.header = HeaderSize
        /\ t.pos = Origin(t) \/ (k = 2 /\ IsLate(t.pos) /\ t.pos = Origin(t) + HeaderSize)
    BY <1>2, <2>1 DEF Anchored
  <2>3. t.parser \notin Masters => t.left = t.size - t.total
    <3> SUFFICES ASSUME t.parser \notin Masters PROVE t.left = t.size - t.total
      OBVIOUS
    <3>1. t.parser \notin Composite
      BY <1>1 DEF WebmInv, ChainInv, Composite
    <3>2. k = Depth
      BY <1>1, <3>1 DEF WebmInv, ChainInv
    <3> QED
      BY <1>1, <3>1, <3>2 DEF TopInv, Leaf, Top
  <2> HIDE DEF t
  <2>4. position = Origin(t) + HeaderSize + t.total
    BY <1>1, <2>1 DEF Origin, HeaderSize
  <2> QED
    BY <2>2, <2>3, <2>4 DEF t
<1>3. ASSUME Top.state \notin {"restId", "size", "validate"}, NEW k \in 1 .. Depth,
             stack[k].cap # Unknown
      PROVE  stack[k].total <= stack[k].cap
  <2>1. Within(Top, stack[k]) /\ Top \in ParserRecords
    BY <1>1 DEF WebmInv, CapInv, Top
  <2>2. /\ Top.total \in Nat /\ stack[k].total \in Nat
        /\ Top.cap \in Nat \cup {Unknown} /\ stack[k].cap \in Nat
        /\ Top.child.size \in Nat \cup {Unknown}
    BY <1>1, <1>3, <2>1, RecordFacts DEF Sizes, Headers
  <2>3. Top.cap # Unknown /\ Top.total <= Top.cap
    BY <1>1, <1>3, <2>1, <2>2 DEF TopInv, Fits, Within, Unknown
  <2> QED
    BY <1>3, <2>1, <2>2, <2>3 DEF Within, Unknown
<1> QED
  BY <1>1, <1>2, <1>3 DEF CountersExact

\* For any documents: every variable, every parser on the stack and every event has
\* its type; the reader never leaves the document.
THEOREM TypeCorrect == Spec => []TypeOK
<1>1. WebmInv => TypeOK
  BY DEF WebmInv
<1> QED
  BY <1>1, InvHolds, PTL

\* For any documents, however they are cut into pieces, skipped and sought: every
\* parser of the stack knows how far the reader is in its element, and none reads
\* beyond its own or its parents' ends but for one header.
THEOREM CountersTrue == Spec => []CountersExact
<1>1. WebmInv => CountersExact
  BY InvCounts
<1> QED
  BY <1>1, InvHolds, PTL

\* For any such documents: every event names an element by its position, though the
\* document is a header late with the element that ends a Segment of unknown size.
THEOREM PositionsTold == Spec => []PositionsTrue
<1>1. WebmInv => PositionsTrue
  BY DEF WebmInv
<1> QED
  BY <1>1, InvHolds, PTL

=============================================================================
