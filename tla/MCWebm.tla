------------------------------- MODULE MCWebm -------------------------------
(* Documents for TLC, laid out one element behind the other from position 1.  *)
EXTENDS WebmProperties, WebmDelivery

El(id, own) == << [ id |-> id, own |-> own, size |-> own ] >>

Units(elements) == FoldLeft(LAMBDA n, e : n + HeaderSize + e.own, 0, elements)

Open(id, size, inside) == << [ id |-> id, own |-> 0, size |-> size ] >> \o inside
Sized(id, inside)      == Open(id, Units(inside), inside)
Live(id, inside)       == Open(id, Unknown, inside)

\* last: where the document ends, maybe in the middle.
Laid(elements, last) ==
  FoldLeft(LAMBDA h, e :
             [ next |-> h.next + HeaderSize + e.own,
               hdr  |-> IF h.next < last
                        THEN h.hdr @@ (h.next :> [ id |-> e.id, size |-> e.size ])
                        ELSE h.hdr ],
           [ next |-> 1, hdr |-> << >> ], elements).hdr

\* sought: where the caller may seek to, if an element is there.
Document(elements, cut, skips, sought) ==
  LET last == Units(elements) + 1 - cut
      hdr  == Laid(elements, last)
  IN  [ length |-> last, hdr |-> hdr, skips  |-> skips, seeks |-> DOMAIN hdr \cap sought ]

Anywhere == 1 .. 100

\* A document with each of its events skipped in turn, and with none.
Skipping(elements, sought) ==
  LET h    == Laid(elements, Units(elements) + 1)
      told == { << kind, h[p].id, p >> : kind \in {"Element", "Begin"}, p \in DOMAIN h }
      some == { e \in told : e[1] = "Begin" =>
                  e[2] \in {"Segment", "Cluster", "BlockGroup"} \cup Blocks }
  IN  { Document(elements, 0, {}, sought) }
        \cup { Document(elements, 0, {e}, sought) : e \in some }

T  == El("Timecode", 1)
D  == El("BlockDuration", 1)
S  == El("SimpleBlock", 2)
B  == El("Block", 2)
V  == El("Void", 1)
X  == El("Foreign", 1)
C  == El("CuePoint", 1)
E  == El("Ebml", 1)

\* A file: all sizes are known.
Finished ==
  E \o Sized("Segment", Sized("Cues", C)
                          \o Sized("Cluster", T \o S \o Sized("BlockGroup", B \o D))
                          \o Sized("Cluster", T)) \o V

\* A live stream: no size is known that need not be.  The Cues end a Cluster
\* from inside a BlockGroup.
Stream ==
  E \o Live("Segment", V \o Live("Cluster", T \o S) \o Live("Cluster", T)
                         \o Live("Cluster", S \o Live("BlockGroup", B))
                         \o Live("Cues", C \o V) \o Live("Cluster", S))

\* Elements of no known kind at every level, and a file whose last Cluster is
\* open: the Segment's end ends it.
Mixed == X \o Sized("Segment", X \o Sized("Cluster", X)
                                 \o Live("Cluster", Sized("BlockGroup", B) \o S))
           \o El("Foreign", 0) \o E

\* Two live streams, one behind the other.
Twice == Live("Segment", Live("Cluster", S)) \o E \o Live("Segment", V) \o Live("Segment", V \o C)

\* What is told of an element behind a live Segment is told late: skipped there.
SkippingLate(elements) ==
  LET d    == Document(elements, 0, {}, Anywhere)
      late == { << kind, d.hdr[p].id, Late(p) >> :
                  kind \in {"Element", "Begin"}, p \in DOMAIN d.hdr \ {1} }
  IN  { [d EXCEPT !.skips = {e}] :
          e \in { l \in late : l[2] \in {"Ebml", "Segment", "CuePoint"} } }

\* Documents that end or fail in the middle.
Faulty ==
  { Document(Sized("Segment", Live("Cluster", T \o S)), cut, {}, {}) : cut \in {1, 4, 5, 6} }
    \cup { Document(elements, 0, {}, Anywhere) : elements \in
             { Open("Segment", 7, Sized("Cluster", T \o S)),
               Sized("Segment", V \o Live("Foreign", V)), V \o Live("Foreign", V),
               Live("Segment", Live("Cluster", El("SimpleBlock", 1))),
               Sized("Segment", Live("Void", V)) } }

\* The callback skips a BlockGroup of no known size: see SkippedGroup.
SkipsLiveGroup(f) ==
  \E e \in f.skips : /\ e[1] = "Element" /\ e[2] = "BlockGroup"
                     /\ f.hdr[e[3]].size = Unknown

Documents == Skipping(Finished, Anywhere) \cup Skipping(Mixed, {1}) \cup Faulty
               \cup Skipping(Twice, Anywhere) \cup SkippingLate(Twice)
               \cup Skipping(Stream, Anywhere)

MCFiles == { f \in Documents : ~SkipsLiveGroup(f) }

\* A BlockGroup of unknown size that the callback skips.
SkippedGroup ==
  LET d == Document(Sized("Segment", Sized("Cluster", T \o Live("BlockGroup", B) \o S)),
                    0, {}, {})
      p == CHOOSE q \in DOMAIN d.hdr : d.hdr[q].id = "BlockGroup"
  IN  { [d EXCEPT !.skips = { << "Element", "BlockGroup", p >> }] }
=============================================================================
