------------------------------ MODULE MCParser ------------------------------
(* Files laid out for TLC: the elements one behind the other, from unit 1.   *)
EXTENDS ParserProperties

Element(id, own) == << [ id |-> id, own |-> own, size |-> own ] >>

Units(elements) == FoldLeft(LAMBDA n, e : n + 1 + e.own, 0, elements)

OfSize(size, inside) == << [ id |-> "Cluster", own |-> 0, size |-> size ] >> \o inside
SizedCluster(inside) == OfSize(Units(inside), inside)
LiveCluster(inside)  == OfSize(Unknown, inside)

\* Headers by position, and the position behind the last element.
Headed(elements) ==
  FoldLeft(LAMBDA h, e : [ next |-> h.next + 1 + e.own,
                           hdr  |-> h.hdr @@ (h.next :> [ id |-> e.id, size |-> e.size ]) ],
           [ next |-> 1, hdr |-> << >> ], elements)

\* cued: which of the elements cue points name.  cut: the units missing at the
\* end of a file.
Layout(elements, finite, sized, cued, cut, arrivals) ==
  LET h    == Headed(elements)
      stop == h.next - cut
  IN  [ start |-> 1, length |-> stop, finite |-> finite,
        size |-> IF sized THEN stop - 1 ELSE Unknown,
        hdr |-> h.hdr,
        cues |-> { Units(SubSeq(elements, 1, i - 1)) : i \in cued },
        arrivals |-> arrivals \cup {stop} ]

Head2 == Element("Info", 1) \o Element("Tracks", 1)
T  == Element("Timecode", 1)
S  == Element("SimpleBlock", 2)
L  == Element("LacedBlock", 2)
G  == Element("BlockGroup", 2)
V  == Element("Void", 1)

\* A finished file: an empty cluster first, Cues in the middle, and cue points
\* for the two clusters behind them.
Finished ==
  Layout(Head2 \o SizedCluster(T) \o SizedCluster(T \o S \o G)
           \o Element("Cues", 2) \o SizedCluster(T \o G) \o V
           \o SizedCluster(T \o V \o L),
         TRUE, TRUE, {10, 14}, 0, {5, 10, 13, 15, 19, 25, 34})

\* One whose last cluster is cut off.
Truncated ==
  Layout(Head2 \o SizedCluster(T \o S) \o SizedCluster(V) \o SizedCluster(T \o S \o S),
         TRUE, FALSE, {}, 1, 1 .. 22)

\* Live streams: clusters whose size is not known, one of them empty, in a file
\* that has no end, has one, or has one in the middle of a block.
Live(finite, cut) ==
  Layout(Head2 \o LiveCluster(T \o S \o G) \o LiveCluster(T)
           \o LiveCluster(T \o L \o V) \o SizedCluster(T \o S)
           \o LiveCluster(T \o S \o S),
         finite, FALSE, {}, cut, {5, 10, 13, 16, 18, 21, 24, 30, 33, 36, 39})

\* A cluster without blocks behind a preloaded one.
Lookahead(empty, cued) ==
  Layout(Head2 \o Element("Cues", 2) \o SizedCluster(T \o S) \o SizedCluster(T \o S)
           \o empty \o SizedCluster(T \o S),
         TRUE, TRUE, cued, 0, {12, 20, 25})

\* Files at fault: the Tracks twice; an element that leaves the Segment, before
\* the clusters and behind them.
TracksTwice == Layout(Head2 \o Element("Tracks", 1), TRUE, TRUE, {}, 0, {6})

Overlong(elements, cued) ==
  LET f == Layout(elements, TRUE, TRUE, cued, 0, {})
      p == CHOOSE q \in DOMAIN f.hdr : f.hdr[q].id = "Void"
  IN  [f EXCEPT !.hdr[p].size = f.length]

\* Clusters without blocks behind one that a cue point names, and ones of unknown
\* size that cue points name.
Odd ==
  { Lookahead(SizedCluster(V), {7}), Lookahead(SizedCluster(V \o V), {7, 10}),
    Lookahead(SizedCluster(V \o Element("Void", 0)), {7}),
    Lookahead(LiveCluster(V), {7}),
    Layout(Head2 \o Element("Cues", 1) \o LiveCluster(T \o S) \o LiveCluster(T \o S),
           TRUE, FALSE, {4, 7}, 0, {10, 15}) }

AtFault ==
  { TracksTwice, Overlong(Head2 \o V, {}),
    Overlong(Head2 \o Element("Cues", 2) \o SizedCluster(T \o S) \o V, {4}) }

MCFiles ==
  { Finished, Truncated, Live(FALSE, 0), Live(TRUE, 0), Live(TRUE, 1) }
    \cup Odd \cup AtFault
=============================================================================
