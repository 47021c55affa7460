---------------------------- MODULE ParserProofs ----------------------------
(***************************************************************************)
(* Proofs about ParserClusters: where m_pos stands, which clusters have    *)
(* been loaded, what is kept of them, that loading implements ClusterList,  *)
(* the blocks of each cluster and, for an ordinary file, the order of the   *)
(* array, which the binary searches rest on, and the cluster that ParseNext *)
(* and GetNext find with their help.  All but the order holds of every      *)
(* file, with or without fault, and in whatever order the calls are made.   *)
(***************************************************************************)
EXTENDS ParserProperties, TLAPS, WellFoundedInduction, SequenceTheorems

-----------------------------------------------------------------------------
(* Least elements.                                                          *)

\* A set of naturals that is not empty has a least element.
LEMMA LeastNatural ==
  ASSUME NEW T, T \subseteq Nat, T # {}
  PROVE  \E x \in T : \A y \in T : x <= y
<1>1. IsWellFoundedOn(OpToRel(<, Nat), Nat)
  BY NatLessThanWellFounded
<1>2. PICK x \in T : \A y \in T : ~ (<<y, x>> \in OpToRel(<, Nat))
  BY <1>1, WFMin
<1>3. \A y \in T : ~ (y < x)
  BY <1>2 DEF OpToRel
<1> QED
  BY <1>3

\* Min gives it.
LEMMA MinIsLeast ==
  ASSUME NEW T, T \subseteq Nat, T # {}
  PROVE  Min(T) \in T /\ \A y \in T : Min(T) <= y
BY LeastNatural DEF Min

-----------------------------------------------------------------------------
(* The file.                                                                *)

\* What a file is, in arithmetic.
LEMMA FileFacts ==
  ASSUME file \in Files
  PROVE  /\ file.start \in Nat /\ file.start > 0 /\ file.length \in Nat
         /\ file.finite \in BOOLEAN /\ file.size \in Nat \cup {Unknown}
         /\ file.size # Unknown => file.finite /\ file.start + file.size <= file.length
         /\ LastStop \in Nat /\ LastStop <= file.length
         /\ Headers \subseteq Nat /\ (\A p \in Headers : p \in Nat) /\ Unknown = -1
         /\ \A p \in Headers : p >= file.start /\ p < LastStop
<1>1. /\ file.start \in Nat \ {0} /\ file.length \in Nat /\ file.finite \in BOOLEAN
      /\ file.size \in Nat \cup {Unknown}
      /\ file.size # Unknown => file.finite /\ file.start + file.size <= file.length
      /\ DOMAIN file.hdr \subseteq file.start .. file.length - 1
  BY FilesAssumption
<1>2. \A p \in DOMAIN file.hdr :
         p < (IF file.size = Unknown THEN file.length ELSE file.start + file.size)
  BY LayoutAssumption
<1> QED
  BY <1>1, <1>2 DEF Headers, LastStop, Unknown

\* What an element of it is: only a cluster may have an unknown size.
LEMMA HeaderFacts ==
  ASSUME file \in Files, NEW p \in Headers
  PROVE  /\ Id(p) \in {"Cluster", "Cues"} \cup Blocks \cup Others
         /\ file.hdr[p].size \in Nat \cup {Unknown}
         /\ ~Sized(p) => Id(p) = "Cluster"
         /\ Sized(p) => file.hdr[p].size \in Nat /\ Stop(p) \in Nat /\ Stop(p) > p
<1>1. p \in Nat
  BY FileFacts
<1>2. /\ file.hdr \in [DOMAIN file.hdr -> Header]
      /\ \A q \in DOMAIN file.hdr : file.hdr[q].size = Unknown => file.hdr[q].id = "Cluster"
  BY FilesAssumption
<1>3. file.hdr[p] \in Header /\ (file.hdr[p].size = Unknown => file.hdr[p].id = "Cluster")
  BY <1>2 DEF Headers
<1>4. /\ file.hdr[p].id \in {"Cluster", "Cues"} \cup Blocks \cup Others
      /\ file.hdr[p].size \in Nat \cup {Unknown}
  BY <1>3 DEF Header
<1> QED
  BY <1>1, <1>3, <1>4 DEF Id, Sized, Stop, Unknown

\* The kinds of elements are different.
LEMMA Kinds ==
  /\ "Cluster" \notin Blocks /\ "Cues" \notin Blocks /\ "Timecode" \notin Blocks
  /\ "Cluster" # "Cues" /\ "Cluster" # "Timecode" /\ "Cues" # "Timecode"
  /\ "Info" # "Cluster" /\ "Tracks" # "Cluster" /\ "Info" # "Tracks"
  /\ "Info" \notin Blocks /\ "Tracks" \notin Blocks
BY DEF Blocks

\* Behind an element, or behind the header of one of unknown size, the next one
\* begins, or the Segment ends.
LEMMA NextElement ==
  ASSUME file \in Files, NEW p \in Headers
  PROVE  /\ Sized(p)  => Stop(p) \in Headers \/ Stop(p) >= LastStop
         /\ ~Sized(p) => p + 1 \in Headers \/ p + 1 = LastStop
<1>1. IF file.hdr[p].size = Unknown
      THEN p + 1 \in DOMAIN file.hdr \/ p + 1 = LastStop
      ELSE p + 1 + file.hdr[p].size \in DOMAIN file.hdr
             \/ p + 1 + file.hdr[p].size >= LastStop
  BY LayoutAssumption DEF LastStop, Headers
<1> QED
  BY <1>1 DEF Sized, Stop, Headers

\* The Segment begins with an element, if it has any.
LEMMA FirstElement ==
  ASSUME file \in Files
  PROVE  file.start \in Headers \/ file.start = LastStop
BY LayoutAssumption DEF LastStop, Headers

\* What lies in an element: only a cluster has elements in it.
LEMMA Nested ==
  ASSUME file \in Files, NEW p \in Headers, NEW q \in Headers,
         Sized(p), p < q, q < Stop(p)
  PROVE  Id(p) = "Cluster" /\ Id(q) # "Cluster" /\ Id(q) # "Cues" /\ Stop(q) <= Stop(p)
<1>1. /\ file.hdr[p].id = "Cluster" /\ file.hdr[q].id \notin {"Cluster", "Cues"}
      /\ q + 1 + file.hdr[q].size <= p + 1 + file.hdr[p].size
  BY LayoutAssumption DEF Headers, Sized, Stop
<1> QED
  BY <1>1 DEF Id, Stop

\* A Timecode comes before the blocks of a cluster,
LEMMA TimecodeFirst ==
  ASSUME file \in Files, NEW p \in Headers, NEW q \in Headers,
         Id(p) = "Cluster", Id(q) \in Blocks, p < q
  PROVE  \E t \in Headers : Id(t) = "Timecode" /\ p < t /\ t < q
BY LayoutAssumption DEF Headers, Id

\* and no other one follows before the next cluster.
LEMMA TimecodeOnce ==
  ASSUME file \in Files, NEW t \in Headers, NEW u \in Headers,
         Id(t) = "Timecode", Id(u) = "Timecode", t < u
  PROVE  \E p \in Headers : Id(p) = "Cluster" /\ t < p /\ p < u
BY LayoutAssumption DEF Headers, Id

\* A cue names a cluster.
LEMMA CueNamesCluster ==
  ASSUME file \in Files, NEW c \in file.cues
  PROVE  c \in Nat /\ file.start + c \in Headers /\ Id(file.start + c) = "Cluster"
<1>1. file.cues \subseteq Nat
  BY FilesAssumption
<1>2. file.start + c \in DOMAIN file.hdr /\ file.hdr[file.start + c].id = "Cluster"
  BY LayoutAssumption
<1> QED
  BY <1>1, <1>2 DEF Headers, Id

-----------------------------------------------------------------------------
(* What is in a cluster, and where it ends.                                 *)

\* stop is where the element behind the cluster at p begins, or an end of the file.
EndsRight(p, stop) ==
  /\ stop \in Nat /\ stop > p /\ (stop \in Headers \/ stop >= LastStop)
  /\ \A q \in Headers : p < q /\ q < stop => Id(q) # "Cluster"

\* Elements that only clusters are ended by.
LEMMA TerminatorFacts ==
  ASSUME file \in Files, NEW p \in Headers
  PROVE  /\ Terminators(p) \subseteq Headers
         /\ \A q \in Terminators(p) : q > p
         /\ Terminators(p) # {} =>
              /\ Min(Terminators(p)) \in Terminators(p)
              /\ \A q \in Terminators(p) : Min(Terminators(p)) <= q
<1>1. Terminators(p) \subseteq Headers /\ \A q \in Terminators(p) : q > p
  BY DEF Terminators
<1>2. Terminators(p) \subseteq Nat
  BY <1>1, FileFacts
<1> QED
  BY <1>1, <1>2, MinIsLeast

\* The blocks of a cluster lie in it, or before what ends it.
LEMMA EntryFacts ==
  ASSUME file \in Files, NEW p \in Headers, NEW q \in Entries(p)
  PROVE  /\ q \in Headers /\ Id(q) \in Blocks /\ p < q /\ Sized(q) /\ Stop(q) > q
         /\ Sized(p) => q < Stop(p)
         /\ ~Sized(p) => \A t \in Terminators(p) : q < t
<1>1. q \in Headers /\ Id(q) \in Blocks /\ p < q
      /\ (Sized(p) => q < Stop(p)) /\ (~Sized(p) => \A t \in Terminators(p) : q < t)
  BY DEF Entries, Children
<1>2. Sized(q)
  BY <1>1, HeaderFacts, Kinds
<1> QED
  BY <1>1, <1>2, HeaderFacts

\* A cluster of known size ends where it stops,
LEMMA SizedEnds ==
  ASSUME file \in Files, NEW p \in Headers, Sized(p)
  PROVE  EndsRight(p, Stop(p))
<1>1. p \in Nat /\ Headers \subseteq Nat /\ Stop(p) \in Nat /\ Stop(p) > p
  BY FileFacts, HeaderFacts
<1> QED
  BY <1>1, NextElement, Nested DEF EndsRight

\* one of unknown size where the first terminator is,
LEMMA TerminatorEnds ==
  ASSUME file \in Files, NEW p \in Headers, Terminators(p) # {}
  PROVE  EndsRight(p, Min(Terminators(p)))
<1>1. Headers \subseteq Nat /\ (\A q \in Headers : q \in Nat) /\ Min(Terminators(p)) \in Nat
  BY FileFacts, TerminatorFacts
<1>2. \A q \in Headers : p < q /\ Id(q) = "Cluster" => q \in Terminators(p)
  BY <1>1 DEF Terminators
<1>3. \A q \in Headers : p < q /\ q < Min(Terminators(p)) => q \notin Terminators(p)
  BY <1>1, TerminatorFacts
<1> QED
  BY <1>1, <1>2, <1>3, TerminatorFacts DEF EndsRight

\* or at the end of the file.
LEMMA TotalEnds ==
  ASSUME file \in Files, NEW p \in Headers, Terminators(p) = {}, Total # Unknown
  PROVE  EndsRight(p, Total) /\ Total = file.length
<1>1. Headers \subseteq Nat /\ Total = file.length /\ file.length \in Nat
      /\ LastStop <= file.length /\ LastStop \in Nat /\ p < LastStop
  BY FileFacts DEF Total
<1>2. \A q \in Headers : p < q => Id(q) # "Cluster"
  BY <1>1 DEF Terminators
<1> QED
  BY <1>1, <1>2 DEF EndsRight

\* The Timecode of a cluster that has blocks.
LEMMA TimecodeEndFacts ==
  ASSUME file \in Files, NEW p \in Headers, Id(p) = "Cluster", Entries(p) # {}
  PROVE  /\ TimecodeEnd(p) \in Nat /\ TimecodeEnd(p) > p
         /\ \A q \in Entries(p) : TimecodeEnd(p) <= q
<1>1. PICK q \in Entries(p) : TRUE
  OBVIOUS
<1>2. \A x \in Headers : x \in Nat
  BY FileFacts
<1>3. q \in Headers /\ Id(q) \in Blocks /\ p < q
  BY <1>1, EntryFacts
<1>4. PICK t \in Headers : Id(t) = "Timecode" /\ p < t /\ t < q
  BY <1>3, TimecodeFirst
<1>5. t \in Children(p)
  <2>1. CASE Sized(p)
    <3>1. q < Stop(p) /\ Stop(p) \in Nat
      BY <1>1, <2>1, EntryFacts, HeaderFacts
    <3> QED
      BY <1>2, <1>3, <1>4, <2>1, <3>1 DEF Children
  <2>2. CASE ~Sized(p)
    <3>1. \A x \in Terminators(p) : q < x /\ x \in Nat
      BY <1>1, <1>2, <2>2, EntryFacts, TerminatorFacts
    <3>2. \A x \in Terminators(p) : t < x
      BY <1>2, <1>3, <1>4, <3>1
    <3> QED
      BY <1>4, <2>2, <3>2 DEF Children
  <2> QED
    BY <2>1, <2>2
<1> DEFINE u == CHOOSE x \in Children(p) : Id(x) = "Timecode"
<1>6. u \in Children(p) /\ Id(u) = "Timecode"
  BY <1>4, <1>5
<1> HIDE DEF u
<1>7. u \in Headers /\ p < u /\ u \in Nat
  BY <1>2, <1>6 DEF Children
<1>8. Sized(u) /\ Stop(u) \in Nat /\ Stop(u) > u
  BY <1>6, <1>7, HeaderFacts, Kinds
<1>9. ASSUME NEW e \in Entries(p) PROVE Stop(u) <= e
  <2>1. e \in Headers /\ Id(e) \in Blocks /\ p < e
    BY EntryFacts
  <2>2. ~ (e < u)
    <3> SUFFICES ASSUME e < u PROVE FALSE
      OBVIOUS
    <3>1. PICK x \in Headers : Id(x) = "Timecode" /\ p < x /\ x < e
      BY <2>1, TimecodeFirst
    <3>2. x < u
      BY <1>2, <1>7, <2>1, <3>1
    <3>3. PICK c \in Headers : Id(c) = "Cluster" /\ x < c /\ c < u
      BY <1>6, <1>7, <3>1, <3>2, TimecodeOnce
    <3>4. p < c
      BY <1>2, <3>1, <3>3
    <3>5. CASE Sized(p)
      <4>1. u < Stop(p)
        BY <1>6, <3>5 DEF Children
      <4>2. c < Stop(p)
        BY <1>2, <1>7, <3>3, <3>5, <4>1, HeaderFacts
      <4> QED
        BY <3>3, <3>4, <3>5, <4>2, Nested
    <3>6. CASE ~Sized(p)
      <4>1. c \in Terminators(p)
        BY <3>3, <3>4 DEF Terminators
      <4>2. u < c
        BY <1>6, <3>6, <4>1 DEF Children
      <4> QED
        BY <1>2, <1>7, <3>3, <4>2
    <3> QED
      BY <3>5, <3>6
  <2>3. e # u
    BY <1>6, <2>1, Kinds
  <2>4. ~ (u < e /\ e < Stop(u))
    BY <1>6, <1>7, <1>8, <2>1, Nested, Kinds
  <2> QED
    BY <1>2, <1>7, <1>8, <2>1, <2>2, <2>3, <2>4
<1>10. TimecodeEnd(p) = Stop(u)
  BY DEF TimecodeEnd, u
<1> QED
  BY <1>2, <1>7, <1>8, <1>9, <1>10

-----------------------------------------------------------------------------
(* Parsing one cluster.                                                     *)

\* A cluster that has not been loaded is as it was made; one that has been has
\* blocks, and a size if the file gives it.
Parsed(c) ==
  /\ Id(c.start) = "Cluster"
  /\ ~c.loaded => c.pos = c.start /\ c.entries = << >> /\ c.size = Unknown
  /\ c.loaded => Entries(c.start) # {} /\ (Sized(c.start) => c.size # Unknown)
  /\ c.size # Unknown => EndsRight(c.start, End(c))

\* The fields of a cluster's record.
LEMMA RecordFields ==
  ASSUME NEW c \in ClusterRecord
  PROVE  /\ c.start \in Headers /\ c.index \in Nat \cup {-1} /\ c.pos \in Nat
         /\ c.size \in Nat \cup {Unknown} /\ c.loaded \in BOOLEAN
         /\ c.entries \in Seq(Headers)
BY DEF ClusterRecord

\* A walk that has found a block has one to find; one that says there is none has not.
LEMMA FirstEntryFacts ==
  ASSUME NEW p
  PROVE  /\ FirstEntry(p) = "some" => Entries(p) # {}
         /\ FirstEntry(p) = "none" => Entries(p) = {} /\ SeesEnd(p)
         /\ FirstEntry(p) \in {"some", "none", "more"}
BY DEF FirstEntry

\* Without a payload there are no blocks.
LEMMA EmptyHasNone ==
  ASSUME file \in Files, NEW p \in Headers, file.hdr[p].size = 0
  PROVE  Entries(p) = {}
<1>1. Sized(p) /\ Stop(p) = p + 1 /\ p \in Nat
  BY FileFacts DEF Sized, Stop, Unknown
<1> SUFFICES ASSUME NEW q \in Entries(p) PROVE FALSE
  OBVIOUS
<1>2. q \in Headers /\ p < q /\ q < Stop(p)
  BY <1>1, EntryFacts
<1> QED
  BY <1>1, <1>2, FileFacts

\* What loading a cluster may answer.
LEMMA LoadStatusFacts ==
  ASSUME file \in Files, NEW c \in ClusterRecord, Parsed(c)
  PROVE  /\ LoadStatus(c) \in {"some", "none", "more"}
         /\ LoadStatus(c) = "some" => Entries(c.start) # {}
         /\ LoadStatus(c) = "none" => Entries(c.start) = {}
<1>1. c.start \in Headers /\ c.loaded \in BOOLEAN
  BY RecordFields
<1>2. CASE c.loaded
  BY <1>2 DEF LoadStatus, Parsed
<1>3. CASE ~c.loaded /\ file.hdr[c.start].size = 0
  <2>1. LoadStatus(c) = "none"
    BY <1>3 DEF LoadStatus
  <2> QED
    BY <1>1, <1>3, <2>1, EmptyHasNone
<1>4. CASE ~c.loaded /\ file.hdr[c.start].size # 0
  <2>1. LoadStatus(c) = FirstEntry(c.start)
    BY <1>4 DEF LoadStatus
  <2> QED
    BY <2>1, FirstEntryFacts
<1> QED
  BY <1>1, <1>2, <1>3, <1>4

\* Loading keeps what is known of a cluster.
LEMMA LoadedFacts ==
  ASSUME file \in Files, NEW c \in ClusterRecord, Parsed(c), LoadStatus(c) = "some"
  PROVE  /\ Loaded(c) \in ClusterRecord /\ Parsed(Loaded(c)) /\ Loaded(c).loaded
         /\ Loaded(c).start = c.start /\ Loaded(c).index = c.index
         /\ Loaded(c).entries = c.entries
         /\ c.loaded => Loaded(c) = c
         /\ ~c.loaded => /\ Loaded(c).pos = TimecodeEnd(c.start)
                         /\ Sized(c.start) => End(Loaded(c)) = Stop(c.start)
                         /\ ~Sized(c.start) => Loaded(c).size = Unknown
<1>1. CASE c.loaded
  BY <1>1 DEF Loaded
<1>2. CASE ~c.loaded
  <2> DEFINE p == c.start
             n == IF Sized(p) THEN Stop(p) - p ELSE Unknown
             d == [c EXCEPT !.loaded = TRUE, !.pos = TimecodeEnd(p), !.size = n]
  <2>1. Loaded(c) = d
    BY <1>2 DEF Loaded
  <2>2. p \in Headers /\ p \in Nat /\ Id(p) = "Cluster" /\ Entries(p) # {}
    BY RecordFields, FileFacts, LoadStatusFacts DEF Parsed
  <2>3. TimecodeEnd(p) \in Nat
    BY <2>2, TimecodeEndFacts
  <2>4. n \in Nat \cup {Unknown} /\ (Sized(p) => n # Unknown /\ p + n = Stop(p))
        /\ (~Sized(p) => n = Unknown)
    BY <2>2, HeaderFacts DEF Unknown
  <2> HIDE DEF n
  <2>5. /\ d \in ClusterRecord /\ d.loaded /\ d.start = p /\ d.index = c.index
        /\ d.entries = c.entries /\ d.pos = TimecodeEnd(p) /\ d.size = n
    BY <2>3, <2>4 DEF ClusterRecord
  <2> HIDE DEF d
  <2>6. Sized(p) => End(d) = Stop(p)
    BY <2>4, <2>5 DEF End
  <2>7. d.size # Unknown => EndsRight(p, End(d))
    BY <2>2, <2>4, <2>5, <2>6, SizedEnds
  <2>8. Parsed(d)
    BY <2>2, <2>4, <2>5, <2>7 DEF Parsed
  <2> QED
    BY <1>2, <2>1, <2>4, <2>5, <2>6, <2>8
<1> QED
  BY <1>1, <1>2, RecordFields

\* A block added behind the others.
LEMMA AppendPrefix ==
  ASSUME NEW S, NEW s \in Seq(S), NEW x \in S
  PROVE  Append(s, x) \in Seq(S) /\ IsPrefix(s, Append(s, x))
<1>1. /\ Append(s, x) \in Seq(S) /\ Len(Append(s, x)) = Len(s) + 1
      /\ \A i \in 1 .. Len(s) : Append(s, x)[i] = s[i]
  OBVIOUS
<1>2. SubSeq(s, 1, Len(s)) = SubSeq(Append(s, x), 1, Len(s))
  BY <1>1
<1> QED
  BY <1>1, <1>2 DEF IsPrefix

\* A sequence begins with itself.
LEMMA PrefixSame ==
  ASSUME NEW s \in Seq(Headers)
  PROVE  IsPrefix(s, s)
BY DEF IsPrefix

\* A cluster whose end has been found, at a stop behind its header.
LEMMA EndedFacts ==
  ASSUME file \in Files, NEW c \in ClusterRecord, Parsed(c), c.loaded, NEW stop,
         EndsRight(c.start, stop)
  PROVE  LET r == Ended(c, stop)
         IN  /\ r.status = "end" /\ r.cluster \in ClusterRecord /\ Parsed(r.cluster)
             /\ r.cluster.start = c.start /\ r.cluster.index = c.index
             /\ r.cluster.entries = c.entries /\ r.cluster.loaded
             /\ r.cluster.pos = stop /\ End(r.cluster) = stop /\ r.cluster.size # Unknown
<1>1. c.start \in Nat /\ stop \in Nat /\ stop > c.start
  BY RecordFields, FileFacts DEF EndsRight
<1> DEFINE n == stop - c.start
           d == [c EXCEPT !.pos = stop, !.size = n]
<1>2. n \in Nat /\ n # Unknown /\ c.start + n = stop
  BY <1>1 DEF Unknown
<1> HIDE DEF n
<1>3. /\ d \in ClusterRecord /\ d.start = c.start /\ d.index = c.index /\ d.pos = stop
      /\ d.size = n /\ d.entries = c.entries /\ d.loaded = c.loaded
  BY <1>1, <1>2 DEF ClusterRecord
<1> HIDE DEF d
<1>4. End(d) = stop
  BY <1>2, <1>3 DEF End
<1>5. Parsed(d)
  BY <1>2, <1>3, <1>4 DEF Parsed
<1>6. Ended(c, stop) = [ status |-> "end", cluster |-> d ]
  BY DEF Ended, d, n
<1>7. Ended(c, stop).status = "end" /\ Ended(c, stop).cluster = d
  BY <1>6
<1> QED
  BY <1>2, <1>3, <1>4, <1>5, <1>7

\* A cluster to which a block is added.
LEMMA BlockFacts ==
  ASSUME file \in Files, NEW c \in ClusterRecord, Parsed(c), c.loaded,
         NEW q \in Entries(c.start),
         NEW d, d = [c EXCEPT !.entries = Append(@, q), !.pos = Stop(q)]
  PROVE  /\ d \in ClusterRecord /\ Parsed(d) /\ d.start = c.start /\ d.index = c.index
         /\ d.entries = Append(c.entries, q) /\ d.pos = Stop(q) /\ d.size = c.size
         /\ d.loaded /\ End(d) = End(c)
<1>1. c.entries \in Seq(Headers) /\ c.start \in Headers
  BY RecordFields
<1>2. q \in Headers /\ Stop(q) \in Nat
  BY <1>1, EntryFacts, HeaderFacts
<1>3. Append(c.entries, q) \in Seq(Headers)
  BY <1>1, <1>2
<1>4. /\ d \in ClusterRecord /\ d.start = c.start /\ d.index = c.index
      /\ d.entries = Append(c.entries, q) /\ d.pos = Stop(q) /\ d.size = c.size
      /\ d.loaded = c.loaded
  BY <1>2, <1>3 DEF ClusterRecord
<1>5. End(d) = End(c)
  BY <1>4 DEF End
<1> QED
  BY <1>4, <1>5 DEF Parsed

\* What is left of a cluster's blocks.
LEMMA RestFacts ==
  ASSUME file \in Files, NEW c \in ClusterRecord
  PROVE  /\ Rest(c) \subseteq Entries(c.start)
         /\ Rest(c) # {} => /\ Min(Rest(c)) \in Rest(c)
                            /\ \A q \in Rest(c) : Min(Rest(c)) <= q
<1>1. Rest(c) \subseteq Entries(c.start) /\ c.start \in Headers
  BY RecordFields DEF Rest
<1>2. Rest(c) \subseteq Nat
  BY <1>1, EntryFacts, FileFacts
<1> QED
  BY <1>1, <1>2, MinIsLeast

\* What Parse comes to: nothing new, the end, or the next block.
ParseOutcome(c, r) ==
  \/ r = Same(c, "end") /\ c.size # Unknown /\ c.pos >= End(c)
  \/ r = Same(c, "more")
  \/ /\ r = Ended(c, End(c)) /\ c.size # Unknown /\ Rest(c) = {}
  \/ /\ r = Ended(c, ClusterStop(c.start)) /\ c.size = Unknown /\ Rest(c) = {}
     /\ SeesEnd(c.start)
  \/ /\ r = Ended(c, Total) /\ c.size = Unknown /\ Rest(c) = {}
     /\ Terminators(c.start) = {} /\ Total # Unknown
  \/ /\ r = Ended(c, Total) /\ c.size = Unknown /\ Rest(c) # {}
     /\ Total # Unknown /\ Stop(Min(Rest(c))) > Total
  \/ \E q \in Rest(c) :
       /\ q = Min(Rest(c)) /\ BlockReadable(q, c.size # Unknown)
       /\ r.status = "block"
       /\ r.cluster = [c EXCEPT !.entries = Append(@, q), !.pos = Stop(q)]

\* What reading one entry may answer.
LEMMA ParseFromOutcome ==
  ASSUME file \in Files, NEW c \in ClusterRecord
  PROVE  ParseOutcome(c, ParseFrom(c, Rest(c)))
<1> DEFINE rest == Rest(c)
           r    == ParseFrom(c, rest)
<1>1. CASE c.size # Unknown /\ c.pos >= End(c)
  <2>1. r = Same(c, "end")
    BY <1>1 DEF ParseFrom
  <2> QED
    BY <1>1, <2>1 DEF ParseOutcome
<1>2. CASE ~ (c.size # Unknown /\ c.pos >= End(c)) /\ rest = {}
  <2>1. r = ParseEnd(c)
    BY <1>2, Zenon DEF ParseFrom
  <2>2. CASE c.size # Unknown /\ SeesEnd(c.start)
    <3>1. r = Ended(c, End(c))
      BY <2>1, <2>2, Zenon DEF ParseEnd
    <3> QED
      BY <1>2, <2>2, <3>1 DEF ParseOutcome
  <2>3. CASE c.size # Unknown /\ ~SeesEnd(c.start)
    <3>1. r = Same(c, "more")
      BY <2>1, <2>3, Zenon DEF ParseEnd
    <3> QED
      BY <3>1 DEF ParseOutcome
  <2>4. CASE c.size = Unknown /\ SeesEnd(c.start)
    <3>1. r = Ended(c, ClusterStop(c.start))
      BY <2>1, <2>4, Zenon DEF ParseEnd
    <3> QED
      BY <1>2, <2>4, <3>1 DEF ParseOutcome
  <2>5. CASE /\ c.size = Unknown /\ ~SeesEnd(c.start)
             /\ Terminators(c.start) = {} /\ Total # Unknown /\ avail = Total
    <3>1. r = Ended(c, Total)
      BY <2>1, <2>5, Zenon DEF ParseEnd
    <3> QED
      BY <1>2, <2>5, <3>1 DEF ParseOutcome
  <2>6. CASE /\ c.size = Unknown /\ ~SeesEnd(c.start)
             /\ ~ (Terminators(c.start) = {} /\ Total # Unknown /\ avail = Total)
    <3>1. r = Same(c, "more")
      BY <2>1, <2>6, Zenon DEF ParseEnd
    <3> QED
      BY <3>1 DEF ParseOutcome
  <2> QED
    BY <2>2, <2>3, <2>4, <2>5, <2>6
<1>3. CASE ~ (c.size # Unknown /\ c.pos >= End(c)) /\ rest # {} /\ ~CanRead(Min(rest))
  <2>1. r = Same(c, "more")
    BY <1>3, Zenon DEF ParseFrom
  <2> QED
    BY <2>1 DEF ParseOutcome
<1>4. CASE ~ (c.size # Unknown /\ c.pos >= End(c)) /\ rest # {} /\ CanRead(Min(rest))
  <2> DEFINE q == Min(rest)
  <2>1. r = ParseBlock(c, q)
    BY <1>4, Zenon DEF ParseFrom
  <2>2. q \in Rest(c)
    BY <1>4, RestFacts
  <2>3. CASE c.size = Unknown /\ Total # Unknown /\ Stop(q) > Total
    <3>1. r = Ended(c, Total)
      BY <2>1, <2>3, Zenon DEF ParseBlock
    <3> QED
      BY <1>4, <2>3, <3>1 DEF ParseOutcome
  <2>4. CASE /\ ~ (c.size = Unknown /\ Total # Unknown /\ Stop(q) > Total)
             /\ ~BlockReadable(q, c.size # Unknown)
    <3>1. r = Same(c, "more")
      BY <2>1, <2>4, Zenon DEF ParseBlock
    <3> QED
      BY <3>1 DEF ParseOutcome
  <2>5. CASE /\ ~ (c.size = Unknown /\ Total # Unknown /\ Stop(q) > Total)
             /\ BlockReadable(q, c.size # Unknown)
    <3>1. r = [ status |-> "block",
                cluster |-> [c EXCEPT !.entries = Append(@, q), !.pos = Stop(q)] ]
      BY <2>1, <2>5, Zenon DEF ParseBlock
    <3>2. r.status = "block"
          /\ r.cluster = [c EXCEPT !.entries = Append(@, q), !.pos = Stop(q)]
      BY <3>1
    <3> QED
      BY <2>2, <2>5, <3>2 DEF ParseOutcome
  <2> QED
    BY <2>3, <2>4, <2>5
<1> QED
  BY <1>1, <1>2, <1>3, <1>4

\* A block that the end of the file cuts off is in the last of the clusters.
LEMMA CutBlock ==
  ASSUME file \in Files, NEW p \in Headers, ~Sized(p), NEW q \in Entries(p),
         Total # Unknown, Stop(q) > Total
  PROVE  Terminators(p) = {}
<1> SUFFICES ASSUME NEW t \in Terminators(p) PROVE FALSE
  OBVIOUS
<1>1. q \in Headers /\ Id(q) \in Blocks /\ Sized(q) /\ q < t
  BY EntryFacts
<1>2. t \in Headers /\ t < LastStop /\ LastStop <= Total /\ t \in Nat /\ Total \in Nat
      /\ LastStop \in Nat /\ Stop(q) \in Nat
  BY <1>1, TerminatorFacts, FileFacts, HeaderFacts DEF Total
<1>3. t < Stop(q)
  BY <1>2
<1> QED
  BY <1>1, <1>2, <1>3, Nested, Kinds

\* Parsing keeps a cluster's place and its blocks, and what it finds to be the end of
\* a cluster is.
LEMMA ParseFacts ==
  ASSUME file \in Files, NEW c \in ClusterRecord, Parsed(c), NEW r \in Parse(c)
  PROVE  /\ r.cluster \in ClusterRecord /\ Parsed(r.cluster)
         /\ r.cluster.start = c.start /\ r.cluster.index = c.index
         /\ IsPrefix(c.entries, r.cluster.entries)
         /\ r.status \in {"more", "invalid", "end", "block"}
         /\ r.status = "end" => r.cluster.size # Unknown
         /\ r.status = "invalid" => Entries(c.start) = {}
<1>1. CASE LoadStatus(c) # "some"
  <2>1. r = Same(c, IF LoadStatus(c) = "more" THEN "more" ELSE "invalid")
    BY <1>1 DEF Parse
  <2>2. r.cluster = c /\ r.status \in {"more", "invalid"}
        /\ (r.status = "invalid" => LoadStatus(c) # "more")
    BY <2>1 DEF Same
  <2>3. IsPrefix(c.entries, c.entries)
    BY RecordFields, PrefixSame
  <2> QED
    BY <1>1, <2>2, <2>3, LoadStatusFacts
<1>2. CASE LoadStatus(c) = "some"
  <2> DEFINE d == Loaded(c)
  <2>1. r = ParseFrom(d, Rest(d))
    BY <1>2 DEF Parse
  <2>2. /\ d \in ClusterRecord /\ Parsed(d) /\ d.loaded /\ d.start = c.start
        /\ d.index = c.index /\ d.entries = c.entries
    BY <1>2, LoadedFacts
  <2>3. ParseOutcome(d, r)
    BY <2>1, <2>2, ParseFromOutcome
  <2>4. IsPrefix(c.entries, d.entries)
    BY <2>2, RecordFields, PrefixSame
  <2>5. d.start \in Headers
    BY <2>2, RecordFields
  <2> HIDE DEF d
  <2>6. CASE r = Same(d, "end") /\ d.size # Unknown
    <3>1. r.cluster = d /\ r.status = "end"
      BY <2>6 DEF Same
    <3> QED
      BY <2>2, <2>4, <2>6, <3>1
  <2>7. CASE r = Same(d, "more")
    <3>1. r.cluster = d /\ r.status = "more"
      BY <2>7 DEF Same
    <3> QED
      BY <2>2, <2>4, <3>1
  <2>8. ASSUME NEW stop, EndsRight(d.start, stop), r = Ended(d, stop)
        PROVE  /\ r.cluster \in ClusterRecord /\ Parsed(r.cluster)
               /\ r.cluster.start = c.start /\ r.cluster.index = c.index
               /\ IsPrefix(c.entries, r.cluster.entries)
               /\ r.status = "end" /\ r.cluster.size # Unknown
    BY <2>2, <2>4, <2>8, EndedFacts
  <2>9. CASE r = Ended(d, End(d)) /\ d.size # Unknown
    <3>1. EndsRight(d.start, End(d))
      BY <2>2, <2>9 DEF Parsed
    <3> QED
      BY <2>8, <2>9, <3>1
  <2>10. ASSUME d.size = Unknown PROVE ~Sized(d.start)
    BY <2>2, <2>10 DEF Parsed
  <2>11. CASE /\ r = Ended(d, ClusterStop(d.start)) /\ d.size = Unknown
              /\ SeesEnd(d.start)
    <3>1. Terminators(d.start) # {}
      BY <2>10, <2>11 DEF SeesEnd
    <3>2. ClusterStop(d.start) = Min(Terminators(d.start))
      BY <2>10, <2>11, <3>1 DEF ClusterStop
    <3>3. EndsRight(d.start, ClusterStop(d.start))
      BY <2>5, <3>1, <3>2, TerminatorEnds
    <3> QED
      BY <2>8, <2>11, <3>3
  <2>12. CASE r = Ended(d, Total) /\ Terminators(d.start) = {} /\ Total # Unknown
    <3>1. EndsRight(d.start, Total)
      BY <2>5, <2>12, TotalEnds
    <3> QED
      BY <2>8, <2>12, <3>1
  <2>13. CASE /\ r = Ended(d, Total) /\ d.size = Unknown /\ Rest(d) # {}
              /\ Total # Unknown /\ Stop(Min(Rest(d))) > Total
    <3>1. Min(Rest(d)) \in Entries(d.start)
      BY <2>2, <2>13, RestFacts
    <3>2. Terminators(d.start) = {}
      BY <2>5, <2>10, <2>13, <3>1, CutBlock
    <3> QED
      BY <2>12, <2>13, <3>2
  <2>14. ASSUME NEW q \in Rest(d), r.status = "block",
                r.cluster = [d EXCEPT !.entries = Append(@, q), !.pos = Stop(q)]
         PROVE  /\ r.cluster \in ClusterRecord /\ Parsed(r.cluster)
                /\ r.cluster.start = c.start /\ r.cluster.index = c.index
                /\ IsPrefix(c.entries, r.cluster.entries)
    <3>1. q \in Entries(d.start)
      BY <2>2, RestFacts
    <3>2. q \in Headers /\ c.entries \in Seq(Headers)
      BY <2>5, <3>1, EntryFacts, RecordFields
    <3>3. IsPrefix(c.entries, Append(c.entries, q))
      BY <3>2, AppendPrefix
    <3>4. PICK e : e = r.cluster
      OBVIOUS
    <3>5. e = [d EXCEPT !.entries = Append(@, q), !.pos = Stop(q)]
      BY <2>14, <3>4
    <3>6. e \in ClusterRecord /\ Parsed(e) /\ e.start = d.start /\ e.index = d.index
          /\ e.entries = Append(d.entries, q)
      BY <2>2, <3>1, <3>5, BlockFacts, ZenonT(60)
    <3> QED
      BY <2>2, <3>3, <3>4, <3>6
  <2> QED
    BY <2>3, <2>6, <2>7, <2>9, <2>11, <2>12, <2>13, <2>14 DEF ParseOutcome
<1> QED
  BY <1>1, <1>2

-----------------------------------------------------------------------------
(* The invariant.                                                           *)

KnownStarts == { clusters[i].start : i \in 1 .. count }

\* What a call that runs may count on: the headers are parsed before any cluster,
\* and DoParseNext starts at a preloaded one.
Calling ==
  /\ api \in {"none", "headers"} => clusters = << >>
  /\ pc = "headers" => api = "headers"
  /\ pc = "load" => api \in {"load", "next"}
  /\ pc = "next" => api = "next" /\ Preloaded > 0

ClustersParsed == \A i \in DOMAIN clusters : Parsed(clusters[i])

\* How far loading has come, the cluster that is being parsed included.
Reached == IF mPos >= 0 THEN mPos ELSE - mPos

\* All clusters with blocks so far have been loaded, and no others.
LoadedSoFar ==
  /\ KnownStarts \subseteq RealClusters
  /\ \A q \in RealClusters : q < Reached <=> q \in KnownStarts

\* The array and the position of loading.
ArrayInv ==
  /\ clusters \in Seq(ClusterRecord) /\ mPos \in Int
  /\ mUnknown \in 0 .. count /\ count \in 0 .. Len(clusters)
  /\ mPos >= 0 => mUnknown = 0 /\ (mPos \in Headers \/ mPos >= LastStop)
  /\ mPos < 0  => mUnknown = count /\ count > 0
                    /\ clusters[count].start = -mPos - 1
  /\ ClustersParsed /\ LoadedSoFar

\* The call, and what has been found.
CallInv ==
  /\ file \in Files /\ avail \in 0 .. file.length
  /\ pc \in {"idle", "headers", "load", "next", "garbage"}
  /\ api \in {"none", "headers", "load", "parse", "find", "cues", "next", "getNext"}
  /\ ret \in {"ok", "more", "none", "invalid", "failed", "block", "end", "eos",
              "running"}
  /\ result \in {0} \cup Headers /\ curr \in {0} \cup Headers
  /\ pos \in Nat
  /\ mInfo \in BOOLEAN /\ mTracks \in BOOLEAN /\ mCues \in BOOLEAN
  /\ Calling

LoadInv == ArrayInv /\ CallInv

\* The invariant holds the two properties of the position.
LEMMA LoadInvGivesCursor ==
  ASSUME LoadInv
  PROVE  CursorOnElement
BY DEF LoadInv, ArrayInv, CallInv, CursorOnElement, TypeOK

-----------------------------------------------------------------------------
(* The file does not change.                                                *)

\* What depends on the file only,
LEMMA SameFile ==
  ASSUME file' = file
  PROVE  /\ Headers' = Headers /\ LastStop' = LastStop /\ ClusterRecord' = ClusterRecord
         /\ Total' = Total /\ SegmentStop' = SegmentStop
         /\ \A p : /\ Id(p)' = Id(p) /\ Sized(p)' = Sized(p) /\ Stop(p)' = Stop(p)
                   /\ Entries(p)' = Entries(p) /\ CutOff(p)' = CutOff(p)
BY DEF Headers, LastStop, ClusterRecord, Total, SegmentStop, Id, Sized, Stop, Entries,
       Children, Terminators, CutOff

\* the real clusters and their records included.
LEMMA SameClusters ==
  ASSUME file' = file
  PROVE  /\ RealClusters' = RealClusters
         /\ \A c : Parsed(c)' <=> Parsed(c)
<1>1. RealClusters' = RealClusters
  BY SameFile DEF RealClusters
<1>2. ASSUME NEW c PROVE Parsed(c)' <=> Parsed(c)
  BY SameFile DEF Parsed, EndsRight, End
<1> QED
  BY <1>1, <1>2

\* The records of the next state, one by one.
LEMMA ParsedStays ==
  ASSUME file' = file, \A i \in DOMAIN clusters' : Parsed(clusters'[i])
  PROVE  ClustersParsed'
BY SameFile DEF ClustersParsed, Parsed, EndsRight, End

\* A position where something can be read is one where an element begins, if it is
\* where loading or a walk has stopped.
LEMMA AtHeader ==
  ASSUME file \in Files, avail <= file.length, avail \in Nat, NEW p \in Nat,
         p \in Headers \/ p >= LastStop, ~AtEnd(p), CanRead(p)
  PROVE  p \in Headers
<1>1. p < file.length
  BY FileFacts DEF CanRead
<1>2. file.size # Unknown => p < file.start + file.size
  BY FileFacts DEF AtEnd, AtSegmentStop, SegmentStop
<1> QED
  BY <1>1, <1>2, FileFacts DEF LastStop

\* At the end no more elements come.
LEMMA EndIsLast ==
  ASSUME file \in Files, NEW p \in Nat, AtEnd(p)
  PROVE  p >= LastStop
<1>1. CASE AtTotal(p)
  BY <1>1, FileFacts DEF AtTotal, Total
<1>2. CASE AtSegmentStop(p)
  BY <1>2, FileFacts DEF AtSegmentStop, SegmentStop, LastStop
<1> QED
  BY <1>1, <1>2 DEF AtEnd

-----------------------------------------------------------------------------
(* Clusters with blocks.                                                    *)

\* A real cluster has blocks, so it has a payload.
LEMMA RealFacts ==
  ASSUME file \in Files, NEW p \in RealClusters
  PROVE  /\ p \in Headers /\ p \in Nat /\ Id(p) = "Cluster" /\ Entries(p) # {}
         /\ file.hdr[p].size # 0 /\ p < LastStop
<1>1. p \in Headers /\ Id(p) = "Cluster" /\ Entries(p) # {}
  BY DEF RealClusters
<1> QED
  BY <1>1, EmptyHasNone, FileFacts

\* HasBlockEntries tells which they are.
LEMMA HasBlocksFacts ==
  ASSUME file \in Files, NEW p \in Headers, Id(p) = "Cluster"
  PROVE  /\ HasBlockEntries(p) \in {"some", "none", "more"}
         /\ HasBlockEntries(p) = "some" => p \in RealClusters
         /\ HasBlockEntries(p) = "none" => p \notin RealClusters
<1>1. CASE file.hdr[p].size = 0
  <2>1. HasBlockEntries(p) = "none"
    BY <1>1 DEF HasBlockEntries
  <2> QED
    BY <1>1, <2>1, RealFacts
<1>2. CASE CutOff(p)
  <2>1. HasBlockEntries(p) = "none"
    BY <1>2 DEF HasBlockEntries
  <2> QED
    BY <1>2, <2>1 DEF RealClusters
<1>3. CASE file.hdr[p].size # 0 /\ ~CutOff(p)
  <2>1. HasBlockEntries(p) = FirstEntry(p)
    BY <1>3 DEF HasBlockEntries
  <2> QED
    BY <1>3, <2>1, FirstEntryFacts DEF RealClusters
<1> QED
  BY <1>1, <1>2, <1>3

-----------------------------------------------------------------------------
(* What the steps do to the array and to the position of loading.           *)

\* No cluster is lost in a step, nor a block.
KeptStep ==
  \A i \in DOMAIN clusters : \E j \in DOMAIN clusters' :
    /\ clusters'[j].start = clusters[i].start
    /\ IsPrefix(clusters[i].entries, clusters'[j].entries)

\* The array, in arithmetic.
LEMMA ArrayFacts ==
  ASSUME ArrayInv
  PROVE  /\ Len(clusters) \in Nat /\ DOMAIN clusters = 1 .. Len(clusters) /\ count \in Nat
         /\ count <= Len(clusters) /\ mUnknown \in Nat /\ mPos \in Int
         /\ \A i \in 1 .. Len(clusters) :
              clusters[i] \in ClusterRecord /\ clusters[i].start \in Headers
                /\ clusters[i].entries \in Seq(Headers)
         /\ \A i \in 1 .. count : i \in 1 .. Len(clusters)
<1>1. clusters \in Seq(ClusterRecord) /\ mUnknown \in 0 .. count /\ mPos \in Int
      /\ count \in 0 .. Len(clusters)
  BY DEF ArrayInv
<1>2. Len(clusters) \in Nat /\ DOMAIN clusters = 1 .. Len(clusters)
  BY <1>1
<1>3. \A i \in 1 .. Len(clusters) : clusters[i] \in ClusterRecord
  BY <1>1
<1>4. \A i \in 1 .. Len(clusters) :
        clusters[i].start \in Headers /\ clusters[i].entries \in Seq(Headers)
  BY <1>3, RecordFields
<1> QED
  BY <1>1, <1>2, <1>3, <1>4

\* The array as it was.
LEMMA ArrayStays ==
  ASSUME ArrayInv, UNCHANGED clusters
  PROVE  KeptStep
<1> SUFFICES ASSUME NEW i \in DOMAIN clusters
             PROVE  IsPrefix(clusters[i].entries, clusters[i].entries)
  BY DEF KeptStep
<1> QED
  BY ArrayFacts, PrefixSame

\* A step that leaves the cursor and the array alone.
LEMMA NothingMoves ==
  ASSUME ArrayInv, file' = file, UNCHANGED << array, mPos, mUnknown >>
  PROVE  ArrayInv' /\ KeptStep
<1>1. KeptStep
  BY ArrayStays DEF array
<1>2. ClustersParsed' /\ LoadedSoFar'
  BY SameClusters DEF array, ArrayInv, ClustersParsed, LoadedSoFar, KnownStarts, Reached
<1> QED
  BY <1>1, <1>2, SameFile DEF array, ArrayInv

\* Loading goes on to where the next element begins, or to the end.
LEMMA CursorMoves ==
  ASSUME ArrayInv, file \in Files, file' = file, UNCHANGED << array, mUnknown >>,
         mPos >= 0, mPos' \in Nat, mPos' >= mPos, mPos' \in Headers \/ mPos' >= LastStop,
         \A q \in RealClusters : mPos <= q => mPos' <= q
  PROVE  ArrayInv' /\ KeptStep
<1>1. KeptStep
  BY ArrayStays DEF array
<1>2. ClustersParsed'
  BY SameClusters DEF array, ArrayInv, ClustersParsed
<1>3. \A q \in RealClusters : q \in Nat
  BY RealFacts
<1>4. Reached = mPos /\ Reached' = mPos'
  BY DEF Reached
<1>5. KnownStarts' = KnownStarts /\ RealClusters' = RealClusters
  BY SameClusters DEF KnownStarts, array
<1>6. \A q \in RealClusters : q < mPos' <=> q < mPos
  BY <1>3 DEF ArrayInv
<1>7. LoadedSoFar'
  BY <1>4, <1>5, <1>6 DEF ArrayInv, LoadedSoFar
<1> QED
  BY <1>1, <1>2, <1>7, SameFile DEF array, ArrayInv

\* A cluster is parsed.
LEMMA Reparsed ==
  ASSUME ArrayInv, file' = file, NEW i \in DOMAIN clusters,
         NEW d \in ClusterRecord, Parsed(d), d.start = clusters[i].start,
         IsPrefix(clusters[i].entries, d.entries),
         clusters' = [clusters EXCEPT ![i] = d], count' = count
  PROVE  /\ clusters' \in Seq(ClusterRecord) /\ Len(clusters') = Len(clusters)
         /\ ClustersParsed' /\ KnownStarts' = KnownStarts /\ KeptStep
         /\ \A j \in 1 .. Len(clusters) : clusters'[j].start = clusters[j].start
<1>1. i \in 1 .. Len(clusters) /\ clusters \in Seq(ClusterRecord) /\ Len(clusters) \in Nat
  BY ArrayFacts DEF ArrayInv
<1>2. clusters' \in Seq(ClusterRecord) /\ Len(clusters') = Len(clusters)
  BY <1>1
<1>3. DOMAIN clusters = 1 .. Len(clusters) /\ DOMAIN clusters' = 1 .. Len(clusters)
  BY <1>1
<1>4. \A j \in 1 .. Len(clusters) : clusters'[j] = IF j = i THEN d ELSE clusters[j]
  BY <1>1, <1>3
<1>5. \A j \in 1 .. Len(clusters) : clusters'[j].start = clusters[j].start
  BY <1>4
<1>6. ClustersParsed'
  <2>1. \A j \in DOMAIN clusters' : Parsed(clusters'[j])
    BY <1>3, <1>4 DEF ArrayInv, ClustersParsed
  <2> QED
    BY <2>1, ParsedStays
<1>7. KnownStarts' = KnownStarts
  <2>1. \A j \in 1 .. count : clusters'[j].start = clusters[j].start
    BY <1>5, ArrayFacts
  <2> QED
    BY <2>1 DEF KnownStarts
<1>8. KeptStep
  <2> SUFFICES ASSUME NEW j \in DOMAIN clusters
               PROVE  /\ clusters'[j].start = clusters[j].start
                      /\ IsPrefix(clusters[j].entries, clusters'[j].entries)
    BY <1>3 DEF KeptStep
  <2>1. j # i => IsPrefix(clusters[j].entries, clusters[j].entries)
    BY <1>3, ArrayFacts, PrefixSame
  <2> QED
    BY <1>3, <1>4, <1>5, <2>1
<1> QED
  BY <1>2, <1>5, <1>6, <1>7, <1>8

\* A cluster parsed further stays in its place.
LEMMA ReparsedInPlace ==
  ASSUME ArrayInv, file' = file, NEW i \in DOMAIN clusters,
         NEW d \in ClusterRecord, Parsed(d), d.start = clusters[i].start,
         IsPrefix(clusters[i].entries, d.entries),
         clusters' = [clusters EXCEPT ![i] = d], UNCHANGED << count, mPos, mUnknown >>
  PROVE  ArrayInv' /\ KeptStep
<1>1. /\ clusters' \in Seq(ClusterRecord) /\ Len(clusters') = Len(clusters)
      /\ ClustersParsed' /\ KnownStarts' = KnownStarts /\ KeptStep
      /\ \A j \in 1 .. Len(clusters) : clusters'[j].start = clusters[j].start
  BY Reparsed
<1>2. LoadedSoFar'
  BY <1>1, SameClusters DEF ArrayInv, LoadedSoFar, Reached
<1>3. mPos < 0 => clusters'[count].start = -mPos - 1
  BY <1>1, ArrayFacts DEF ArrayInv
<1> QED
  BY <1>1, <1>2, <1>3, SameFile DEF ArrayInv

\* The cluster of unknown size that is being loaded is found to end.
LEMMA ReparsedToEnd ==
  ASSUME ArrayInv, file \in Files, file' = file, mPos < 0,
         NEW d \in ClusterRecord, Parsed(d), d.start = clusters[mUnknown].start,
         IsPrefix(clusters[mUnknown].entries, d.entries), d.size # Unknown,
         clusters' = [clusters EXCEPT ![mUnknown] = d],
         count' = count, mUnknown' = 0, mPos' = End(d)
  PROVE  ArrayInv' /\ KeptStep
<1>1. mUnknown \in DOMAIN clusters /\ mUnknown = count /\ clusters[count].start = -mPos - 1
  BY ArrayFacts DEF ArrayInv
<1>2. /\ clusters' \in Seq(ClusterRecord) /\ Len(clusters') = Len(clusters)
      /\ ClustersParsed' /\ KnownStarts' = KnownStarts /\ KeptStep
  BY <1>1, Reparsed
<1> DEFINE p == -mPos - 1
<1>3. p \in Headers /\ p \in Nat /\ EndsRight(p, mPos')
  <2>1. d.start = p /\ d.start \in Headers
    BY <1>1, RecordFields
  <2>2. EndsRight(d.start, End(d))
    BY DEF Parsed
  <2> QED
    BY <2>1, <2>2, FileFacts
<1>4. mPos' \in Nat /\ mPos' > p /\ (mPos' \in Headers \/ mPos' >= LastStop)
  BY <1>3 DEF EndsRight
<1>5. Reached = p + 1 /\ Reached' = mPos'
  BY <1>4, ArrayFacts DEF Reached
<1>6. ASSUME NEW q \in RealClusters PROVE q < mPos' <=> q < p + 1
  <2>1. q \in Nat /\ q \in Headers /\ Id(q) = "Cluster"
    BY RealFacts
  <2>2. ~ (p < q /\ q < mPos')
    BY <1>3, <2>1 DEF EndsRight
  <2> QED
    BY <1>3, <1>4, <2>1, <2>2
<1>7. LoadedSoFar'
  BY <1>2, <1>5, <1>6, SameClusters DEF ArrayInv, LoadedSoFar
<1> QED
  BY <1>2, <1>4, <1>7, SameFile DEF ArrayInv

-----------------------------------------------------------------------------
(* The binary searches.                                                     *)

\* Induction over the naturals, for a property given as a set.
LEMMA NatSetInduction ==
  ASSUME NEW S, 0 \in S, \A n \in Nat : n \in S => n + 1 \in S
  PROVE  Nat \subseteq S
<1> SUFFICES ASSUME ~ (Nat \subseteq S) PROVE FALSE
  OBVIOUS
<1> DEFINE T == Nat \ S
<1>1. PICK x \in T : \A y \in T : x <= y
  BY LeastNatural
<1>2. x # 0 /\ x - 1 \in Nat /\ x - 1 \notin T
  BY <1>1
<1> QED
  BY <1>1, <1>2

Windows(first, last) == (first .. last) \X (first .. last)

Middle(w) == w[1] + (w[2] - w[1]) \div 2

\* The window that the search goes on with.
Smaller(w, p) == IF clusters[Middle(w)].start < p THEN << Middle(w) + 1, w[2] >>
                 ELSE << w[1], Middle(w) >>

\* One round of the search, with s for what follows.
Probed(r, w) == IF r.probe = 0 THEN [r EXCEPT !.probe = clusters[Middle(w)].start] ELSE r

Halve(s, w, p) ==
  IF w[1] >= w[2] THEN [ hit |-> FALSE, at |-> w[1], probe |-> 0 ]
  ELSE IF clusters[Middle(w)].start = p THEN [ hit |-> TRUE, at |-> Middle(w), probe |-> 0 ]
  ELSE Probed(IF clusters[Middle(w)].start < p THEN s[<< Middle(w) + 1, w[2] >>]
              ELSE s[<< w[1], Middle(w) >>], w)

\* One step of the search: the window is empty, hit, or halved.
LEMMA HalveFacts ==
  ASSUME NEW s, NEW w, NEW p
  PROVE  /\ w[1] >= w[2] => Halve(s, w, p) = [ hit |-> FALSE, at |-> w[1], probe |-> 0 ]
         /\ ~ (w[1] >= w[2]) /\ clusters[Middle(w)].start = p =>
              Halve(s, w, p) = [ hit |-> TRUE, at |-> Middle(w), probe |-> 0 ]
         /\ ~ (w[1] >= w[2]) /\ clusters[Middle(w)].start # p =>
              Halve(s, w, p) = Probed(s[Smaller(w, p)], w)
BY Zenon DEF Halve, Smaller

\* Only the smaller window counts.
LEMMA HalveAgrees ==
  ASSUME NEW s, NEW t, NEW w, NEW p,
         ~ (w[1] >= w[2]) => s[Smaller(w, p)] = t[Smaller(w, p)]
  PROVE  Halve(s, w, p) = Halve(t, w, p)
<1>1. CASE w[1] >= w[2]
  BY <1>1, HalveFacts, ZenonT(60)
<1>2. CASE ~ (w[1] >= w[2])
  <2>1. CASE clusters[Middle(w)].start = p
    BY <1>2, <2>1, Zenon DEF Halve
  <2>2. CASE clusters[Middle(w)].start # p /\ clusters[Middle(w)].start < p
    <3>1. s[<< Middle(w) + 1, w[2] >>] = t[<< Middle(w) + 1, w[2] >>]
      BY <1>2, <2>2, Zenon DEF Smaller
    <3> QED
      BY <1>2, <2>2, <3>1, Zenon DEF Halve
  <2>3. CASE clusters[Middle(w)].start # p /\ ~ (clusters[Middle(w)].start < p)
    <3>1. s[<< w[1], Middle(w) >>] = t[<< w[1], Middle(w) >>]
      BY <1>2, <2>3, Zenon DEF Smaller
    <3> QED
      BY <1>2, <2>3, <3>1, Zenon DEF Halve
  <2> QED
    BY <2>1, <2>2, <2>3
<1> QED
  BY <1>1, <1>2

\* The halves are windows, and smaller.
LEMMA WindowFacts ==
  ASSUME NEW first \in Nat, NEW last \in Nat, NEW w \in Windows(first, last), NEW p,
         w[1] < w[2]
  PROVE  /\ w[1] \in first .. last /\ w[2] \in first .. last
         /\ Middle(w) \in first .. last /\ w[1] <= Middle(w) /\ Middle(w) < w[2]
         /\ Smaller(w, p) \in Windows(first, last)
         /\ Smaller(w, p)[1] <= Smaller(w, p)[2]
         /\ Smaller(w, p)[2] - Smaller(w, p)[1] < w[2] - w[1]
<1>1. w[1] \in first .. last /\ w[2] \in first .. last
  BY DEF Windows
<1>2. Middle(w) \in Int /\ w[1] <= Middle(w) /\ Middle(w) < w[2]
  BY <1>1 DEF Middle
<1>3. CASE clusters[Middle(w)].start < p
  <2>1. Smaller(w, p) = << Middle(w) + 1, w[2] >>
    BY <1>3 DEF Smaller
  <2> QED
    BY <1>1, <1>2, <2>1 DEF Windows
<1>4. CASE ~ (clusters[Middle(w)].start < p)
  <2>1. Smaller(w, p) = << w[1], Middle(w) >>
    BY <1>4 DEF Smaller
  <2> QED
    BY <1>1, <1>2, <2>1 DEF Windows
<1> QED
  BY <1>3, <1>4

\* The search is this function.
LEMMA SearchDefined ==
  ASSUME NEW first \in Nat, NEW last \in Nat, first <= last, NEW p
  PROVE  \E s : /\ \A w \in Windows(first, last) : s[w] = Halve(s, w, p)
                /\ Search(first, last, p) = s[<< first, last >>]
<1> DEFINE W == Windows(first, last)
           Solves(g, n) == \A w \in W : w[2] - w[1] < n => g[w] = Halve(g, w, p)
           T == { n \in Nat : \E g : Solves(g, n) }
<1>1. \A w \in W : w[1] \in Nat /\ w[2] \in Nat /\ w[2] - w[1] < last - first + 1
  BY DEF Windows
<1>2. 0 \in T
  <2> DEFINE g == [w \in W |-> [ hit |-> FALSE, at |-> w[1], probe |-> 0 ]]
  <2>1. ASSUME NEW w \in W, w[2] - w[1] < 0 PROVE g[w] = Halve(g, w, p)
    <3>1. w[1] >= w[2]
      BY <1>1, <2>1
    <3> QED
      BY <3>1, HalveFacts
  <2>2. Solves(g, 0)
    BY <2>1
  <2> QED
    BY <2>2
<1>3. ASSUME NEW n \in Nat, n \in T PROVE n + 1 \in T
  <2>1. PICK g : Solves(g, n)
    BY <1>3
  <2> DEFINE h == [w \in W |-> Halve(g, w, p)]
  <2>2. ASSUME NEW w \in W, w[2] - w[1] < n + 1 PROVE h[w] = Halve(h, w, p)
    <3>1. h[w] = Halve(g, w, p)
      OBVIOUS
    <3>2. ASSUME ~ (w[1] >= w[2]) PROVE g[Smaller(w, p)] = h[Smaller(w, p)]
      <4> DEFINE v == Smaller(w, p)
      <4>1. v \in W /\ v[2] - v[1] < w[2] - w[1]
        BY <1>1, <3>2, WindowFacts
      <4>2. v[2] - v[1] < n
        BY <1>1, <2>2, <4>1
      <4> QED
        BY <2>1, <4>1, <4>2
    <3> HIDE DEF h
    <3> QED
      BY <3>1, <3>2, HalveAgrees
  <2>3. Solves(h, n + 1)
    BY <2>2
  <2> HIDE DEF h
  <2> QED
    BY <2>3
<1>4. last - first + 1 \in T
  <2> HIDE DEF T
  <2>1. last - first + 1 \in Nat
    OBVIOUS
  <2> QED
    BY <1>2, <1>3, <2>1, NatSetInduction
<1>5. PICK g : Solves(g, last - first + 1)
  BY <1>4
<1>6. \A w \in W : g[w] = Halve(g, w, p)
  BY <1>1, <1>5
<1> DEFINE s0 == [w \in W |-> g[w]]
<1>7. s0 = [w \in W |-> Halve(s0, w, p)]
  <2> SUFFICES ASSUME NEW w \in W PROVE g[w] = Halve(s0, w, p)
    OBVIOUS
  <2>1. ASSUME ~ (w[1] >= w[2]) PROVE g[Smaller(w, p)] = s0[Smaller(w, p)]
    <3>1. Smaller(w, p) \in W
      BY <1>1, <2>1, WindowFacts
    <3> QED
      BY <3>1
  <2> HIDE DEF s0
  <2> QED
    BY <1>6, <2>1, HalveAgrees
<1> DEFINE s == CHOOSE f : f = [w \in W |-> Halve(f, w, p)]
<1>8. s = [w \in W |-> Halve(s, w, p)]
  <2> HIDE DEF s0
  <2> QED
    BY <1>7
<1>9. Search(first, last, p) = s[<< first, last >>]
  BY DEF Search, Halve, Probed, Middle, Windows
<1> HIDE DEF s
<1>10. \A w \in W : s[w] = Halve(s, w, p)
  BY <1>8
<1> QED
  BY <1>9, <1>10
SortedFrom(i, j) == \A a, b \in i .. j - 1 : a < b => clusters[a].start < clusters[b].start

\* What a search of the places i to j - 1 for the cluster at p finds: the cluster,
\* or, if they are sorted, the place to put it.
Finds(r, i, j, p) ==
  /\ r \in [ hit : BOOLEAN, at : Nat, probe : Nat ]
  /\ r.hit => r.at \in i .. j - 1 /\ clusters[r.at].start = p
  /\ ~r.hit => r.at \in i .. j
  /\ r.probe = 0 \/ \E k \in i .. j - 1 : r.probe = clusters[k].start
  /\ i < j /\ ~r.hit => r.probe # 0
  /\ ~r.hit /\ SortedFrom(i, j) =>
       /\ \A k \in i .. r.at - 1 : clusters[k].start < p
       /\ \A k \in r.at .. j - 1 : clusters[k].start > p

\* A round of the search widens what the rest of it has found.
LEMMA ProbedFinds ==
  ASSUME NEW i \in Nat, NEW j \in Nat, NEW k \in Nat, i <= k, k < j, NEW p \in Nat,
         \A a \in i .. j - 1 : clusters[a].start \in Nat \ {0}, clusters[k].start # p,
         NEW u \in Nat, NEW v \in Nat,
         (u = k + 1 /\ v = j /\ clusters[k].start < p)
           \/ (u = i /\ v = k /\ ~ (clusters[k].start < p)),
         NEW r, Finds(r, u, v, p), NEW x,
         x = IF r.probe = 0 THEN [r EXCEPT !.probe = clusters[k].start] ELSE r
  PROVE  Finds(x, i, j, p)
<1>1. r \in [ hit : BOOLEAN, at : Nat, probe : Nat ]
  BY DEF Finds
<1>2. clusters[k].start \in Nat \ {0} /\ k \in i .. j - 1
  OBVIOUS
<1>3. /\ x \in [ hit : BOOLEAN, at : Nat, probe : Nat ] /\ x.hit = r.hit /\ x.at = r.at
      /\ r.probe = 0 => x.probe = clusters[k].start
      /\ r.probe # 0 => x.probe = r.probe
  <2>1. CASE r.probe = 0
    <3>1. x = [r EXCEPT !.probe = clusters[k].start]
      BY <2>1
    <3> QED
      BY <1>1, <1>2, <2>1, <3>1
  <2>2. CASE r.probe # 0
    BY <1>1, <2>2
  <2> QED
    BY <2>1, <2>2
<1>4. u .. v - 1 \subseteq i .. j - 1 /\ u .. v \subseteq i .. j
  OBVIOUS
<1>5. x.hit => x.at \in i .. j - 1 /\ clusters[x.at].start = p
  BY <1>3, <1>4 DEF Finds
<1>6. ~x.hit => x.at \in i .. j
  BY <1>3, <1>4 DEF Finds
<1>7. x.probe # 0 /\ \E a \in i .. j - 1 : x.probe = clusters[a].start
  <2>1. CASE r.probe = 0
    BY <1>2, <1>3, <2>1
  <2>2. CASE r.probe # 0
    <3>1. PICK a \in u .. v - 1 : r.probe = clusters[a].start
      BY <2>2 DEF Finds
    <3> QED
      BY <1>3, <1>4, <2>2, <3>1
  <2> QED
    BY <2>1, <2>2
<1>8. ASSUME ~x.hit, SortedFrom(i, j)
      PROVE  /\ \A a \in i .. x.at - 1 : clusters[a].start < p
             /\ \A a \in x.at .. j - 1 : clusters[a].start > p
  <2>1. SortedFrom(u, v)
    BY <1>4, <1>8 DEF SortedFrom
  <2>2. /\ \A a \in u .. x.at - 1 : clusters[a].start < p
        /\ \A a \in x.at .. v - 1 : clusters[a].start > p
        /\ x.at \in u .. v
    BY <1>3, <1>8, <2>1 DEF Finds
  <2>3. \A a \in i .. j - 1 : /\ a < k => clusters[a].start < clusters[k].start
                              /\ k < a => clusters[k].start < clusters[a].start
    BY <1>2, <1>8 DEF SortedFrom
  <2>4. CASE u = k + 1 /\ v = j /\ clusters[k].start < p
    <3>1. \A a \in i .. k : clusters[a].start < p
      <4> SUFFICES ASSUME NEW a \in i .. k PROVE clusters[a].start < p
        OBVIOUS
      <4>1. a \in i .. j - 1
        OBVIOUS
      <4>2. a = k \/ clusters[a].start < clusters[k].start
        BY <2>3, <4>1
      <4> QED
        BY <1>2, <2>4, <4>1, <4>2
    <3>2. \A a \in i .. x.at - 1 : a \in i .. k \/ a \in u .. x.at - 1
      BY <2>2, <2>4
    <3> QED
      BY <2>2, <2>4, <3>1, <3>2
  <2>5. CASE u = i /\ v = k /\ ~ (clusters[k].start < p)
    <3>1. \A a \in k .. j - 1 : clusters[a].start > p
      <4> SUFFICES ASSUME NEW a \in k .. j - 1 PROVE clusters[a].start > p
        OBVIOUS
      <4>1. a \in i .. j - 1
        OBVIOUS
      <4>2. a = k \/ clusters[k].start < clusters[a].start
        BY <2>3, <4>1
      <4> QED
        BY <1>2, <2>5, <4>1, <4>2
    <3>2. \A a \in x.at .. j - 1 : a \in k .. j - 1 \/ a \in x.at .. v - 1
      BY <2>2, <2>5
    <3> QED
      BY <2>2, <2>5, <3>1, <3>2
  <2> QED
    BY <2>4, <2>5
<1> QED
  BY <1>3, <1>5, <1>6, <1>7, <1>8 DEF Finds

\* So a search finds the cluster, or the place where it belongs.
LEMMA SearchFinds ==
  ASSUME NEW first \in Nat, NEW last \in Nat, first <= last, NEW p \in Nat,
         \A k \in first .. last - 1 : clusters[k].start \in Nat \ {0}
  PROVE  Finds(Search(first, last, p), first, last, p)
<1> DEFINE W == Windows(first, last)
<1>1. PICK s : /\ \A w \in W : s[w] = Halve(s, w, p)
               /\ Search(first, last, p) = s[<< first, last >>]
  BY SearchDefined
<1> DEFINE T == { n \in Nat : \A w \in W :
                    w[1] <= w[2] /\ w[2] - w[1] < n => Finds(s[w], w[1], w[2], p) }
<1>2. \A w \in W : w[1] \in first .. last /\ w[2] \in first .. last
  BY DEF Windows
<1>3. 0 \in T
  BY <1>2
<1>4. ASSUME NEW n \in Nat, n \in T PROVE n + 1 \in T
  <2> SUFFICES ASSUME NEW w \in W, w[1] <= w[2], w[2] - w[1] < n + 1
               PROVE  Finds(s[w], w[1], w[2], p)
    OBVIOUS
  <2> DEFINE i == w[1]
             j == w[2]
             k == Middle(w)
             v == Smaller(w, p)
  <2>1. i \in first .. last /\ j \in first .. last /\ s[w] = Halve(s, w, p)
    BY <1>1, <1>2
  <2>2. CASE i >= j
    <3>1. s[w] = [ hit |-> FALSE, at |-> i, probe |-> 0 ]
      BY <2>1, <2>2, HalveFacts
    <3> QED
      BY <2>1, <2>2, <3>1 DEF Finds
  <2>3. CASE i < j
    <3>1. k \in i .. j - 1 /\ v \in W /\ v[1] <= v[2] /\ v[2] - v[1] < j - i
      BY <2>1, <2>3, WindowFacts
    <3>2. CASE clusters[k].start = p
      <4>1. s[w] = [ hit |-> TRUE, at |-> k, probe |-> 0 ]
        BY <2>1, <2>3, <3>2, HalveFacts
      <4> QED
        BY <2>1, <2>3, <3>1, <3>2, <4>1 DEF Finds
    <3>3. CASE clusters[k].start # p
      <4>1. s[w] = Probed(s[v], w)
        BY <2>1, <2>3, <3>3, HalveFacts
      <4>2. v[2] - v[1] < n
        BY <1>2, <2>1, <3>1
      <4>3. Finds(s[v], v[1], v[2], p)
        BY <1>4, <3>1, <4>2
      <4>4. (v[1] = k + 1 /\ v[2] = j /\ clusters[k].start < p)
              \/ (v[1] = i /\ v[2] = k /\ ~ (clusters[k].start < p))
        BY DEF Smaller
      <4>5. \A a \in i .. j - 1 : clusters[a].start \in Nat \ {0}
        BY <2>1
      <4>6. PICK x : x = s[w]
        OBVIOUS
      <4>7. PICK r : r = s[v]
        OBVIOUS
      <4>8. x = IF r.probe = 0 THEN [r EXCEPT !.probe = clusters[k].start] ELSE r
        BY <4>1, <4>6, <4>7, Zenon DEF Probed
      <4>9. v[1] \in Nat /\ v[2] \in Nat /\ i \in Nat /\ j \in Nat /\ k \in Nat
            /\ i <= k /\ k < j
        BY <1>2, <2>1, <3>1
      <4>10. Finds(r, v[1], v[2], p)
        BY <4>3, <4>7
      <4> HIDE DEF i, j, k, v
      <4>11. Finds(x, i, j, p)
        BY <3>3, <4>4, <4>5, <4>8, <4>9, <4>10, ProbedFinds, SMTT(30)
      <4> QED
        BY <4>6, <4>11 DEF i, j
    <3> QED
      BY <3>2, <3>3
  <2> QED
    BY <2>1, <2>2, <2>3
<1>5. last - first + 1 \in T
  <2> HIDE DEF T
  <2>1. last - first + 1 \in Nat
    OBVIOUS
  <2> QED
    BY <1>3, <1>4, <2>1, NatSetInduction
<1>6. << first, last >> \in W /\ << first, last >>[1] = first /\ << first, last >>[2] = last
  BY DEF Windows
<1> QED
  BY <1>1, <1>5, <1>6

-----------------------------------------------------------------------------
(* New clusters in the array.                                               *)

\* Those behind the new one move up.
LEMMA InsertFacts ==
  ASSUME NEW S, NEW s \in Seq(S), NEW k \in 1 .. Len(s) + 1, NEW x \in S
  PROVE  /\ InsertAt(s, k, x) \in Seq(S) /\ Len(InsertAt(s, k, x)) = Len(s) + 1
         /\ \A i \in 1 .. k - 1 : InsertAt(s, k, x)[i] = s[i]
         /\ InsertAt(s, k, x)[k] = x
         /\ \A i \in k .. Len(s) : InsertAt(s, k, x)[i + 1] = s[i]
<1> DEFINE a == SubSeq(s, 1, k - 1)
           b == SubSeq(s, k, Len(s))
<1>1. a \in Seq(S) /\ Len(a) = k - 1 /\ \A i \in 1 .. k - 1 : a[i] = s[i]
  OBVIOUS
<1>2. b \in Seq(S) /\ Len(b) = Len(s) - k + 1
      /\ \A i \in 1 .. Len(s) - k + 1 : b[i] = s[k + i - 1]
  OBVIOUS
<1>3. InsertAt(s, k, x) = (a \o << x >>) \o b
  BY DEF InsertAt
<1> HIDE DEF a, b
<1>4. /\ a \o << x >> \in Seq(S) /\ Len(a \o << x >>) = k
      /\ \A i \in 1 .. k - 1 : (a \o << x >>)[i] = s[i]
      /\ (a \o << x >>)[k] = x
  BY <1>1
<1>5. PICK c : c = a \o << x >>
  OBVIOUS
<1>6. /\ c \o b \in Seq(S) /\ Len(c \o b) = Len(s) + 1
      /\ \A i \in 1 .. k : (c \o b)[i] = c[i]
      /\ \A i \in k + 1 .. Len(s) + 1 : (c \o b)[i] = b[i - k]
  BY <1>2, <1>4, <1>5
<1>7. ASSUME NEW i \in k .. Len(s) PROVE (c \o b)[i + 1] = s[i]
  <2>1. (c \o b)[i + 1] = b[i + 1 - k] /\ i + 1 - k \in 1 .. Len(s) - k + 1
    BY <1>6
  <2>2. b[i + 1 - k] = s[k + (i + 1 - k) - 1]
    BY <1>2, <2>1
  <2> QED
    BY <2>1, <2>2
<1> QED
  BY <1>3, <1>4, <1>5, <1>6, <1>7, SMTT(30)

\* A new record is a record.
LEMMA NewClusterFacts ==
  ASSUME file \in Files, NEW p \in Headers, Id(p) = "Cluster", NEW n \in Nat \cup {-1}
  PROVE  /\ NewCluster(p, n) \in ClusterRecord /\ Parsed(NewCluster(p, n))
         /\ NewCluster(p, n).start = p /\ NewCluster(p, n).index = n
<1>1. p \in Nat /\ << >> \in Seq(Headers)
  BY FileFacts
<1> DEFINE c == NewCluster(p, n)
<1>2. /\ c \in ClusterRecord /\ c.start = p /\ c.index = n /\ c.pos = p
      /\ c.size = Unknown /\ c.loaded = FALSE /\ c.entries = << >>
  BY <1>1 DEF NewCluster, ClusterRecord
<1> HIDE DEF c
<1>3. Parsed(c)
  BY <1>2 DEF Parsed
<1> QED
  BY <1>2, <1>3 DEF c

\* A cluster put at a place of the array.
LEMMA Inserted ==
  ASSUME ArrayInv, file \in Files, file' = file, NEW k \in 1 .. Len(clusters) + 1,
         NEW p \in Headers, Id(p) = "Cluster", NEW n \in Nat \cup {-1},
         clusters' = InsertAt(clusters, k, NewCluster(p, n))
  PROVE  /\ clusters' \in Seq(ClusterRecord) /\ Len(clusters') = Len(clusters) + 1
         /\ \A i \in 1 .. k - 1 : clusters'[i] = clusters[i]
         /\ clusters'[k] = NewCluster(p, n)
         /\ \A i \in k .. Len(clusters) : clusters'[i + 1] = clusters[i]
         /\ ClustersParsed' /\ KeptStep
<1>1. clusters \in Seq(ClusterRecord) /\ Len(clusters) \in Nat
      /\ DOMAIN clusters = 1 .. Len(clusters)
  BY ArrayFacts DEF ArrayInv
<1>2. NewCluster(p, n) \in ClusterRecord /\ Parsed(NewCluster(p, n))
  BY NewClusterFacts
<1>3. /\ clusters' \in Seq(ClusterRecord) /\ Len(clusters') = Len(clusters) + 1
      /\ \A i \in 1 .. k - 1 : clusters'[i] = clusters[i]
      /\ clusters'[k] = NewCluster(p, n)
      /\ \A i \in k .. Len(clusters) : clusters'[i + 1] = clusters[i]
  BY <1>1, <1>2, InsertFacts
<1>4. DOMAIN clusters' = 1 .. Len(clusters) + 1
  BY <1>3
<1>5. ClustersParsed'
  <2> SUFFICES ASSUME NEW i \in DOMAIN clusters' PROVE Parsed(clusters'[i])
    BY ParsedStays
  <2>1. CASE i \in 1 .. k - 1
    <3>1. i \in DOMAIN clusters
      BY <1>1, <2>1
    <3> QED
      BY <1>3, <2>1, <3>1 DEF ArrayInv, ClustersParsed
  <2>2. CASE i = k
    BY <1>2, <1>3, <2>2
  <2>3. CASE i \in k + 1 .. Len(clusters) + 1
    <3>1. i - 1 \in k .. Len(clusters) /\ i - 1 \in DOMAIN clusters
      BY <1>1, <2>3
    <3>2. clusters'[(i - 1) + 1] = clusters[i - 1]
      BY <1>3, <3>1
    <3>3. clusters'[i] = clusters[i - 1]
      BY <2>3, <3>2
    <3> QED
      BY <3>1, <3>3 DEF ArrayInv, ClustersParsed
  <2> QED
    BY <1>4, <2>1, <2>2, <2>3
<1>6. KeptStep
  <2> SUFFICES ASSUME NEW i \in DOMAIN clusters
               PROVE  \E j \in DOMAIN clusters' :
                        /\ clusters'[j].start = clusters[i].start
                        /\ IsPrefix(clusters[i].entries, clusters'[j].entries)
    BY DEF KeptStep
  <2>1. IsPrefix(clusters[i].entries, clusters[i].entries)
    BY <1>1, ArrayFacts, PrefixSame
  <2>2. CASE i \in 1 .. k - 1
    BY <1>3, <1>4, <2>1, <2>2
  <2>3. CASE i \in k .. Len(clusters)
    <3>1. i + 1 \in DOMAIN clusters' /\ clusters'[i + 1] = clusters[i]
      BY <1>3, <1>4, <2>3
    <3> QED
      BY <2>1, <3>1
  <2> QED
    BY <1>1, <2>2, <2>3
<1> QED
  BY <1>3, <1>5, <1>6

\* A cluster is preloaded.
LEMMA Preloading ==
  ASSUME ArrayInv, file \in Files, file' = file, NEW k \in count + 1 .. Len(clusters) + 1,
         NEW p \in Headers, Id(p) = "Cluster",
         clusters' = InsertAt(clusters, k, NewCluster(p, -1)),
         UNCHANGED << count, mPos, mUnknown >>
  PROVE  ArrayInv' /\ KeptStep
<1>1. k \in 1 .. Len(clusters) + 1 /\ count \in 0 .. Len(clusters)
  BY ArrayFacts
<1>2. /\ clusters' \in Seq(ClusterRecord) /\ Len(clusters') = Len(clusters) + 1
      /\ \A i \in 1 .. k - 1 : clusters'[i] = clusters[i]
      /\ ClustersParsed' /\ KeptStep
  BY <1>1, Inserted
<1>3. \A i \in 1 .. count : clusters'[i] = clusters[i]
  BY <1>1, <1>2
<1>4. KnownStarts' = KnownStarts
  BY <1>3 DEF KnownStarts
<1>5. LoadedSoFar'
  BY <1>4, SameClusters DEF ArrayInv, LoadedSoFar, Reached
<1>6. mPos < 0 => clusters'[count].start = -mPos - 1
  BY <1>1, <1>3 DEF ArrayInv
<1>7. count' \in 0 .. Len(clusters')
  BY <1>1, <1>2
<1> QED
  BY <1>2, <1>5, <1>6, <1>7, SameFile DEF ArrayInv

\* The cluster at the position of loading becomes the last of the loaded ones.
LEMMA KnownGrows ==
  ASSUME ArrayInv, file \in Files, file' = file, mPos \in RealClusters,
         count' = count + 1,
         \A i \in 1 .. count : clusters'[i].start = clusters[i].start,
         clusters'[count + 1].start = mPos,
         Reached' \in Nat, Reached' > mPos,
         \A q \in RealClusters : ~ (mPos < q /\ q < Reached')
  PROVE  KnownStarts' = KnownStarts \cup {mPos} /\ LoadedSoFar'
<1>1. count \in Nat /\ mPos \in Nat /\ Reached = mPos
  BY ArrayFacts, RealFacts DEF Reached
<1>2. KnownStarts' = KnownStarts \cup {mPos}
  <2>1. KnownStarts' = { clusters'[i].start : i \in 1 .. count + 1 }
    BY DEF KnownStarts
  <2>2. 1 .. count + 1 = (1 .. count) \cup {count + 1}
    BY <1>1
  <2> QED
    BY <2>1, <2>2 DEF KnownStarts
<1>3. ASSUME NEW q \in RealClusters PROVE q < Reached' <=> q < mPos \/ q = mPos
  <2>1. q \in Nat
    BY RealFacts
  <2> QED
    BY <1>1, <2>1
<1>4. RealClusters' = RealClusters
  BY SameClusters
<1>5. KnownStarts' \subseteq RealClusters
  BY <1>2 DEF ArrayInv, LoadedSoFar
<1>6. \A q \in RealClusters : q < Reached' <=> q \in KnownStarts'
  BY <1>1, <1>2, <1>3 DEF ArrayInv, LoadedSoFar
<1> QED
  BY <1>2, <1>4, <1>5, <1>6 DEF LoadedSoFar

\* A new cluster is loaded.
LEMMA LoadingNew ==
  ASSUME ArrayInv, file \in Files, file' = file, mPos \in RealClusters,
         clusters' = InsertAt(clusters, count + 1, NewCluster(mPos, count)),
         count' = count + 1,
         (Sized(mPos) /\ mPos' = Stop(mPos) /\ mUnknown' = mUnknown)
           \/ (mPos' = -(mPos + 1) /\ mUnknown' = count + 1)
  PROVE  ArrayInv' /\ KeptStep /\ KnownStarts' = KnownStarts \cup {mPos}
<1>1. mPos \in Headers /\ mPos \in Nat /\ Id(mPos) = "Cluster"
  BY RealFacts
<1>2. count \in Nat /\ count + 1 \in 1 .. Len(clusters) + 1 /\ Len(clusters) \in Nat
      /\ mUnknown = 0
  BY <1>1, ArrayFacts DEF ArrayInv
<1>3. NewCluster(mPos, count).start = mPos
  BY <1>1, <1>2, NewClusterFacts
<1>4. /\ clusters' \in Seq(ClusterRecord) /\ Len(clusters') = Len(clusters) + 1
      /\ \A i \in 1 .. count : clusters'[i] = clusters[i]
      /\ clusters'[count + 1] = NewCluster(mPos, count)
      /\ ClustersParsed' /\ KeptStep
  <2>1. count + 1 - 1 = count /\ count \in Nat \cup {-1}
    BY <1>2
  <2> QED
    BY <1>1, <1>2, <2>1, Inserted
<1>5. Reached' \in Nat /\ Reached' > mPos
      /\ \A q \in RealClusters : ~ (mPos < q /\ q < Reached')
  <2>1. CASE Sized(mPos) /\ mPos' = Stop(mPos)
    <3>1. EndsRight(mPos, mPos')
      BY <1>1, <2>1, SizedEnds
    <3>2. mPos' \in Nat /\ mPos' > mPos
          /\ \A q \in Headers : mPos < q /\ q < mPos' => Id(q) # "Cluster"
      BY <3>1 DEF EndsRight
    <3>3. Reached' = mPos'
      BY <3>2 DEF Reached
    <3> QED
      BY <3>2, <3>3, RealFacts
  <2>2. CASE mPos' = -(mPos + 1)
    <3>1. Reached' = mPos + 1
      BY <1>1, <2>2 DEF Reached
    <3>2. \A q \in RealClusters : q \in Nat
      BY RealFacts
    <3> QED
      BY <1>1, <3>1, <3>2
  <2> QED
    BY <2>1, <2>2
<1>6. KnownStarts' = KnownStarts \cup {mPos} /\ LoadedSoFar'
  BY <1>3, <1>4, <1>5, KnownGrows
<1>7. count' \in 0 .. Len(clusters')
  BY <1>2, <1>4
<1>8. CASE Sized(mPos) /\ mPos' = Stop(mPos) /\ mUnknown' = mUnknown
  <2>1. EndsRight(mPos, mPos')
    BY <1>1, <1>8, SizedEnds
  <2>2. mPos' \in Nat /\ (mPos' \in Headers \/ mPos' >= LastStop)
    BY <2>1 DEF EndsRight
  <2> QED
    BY <1>2, <1>4, <1>6, <1>7, <1>8, <2>2, SameFile DEF ArrayInv
<1>9. CASE mPos' = -(mPos + 1) /\ mUnknown' = count + 1
  <2>1. clusters'[count'].start = -mPos' - 1 /\ mPos' < 0 /\ mPos' \in Int
    BY <1>1, <1>3, <1>4, <1>9
  <2> QED
    BY <1>2, <1>4, <1>6, <1>7, <1>9, <2>1, SameFile DEF ArrayInv
<1> QED
  BY <1>4, <1>6, <1>8, <1>9

\* A preloaded cluster becomes a loaded one.
LEMMA Adopting ==
  ASSUME ArrayInv, file \in Files, file' = file, mPos \in RealClusters,
         count < Len(clusters), clusters[count + 1].start = mPos,
         clusters' = [clusters EXCEPT ![count + 1].index = count], count' = count + 1,
         EndsRight(mPos, mPos'), mUnknown' = mUnknown
  PROVE  ArrayInv' /\ KeptStep /\ KnownStarts' = KnownStarts \cup {mPos}
<1>1. mPos \in Headers /\ mPos \in Nat /\ Id(mPos) = "Cluster"
  BY RealFacts
<1>2. count \in Nat /\ count + 1 \in 1 .. Len(clusters) /\ Len(clusters) \in Nat
      /\ mUnknown = 0 /\ DOMAIN clusters = 1 .. Len(clusters)
      /\ clusters \in Seq(ClusterRecord)
  BY <1>1, ArrayFacts DEF ArrayInv
<1> DEFINE d == [clusters[count + 1] EXCEPT !.index = count]
<1>3. clusters[count + 1] \in ClusterRecord /\ Parsed(clusters[count + 1])
  BY <1>2 DEF ArrayInv, ClustersParsed
<1>4. PICK c : c = clusters[count + 1]
  OBVIOUS
<1>5. /\ d \in ClusterRecord /\ d.start = c.start /\ d.entries = c.entries
      /\ d.size = c.size /\ d.loaded = c.loaded /\ d.pos = c.pos
  BY <1>2, <1>3, <1>4 DEF ClusterRecord
<1>6. clusters' = [clusters EXCEPT ![count + 1] = d]
  BY <1>2
<1> HIDE DEF d
<1>7. Parsed(d)
  <2>1. End(d) = End(c)
    BY <1>5 DEF End
  <2> QED
    BY <1>3, <1>4, <1>5, <2>1 DEF Parsed
<1>8. /\ clusters' \in Seq(ClusterRecord) /\ Len(clusters') = Len(clusters)
      /\ DOMAIN clusters' = 1 .. Len(clusters)
      /\ \A j \in 1 .. Len(clusters) : clusters'[j] = IF j = count + 1 THEN d ELSE clusters[j]
  BY <1>2, <1>5, <1>6
<1>9. /\ \A i \in 1 .. count : clusters'[i].start = clusters[i].start
      /\ clusters'[count + 1].start = mPos
  BY <1>2, <1>4, <1>5, <1>8
<1>10. ClustersParsed'
  <2> SUFFICES ASSUME NEW i \in DOMAIN clusters' PROVE Parsed(clusters'[i])
    BY ParsedStays
  <2> QED
    BY <1>2, <1>7, <1>8 DEF ArrayInv, ClustersParsed
<1>11. KeptStep
  <2> SUFFICES ASSUME NEW i \in DOMAIN clusters
               PROVE  /\ clusters'[i].start = clusters[i].start
                      /\ IsPrefix(clusters[i].entries, clusters'[i].entries)
    BY <1>2, <1>8 DEF KeptStep
  <2>1. IsPrefix(clusters[i].entries, clusters[i].entries)
    BY <1>2, ArrayFacts, PrefixSame
  <2> QED
    BY <1>2, <1>4, <1>5, <1>8, <2>1
<1>12. mPos' \in Nat /\ mPos' > mPos /\ (mPos' \in Headers \/ mPos' >= LastStop)
       /\ \A q \in Headers : mPos < q /\ q < mPos' => Id(q) # "Cluster"
  BY DEF EndsRight
<1>13. Reached' = mPos'
  BY <1>12 DEF Reached
<1>14. \A q \in RealClusters : ~ (mPos < q /\ q < Reached')
  BY <1>12, <1>13, RealFacts
<1>15. KnownStarts' = KnownStarts \cup {mPos} /\ LoadedSoFar'
  BY <1>9, <1>12, <1>13, <1>14, KnownGrows
<1>16. count' \in 0 .. Len(clusters') /\ mUnknown' \in 0 .. count'
  BY <1>2, <1>8
<1> QED
  BY <1>2, <1>8, <1>10, <1>11, <1>12, <1>15, <1>16, SameFile DEF ArrayInv

-----------------------------------------------------------------------------
(* The steps that leave the array and the position of loading alone.        *)

\* What a step may do to them.
LoadStep ==
  /\ KeptStep /\ file' = file
  /\ \/ KnownStarts' = KnownStarts
     \/ mPos \in RealClusters /\ KnownStarts' = KnownStarts \cup {mPos}
  /\ mPos >= 0 /\ AtEnd(mPos) => mPos' = mPos

\* A step that loads nothing.
LEMMA QuietStep ==
  ASSUME LoadInv, file' = file, UNCHANGED << array, mPos, mUnknown >>
  PROVE  ArrayInv' /\ LoadStep
<1>1. ArrayInv' /\ KeptStep
  BY NothingMoves DEF LoadInv
<1>2. KnownStarts' = KnownStarts
  BY DEF array, KnownStarts
<1> QED
  BY <1>1, <1>2 DEF LoadStep

\* The data of a call that the steps set.
CallTypes ==
  /\ pc' \in {"idle", "headers", "load", "next", "garbage"}
  /\ api' \in {"none", "headers", "load", "parse", "find", "cues", "next", "getNext"}
  /\ ret' \in {"ok", "more", "none", "invalid", "failed", "block", "end", "eos",
               "running"}
  /\ result' \in {0} \cup Headers /\ curr' \in {0} \cup Headers
  /\ pos' \in Nat

\* What is known of the file, of the bytes that have come and of the elements.
LEMMA SourceStays ==
  ASSUME CallInv, UNCHANGED source
  PROVE  file' = file /\ file' \in Files /\ avail' \in 0 .. file'.length
         /\ Headers' = Headers
BY SameFile DEF CallInv, source

\* The calls, over a step that leaves the file alone.
LEMMA CallInvStays ==
  ASSUME CallInv, UNCHANGED source, CallTypes, Calling',
         mInfo' \in BOOLEAN, mTracks' \in BOOLEAN, mCues' \in BOOLEAN
  PROVE  CallInv'
BY SourceStays DEF CallInv, CallTypes

\* More bytes come.
LEMMA GrowStep ==
  ASSUME LoadInv, Grow
  PROVE  LoadInv' /\ LoadStep
<1>1. ArrayInv' /\ LoadStep
  BY QuietStep DEF Grow
<1>2. Calling'
  BY DEF Grow, LoadInv, CallInv, Calling, calls, array, Preloaded
<1>3. avail' \in 0 .. file.length
  <2>1. avail' \in file.arrivals /\ file.arrivals \subseteq file.start .. file.length
        /\ file.start \in Nat /\ file.length \in Nat
    BY FilesAssumption DEF Grow, LoadInv, CallInv
  <2> QED
    BY <2>1
<1>4. CallInv'
  BY <1>2, <1>3, SameFile DEF Grow, LoadInv, CallInv, calls, found
<1> QED
  BY <1>1, <1>4 DEF LoadInv

\* ParseHeaders begins,
LEMMA ParseHeadersStep ==
  ASSUME LoadInv, ParseHeaders
  PROVE  LoadInv' /\ LoadStep
<1>1. ArrayInv' /\ LoadStep
  BY QuietStep DEF ParseHeaders, source
<1>2. Calling'
  BY DEF ParseHeaders, Call, LoadInv, CallInv, Calling, array
<1>3. CallTypes
  BY DEF ParseHeaders, Call, LoadInv, CallInv, CallTypes
<1>4. CallInv'
  BY <1>2, <1>3, CallInvStays DEF ParseHeaders, LoadInv, CallInv, found
<1> QED
  BY <1>1, <1>4 DEF LoadInv

\* and returns.
LEMMA ReturnFromHeadersStep ==
  ASSUME LoadInv, ReturnFromHeaders
  PROVE  LoadInv' /\ LoadStep
<1>1. ArrayInv' /\ LoadStep
  BY QuietStep DEF ReturnFromHeaders, source
<1>2. pc' = "idle" /\ ret' \in {"ok", "invalid", "more"} /\ result' = 0
  BY DEF ReturnFromHeaders, Return
<1>3. Calling'
  BY <1>2 DEF ReturnFromHeaders, LoadInv, CallInv, Calling, array
<1>4. CallTypes
  BY <1>2 DEF ReturnFromHeaders, LoadInv, CallInv, CallTypes
<1>5. CallInv'
  BY <1>3, <1>4, CallInvStays DEF ReturnFromHeaders, LoadInv, CallInv, found
<1> QED
  BY <1>1, <1>5 DEF LoadInv

\* Once a call other than ParseHeaders is made, no more headers are parsed.
LEMMA ReadyCalls ==
  ASSUME LoadInv, Ready, NEW name \in {"load", "parse", "find", "cues", "next", "getNext"},
         api' = name, pc' \in {"idle", "load"}, pc' = "load" => name \in {"load", "next"}
  PROVE  Calling'
BY DEF Calling

\* LoadCluster begins.
LEMMA LoadClusterStep ==
  ASSUME LoadInv, LoadCluster
  PROVE  LoadInv' /\ LoadStep
<1>1. ArrayInv' /\ LoadStep
  BY QuietStep DEF LoadCluster, source
<1>2. Calling'
  BY ReadyCalls DEF LoadCluster, Call
<1>3. CallTypes
  BY DEF LoadCluster, Call, LoadInv, CallInv, CallTypes
<1>4. CallInv'
  BY <1>2, <1>3, CallInvStays DEF LoadCluster, LoadInv, CallInv, found
<1> QED
  BY <1>1, <1>4 DEF LoadInv

\* A call that returns without having changed anything.
LEMMA Returning ==
  ASSUME LoadInv, pc' = "idle", ret' \in {"ok", "more", "none", "invalid"},
         result' \in {0} \cup Headers, pos' \in Nat,
         UNCHANGED << api, curr, mPos, mUnknown, array, found, source >>
  PROVE  LoadInv' /\ LoadStep
<1>1. ArrayInv' /\ LoadStep
  BY QuietStep DEF source
<1>2. Calling'
  BY DEF LoadInv, CallInv, Calling, array
<1>3. CallTypes
  BY DEF LoadInv, CallInv, CallTypes
<1>4. CallInv'
  BY <1>2, <1>3, CallInvStays DEF LoadInv, CallInv, found
<1> QED
  BY <1>1, <1>4 DEF LoadInv

\* The loops return.
LEMMA ReturnStep ==
  ASSUME LoadInv, ReturnFromLoad \/ ClusterUnderflows \/ ReturnFromNext
  PROVE  LoadInv' /\ LoadStep
<1>1. CASE ReturnFromLoad
  <2>1. pc' = "idle" /\ ret' \in {"ok", "more", "none", "invalid"} /\ result' = 0
    BY <1>1 DEF ReturnFromLoad, Return
  <2> QED
    BY <1>1, <2>1, Returning DEF ReturnFromLoad, LoadInv, CallInv
<1>2. CASE ClusterUnderflows
  <2>1. pc' = "idle" /\ ret' \in {"ok", "more", "none", "invalid"} /\ result' = 0
    BY <1>2 DEF ClusterUnderflows, Return
  <2> QED
    BY <1>2, <2>1, Returning DEF ClusterUnderflows, LoadInv, CallInv
<1>3. CASE ReturnFromNext
  <2>1. pc' = "idle" /\ ret' \in {"ok", "more", "none", "invalid"} /\ result' = 0
    BY <1>3 DEF ReturnFromNext, Return
  <2> QED
    BY <1>3, <2>1, Returning DEF ReturnFromNext
<1> QED
  BY <1>1, <1>2, <1>3

\* ParseCues reads the Cues wherever they are.
LEMMA ParseCuesStep ==
  ASSUME LoadInv, NEW p \in Headers, ParseCues(p)
  PROVE  LoadInv' /\ LoadStep
<1>1. ArrayInv' /\ LoadStep
  BY QuietStep DEF ParseCues, source
<1>2. CuesStatus(p) \in {"ok", "none", "more", "invalid"}
  BY DEF CuesStatus
<1>3. pc' = "idle" /\ api' = "cues" /\ curr' = 0 /\ result' = 0 /\ ret' = CuesStatus(p)
      /\ Ready
  BY DEF ParseCues, CallReturns
<1>4. Calling'
  BY <1>3, ReadyCalls
<1>5. CallTypes
  BY <1>2, <1>3 DEF ParseCues, LoadInv, CallInv, CallTypes
<1>6. mCues' \in BOOLEAN
  BY DEF ParseCues, LoadInv, CallInv
<1>7. CallInv'
  BY <1>4, <1>5, <1>6, CallInvStays DEF ParseCues, LoadInv, CallInv
<1> QED
  BY <1>1, <1>7 DEF LoadInv

\* ParseNext begins, behind a cluster of the array.
LEMMA ParseNextStep ==
  ASSUME LoadInv, NEW i \in DOMAIN clusters, ParseNext(i)
  PROVE  LoadInv' /\ LoadStep
<1>1. ArrayInv' /\ LoadStep
  BY QuietStep DEF ParseNext, source
<1>2. PICK c : c = clusters[i]
  OBVIOUS
<1>3. /\ i \in 1 .. Len(clusters) /\ c \in ClusterRecord /\ c.start \in Headers
      /\ Len(clusters) \in Nat /\ count \in Nat /\ count <= Len(clusters)
      /\ file \in Files
  BY <1>2, ArrayFacts DEF LoadInv, CallInv
<1>4. Behind(c) # Unknown => Behind(c) \in Nat
  <2>1. c.start \in Nat /\ c.size \in Nat \cup {Unknown}
    BY <1>3, RecordFields, FileFacts
  <2> QED
    BY <2>1 DEF Behind, End
<1>5. pos \in Nat /\ mInfo \in BOOLEAN /\ mTracks \in BOOLEAN /\ mCues \in BOOLEAN /\ CallInv
  BY DEF LoadInv, CallInv
<1>6. Ready /\ UNCHANGED << array, found, source >>
  BY DEF ParseNext
<1>7. \/ /\ i < count /\ pos' = pos
         /\ CallReturns("next", c.start, "ok", clusters[i + 1].start)
      \/ pc' = "load" /\ Call("next", c.start) /\ pos' = pos
      \/ /\ i > count /\ Behind(c) # Unknown
         /\ pos' = Behind(c) /\ pc' = "next" /\ Call("next", c.start)
      \/ /\ pos' = pos
         /\ CallReturns("next", c.start,
                        IF CanRead(c.start) THEN "failed" ELSE "more", 0)
  BY <1>2 DEF ParseNext
<1>8. i < count => clusters[i + 1].start \in Headers
  BY <1>3, ArrayFacts DEF LoadInv
<1>9. CallTypes /\ api' = "next" /\ pc' \in {"idle", "load", "next"}
  BY <1>3, <1>4, <1>5, <1>7, <1>8 DEF CallTypes, CallReturns, Call
<1>10. pc' = "next" => i > count
  BY <1>7 DEF CallReturns
<1>11. Calling'
  BY <1>3, <1>6, <1>9, <1>10 DEF Calling, Preloaded, array
<1>12. CallInv'
  BY <1>5, <1>6, <1>9, <1>11, CallInvStays DEF found
<1> QED
  BY <1>1, <1>12 DEF LoadInv

\* The walk of ParseNext passes an element,
LEMMA NextSkipsElementStep ==
  ASSUME LoadInv, NextSkipsElement
  PROVE  LoadInv' /\ LoadStep
<1>1. ArrayInv' /\ LoadStep
  BY QuietStep DEF NextSkipsElement, source
<1>2. pos \in Headers /\ file \in Files
  BY DEF NextSkipsElement, AtNext, LoadInv, CallInv
<1>3. Sized(pos)
  BY <1>2, HeaderFacts DEF NextSkipsElement, AtCluster, Sized, Unknown
<1>4. pos' \in Nat
  BY <1>2, <1>3, HeaderFacts DEF NextSkipsElement
<1>5. Calling'
  BY DEF NextSkipsElement, LoadInv, CallInv, Calling, array, Preloaded
<1>6. CallTypes
  BY <1>4 DEF NextSkipsElement, LoadInv, CallInv, CallTypes
<1>7. mCues' \in BOOLEAN
  BY DEF NextSkipsElement, LoadInv, CallInv
<1>8. CallInv'
  BY <1>5, <1>6, <1>7, CallInvStays DEF NextSkipsElement, LoadInv, CallInv
<1> QED
  BY <1>1, <1>8 DEF LoadInv

\* or reads what is no element.
LEMMA NextReadsGarbageStep ==
  ASSUME LoadInv, NextReadsGarbage
  PROVE  LoadInv' /\ LoadStep
<1>1. ArrayInv' /\ LoadStep
  BY QuietStep DEF NextReadsGarbage, source
<1>2. Calling'
  BY DEF NextReadsGarbage, LoadInv, CallInv, Calling, array, calls
<1>3. CallTypes
  BY DEF NextReadsGarbage, LoadInv, CallInv, CallTypes, calls
<1>4. CallInv'
  BY <1>2, <1>3, CallInvStays DEF NextReadsGarbage, LoadInv, CallInv, found
<1> QED
  BY <1>1, <1>4 DEF LoadInv

-----------------------------------------------------------------------------
(* The steps that move the position of loading.                             *)

\* Loading passes over an element that is no cluster with blocks.
LEMMA Passing ==
  ASSUME ArrayInv, file \in Files, file' = file, UNCHANGED << array, mUnknown >>,
         mPos \in Headers, Sized(mPos), mPos \notin RealClusters, mPos' = Stop(mPos),
         ~AtEnd(mPos)
  PROVE  ArrayInv' /\ LoadStep
<1>1. EndsRight(mPos, mPos') /\ mPos \in Nat
  BY SizedEnds, FileFacts
<1>2. mPos' \in Nat /\ mPos' > mPos /\ (mPos' \in Headers \/ mPos' >= LastStop)
      /\ \A q \in Headers : mPos < q /\ q < mPos' => Id(q) # "Cluster"
  BY <1>1 DEF EndsRight
<1>3. \A q \in RealClusters : mPos <= q => mPos' <= q
  <2> SUFFICES ASSUME NEW q \in RealClusters, mPos <= q PROVE mPos' <= q
    OBVIOUS
  <2>1. q \in Headers /\ q \in Nat /\ Id(q) = "Cluster" /\ q # mPos
    BY RealFacts
  <2> QED
    BY <1>1, <1>2, <2>1
<1>4. ArrayInv' /\ KeptStep
  BY <1>1, <1>2, <1>3, CursorMoves
<1>5. KnownStarts' = KnownStarts
  BY DEF array, KnownStarts
<1> QED
  BY <1>4, <1>5 DEF LoadStep

\* Where an element can be read.
LEMMA LoadableFacts ==
  ASSUME LoadInv, AtLoadable
  PROVE  /\ file \in Files /\ mPos \in Headers /\ mPos \in Nat /\ ~AtEnd(mPos)
         /\ Reached = mPos /\ mUnknown = 0
<1>1. mPos \in Nat /\ (mPos \in Headers \/ mPos >= LastStop) /\ mUnknown = 0
  BY DEF LoadInv, ArrayInv, AtLoadable
<1>2. file \in Files /\ avail \in Nat /\ avail <= file.length
  BY FileFacts DEF LoadInv, CallInv
<1>3. mPos \in Headers
  BY <1>1, <1>2, AtHeader DEF AtLoadable
<1> QED
  BY <1>1, <1>2, <1>3 DEF AtLoadable, Reached

\* What is no cluster is sized, and no real cluster.
LEMMA NotReal ==
  ASSUME file \in Files, NEW p \in Headers, ~AtCluster(p)
  PROVE  p \notin RealClusters /\ Sized(p)
BY RealFacts, HeaderFacts DEF AtCluster, Sized, Unknown

\* ParseHeaders passes an element.
LEMMA ParseHeaderStep ==
  ASSUME LoadInv, ParseHeader
  PROVE  LoadInv' /\ LoadStep
<1>1. api = "headers" /\ clusters = << >> /\ file \in Files
  BY DEF ParseHeader, LoadInv, CallInv, Calling
<1>2. count = 0 /\ mPos \in Nat /\ (mPos \in Headers \/ mPos >= LastStop)
  <2>1. Len(clusters) = 0
    BY <1>1
  <2>2. count = 0
    BY <2>1, ArrayFacts DEF LoadInv
  <2> QED
    BY <2>2 DEF LoadInv, ArrayInv
<1>3. ~AtEnd(mPos) /\ CanRead(mPos) /\ Id(mPos) # "Cluster"
  BY DEF ParseHeader, HeadersEnd
<1>4. mPos \in Headers
  <2>1. avail \in Nat /\ avail <= file.length
    BY FileFacts DEF LoadInv, CallInv
  <2> QED
    BY <1>1, <1>2, <1>3, <2>1, AtHeader
<1>5. mPos \notin RealClusters /\ Sized(mPos)
  BY <1>1, <1>3, <1>4, RealFacts, HeaderFacts
<1>6. ArrayInv' /\ LoadStep
  BY <1>1, <1>3, <1>4, <1>5, Passing DEF ParseHeader, LoadInv, source
<1>7. Calling'
  BY DEF ParseHeader, LoadInv, CallInv, Calling, array, calls
<1>8. CallTypes
  BY DEF ParseHeader, LoadInv, CallInv, CallTypes, calls
<1>9. mInfo' \in BOOLEAN /\ mTracks' \in BOOLEAN /\ mCues' \in BOOLEAN
  BY DEF ParseHeader, LoadInv, CallInv
<1>10. CallInv'
  BY <1>7, <1>8, <1>9, CallInvStays DEF ParseHeader, LoadInv
<1> QED
  BY <1>6, <1>10 DEF LoadInv

\* DoLoadCluster passes an element that is no cluster,
LEMMA LoadSkipsElementStep ==
  ASSUME LoadInv, LoadSkipsElement
  PROVE  LoadInv' /\ LoadStep
<1>1. file \in Files /\ mPos \in Headers /\ ~AtEnd(mPos)
  BY LoadableFacts DEF LoadSkipsElement
<1>2. mPos \notin RealClusters /\ Sized(mPos)
  BY <1>1, NotReal DEF LoadSkipsElement
<1>3. ArrayInv' /\ LoadStep
  BY <1>1, <1>2, Passing DEF LoadSkipsElement, LoadInv, source
<1>4. Calling'
  BY DEF LoadSkipsElement, LoadInv, CallInv, Calling, array, calls, Preloaded
<1>5. CallTypes
  BY DEF LoadSkipsElement, LoadInv, CallInv, CallTypes, calls
<1>6. mInfo' \in BOOLEAN /\ mTracks' \in BOOLEAN /\ mCues' \in BOOLEAN
  BY DEF LoadSkipsElement, LoadInv, CallInv
<1>7. CallInv'
  BY <1>4, <1>5, <1>6, CallInvStays DEF LoadSkipsElement, LoadInv
<1> QED
  BY <1>3, <1>7 DEF LoadInv

\* or a cluster without blocks.
LEMMA LoadSkipsClusterStep ==
  ASSUME LoadInv, LoadSkipsCluster
  PROVE  LoadInv' /\ LoadStep
<1>1. file \in Files /\ mPos \in Headers /\ ~AtEnd(mPos) /\ mPos \in Nat
  BY LoadableFacts DEF LoadSkipsCluster
<1>2. mPos \notin RealClusters
  BY <1>1, HasBlocksFacts DEF LoadSkipsCluster, AtCluster
<1> DEFINE next == Passed(mPos)
<1>3. next \in Nat /\ next > mPos /\ (next \in Headers \/ next >= LastStop)
      /\ \A q \in Headers : mPos < q /\ q < next => Id(q) # "Cluster"
  <2>1. CASE Sized(mPos)
    <3>1. EndsRight(mPos, next)
      BY <1>1, <2>1, SizedEnds DEF Passed
    <3> QED
      BY <3>1 DEF EndsRight
  <2>2. CASE ~Sized(mPos)
    <3>1. next = mPos + 1
      BY <2>2 DEF Passed
    <3> QED
      BY <1>1, <2>2, <3>1, NextElement, FileFacts
  <2> QED
    BY <2>1, <2>2
<1>4. \A q \in RealClusters : mPos <= q => next <= q
  <2> SUFFICES ASSUME NEW q \in RealClusters, mPos <= q PROVE next <= q
    OBVIOUS
  <2>1. q \in Headers /\ q \in Nat /\ Id(q) = "Cluster" /\ q # mPos
    BY <1>1, <1>2, RealFacts
  <2> HIDE DEF next
  <2> QED
    BY <1>1, <1>3, <2>1
<1> HIDE DEF next
<1>5. /\ LastStop \in Nat /\ \A q \in RealClusters : q \in Nat /\ q < LastStop
      /\ mPos < LastStop
  BY <1>1, FileFacts, RealFacts
<1>6. mPos' \in Nat /\ mPos' >= mPos /\ (mPos' \in Headers \/ mPos' >= LastStop)
      /\ \A q \in RealClusters : mPos <= q => mPos' <= q
  <2>1. CASE AtTotal(next) /\ mPos' = Total
    <3>1. Total \in Nat /\ Total >= LastStop /\ next >= Total
      BY <1>1, <2>1, FileFacts DEF AtTotal, Total
    <3>2. \A q \in RealClusters : mPos <= q => FALSE
      BY <1>3, <1>4, <1>5, <3>1
    <3> QED
      BY <1>1, <1>5, <2>1, <3>1, <3>2
  <2>2. CASE AtSegmentStop(next) /\ mPos' = SegmentStop
    <3>1. SegmentStop = LastStop /\ next >= LastStop
      BY <1>1, <2>2, FileFacts DEF AtSegmentStop, SegmentStop, LastStop
    <3>2. \A q \in RealClusters : mPos <= q => FALSE
      BY <1>3, <1>4, <1>5, <3>1
    <3> QED
      BY <1>1, <1>5, <2>2, <3>1, <3>2
  <2>3. CASE mPos' = next
    BY <1>1, <1>3, <1>4, <2>3
  <2> QED
    BY <2>1, <2>2, <2>3 DEF LoadSkipsCluster, next
<1>7. ArrayInv' /\ KeptStep
  BY <1>1, <1>6, CursorMoves DEF LoadSkipsCluster, LoadInv, source
<1>8. LoadStep
  BY <1>1, <1>7 DEF LoadStep, LoadSkipsCluster, array, source, KnownStarts
<1>9. (pc' = "idle" /\ ret' = "none" /\ result' = 0) \/ UNCHANGED << pc, ret, result >>
  BY DEF LoadSkipsCluster, Return
<1>10. Calling'
  BY <1>9 DEF LoadSkipsCluster, LoadInv, CallInv, Calling, array, Preloaded
<1>11. CallTypes
  BY <1>9 DEF LoadSkipsCluster, LoadInv, CallInv, CallTypes
<1>12. CallInv'
  BY <1>10, <1>11, CallInvStays DEF LoadSkipsCluster, LoadInv, CallInv, found
<1> QED
  BY <1>7, <1>8, <1>12 DEF LoadInv

-----------------------------------------------------------------------------
(* The steps that parse a cluster.                                          *)

\* A caller parses a cluster it was given.
LEMMA ParseClusterStep ==
  ASSUME LoadInv, NEW i \in DOMAIN clusters, ParseCluster(i)
  PROVE  LoadInv' /\ LoadStep
<1>1. PICK c : c = clusters[i]
  OBVIOUS
<1>2. file \in Files /\ file' = file /\ c \in ClusterRecord /\ Parsed(c) /\ ArrayInv
  BY <1>1, ArrayFacts DEF LoadInv, CallInv, ArrayInv, ClustersParsed, ParseCluster, source
<1>3. PICK r \in Parse(c) : clusters' = [clusters EXCEPT ![i] = r.cluster]
                            /\ CallReturns("parse", 0, r.status, 0)
  BY <1>1 DEF ParseCluster
<1>4. PICK d : d = r.cluster
  OBVIOUS
<1>5. /\ d \in ClusterRecord /\ Parsed(d) /\ d.start = clusters[i].start
      /\ IsPrefix(clusters[i].entries, d.entries)
      /\ r.status \in {"more", "invalid", "end", "block"}
      /\ clusters' = [clusters EXCEPT ![i] = d]
  BY <1>1, <1>2, <1>3, <1>4, ParseFacts
<1>6. UNCHANGED << count, mPos, mUnknown >>
  BY DEF ParseCluster
<1>7. ArrayInv' /\ KeptStep
  BY <1>2, <1>5, <1>6, ReparsedInPlace
<1>8. KnownStarts' = KnownStarts
  BY <1>2, <1>5, <1>6, Reparsed
<1>9. LoadStep
  BY <1>2, <1>6, <1>7, <1>8 DEF LoadStep
<1>10. Calling'
  BY <1>3, ReadyCalls DEF ParseCluster, CallReturns
<1>11. CallTypes
  BY <1>3, <1>5 DEF ParseCluster, CallReturns, LoadInv, CallInv, CallTypes
<1>12. CallInv'
  BY <1>10, <1>11, CallInvStays DEF ParseCluster, LoadInv, CallInv, found
<1> QED
  BY <1>7, <1>9, <1>12 DEF LoadInv

\* The end of a cluster of unknown size is looked for.
LEMMA LoadUnknownSizeStep ==
  ASSUME LoadInv, LoadUnknownSize
  PROVE  LoadInv' /\ LoadStep
<1> DEFINE i == mUnknown
<1>1. PICK c : c = clusters[i]
  OBVIOUS
<1>2. mPos < 0 /\ i \in DOMAIN clusters /\ mPos \in Int
  <2>1. mPos < 0 /\ mPos \in Int /\ mUnknown = count /\ count > 0
    BY DEF LoadUnknownSize, LoadInv, ArrayInv
  <2> QED
    BY <2>1, ArrayFacts DEF LoadInv
<1>3. file \in Files /\ file' = file /\ c \in ClusterRecord /\ Parsed(c) /\ ArrayInv
  BY <1>1, <1>2, ArrayFacts
     DEF LoadInv, CallInv, ArrayInv, ClustersParsed, LoadUnknownSize, source
<1>4. PICK r \in Parse(c) :
        /\ clusters' = [clusters EXCEPT ![i] = r.cluster]
        /\ \/ /\ r.status \in {"more", "invalid"}
              /\ Return(r.status, 0) /\ UNCHANGED << mPos, mUnknown >>
           \/ r.status = "block" /\ UNCHANGED << pc, ret, result, mPos, mUnknown >>
           \/ /\ r.status = "end" /\ mPos' = End(r.cluster) /\ mUnknown' = 0
              /\ UNCHANGED << pc, ret, result >>
  BY <1>1 DEF LoadUnknownSize
<1>5. PICK d : d = r.cluster
  OBVIOUS
<1>6. /\ d \in ClusterRecord /\ Parsed(d) /\ d.start = clusters[i].start
      /\ IsPrefix(clusters[i].entries, d.entries)
      /\ clusters' = [clusters EXCEPT ![i] = d]
      /\ r.status = "end" => d.size # Unknown
  BY <1>1, <1>3, <1>4, <1>5, ParseFacts
<1>7. count' = count
  BY DEF LoadUnknownSize
<1>8. KnownStarts' = KnownStarts
  BY <1>2, <1>3, <1>6, <1>7, Reparsed
<1>9. ArrayInv' /\ KeptStep
  <2>1. CASE UNCHANGED << mPos, mUnknown >>
    BY <1>2, <1>3, <1>6, <1>7, <2>1, ReparsedInPlace
  <2>2. CASE r.status = "end" /\ mPos' = End(d) /\ mUnknown' = 0
    BY <1>2, <1>3, <1>6, <1>7, <2>2, ReparsedToEnd
  <2> QED
    BY <1>4, <1>5, <2>1, <2>2
<1>10. LoadStep
  BY <1>2, <1>3, <1>8, <1>9 DEF LoadStep
<1>11. (pc' = "idle" /\ ret' \in {"more", "invalid"} /\ result' = 0)
         \/ UNCHANGED << pc, ret, result >>
  BY <1>4 DEF Return
<1>12. Calling'
  <2>1. pc = "load" /\ api \in {"load", "next"} /\ api' = api
    BY DEF LoadUnknownSize, LoadInv, CallInv, Calling
  <2> QED
    BY <1>11, <2>1 DEF Calling
<1>13. CallTypes
  BY <1>11 DEF LoadUnknownSize, LoadInv, CallInv, CallTypes
<1>14. CallInv'
  BY <1>12, <1>13, CallInvStays DEF LoadUnknownSize, LoadInv, CallInv, found
<1> QED
  BY <1>9, <1>10, <1>14 DEF LoadInv

-----------------------------------------------------------------------------
(* The steps that load a cluster, and those that preload one.               *)

\* A cluster that a cue had brought into the array is loaded,
LEMMA AdoptPreloadedStep ==
  ASSUME LoadInv, AdoptPreloaded
  PROVE  LoadInv' /\ LoadStep
<1>1. file \in Files /\ mPos \in Headers /\ ~AtEnd(mPos) /\ mPos \in Nat /\ file' = file
  BY LoadableFacts DEF AdoptPreloaded, source
<1>2. PICK c : c = First
  OBVIOUS
<1>3. count < Len(clusters) /\ count + 1 \in DOMAIN clusters /\ clusters[count + 1] = c
      /\ c.start = mPos
  BY <1>2, ArrayFacts DEF AdoptPreloaded, Preloaded, First, LoadInv
<1>4. CASE HasBlockEntries(mPos) = "none" \/ (~Sized(mPos) /\ First.size = Unknown)
  <2>1. Return("invalid", 0) /\ UNCHANGED << mPos, array >>
    BY <1>4 DEF AdoptPreloaded
  <2>2. pc' = "idle" /\ ret' = "invalid" /\ result' = 0
    BY <2>1 DEF Return
  <2> QED
    BY <2>1, <2>2, Returning DEF AdoptPreloaded, LoadInv, CallInv
<1>5. CASE ~ (HasBlockEntries(mPos) = "none" \/ (~Sized(mPos) /\ First.size = Unknown))
  <2>1. /\ mPos' = IF Sized(mPos) THEN Stop(mPos) ELSE End(First)
        /\ clusters' = [clusters EXCEPT ![count + 1].index = count]
        /\ count' = count + 1
        /\ Return("ok", mPos)
    BY <1>5 DEF AdoptPreloaded
  <2>2. mPos \in RealClusters
    BY <1>1, <1>5, HasBlocksFacts DEF AdoptPreloaded, AtCluster
  <2>3. EndsRight(mPos, mPos')
    <3>1. CASE Sized(mPos)
      BY <1>1, <2>1, <3>1, SizedEnds
    <3>2. CASE ~Sized(mPos)
      <4>1. mPos' = End(c) /\ c.size # Unknown
        BY <1>2, <1>5, <2>1, <3>2
      <4>2. Parsed(c)
        BY <1>3 DEF LoadInv, ArrayInv, ClustersParsed
      <4> QED
        BY <1>3, <4>1, <4>2 DEF Parsed
    <3> QED
      BY <3>1, <3>2
  <2>4. mUnknown' = mUnknown
    BY DEF AdoptPreloaded
  <2>5. ArrayInv' /\ KeptStep /\ KnownStarts' = KnownStarts \cup {mPos}
    BY <1>1, <1>3, <2>1, <2>2, <2>3, <2>4, Adopting DEF LoadInv
  <2>6. LoadStep
    BY <1>1, <2>2, <2>5 DEF LoadStep
  <2>7. pc' = "idle" /\ ret' = "ok" /\ result' = mPos /\ pc = "load" /\ api' = api
    BY <2>1 DEF Return, AdoptPreloaded, AtLoadable
  <2>8. Calling'
    BY <2>7 DEF LoadInv, CallInv, Calling
  <2>9. CallTypes
    BY <1>1, <2>7, SameFile DEF AdoptPreloaded, LoadInv, CallInv, CallTypes
  <2>10. CallInv'
    BY <2>8, <2>9, CallInvStays DEF AdoptPreloaded, LoadInv, CallInv, found
  <2> QED
    BY <2>5, <2>6, <2>10 DEF LoadInv
<1> QED
  BY <1>4, <1>5

\* or a new one.
LEMMA LoadNewClusterStep ==
  ASSUME LoadInv, LoadNewCluster
  PROVE  LoadInv' /\ LoadStep
<1>1. file \in Files /\ mPos \in Headers /\ ~AtEnd(mPos) /\ mPos \in Nat /\ file' = file
  BY LoadableFacts DEF LoadNewCluster, source
<1>2. mPos \in RealClusters
  BY <1>1, HasBlocksFacts DEF LoadNewCluster, AtCluster
<1>3. /\ clusters' = InsertAt(clusters, count + 1, NewCluster(mPos, count))
      /\ count' = count + 1
      /\ (Sized(mPos) /\ mPos' = Stop(mPos) /\ mUnknown' = mUnknown)
           \/ (mPos' = -(mPos + 1) /\ mUnknown' = count + 1)
  BY DEF LoadNewCluster, AppendCluster
<1>4. ArrayInv' /\ KeptStep /\ KnownStarts' = KnownStarts \cup {mPos}
  BY <1>1, <1>2, <1>3, LoadingNew DEF LoadInv
<1>5. LoadStep
  BY <1>1, <1>2, <1>4 DEF LoadStep
<1>6. pc' = "idle" /\ ret' = "ok" /\ result' = mPos /\ pc = "load" /\ api' = api
  BY DEF Return, LoadNewCluster, AtLoadable
<1>7. Calling'
  BY <1>6 DEF LoadInv, CallInv, Calling
<1>8. CallTypes
  BY <1>1, <1>6, SameFile DEF LoadNewCluster, LoadInv, CallInv, CallTypes
<1>9. CallInv'
  BY <1>7, <1>8, CallInvStays DEF LoadNewCluster, LoadInv, CallInv, found
<1> QED
  BY <1>4, <1>5, <1>9 DEF LoadInv

\* The searches of the array, and of its preloaded part.
LEMMA SearchesFind ==
  ASSUME ArrayInv, file \in Files, NEW p \in Nat
  PROVE  /\ Finds(SearchAll(p), 1, Len(clusters) + 1, p)
         /\ Finds(SearchPreloaded(p), count + 1, Len(clusters) + 1, p)
<1>1. /\ \A k \in 1 .. Len(clusters) : clusters[k].start \in Nat \ {0}
      /\ Len(clusters) \in Nat /\ count \in Nat /\ count <= Len(clusters)
  BY ArrayFacts, FileFacts
<1>2. Finds(Search(1, Len(clusters) + 1, p), 1, Len(clusters) + 1, p)
  BY <1>1, SearchFinds
<1>3. Finds(Search(count + 1, Len(clusters) + 1, p), count + 1, Len(clusters) + 1, p)
  BY <1>1, SearchFinds
<1> QED
  BY <1>2, <1>3 DEF SearchAll, SearchPreloaded

\* A step that may preload a cluster, and nothing else.
LEMMA MayPreload ==
  ASSUME LoadInv, UNCHANGED << mPos, mUnknown, count, source >>, NEW p \in Headers,
         Id(p) = "Cluster", NEW s, Finds(s, 1, Len(clusters) + 1, p)
                              \/ Finds(s, count + 1, Len(clusters) + 1, p),
         UNCHANGED clusters \/ (~s.hit /\ PreloadCluster(p, s.at))
  PROVE  ArrayInv' /\ LoadStep /\ Len(clusters') >= Len(clusters)
<1>1. file \in Files /\ file' = file /\ ArrayInv
  BY DEF LoadInv, CallInv, source
<1>2. CASE UNCHANGED clusters
  <2>1. UNCHANGED array
    BY <1>2 DEF array
  <2> QED
    BY <1>1, <1>2, <2>1, QuietStep, ArrayFacts
<1>3. CASE ~s.hit /\ PreloadCluster(p, s.at)
  <2>1. s.at > count /\ clusters' = InsertAt(clusters, s.at, NewCluster(p, -1))
    BY <1>3 DEF PreloadCluster
  <2>2. s.at \in count + 1 .. Len(clusters) + 1 /\ Len(clusters) \in Nat /\ count \in Nat
        /\ s.at \in 1 .. Len(clusters) + 1
    BY <1>1, <1>3, <2>1, ArrayFacts DEF Finds
  <2>3. ArrayInv' /\ KeptStep
    BY <1>1, <2>1, <2>2, Preloading
  <2>4. /\ Len(clusters') = Len(clusters) + 1
        /\ \A i \in 1 .. s.at - 1 : clusters'[i] = clusters[i]
    BY <1>1, <2>1, <2>2, Inserted
  <2>5. KnownStarts' = KnownStarts
    <3>1. \A i \in 1 .. count : clusters'[i] = clusters[i]
      BY <2>2, <2>4
    <3> QED
      BY <3>1 DEF KnownStarts
  <2>6. LoadStep
    BY <1>1, <2>3, <2>5 DEF LoadStep
  <2> QED
    BY <2>2, <2>3, <2>4, <2>6
<1> QED
  BY <1>2, <1>3

\* FindOrPreloadCluster finds the cluster of a cue, or adds it.
LEMMA FindOrPreloadClusterStep ==
  ASSUME LoadInv, NEW off \in file.cues, FindOrPreloadCluster(off)
  PROVE  LoadInv' /\ LoadStep
<1> DEFINE p == file.start + off
<1>1. file \in Files /\ p \in Headers /\ Id(p) = "Cluster" /\ p \in Nat
  BY CueNamesCluster, FileFacts DEF LoadInv, CallInv
<1>2. PICK s : s = SearchAll(p)
  OBVIOUS
<1> HIDE DEF p
<1>3. Finds(s, 1, Len(clusters) + 1, p)
  BY <1>1, <1>2, SearchesFind DEF LoadInv
<1>4. \/ s.hit /\ UNCHANGED clusters /\ CallReturns("find", 0, "ok", p)
      \/ ~s.hit /\ PreloadCluster(p, s.at) /\ CallReturns("find", 0, "ok", p)
      \/ ~s.hit /\ s.at <= count /\ UNCHANGED clusters /\ CallReturns("find", 0, "none", 0)
  BY <1>2 DEF FindOrPreloadCluster, p
<1>5. UNCHANGED << pos, mPos, mUnknown, count, found, source >>
  BY DEF FindOrPreloadCluster
<1>6. ArrayInv' /\ LoadStep
  BY <1>1, <1>3, <1>4, <1>5, MayPreload
<1>7. /\ pc' = "idle" /\ api' = "find" /\ ret' \in {"ok", "none"}
      /\ curr' = 0 /\ result' \in {0, p}
  BY <1>4 DEF CallReturns
<1>8. Calling'
  BY <1>7, ReadyCalls DEF FindOrPreloadCluster
<1>9. CallTypes
  BY <1>1, <1>5, <1>7 DEF LoadInv, CallInv, CallTypes
<1>10. CallInv'
  BY <1>5, <1>8, <1>9, CallInvStays DEF LoadInv, CallInv, found
<1> QED
  BY <1>6, <1>10 DEF LoadInv

\* GetNext of a loaded or of a preloaded cluster.
LEMMA GetNextStep ==
  ASSUME LoadInv, NEW i \in DOMAIN clusters, GetNext(i)
  PROVE  LoadInv' /\ LoadStep
<1> DEFINE p     == clusters[i].start
           later == NextWithBlocks(p)
           q     == Min(later)
<1>1. /\ i \in 1 .. Len(clusters) /\ p \in Headers /\ file \in Files
      /\ Len(clusters) \in Nat /\ count \in Nat /\ count <= Len(clusters) /\ ArrayInv
  BY ArrayFacts DEF LoadInv, CallInv
<1>2. later # {} => q \in Headers /\ Id(q) = "Cluster" /\ q \in Nat
  <2>1. later \subseteq Headers /\ \A x \in later : Id(x) = "Cluster"
    BY DEF NextWithBlocks, AtCluster
  <2>2. later \subseteq Nat
    BY <1>1, <2>1, FileFacts
  <2> QED
    BY <2>1, <2>2, MinIsLeast
<1>3. PICK s : s = SearchPreloaded(q)
  OBVIOUS
<1>4. UNCHANGED << pos, mPos, mUnknown, count, found, source >> /\ Ready
  BY DEF GetNext
<1>5. \/ /\ i < count /\ CallReturns("getNext", p, "ok", clusters[i + 1].start)
         /\ UNCHANGED clusters
      \/ CallReturns("getNext", p, "eos", 0) /\ UNCHANGED clusters
      \/ CallReturns("getNext", p, "none", 0) /\ UNCHANGED clusters
      \/ /\ later # {} /\ CallReturns("getNext", p, "ok", q)
         /\ UNCHANGED clusters \/ (~s.hit /\ PreloadCluster(q, s.at))
  BY <1>3 DEF GetNext
<1> HIDE DEF later, q, p
<1>6. ArrayInv' /\ LoadStep
  <2>1. CASE UNCHANGED clusters
    <3>1. UNCHANGED << array, mPos, mUnknown, source >>
      BY <1>4, <2>1 DEF array
    <3> QED
      BY <3>1, QuietStep DEF source
  <2>2. CASE later # {} /\ ~s.hit /\ PreloadCluster(q, s.at)
    <3>1. Finds(s, count + 1, Len(clusters) + 1, q)
      BY <1>1, <1>2, <1>3, <2>2, SearchesFind
    <3> QED
      BY <1>2, <1>4, <2>2, <3>1, MayPreload
  <2> QED
    BY <1>5, <2>1, <2>2
<1>7. i < count => clusters[i + 1].start \in Headers
  BY <1>1, ArrayFacts
<1>8. /\ pc' = "idle" /\ api' = "getNext" /\ ret' \in {"ok", "none", "eos"}
      /\ curr' = p /\ result' \in {0} \cup Headers
  BY <1>2, <1>5, <1>7 DEF CallReturns
<1>9. Calling'
  BY <1>4, <1>8, ReadyCalls
<1>10. CallTypes
  BY <1>1, <1>4, <1>8 DEF LoadInv, CallInv, CallTypes
<1>11. CallInv'
  BY <1>4, <1>9, <1>10, CallInvStays DEF LoadInv, CallInv, found
<1> QED
  BY <1>6, <1>11 DEF LoadInv

\* The walk of ParseNext comes to a cluster.
LEMMA NextClusterStep ==
  ASSUME LoadInv, NextCluster
  PROVE  LoadInv' /\ LoadStep
<1>1. /\ file \in Files /\ pos \in Headers /\ Id(pos) = "Cluster" /\ pos \in Nat
      /\ pc = "next" /\ ArrayInv
  BY FileFacts DEF NextCluster, AtNext, AtCluster, LoadInv, CallInv
<1>2. /\ Len(clusters) \in Nat /\ count \in Nat /\ count <= Len(clusters)
      /\ count < Len(clusters) /\ api = "next"
  BY <1>1, ArrayFacts DEF LoadInv, CallInv, Calling, Preloaded
<1>3. PICK s : s = SearchPreloaded(pos)
  OBVIOUS
<1>4. Finds(s, count + 1, Len(clusters) + 1, pos)
  BY <1>1, <1>3, SearchesFind
<1>5. UNCHANGED << api, curr, mPos, mUnknown, count, found, source >>
  BY DEF NextCluster
<1> DEFINE next == s.probe - file.start + file.hdr[pos].size
<1>6. \/ s.hit /\ Return("ok", pos) /\ pos' = 0 /\ UNCHANGED clusters
      \/ Return("more", 0) /\ pos' = 0 /\ UNCHANGED clusters
      \/ ~s.hit /\ PreloadCluster(pos, s.at) /\ Return("ok", pos) /\ pos' = 0
      \/ ~s.hit /\ Return("invalid", 0) /\ pos' = 0 /\ UNCHANGED clusters
      \/ /\ ~s.hit /\ Sized(pos) /\ pos' = next /\ UNCHANGED << pc, ret, result >>
         /\ UNCHANGED clusters
      \/ pc' = "garbage" /\ UNCHANGED << ret, result, clusters, pos >>
  BY <1>3 DEF NextCluster
<1>7. ArrayInv' /\ LoadStep /\ Len(clusters') >= Len(clusters)
  <2>1. UNCHANGED clusters \/ (~s.hit /\ PreloadCluster(pos, s.at))
    BY <1>6
  <2> QED
    BY <1>1, <1>4, <1>5, <2>1, MayPreload
<1>8. ~s.hit /\ Sized(pos) => next \in Nat
  <2> SUFFICES ASSUME ~s.hit, Sized(pos) PROVE next \in Nat
    OBVIOUS
  <2>1. count + 1 < Len(clusters) + 1 /\ s.probe # 0
    BY <1>2, <1>4 DEF Finds
  <2>2. PICK k \in count + 1 .. Len(clusters) + 1 - 1 : s.probe = clusters[k].start
    BY <1>4, <2>1 DEF Finds
  <2>3. k \in 1 .. Len(clusters)
    BY <1>2
  <2>4. clusters[k].start \in Headers
    BY <1>1, <2>3, ArrayFacts
  <2>5. s.probe \in Nat /\ s.probe >= file.start /\ file.start \in Nat
    BY <1>1, <2>2, <2>4, FileFacts
  <2>6. file.hdr[pos].size \in Nat
    BY <1>1, HeaderFacts
  <2> QED
    BY <2>5, <2>6
<1> HIDE DEF next
<1>9. /\ pc' \in {"idle", "next", "garbage"} /\ pos' \in Nat
      /\ result' \in {0} \cup Headers
      /\ ret' \in {"ok", "more", "none", "invalid", "failed", "block", "end", "eos",
               "running"}
  BY <1>1, <1>6, <1>8 DEF Return, LoadInv, CallInv
<1>10. Calling'
  <2>1. Len(clusters') \in Nat
    BY <1>7 DEF ArrayInv
  <2>2. Len(clusters') - count' > 0
    BY <1>2, <1>5, <1>7, <2>1
  <2> QED
    BY <1>2, <1>5, <1>9, <2>2 DEF Calling, Preloaded
<1>11. CallTypes
  BY <1>5, <1>9 DEF LoadInv, CallInv, CallTypes
<1>12. CallInv'
  BY <1>5, <1>10, <1>11, CallInvStays DEF LoadInv, CallInv, found
<1> QED
  BY <1>7, <1>12 DEF LoadInv

-----------------------------------------------------------------------------
(* The invariant holds, and every step is one that LoadStep describes.      *)

\* The invariant holds at the start,
LEMMA InitLoadInv == Init => LoadInv
<1> SUFFICES ASSUME Init PROVE LoadInv
  OBVIOUS
<1>1. file \in Files /\ clusters = << >> /\ count = 0 /\ mUnknown = 0 /\ mPos = file.start
      /\ avail = file.start
  BY DEF Init
<1>2. /\ file.start \in Nat /\ file.start <= file.length /\ file.length \in Nat
      /\ file.start \in Headers \/ file.start >= LastStop
      /\ \A q \in Headers : q >= file.start
  BY <1>1, FileFacts, FirstElement
<1>3. clusters \in Seq(ClusterRecord) /\ Len(clusters) = 0 /\ DOMAIN clusters = {}
  BY <1>1
<1>4. ClustersParsed /\ KnownStarts = {}
  BY <1>1, <1>3 DEF ClustersParsed, KnownStarts
<1>5. \A q \in RealClusters : ~ (q < mPos)
  BY <1>1, <1>2, RealFacts
<1>6. LoadedSoFar
  BY <1>1, <1>2, <1>4, <1>5 DEF LoadedSoFar, Reached
<1>7. ArrayInv
  BY <1>1, <1>2, <1>3, <1>4, <1>6 DEF ArrayInv
<1>8. CallInv
  <2>1. avail \in 0 .. file.length
    BY <1>1, <1>2
  <2>2. Calling
    BY DEF Init, Calling
  <2> QED
    BY <2>1, <2>2 DEF Init, CallInv
<1> QED
  BY <1>7, <1>8 DEF LoadInv

\* every step keeps it and loads at most the next cluster,
LEMMA LoadInvInductive ==
  ASSUME LoadInv, [Next]_vars
  PROVE  LoadInv' /\ LoadStep
<1>1. CASE UNCHANGED vars
  <2>1. ArrayInv' /\ LoadStep
    BY <1>1, QuietStep DEF vars, source, array
  <2>2. CallInv'
    BY <1>1, SameFile DEF vars, calls, array, found, source, LoadInv, CallInv, Calling, Preloaded
  <2> QED
    BY <2>1, <2>2 DEF LoadInv
<1>2. CASE Grow
  BY <1>2, GrowStep
<1>3. CASE ParseHeaders
  BY <1>3, ParseHeadersStep
<1>4. CASE LoadCluster
  BY <1>4, LoadClusterStep
<1>5. ASSUME NEW i \in DOMAIN clusters, ParseCluster(i) \/ ParseNext(i) \/ GetNext(i)
      PROVE  LoadInv' /\ LoadStep
  BY <1>5, ParseClusterStep, ParseNextStep, GetNextStep
<1>6. ASSUME NEW off \in file.cues, FindOrPreloadCluster(off) PROVE LoadInv' /\ LoadStep
  BY <1>6, FindOrPreloadClusterStep
<1>7. ASSUME NEW p \in Headers, ParseCues(p) PROVE LoadInv' /\ LoadStep
  BY <1>7, ParseCuesStep
<1>8. CASE Step
  <2>1. CASE ReturnFromHeaders
    BY <2>1, ReturnFromHeadersStep
  <2>2. CASE ParseHeader
    BY <2>2, ParseHeaderStep
  <2>3. CASE LoadUnknownSize
    BY <2>3, LoadUnknownSizeStep
  <2>4. CASE ReturnFromLoad \/ ClusterUnderflows \/ ReturnFromNext
    BY <2>4, ReturnStep
  <2>5. CASE LoadSkipsElement
    BY <2>5, LoadSkipsElementStep
  <2>6. CASE AdoptPreloaded
    BY <2>6, AdoptPreloadedStep
  <2>7. CASE LoadSkipsCluster
    BY <2>7, LoadSkipsClusterStep
  <2>8. CASE LoadNewCluster
    BY <2>8, LoadNewClusterStep
  <2>9. CASE NextSkipsElement
    BY <2>9, NextSkipsElementStep
  <2>10. CASE NextCluster
    BY <2>10, NextClusterStep
  <2>11. CASE NextReadsGarbage
    BY <2>11, NextReadsGarbageStep
  <2> QED
    BY <1>8, <2>1, <2>2, <2>3, <2>4, <2>5, <2>6, <2>7, <2>8, <2>9, <2>10, <2>11 DEF Step
<1>9. CASE Terminated
  BY <1>1, <1>9 DEF Terminated
<1> QED
  BY <1>1, <1>2, <1>3, <1>4, <1>5, <1>6, <1>7, <1>8, <1>9 DEF Next, Caller

\* so it holds of every state.
LEMMA Invariance == Spec => []LoadInv
<1>1. LoadInv /\ [Next]_vars => LoadInv'
  BY LoadInvInductive
<1> QED
  BY <1>1, InitLoadInv, PTL DEF Spec

\* Wherever parsing stops, m_pos is at an element or at the end, or else it stands for
\* the one cluster of unknown size that is being parsed, the last that was loaded:
\* no call leaves it where no element begins, and every variable has its type
\* (CursorOnElement; Segment::DoLoadCluster and ParseHeaders).
THEOREM CursorTrue == Spec => []CursorOnElement
<1>1. LoadInv => CursorOnElement
  BY LoadInvGivesCursor
<1> QED
  BY <1>1, Invariance, PTL

\* Whatever is loaded, looked up, preloaded and parsed, no cluster that the caller may
\* point to is lost or made again, and its blocks are only added to (KeptClusters;
\* AppendCluster and PreloadCluster move the pointers of one array).
THEOREM ClustersKept == Spec => KeptClusters
<1>1. LoadInv /\ [Next]_vars =>
        [ \A i \in DOMAIN clusters : \E j \in DOMAIN clusters' :
            /\ clusters'[j].start = clusters[i].start
            /\ IsPrefix(clusters[i].entries, clusters'[j].entries) ]_vars
  BY LoadInvInductive DEF LoadStep, KeptStep
<1> QED
  BY <1>1, Invariance, PTL DEF Spec, KeptClusters

-----------------------------------------------------------------------------
(* Loading implements ClusterList.                                          *)

\* At the end all clusters that have blocks are loaded.
LEMMA AllAtEnd ==
  ASSUME LoadInv, mPos >= 0, AtEnd(mPos)
  PROVE  KnownStarts = RealClusters
<1>1. file \in Files /\ mPos \in Nat /\ Reached = mPos
  BY DEF LoadInv, ArrayInv, CallInv, Reached
<1>2. mPos >= LastStop
  BY <1>1, EndIsLast
<1>3. \A q \in RealClusters : q < mPos
  BY <1>1, <1>2, RealFacts, FileFacts
<1> QED
  BY <1>1, <1>3 DEF LoadInv, ArrayInv, LoadedSoFar

\* The parser starts as a list from which nothing was loaded,
LEMMA ListInit ==
  ASSUME Init
  PROVE  List!Init
<1>1. LoadInv
  BY InitLoadInv
<1>2. KnownStarts = {}
  BY DEF Init, KnownStarts
<1>3. (mPos >= 0 /\ AtEnd(mPos)) \in {FALSE, RealClusters = {}}
  BY <1>1, <1>2, AllAtEnd
<1> QED
  BY <1>2, <1>3 DEF List!Init, KnownStarts

\* and every step of it is a step of the list or changes nothing there.
LEMMA ListNext ==
  ASSUME LoadInv, [Next]_vars
  PROVE  [List!Next]_List!vars
<1>1. LoadInv' /\ LoadStep
  BY LoadInvInductive
<1> DEFINE end == mPos >= 0 /\ AtEnd(mPos)
<1>2. file \in Files /\ file' = file /\ RealClusters' = RealClusters
  BY <1>1, SameClusters DEF LoadStep, LoadInv, CallInv
<1>3. end' => KnownStarts' = RealClusters
  <2>1. (mPos >= 0 /\ AtEnd(mPos))' => (KnownStarts = RealClusters)'
    BY <1>1, AllAtEnd, PTL
  <2> QED
    BY <1>2, <2>1
<1>4. end => end'
  <2> SUFFICES ASSUME end PROVE end'
    OBVIOUS
  <2>1. mPos' = mPos
    BY <1>1 DEF LoadStep
  <2> QED
    BY <1>2, <2>1, SameFile DEF AtEnd, AtTotal, AtSegmentStop
<1>5. CASE KnownStarts' = KnownStarts
  <2>1. CASE end' = end
    BY <1>2, <1>5, <2>1 DEF List!vars, KnownStarts
  <2>2. CASE end' # end
    <3>1. end' = TRUE
      BY <1>4, <2>2
    <3> QED
      BY <1>2, <1>3, <1>5, <3>1 DEF List!Next, List!End, KnownStarts
  <2> QED
    BY <2>1, <2>2
<1>6. CASE mPos \in RealClusters /\ KnownStarts' = KnownStarts \cup {mPos}
  <2>1. mPos \in Nat /\ Reached = mPos /\ mPos \notin KnownStarts
    BY <1>2, <1>6, RealFacts DEF Reached, LoadInv, ArrayInv, LoadedSoFar
  <2>2. ASSUME NEW q \in RealClusters \ KnownStarts PROVE mPos <= q
    BY <1>2, <2>1, RealFacts DEF LoadInv, ArrayInv, LoadedSoFar
  <2>3. end' \in {FALSE, KnownStarts' = RealClusters}
    BY <1>3
  <2> QED
    BY <1>2, <1>6, <2>1, <2>2, <2>3 DEF List!Next, List!Load, List!IsNext, KnownStarts
<1> QED
  BY <1>1, <1>5, <1>6 DEF LoadStep

\* Loading implements what ClusterList says of it, at every file: the clusters that
\* have blocks become known one after the other in the file's order, none that has
\* none does, and m_pos says that the end is reached only when all are known
\* (LoadsAll without its progress; Segment::DoLoadCluster).
THEOREM LoadsInOrder == Spec => List!SafeSpec
<1>1. LoadInv /\ [Next]_vars => [List!Next]_List!vars
  BY ListNext
<1>2. Init => List!Init
  BY ListInit
<1> QED
  BY <1>1, <1>2, Invariance, PTL DEF Spec, List!SafeSpec

-----------------------------------------------------------------------------
(* How a step changes the array.                                            *)

ParsesOne ==
  \E i \in DOMAIN clusters : \E r \in Parse(clusters[i]) :
    clusters' = [clusters EXCEPT ![i] = r.cluster] /\ count' = count

\* A cluster is preloaded where a search for it has ended: one that a cue point names,
\* or one behind a preloaded cluster.
PreloadsOne ==
  \E p \in Headers : \E s :
    /\ Id(p) = "Cluster" /\ ~s.hit /\ PreloadCluster(p, s.at) /\ count' = count
    /\ \/ s = SearchAll(p) /\ \E c \in file.cues : p = file.start + c
       \/ /\ s = SearchPreloaded(p)
          /\ \/ pc = "next" /\ p = pos
             \/ \E i \in count + 1 .. Len(clusters) : clusters[i].start < p

LoadsNew ==
  /\ mPos \in RealClusters /\ IsNew
  /\ clusters' = InsertAt(clusters, count + 1, NewCluster(mPos, count))
  /\ count' = count + 1

Adopts ==
  /\ mPos \in RealClusters /\ count < Len(clusters) /\ clusters[count + 1].start = mPos
  /\ clusters' = [clusters EXCEPT ![count + 1].index = count] /\ count' = count + 1

\* What a step does to the array: nothing, or one of the four.
LEMMA ArrayChanges ==
  ASSUME LoadInv, [Next]_vars
  PROVE  UNCHANGED array \/ ParsesOne \/ PreloadsOne \/ LoadsNew \/ Adopts
<1>0. file \in Files
  BY DEF LoadInv, CallInv
<1>1. CASE UNCHANGED vars
  BY <1>1 DEF vars
<1>2. CASE Grow
  BY <1>2 DEF Grow
<1>3. CASE ParseHeaders \/ LoadCluster
  BY <1>3 DEF ParseHeaders, LoadCluster
<1>4. ASSUME NEW i \in DOMAIN clusters, ParseCluster(i) PROVE ParsesOne
  BY <1>4 DEF ParseCluster, ParsesOne
<1>5. ASSUME NEW i \in DOMAIN clusters, ParseNext(i) PROVE UNCHANGED array
  BY <1>5 DEF ParseNext
<1>6. ASSUME NEW i \in DOMAIN clusters, GetNext(i) PROVE UNCHANGED array \/ PreloadsOne
  <2> DEFINE p == clusters[i].start
             q == Min(NextWithBlocks(p))
  <2>1. count' = count
    BY <1>6 DEF GetNext
  <2>2. CASE UNCHANGED clusters
    BY <2>1, <2>2 DEF array
  <2>3. CASE ~ UNCHANGED clusters
    <3>1. PICK s : s = SearchPreloaded(q)
      OBVIOUS
    <3>2. /\ i > count /\ NextWithBlocks(p) # {} /\ ~s.hit /\ PreloadCluster(q, s.at)
      BY <1>6, <2>3, <3>1 DEF GetNext
    <3>3. NextWithBlocks(p) \subseteq Nat
      BY <1>0, FileFacts DEF NextWithBlocks
    <3>4. q \in NextWithBlocks(p)
      BY <3>2, <3>3, MinIsLeast
    <3>5. q \in Headers /\ q > p /\ Id(q) = "Cluster"
      BY <3>4 DEF NextWithBlocks, AtCluster
    <3>6. i \in count + 1 .. Len(clusters) /\ p \in Nat /\ q \in Nat
      BY <1>0, <3>2, <3>5, ArrayFacts, FileFacts DEF LoadInv
    <3> HIDE DEF q
    <3> QED
      BY <2>1, <3>1, <3>2, <3>5, <3>6 DEF PreloadsOne
  <2> QED
    BY <2>2, <2>3
<1>7. ASSUME NEW off \in file.cues, FindOrPreloadCluster(off)
      PROVE  UNCHANGED array \/ PreloadsOne
  <2> DEFINE p == file.start + off
  <2>1. count' = count
    BY <1>7 DEF FindOrPreloadCluster
  <2>2. CASE UNCHANGED clusters
    BY <2>1, <2>2 DEF array
  <2>3. CASE ~ UNCHANGED clusters
    <3>1. PICK s : s = SearchAll(p)
      OBVIOUS
    <3>2. ~s.hit /\ PreloadCluster(p, s.at)
      BY <1>7, <2>3, <3>1 DEF FindOrPreloadCluster
    <3>3. p \in Headers /\ Id(p) = "Cluster"
      BY <1>0, CueNamesCluster
    <3>4. \E c \in file.cues : p = file.start + c
      OBVIOUS
    <3> HIDE DEF p
    <3> QED
      BY <2>1, <3>1, <3>2, <3>3, <3>4 DEF PreloadsOne
  <2> QED
    BY <2>2, <2>3
<1>8. ASSUME NEW p \in Headers, ParseCues(p) PROVE UNCHANGED array
  BY <1>8 DEF ParseCues
<1>9. CASE \/ ReturnFromHeaders \/ ParseHeader \/ ReturnFromLoad \/ LoadSkipsElement
           \/ ClusterUnderflows \/ LoadSkipsCluster \/ ReturnFromNext \/ NextSkipsElement
           \/ NextReadsGarbage
  BY <1>9 DEF ReturnFromHeaders, ParseHeader, ReturnFromLoad, LoadSkipsElement,
     ClusterUnderflows, LoadSkipsCluster, ReturnFromNext, NextSkipsElement, NextReadsGarbage
<1>10. CASE LoadUnknownSize
  <2>1. mUnknown \in DOMAIN clusters
    BY <1>10, ArrayFacts DEF LoadUnknownSize, LoadInv, ArrayInv
  <2> QED
    BY <1>10, <2>1 DEF LoadUnknownSize, ParsesOne
<1>11. CASE AdoptPreloaded
  <2>1. mPos \in Headers
    BY <1>11, LoadableFacts DEF AdoptPreloaded
  <2>2. CASE UNCHANGED array
    BY <2>2
  <2>3. CASE ~ UNCHANGED array
    <3>1. /\ HasBlockEntries(mPos) # "none" /\ HasBlockEntries(mPos) # "more"
          /\ Id(mPos) = "Cluster" /\ Preloaded > 0 /\ First.start = mPos
          /\ clusters' = [clusters EXCEPT ![count + 1].index = count]
          /\ count' = count + 1
      BY <1>11, <2>3 DEF AdoptPreloaded, AtCluster
    <3>2. mPos \in RealClusters
      BY <1>0, <2>1, <3>1, HasBlocksFacts
    <3>3. count < Len(clusters)
      BY <3>1, ArrayFacts DEF LoadInv, Preloaded
    <3> QED
      BY <3>1, <3>2, <3>3 DEF Adopts, First
  <2> QED
    BY <2>2, <2>3
<1>12. CASE LoadNewCluster
  <2>1. mPos \in Headers
    BY <1>12, LoadableFacts DEF LoadNewCluster
  <2>2. mPos \in RealClusters
    BY <1>0, <1>12, <2>1, HasBlocksFacts DEF LoadNewCluster, AtCluster
  <2> QED
    BY <1>12, <2>2 DEF LoadNewCluster, LoadsNew, AppendCluster
<1>13. CASE NextCluster
  <2>1. count' = count /\ pc = "next" /\ pos \in Headers /\ Id(pos) = "Cluster"
    BY <1>13 DEF NextCluster, AtNext, AtCluster
  <2>2. CASE UNCHANGED clusters
    BY <2>1, <2>2 DEF array
  <2>3. CASE ~ UNCHANGED clusters
    <3>1. PICK s : s = SearchPreloaded(pos)
      OBVIOUS
    <3>2. ~s.hit /\ PreloadCluster(pos, s.at)
      BY <1>13, <2>3, <3>1 DEF NextCluster
    <3> QED
      BY <2>1, <3>1, <3>2 DEF PreloadsOne
  <2> QED
    BY <2>2, <2>3
<1>14. CASE Terminated
  BY <1>1, <1>14 DEF Terminated
<1>15. CASE Caller
  BY <1>3, <1>4, <1>5, <1>6, <1>7, <1>8, <1>15 DEF Caller
<1>16. CASE Step
  BY <1>9, <1>10, <1>11, <1>12, <1>13, <1>16 DEF Step
<1> QED
  BY <1>1, <1>2, <1>14, <1>15, <1>16 DEF Next

-----------------------------------------------------------------------------
(* The order of the array, for an ordinary file.                            *)

\* What is at or behind a cluster that a cue point names.
BehindCue(p) == \E c \in file.cues : p >= c + file.start

Sorted == \A i, j \in 1 .. Len(clusters) : i < j => clusters[i].start < clusters[j].start

Indexed == \A i \in 1 .. Len(clusters) :
             clusters[i].index = IF i <= count THEN i - 1 ELSE -1

\* The searches find the place of a cluster as those before it are in front of it:
\* ParseNext starts behind a preloaded cluster.
CueReached == \A i \in count + 1 .. Len(clusters) : BehindCue(clusters[i].start)

WalksBehind == pc = "next" => \E i \in count + 1 .. Len(clusters) : clusters[i].start < pos

ArrayOrder == Sorted /\ Indexed /\ CueReached

\* Whether a file is ordinary does not depend on how much of it there is.
LEMMA OrdinaryStays ==
  ASSUME file' = file
  PROVE  (Ordinary' <=> Ordinary) /\ (\A p : BehindCue(p)' <=> BehindCue(p))
BY SameFile, SameClusters DEF Ordinary, Faultless, OneInFront, InSegment, BehindCue

\* A cluster at or behind one that a cue point names has blocks and a size.
LEMMA CueIsReal ==
  ASSUME Ordinary, file \in Files, NEW p \in Headers, Id(p) = "Cluster", BehindCue(p)
  PROVE  Sized(p) /\ p \in RealClusters
BY DEF Ordinary, BehindCue

\* Whatever is put into a sorted array where the clusters before it are in front
\* of it in the file, and those from there on behind it, leaves it sorted.
LEMMA InsertSorted ==
  ASSUME ArrayInv, file \in Files, file' = file, Sorted, NEW k \in 1 .. Len(clusters) + 1,
         NEW p \in Headers, Id(p) = "Cluster", NEW n \in Nat \cup {-1},
         clusters' = InsertAt(clusters, k, NewCluster(p, n)),
         \A i \in 1 .. k - 1 : clusters[i].start < p,
         \A i \in k .. Len(clusters) : p < clusters[i].start
  PROVE  Sorted'
<1>0. Len(clusters) \in Nat /\ k \in Nat
  BY ArrayFacts
<1>1. /\ Len(clusters') = Len(clusters) + 1
      /\ \A i \in 1 .. k - 1 : clusters'[i] = clusters[i]
      /\ clusters'[k] = NewCluster(p, n)
      /\ \A i \in k .. Len(clusters) : clusters'[i + 1] = clusters[i]
  BY Inserted
<1>2. clusters'[k].start = p
  BY <1>1 DEF NewCluster
<1>3. ASSUME NEW i \in k + 1 .. Len(clusters) + 1
      PROVE  i - 1 \in k .. Len(clusters) /\ clusters'[i] = clusters[i - 1]
  <2>1. i - 1 \in k .. Len(clusters) /\ i = (i - 1) + 1
    BY <1>0
  <2> QED
    BY <1>1, <2>1
<1>4. \A i \in 1 .. Len(clusters) : clusters[i].start \in Nat
  BY ArrayFacts, FileFacts
<1>5. p \in Nat
  BY FileFacts
<1> SUFFICES ASSUME NEW i \in 1 .. Len(clusters) + 1, NEW j \in 1 .. Len(clusters) + 1, i < j
             PROVE  clusters'[i].start < clusters'[j].start
  BY <1>1 DEF Sorted
<1>6. CASE j < k
  <2>1. i \in 1 .. k - 1 /\ j \in 1 .. k - 1 /\ i \in 1 .. Len(clusters)
        /\ j \in 1 .. Len(clusters)
    BY <1>0, <1>6
  <2> QED
    BY <1>1, <2>1 DEF Sorted
<1>7. CASE j = k
  <2>1. i \in 1 .. k - 1
    BY <1>0, <1>7
  <2> QED
    BY <1>1, <1>2, <1>7, <2>1
<1>8. CASE j > k
  <2>1. j \in k + 1 .. Len(clusters) + 1
    BY <1>0, <1>8
  <2>2. j - 1 \in k .. Len(clusters) /\ clusters'[j] = clusters[j - 1]
    BY <1>3, <2>1
  <2>3. CASE i < k
    <3>1. i \in 1 .. k - 1 /\ i \in 1 .. Len(clusters) /\ j - 1 \in 1 .. Len(clusters)
          /\ i < j - 1
      BY <1>0, <2>2, <2>3
    <3> QED
      BY <1>1, <2>2, <3>1 DEF Sorted
  <2>4. CASE i = k
    BY <1>2, <2>2, <2>4
  <2>5. CASE i > k
    <3>1. i \in k + 1 .. Len(clusters) + 1
      BY <1>0, <2>5
    <3>2. i - 1 \in k .. Len(clusters) /\ clusters'[i] = clusters[i - 1]
      BY <1>3, <3>1
    <3>3. i - 1 \in 1 .. Len(clusters) /\ j - 1 \in 1 .. Len(clusters) /\ i - 1 < j - 1
      BY <1>0, <2>2, <3>2
    <3> QED
      BY <2>2, <3>2, <3>3 DEF Sorted
  <2> QED
    BY <1>0, <2>3, <2>4, <2>5
<1> QED
  BY <1>0, <1>6, <1>7, <1>8

\* What a step does to the array of an ordinary file leaves it in order.
LEMMA ArrayOrderStays ==
  ASSUME LoadInv, LoadInv', file' = file, Ordinary, ArrayOrder, WalksBehind, [Next]_vars
  PROVE  ArrayOrder'
<1>0. /\ file \in Files /\ ArrayInv /\ Len(clusters) \in Nat /\ count \in Nat
      /\ count <= Len(clusters) /\ DOMAIN clusters = 1 .. Len(clusters)
      /\ \A p : BehindCue(p)' <=> BehindCue(p)
  BY ArrayFacts, OrdinaryStays DEF LoadInv, CallInv
<1>1. \A i \in 1 .. Len(clusters) : clusters[i] \in ClusterRecord /\ Parsed(clusters[i])
                                      /\ clusters[i].start \in Headers
                                      /\ clusters[i].start \in Nat
  BY <1>0, ArrayFacts, FileFacts DEF ArrayInv, ClustersParsed
<1>2. CASE UNCHANGED array
  BY <1>0, <1>2 DEF array, ArrayOrder, Sorted, Indexed, CueReached
<1>3. CASE ParsesOne
  <2>0. PICK i \in DOMAIN clusters : \E r \in Parse(clusters[i]) :
          clusters' = [clusters EXCEPT ![i] = r.cluster] /\ count' = count
    BY <1>3 DEF ParsesOne
  <2>1. PICK r \in Parse(clusters[i]) :
          clusters' = [clusters EXCEPT ![i] = r.cluster] /\ count' = count
    BY <2>0
  <2>2. PICK d : d = r.cluster
    OBVIOUS
  <2>3. d.start = clusters[i].start /\ d.index = clusters[i].index /\ d \in ClusterRecord
    BY <1>0, <1>1, <2>1, <2>2, ParseFacts
  <2>4. /\ Len(clusters') = Len(clusters)
        /\ \A j \in 1 .. Len(clusters) : clusters'[j].start = clusters[j].start
                                           /\ clusters'[j].index = clusters[j].index
    BY <1>0, <2>1, <2>2, <2>3 DEF ArrayInv
  <2> QED
    BY <1>0, <2>1, <2>4 DEF ArrayOrder, Sorted, Indexed, CueReached
<1>4. CASE PreloadsOne
  <2>0. PICK p \in Headers : \E s :
          /\ Id(p) = "Cluster" /\ ~s.hit /\ PreloadCluster(p, s.at) /\ count' = count
          /\ \/ s = SearchAll(p) /\ \E c \in file.cues : p = file.start + c
             \/ /\ s = SearchPreloaded(p)
                /\ \/ pc = "next" /\ p = pos
                   \/ \E i \in count + 1 .. Len(clusters) : clusters[i].start < p
    BY <1>4 DEF PreloadsOne
  <2>1. PICK s :
          /\ Id(p) = "Cluster" /\ ~s.hit /\ PreloadCluster(p, s.at) /\ count' = count
          /\ \/ s = SearchAll(p) /\ \E c \in file.cues : p = file.start + c
             \/ /\ s = SearchPreloaded(p)
                /\ \/ pc = "next" /\ p = pos
                   \/ \E i \in count + 1 .. Len(clusters) : clusters[i].start < p
    BY <2>0
  <2>2. p \in Nat
    BY <1>0, FileFacts
  <2>3. s.at > count /\ clusters' = InsertAt(clusters, s.at, NewCluster(p, -1))
    BY <2>1 DEF PreloadCluster
  <2>4. SortedFrom(1, Len(clusters) + 1) /\ SortedFrom(count + 1, Len(clusters) + 1)
    BY <1>0 DEF SortedFrom, ArrayOrder, Sorted
  <2>5. /\ s.at \in count + 1 .. Len(clusters) + 1 /\ BehindCue(p)
        /\ \A i \in 1 .. s.at - 1 : clusters[i].start < p
        /\ \A i \in s.at .. Len(clusters) : p < clusters[i].start
    <3>1. CASE s = SearchAll(p) /\ \E c \in file.cues : p = file.start + c
      <4>1. Finds(s, 1, Len(clusters) + 1, p)
        BY <1>0, <2>2, <3>1, SearchesFind
      <4>2. /\ s.at \in 1 .. Len(clusters) + 1
            /\ \A i \in 1 .. s.at - 1 : clusters[i].start < p
            /\ \A i \in s.at .. (Len(clusters) + 1) - 1 : clusters[i].start > p
        BY <2>1, <2>4, <4>1 DEF Finds
      <4>3. BehindCue(p)
        BY <1>0, <2>2, <3>1, CueNamesCluster, FileFacts DEF BehindCue
      <4> QED
        BY <1>0, <1>1, <2>2, <2>3, <4>2, <4>3
    <3>2. ASSUME s = SearchPreloaded(p), NEW i \in count + 1 .. Len(clusters),
                 clusters[i].start < p
          PROVE  /\ s.at \in count + 1 .. Len(clusters) + 1 /\ BehindCue(p)
                 /\ \A k \in 1 .. s.at - 1 : clusters[k].start < p
                 /\ \A k \in s.at .. Len(clusters) : p < clusters[k].start
      <4>1. Finds(s, count + 1, Len(clusters) + 1, p)
        BY <1>0, <2>2, <3>2, SearchesFind
      <4>2. /\ s.at \in count + 1 .. Len(clusters) + 1
            /\ \A k \in count + 1 .. s.at - 1 : clusters[k].start < p
            /\ \A k \in s.at .. (Len(clusters) + 1) - 1 : clusters[k].start > p
        BY <2>1, <2>4, <4>1 DEF Finds
      <4>3. i \in 1 .. Len(clusters) /\ i \in Nat
        BY <1>0
      <4>4. ASSUME NEW k \in 1 .. count PROVE clusters[k].start < p
        <5>1. k \in 1 .. Len(clusters) /\ k < i
          BY <1>0
        <5>2. clusters[k].start < clusters[i].start
          BY <4>3, <5>1 DEF ArrayOrder, Sorted
        <5> QED
          BY <1>1, <2>2, <3>2, <4>3, <5>1, <5>2
      <4>5. BehindCue(p)
        <5>1. PICK c \in file.cues : clusters[i].start >= c + file.start
          BY DEF ArrayOrder, CueReached, BehindCue
        <5>2. c \in Nat /\ file.start \in Nat
          BY <1>0, CueNamesCluster, FileFacts
        <5> QED
          BY <1>1, <2>2, <3>2, <4>3, <5>1, <5>2 DEF BehindCue
      <4>6. \A k \in 1 .. s.at - 1 : clusters[k].start < p
        BY <1>0, <4>2, <4>4
      <4>7. \A k \in s.at .. Len(clusters) : p < clusters[k].start
        BY <1>0, <1>1, <2>2, <4>2
      <4> QED
        BY <4>2, <4>5, <4>6, <4>7
    <3> QED
      BY <2>1, <3>1, <3>2 DEF WalksBehind
  <2>6. s.at \in 1 .. Len(clusters) + 1 /\ s.at \in Nat
    BY <1>0, <2>5
  <2>7. Sorted'
    BY <1>0, <2>1, <2>3, <2>5, <2>6, InsertSorted DEF ArrayOrder
  <2>8. /\ Len(clusters') = Len(clusters) + 1
        /\ \A i \in 1 .. s.at - 1 : clusters'[i] = clusters[i]
        /\ clusters'[s.at] = NewCluster(p, -1)
        /\ \A i \in s.at .. Len(clusters) : clusters'[i + 1] = clusters[i]
    BY <1>0, <2>1, <2>3, <2>6, Inserted
  <2>9. ASSUME NEW i \in 1 .. Len(clusters) + 1
        PROVE  /\ clusters'[i].index = IF i <= count THEN i - 1 ELSE -1
               /\ i > count => BehindCue(clusters'[i].start)
    <3>1. CASE i < s.at
      <4>1. i \in 1 .. s.at - 1 /\ i \in 1 .. Len(clusters)
        BY <1>0, <2>5, <2>6, <3>1
      <4> QED
        BY <1>0, <2>8, <4>1 DEF ArrayOrder, Indexed, CueReached
    <3>2. CASE i = s.at
      BY <1>0, <2>3, <2>5, <2>6, <2>8, <3>2 DEF NewCluster
    <3>3. CASE i > s.at
      <4>1. i - 1 \in s.at .. Len(clusters) /\ i = (i - 1) + 1 /\ i - 1 > count
            /\ i - 1 \in 1 .. Len(clusters) /\ i - 1 \in count + 1 .. Len(clusters)
            /\ ~ (i <= count)
        BY <1>0, <2>3, <2>6, <3>3
      <4>2. clusters'[i] = clusters[i - 1]
        BY <2>8, <4>1
      <4>3. clusters[i - 1].index = -1
        BY <1>0, <4>1 DEF ArrayOrder, Indexed
      <4> QED
        BY <4>1, <4>2, <4>3 DEF ArrayOrder, CueReached
    <3> QED
      BY <1>0, <2>6, <3>1, <3>2, <3>3
  <2>10. Indexed' /\ CueReached'
    <3>1. count' = count
      BY <2>1
    <3> QED
      BY <1>0, <2>8, <2>9, <3>1 DEF Indexed, CueReached
  <2> QED
    BY <2>7, <2>10 DEF ArrayOrder
<1>5. ASSUME mPos \in RealClusters
      PROVE  /\ mPos \in Headers /\ mPos \in Nat /\ Id(mPos) = "Cluster"
             /\ \A i \in 1 .. count : clusters[i].start < mPos
             /\ \A i \in count + 1 .. Len(clusters) : clusters[i].start >= mPos
  <2>1. mPos \in Headers /\ mPos \in Nat /\ Id(mPos) = "Cluster"
    BY <1>0, <1>5, RealFacts
  <2>2. \A q \in RealClusters : q < mPos <=> q \in KnownStarts
    BY <1>0, <2>1 DEF ArrayInv, LoadedSoFar, Reached
  <2>3. \A i \in 1 .. count : clusters[i].start < mPos
    BY <1>0, <2>2 DEF ArrayInv, LoadedSoFar, KnownStarts
  <2>4. ASSUME NEW i \in count + 1 .. Len(clusters), clusters[i].start < mPos PROVE FALSE
    <3>1. i \in 1 .. Len(clusters) /\ i \in Nat
      BY <1>0
    <3>2. clusters[i].start \in RealClusters
      BY <1>0, <1>1, <3>1, CueIsReal DEF ArrayOrder, CueReached, Parsed
    <3>3. PICK k \in 1 .. count : clusters[k].start = clusters[i].start
      BY <2>2, <2>4, <3>2 DEF KnownStarts
    <3>4. k \in 1 .. Len(clusters) /\ k < i
      BY <1>0
    <3>5. clusters[k].start < clusters[i].start
      BY <3>1, <3>4 DEF ArrayOrder, Sorted
    <3> QED
      BY <1>1, <3>1, <3>3, <3>5
  <2> QED
    BY <1>0, <1>1, <2>1, <2>3, <2>4
<1>6. CASE LoadsNew
  <2>1. /\ mPos \in RealClusters /\ IsNew /\ count' = count + 1
        /\ clusters' = InsertAt(clusters, count + 1, NewCluster(mPos, count))
    BY <1>6 DEF LoadsNew
  <2>2. /\ mPos \in Headers /\ mPos \in Nat /\ Id(mPos) = "Cluster"
        /\ \A i \in 1 .. count : clusters[i].start < mPos
        /\ \A i \in count + 1 .. Len(clusters) : clusters[i].start >= mPos
    BY <1>5, <2>1
  <2>3. count + 1 \in 1 .. Len(clusters) + 1 /\ count \in Nat \cup {-1}
    BY <1>0
  <2>4. ASSUME NEW i \in count + 1 .. Len(clusters) PROVE mPos < clusters[i].start
    <3>1. i \in 1 .. Len(clusters) /\ count + 1 \in 1 .. Len(clusters)
          /\ count + 1 \in count + 1 .. Len(clusters)
      BY <1>0
    <3>2. clusters[count + 1].start # mPos
      BY <1>0, <2>1, <3>1 DEF IsNew, Preloaded, First
    <3>3. i = count + 1 \/ clusters[count + 1].start < clusters[i].start
      BY <1>0, <3>1 DEF ArrayOrder, Sorted
    <3> QED
      BY <1>1, <2>2, <3>1, <3>2, <3>3
  <2>5. \A i \in 1 .. (count + 1) - 1 : clusters[i].start < mPos
    BY <1>0, <2>2
  <2>6. Sorted'
    BY <1>0, <2>1, <2>2, <2>3, <2>4, <2>5, InsertSorted DEF ArrayOrder
  <2>7. /\ Len(clusters') = Len(clusters) + 1
        /\ \A i \in 1 .. (count + 1) - 1 : clusters'[i] = clusters[i]
        /\ clusters'[count + 1] = NewCluster(mPos, count)
        /\ \A i \in count + 1 .. Len(clusters) : clusters'[i + 1] = clusters[i]
    BY <1>0, <2>1, <2>2, <2>3, Inserted
  <2>8. ASSUME NEW i \in 1 .. Len(clusters) + 1
        PROVE  /\ clusters'[i].index = IF i <= count + 1 THEN i - 1 ELSE -1
               /\ i > count + 1 => BehindCue(clusters'[i].start)
    <3>1. CASE i < count + 1
      <4>1. i \in 1 .. (count + 1) - 1 /\ i \in 1 .. Len(clusters)
        BY <1>0, <3>1
      <4> QED
        BY <1>0, <2>7, <3>1, <4>1 DEF ArrayOrder, Indexed
    <3>2. CASE i = count + 1
      BY <1>0, <2>7, <3>2 DEF NewCluster
    <3>3. CASE i > count + 1
      <4>1. i - 1 \in count + 1 .. Len(clusters) /\ i = (i - 1) + 1
            /\ i - 1 \in 1 .. Len(clusters) /\ ~ (i <= count + 1) /\ ~ (i - 1 <= count)
        BY <1>0, <3>3
      <4>2. clusters'[i] = clusters[i - 1]
        BY <2>7, <4>1
      <4>3. clusters[i - 1].index = -1
        BY <4>1 DEF ArrayOrder, Indexed
      <4> QED
        BY <4>1, <4>2, <4>3 DEF ArrayOrder, CueReached
    <3> QED
      BY <1>0, <3>1, <3>2, <3>3
  <2>9. Indexed' /\ CueReached'
    BY <1>0, <2>1, <2>7, <2>8 DEF Indexed, CueReached
  <2> QED
    BY <2>6, <2>9 DEF ArrayOrder
<1>7. CASE Adopts
  <2>1. /\ count < Len(clusters) /\ count' = count + 1
        /\ clusters' = [clusters EXCEPT ![count + 1].index = count]
    BY <1>7 DEF Adopts
  <2>2. /\ Len(clusters') = Len(clusters)
        /\ \A i \in 1 .. Len(clusters) : clusters'[i].start = clusters[i].start
        /\ \A i \in 1 .. Len(clusters) : i # count + 1 => clusters'[i] = clusters[i]
        /\ clusters'[count + 1].index = count
    <3>1. clusters \in Seq(ClusterRecord) /\ count + 1 \in 1 .. Len(clusters)
      BY <1>0, <2>1 DEF ArrayInv
    <3> QED
      BY <1>0, <1>1, <2>1, <3>1 DEF ClusterRecord
  <2>3. Sorted'
    BY <2>2 DEF ArrayOrder, Sorted
  <2>4. \A i \in 1 .. Len(clusters) :
          clusters'[i].index = IF i <= count + 1 THEN i - 1 ELSE -1
    <3> TAKE i \in 1 .. Len(clusters)
    <3>1. CASE i = count + 1
      BY <1>0, <2>2, <3>1
    <3>2. CASE i # count + 1
      <4>1. i <= count + 1 <=> i <= count
        BY <1>0, <3>2
      <4> QED
        BY <2>2, <3>2, <4>1 DEF ArrayOrder, Indexed
    <3> QED
      BY <3>1, <3>2
  <2>5. \A i \in (count + 1) + 1 .. Len(clusters) : BehindCue(clusters'[i].start)
    <3> TAKE i \in (count + 1) + 1 .. Len(clusters)
    <3>1. i \in 1 .. Len(clusters) /\ i \in count + 1 .. Len(clusters)
      BY <1>0
    <3> QED
      BY <2>2, <3>1 DEF ArrayOrder, CueReached
  <2>6. Indexed' /\ CueReached'
    BY <1>0, <2>1, <2>2, <2>4, <2>5 DEF Indexed, CueReached
  <2> QED
    BY <2>3, <2>6 DEF ArrayOrder
<1> QED
  BY <1>2, <1>3, <1>4, <1>6, <1>7, ArrayChanges

\* The invariant of the array.
OrderInv == Ordinary => ArrayOrder /\ WalksBehind

\* What DoParseNext comes to lies behind a preloaded cluster.
LEMMA WalksBehindStays ==
  ASSUME LoadInv, LoadInv', file' = file, Ordinary, ArrayOrder, WalksBehind, [Next]_vars
  PROVE  WalksBehind'
<1>0. /\ file \in Files /\ Len(clusters) \in Nat /\ count \in Nat /\ pos \in Nat
      /\ DOMAIN clusters = 1 .. Len(clusters)
      /\ \A i \in 1 .. Len(clusters) : clusters[i] \in ClusterRecord /\ Parsed(clusters[i])
                                         /\ clusters[i].start \in Headers
                                         /\ clusters[i].start \in Nat
  BY ArrayFacts, FileFacts DEF LoadInv, CallInv, ArrayInv, ClustersParsed
<1>1. CASE UNCHANGED array /\ pc' = "next" /\ pc = "next" /\ pos' \in Nat /\ pos' >= pos
  BY <1>0, <1>1 DEF WalksBehind, array
<1>2. CASE pc' # "next"
  BY <1>2 DEF WalksBehind
<1>3. CASE UNCHANGED vars
  BY <1>3 DEF WalksBehind, vars, array, calls
<1>4. CASE Grow \/ ParseHeaders \/ LoadCluster
  BY <1>2, <1>4 DEF Grow, ParseHeaders, LoadCluster
<1>5. ASSUME NEW i \in DOMAIN clusters, ParseNext(i) PROVE WalksBehind'
  <2>1. CASE pc' = "next"
    <3>1. i > count /\ Behind(clusters[i]) # Unknown /\ pos' = Behind(clusters[i])
      BY <1>5, <2>1 DEF ParseNext, CallReturns
    <3>2. PICK c : c = clusters[i]
      OBVIOUS
    <3>3. c \in ClusterRecord /\ Parsed(c) /\ c.start \in Headers /\ c.start \in Nat
      BY <1>0, <3>2
    <3>4. pos' > c.start
      BY <3>1, <3>2, <3>3 DEF Behind, Parsed, EndsRight
    <3>5. i \in count + 1 .. Len(clusters) /\ UNCHANGED array
      BY <1>0, <1>5, <3>1 DEF ParseNext
    <3> QED
      BY <3>2, <3>4, <3>5 DEF WalksBehind, array
  <2> QED
    BY <1>2, <2>1
<1>6. ASSUME NEW i \in DOMAIN clusters, ParseCluster(i) \/ GetNext(i) PROVE WalksBehind'
  BY <1>2, <1>6 DEF ParseCluster, GetNext, CallReturns
<1>7. ASSUME NEW off \in file.cues, FindOrPreloadCluster(off) PROVE WalksBehind'
  BY <1>2, <1>7 DEF FindOrPreloadCluster, CallReturns
<1>8. ASSUME NEW p \in Headers, ParseCues(p) PROVE WalksBehind'
  BY <1>2, <1>8 DEF ParseCues, CallReturns
<1>9. CASE \/ ReturnFromHeaders \/ ParseHeader \/ LoadUnknownSize \/ ReturnFromLoad
           \/ LoadSkipsElement \/ AdoptPreloaded \/ ClusterUnderflows \/ LoadSkipsCluster
           \/ LoadNewCluster \/ ReturnFromNext \/ NextReadsGarbage
  BY <1>2, <1>9 DEF ReturnFromHeaders, ParseHeader, LoadUnknownSize, ReturnFromLoad,
     LoadSkipsElement, AdoptPreloaded, ClusterUnderflows, LoadSkipsCluster, LoadNewCluster,
     ReturnFromNext, NextReadsGarbage, Return, AtLoadable
<1>10. CASE NextSkipsElement
  <2>1. pos \in Headers /\ ~AtCluster(pos) /\ pc = "next" /\ UNCHANGED array
        /\ pos' = Stop(pos) /\ pc' = pc
    BY <1>10 DEF NextSkipsElement, AtNext
  <2>2. Stop(pos) \in Nat /\ Stop(pos) > pos
    BY <1>0, <2>1, NotReal, HeaderFacts
  <2> QED
    BY <1>0, <1>1, <2>1, <2>2
<1>11. CASE NextCluster
  <2>1. pos \in Headers /\ Id(pos) = "Cluster" /\ pc = "next"
    BY <1>11 DEF NextCluster, AtNext, AtCluster
  <2>2. BehindCue(pos)
    <3>1. PICK i \in count + 1 .. Len(clusters) : clusters[i].start < pos
      BY <2>1 DEF WalksBehind
    <3>2. PICK c \in file.cues : clusters[i].start >= c + file.start
      BY DEF ArrayOrder, CueReached, BehindCue
    <3>3. i \in 1 .. Len(clusters) /\ c \in Nat /\ file.start \in Nat
      BY <1>0, CueNamesCluster, FileFacts
    <3> QED
      BY <1>0, <3>1, <3>2, <3>3 DEF BehindCue
  <2>3. HasBlockEntries(pos) # "none"
    BY <1>0, <2>1, <2>2, CueIsReal, HasBlocksFacts
  <2>4. pc' = "idle"
    BY <1>11, <2>3 DEF NextCluster, Return
  <2> QED
    BY <1>2, <2>4
<1>12. CASE Terminated
  BY <1>3, <1>12 DEF Terminated
<1>13. CASE Caller
  BY <1>4, <1>5, <1>6, <1>7, <1>8, <1>13 DEF Caller
<1>14. CASE Step
  BY <1>9, <1>10, <1>11, <1>14 DEF Step
<1> QED
  BY <1>3, <1>4, <1>12, <1>13, <1>14 DEF Next

\* It holds of every state.
LEMMA OrderInvariance == Spec => [](LoadInv /\ OrderInv)
<1>1. Init => LoadInv /\ OrderInv
  <2> SUFFICES ASSUME Init PROVE LoadInv /\ OrderInv
    OBVIOUS
  <2>1. LoadInv
    BY InitLoadInv
  <2>2. Len(clusters) = 0 /\ count = 0 /\ pc = "idle"
    BY DEF Init
  <2>3. Sorted /\ Indexed /\ CueReached /\ WalksBehind
    BY <2>2 DEF Sorted, Indexed, CueReached, WalksBehind
  <2> QED
    BY <2>1, <2>3 DEF OrderInv, ArrayOrder
<1>2. LoadInv /\ OrderInv /\ [Next]_vars => (LoadInv /\ OrderInv)'
  <2> SUFFICES ASSUME LoadInv, OrderInv, [Next]_vars PROVE LoadInv' /\ OrderInv'
    OBVIOUS
  <2>1. LoadInv' /\ file' = file
    BY LoadInvInductive DEF LoadStep
  <2> QED
    BY <2>1, OrdinaryStays, ArrayOrderStays, WalksBehindStays DEF OrderInv
<1> QED
  BY <1>1, <1>2, PTL DEF Spec

\* Whatever was loaded, looked up and parsed ahead before, the array of clusters of
\* an ordinary file is sorted by position, has no cluster twice, and gives the loaded
\* ones their place and the preloaded ones none: the binary searches of
\* FindOrPreloadCluster, FindCluster and DoParseNext may rely on it.
THEOREM ArrayOrdered == Spec => []ArrayInOrder
<1>1. LoadInv /\ OrderInv => ArrayInOrder
  <2> SUFFICES ASSUME LoadInv, OrderInv, Ordinary
               PROVE  ArrayInOrder
    BY DEF ArrayInOrder
  <2>1. DOMAIN clusters = 1 .. Len(clusters)
    BY ArrayFacts DEF LoadInv
  <2> QED
    BY <2>1 DEF ArrayInOrder, OrderInv, ArrayOrder, Sorted, Indexed
<1> QED
  BY <1>1, OrderInvariance, PTL

-----------------------------------------------------------------------------
(* The blocks of a cluster.                                                 *)

\* A cluster that is cut off has more entries than the file has blocks of it.
NotCut(p) == Sized(p) => Stop(p) <= file.length

Increasing(s) == \A j, k \in DOMAIN s : j < k => s[j] < s[k]

\* EntriesExact of one cluster; one of unknown size has been parsed to its end
\* when its size is known.
Exact(c) == NotCut(c.start) =>
  /\ Increasing(c.entries)
  /\ Range(c.entries) = { q \in WholeEntries(c.start) : q < c.pos }
  /\ c.size # Unknown => End(c) = ClusterStop(c.start)
  /\ ~Sized(c.start) /\ c.size # Unknown => c.pos >= End(c)

AllExact == \A i \in 1 .. Len(clusters) : Exact(clusters[i])

\* A cluster stops behind its blocks.
LEMMA ClusterStopFacts ==
  ASSUME file \in Files, NEW p \in Headers
  PROVE  /\ ClusterStop(p) \in Nat
         /\ \A q \in Entries(p) : q \in Nat /\ q < ClusterStop(p)
<1>1. /\ \A q \in Headers : q \in Nat /\ q < file.length
      /\ file.length \in Nat
  BY FileFacts
<1>2. CASE Sized(p)
  BY <1>1, <1>2, HeaderFacts, EntryFacts DEF ClusterStop
<1>3. CASE ~Sized(p) /\ Terminators(p) # {}
  <2>1. Min(Terminators(p)) \in Terminators(p) /\ Min(Terminators(p)) \in Nat
    BY <1>1, <1>3, TerminatorFacts
  <2> QED
    BY <1>1, <1>3, <2>1, EntryFacts DEF ClusterStop
<1>4. CASE ~Sized(p) /\ Terminators(p) = {}
  BY <1>1, <1>4, EntryFacts DEF ClusterStop
<1> QED
  BY <1>2, <1>3, <1>4

\* A block is behind the end of every block in front of it.
LEMMA BlocksApart ==
  ASSUME file \in Files, NEW p \in Headers, NEW q \in Entries(p), NEW r \in Entries(p), q < r
  PROVE  Stop(q) <= r /\ Stop(q) \in Nat
<1>1. q \in Headers /\ Id(q) \in Blocks /\ Sized(q) /\ r \in Headers
  BY EntryFacts
<1>2. ~ (r < Stop(q))
  BY <1>1, Nested, Kinds
<1> QED
  BY <1>1, <1>2, HeaderFacts, FileFacts

\* A cluster that has just been loaded has no blocks yet, and none of its blocks is
\* in front of the position it is parsed from.
LEMMA ExactWhenLoaded ==
  ASSUME file \in Files, NEW c \in ClusterRecord, Parsed(c), LoadStatus(c) = "some", Exact(c)
  PROVE  Exact(Loaded(c))
<1>1. CASE c.loaded
  BY <1>1, LoadedFacts
<1>2. CASE ~c.loaded
  <2>1. PICK d : d = Loaded(c)
    OBVIOUS
  <2>2. /\ d.start = c.start /\ d.entries = << >> /\ d.pos = TimecodeEnd(c.start)
        /\ Sized(c.start) => End(d) = Stop(c.start)
        /\ ~Sized(c.start) => d.size = Unknown
    BY <1>2, <2>1, LoadedFacts DEF Parsed
  <2>3. c.start \in Headers /\ Id(c.start) = "Cluster" /\ Entries(c.start) # {}
    BY RecordFields, LoadStatusFacts DEF Parsed
  <2>4. TimecodeEnd(c.start) \in Nat /\ \A q \in Entries(c.start) : TimecodeEnd(c.start) <= q
    BY <2>3, TimecodeEndFacts
  <2>5. \A q \in WholeEntries(c.start) : ~ (q < d.pos)
    <3> TAKE q \in WholeEntries(c.start)
    <3>1. q \in Entries(c.start) /\ q \in Nat
      BY <2>3, ClusterStopFacts DEF WholeEntries
    <3> QED
      BY <2>2, <2>4, <3>1
  <2>6. Range(d.entries) = {} /\ Increasing(d.entries)
    BY <2>2 DEF Range, Increasing
  <2>7. Sized(c.start) => End(d) = ClusterStop(c.start)
    BY <2>2 DEF ClusterStop
  <2> QED
    BY <2>1, <2>2, <2>5, <2>6, <2>7 DEF Exact
<1> QED
  BY <1>1, <1>2

\* A cluster at whose end no block is left.
LEMMA ExactWhenEnded ==
  ASSUME file \in Files, NEW c \in ClusterRecord, Parsed(c), c.loaded, Exact(c),
         \A q \in Rest(c) : q \notin WholeEntries(c.start),
         NEW stop, stop = ClusterStop(c.start), EndsRight(c.start, stop)
  PROVE  Exact(Ended(c, stop).cluster)
<1>1. PICK d : d = Ended(c, stop).cluster
  OBVIOUS
<1>2. /\ d.start = c.start /\ d.entries = c.entries /\ d.pos = stop /\ End(d) = stop
      /\ stop \in Nat
  BY <1>1, EndedFacts DEF EndsRight
<1>3. c.start \in Headers /\ c.pos \in Nat
  BY RecordFields
<1>4. ASSUME NEW q \in WholeEntries(c.start) PROVE q < c.pos /\ q < stop
  <2>1. q \in Entries(c.start) /\ q \in Nat /\ q < stop
    BY <1>3, ClusterStopFacts DEF WholeEntries
  <2>2. q \notin Rest(c)
    OBVIOUS
  <2> QED
    BY <1>3, <2>1, <2>2 DEF Rest
<1> SUFFICES ASSUME NotCut(c.start) PROVE Exact(d)
  BY <1>1, <1>2 DEF Exact
<1>5. Range(d.entries) = { q \in WholeEntries(d.start) : q < d.pos } /\ Increasing(d.entries)
  BY <1>2, <1>4 DEF Exact
<1> QED
  BY <1>2, <1>5 DEF Exact

\* The elements of a sequence with one more at its end.
LEMMA RangeAppended ==
  ASSUME NEW S, NEW s \in Seq(S), NEW x \in S
  PROVE  Range(Append(s, x)) = Range(s) \cup {x}
<1>1. /\ Len(Append(s, x)) = Len(s) + 1 /\ Append(s, x)[Len(s) + 1] = x
      /\ \A i \in 1 .. Len(s) : Append(s, x)[i] = s[i]
      /\ DOMAIN s = 1 .. Len(s) /\ DOMAIN Append(s, x) = 1 .. Len(s) + 1
      /\ Len(s) \in Nat
  OBVIOUS
<1>2. 1 .. Len(s) + 1 = 1 .. Len(s) \cup {Len(s) + 1}
  BY <1>1
<1> QED
  BY <1>1, <1>2 DEF Range

\* It stays increasing if that one is the largest.
LEMMA IncreasingAppended ==
  ASSUME NEW S, NEW s \in Seq(S), NEW x \in S, Increasing(s), \A y \in Range(s) : y < x
  PROVE  Increasing(Append(s, x))
<1>1. /\ Append(s, x)[Len(s) + 1] = x
      /\ \A i \in 1 .. Len(s) : Append(s, x)[i] = s[i]
      /\ DOMAIN s = 1 .. Len(s) /\ DOMAIN Append(s, x) = 1 .. Len(s) + 1
      /\ Len(s) \in Nat
  OBVIOUS
<1>2. \A i \in 1 .. Len(s) : s[i] < x
  BY <1>1 DEF Range
<1> SUFFICES ASSUME NEW j \in 1 .. Len(s) + 1, NEW k \in 1 .. Len(s) + 1, j < k
             PROVE  Append(s, x)[j] < Append(s, x)[k]
  BY <1>1 DEF Increasing
<1>3. j \in 1 .. Len(s)
  BY <1>1
<1>4. CASE k \in 1 .. Len(s)
  BY <1>1, <1>3, <1>4 DEF Increasing
<1>5. CASE k = Len(s) + 1
  BY <1>1, <1>2, <1>3, <1>5
<1> QED
  BY <1>1, <1>4, <1>5

\* A cluster to which the next of its blocks is added.
LEMMA ExactWithBlock ==
  ASSUME file \in Files, avail \in 0 .. file.length,
         NEW c \in ClusterRecord, Parsed(c), c.loaded, Exact(c),
         NEW q \in Rest(c), \A x \in Rest(c) : q <= x, BlockReadable(q, c.size # Unknown),
         NEW d, d = [c EXCEPT !.entries = Append(@, q), !.pos = Stop(q)]
  PROVE  Exact(d)
<1>1. /\ d.start = c.start /\ d.entries = Append(c.entries, q) /\ d.pos = Stop(q)
      /\ d.size = c.size /\ End(d) = End(c) /\ q \in Entries(c.start)
  <2>1. q \in Entries(c.start)
    BY RestFacts
  <2>2. /\ d.start = c.start /\ d.entries = Append(c.entries, q) /\ d.pos = Stop(q)
        /\ d.size = c.size
    BY DEF ClusterRecord
  <2> QED
    BY <2>1, <2>2 DEF End
<1>2. c.start \in Headers /\ c.pos \in Nat /\ c.entries \in Seq(Headers)
  BY RecordFields
<1>3. /\ q \in Headers /\ q \in Nat /\ Sized(q) /\ Stop(q) \in Nat /\ Stop(q) > q
      /\ q >= c.pos /\ c.start < q
  BY <1>1, <1>2, EntryFacts, HeaderFacts, FileFacts DEF Rest
<1> SUFFICES ASSUME NotCut(c.start) PROVE Exact(d)
  BY <1>1 DEF Exact
<1>4. /\ Increasing(c.entries)
      /\ Range(c.entries) = { x \in WholeEntries(c.start) : x < c.pos }
      /\ c.size # Unknown => End(c) = ClusterStop(c.start)
      /\ ~Sized(c.start) /\ c.size # Unknown => c.pos >= End(c)
  BY DEF Exact
<1>5. Sized(c.start) \/ c.size = Unknown
  <2> SUFFICES ASSUME ~Sized(c.start), c.size # Unknown PROVE FALSE
    OBVIOUS
  <2>1. c.pos >= ClusterStop(c.start)
    BY <1>4
  <2> QED
    BY <1>1, <1>2, <1>3, <2>1, ClusterStopFacts
<1>6. q \in WholeEntries(c.start)
  <2>1. CASE Sized(c.start)
    <3>1. Stop(q) <= Stop(c.start)
      BY <1>1, <1>2, <1>3, <2>1, EntryFacts, Nested
    <3> QED
      BY <1>1, <1>2, <1>3, <2>1, <3>1, HeaderFacts, FileFacts DEF NotCut, WholeEntries
  <2>2. CASE ~Sized(c.start)
    <3>1. Stop(q) <= avail
      BY <1>5, <2>2 DEF BlockReadable
    <3> QED
      BY <1>1, <1>3, <3>1, FileFacts DEF WholeEntries
  <2> QED
    BY <2>1, <2>2
<1>7. ASSUME NEW x \in WholeEntries(c.start)
      PROVE  x < Stop(q) <=> x < c.pos \/ x = q
  <2>1. x \in Entries(c.start) /\ x \in Nat
    BY <1>2, ClusterStopFacts DEF WholeEntries
  <2>2. x < c.pos \/ x >= q
    BY <1>2, <2>1 DEF Rest
  <2>3. q < x => Stop(q) <= x
    BY <1>1, <1>2, <2>1, BlocksApart
  <2> QED
    BY <1>2, <1>3, <2>1, <2>2, <2>3
<1>8. Range(d.entries) = { x \in WholeEntries(d.start) : x < d.pos }
  <2>1. Range(d.entries) = Range(c.entries) \cup {q}
    BY <1>1, <1>2, <1>3, RangeAppended
  <2> QED
    BY <1>1, <1>4, <1>6, <1>7, <2>1
<1>9. Increasing(d.entries)
  <2>1. \A y \in Range(c.entries) : y < q
    <3> TAKE y \in Range(c.entries)
    <3>1. y \in Entries(c.start) /\ y < c.pos
      BY <1>4 DEF WholeEntries
    <3>2. y \in Nat
      BY <1>2, <3>1, ClusterStopFacts
    <3> QED
      BY <1>2, <1>3, <3>1, <3>2
  <2> QED
    BY <1>1, <1>2, <1>3, <1>4, <2>1, IncreasingAppended
<1> QED
  BY <1>1, <1>4, <1>5, <1>8, <1>9 DEF Exact

\* Parse finds the blocks of a cluster one by one, and its end behind the last.
LEMMA ExactWhenParsed ==
  ASSUME file \in Files, avail \in 0 .. file.length, NEW c \in ClusterRecord, Parsed(c),
         Exact(c), NEW r \in Parse(c)
  PROVE  Exact(r.cluster)
<1>1. CASE LoadStatus(c) # "some"
  BY <1>1 DEF Parse, Same
<1>2. CASE LoadStatus(c) = "some"
  <2>1. PICK d : d = Loaded(c)
    OBVIOUS
  <2>2. r = ParseFrom(d, Rest(d))
    BY <1>2, <2>1 DEF Parse
  <2>3. d \in ClusterRecord /\ Parsed(d) /\ d.loaded /\ d.start = c.start /\ Exact(d)
    BY <1>2, <2>1, LoadedFacts, ExactWhenLoaded
  <2>4. d.start \in Headers /\ Id(d.start) = "Cluster" /\ Entries(d.start) # {}
        /\ (Sized(d.start) => d.size # Unknown)
    BY <2>3, RecordFields DEF Parsed
  <2>5. ParseOutcome(d, r)
    BY <2>2, <2>3, ParseFromOutcome
  <2>6. CASE r = Same(d, "end") \/ r = Same(d, "more")
    BY <2>3, <2>6 DEF Same
  <2>7. ASSUME ~NotCut(d.start) PROVE Exact(r.cluster)
    <3>1. r.cluster.start = c.start
      BY ParseFacts
    <3> QED
      BY <2>3, <2>7, <3>1 DEF Exact
  <2>8. CASE NotCut(d.start) /\ r = Ended(d, End(d)) /\ d.size # Unknown /\ Rest(d) = {}
    <3>1. End(d) = ClusterStop(d.start) /\ EndsRight(d.start, End(d))
      BY <2>3, <2>8 DEF Exact, Parsed
    <3> QED
      BY <2>3, <2>8, <3>1, ExactWhenEnded
  <2>9. CASE /\ r = Ended(d, ClusterStop(d.start)) /\ d.size = Unknown /\ Rest(d) = {}
             /\ SeesEnd(d.start)
    <3>1. Terminators(d.start) # {}
      BY <2>4, <2>9 DEF SeesEnd
    <3>2. ClusterStop(d.start) = Min(Terminators(d.start))
      BY <2>4, <2>9, <3>1 DEF ClusterStop
    <3>3. EndsRight(d.start, ClusterStop(d.start))
      BY <2>4, <3>1, <3>2, TerminatorEnds
    <3> QED
      BY <2>3, <2>9, <3>3, ExactWhenEnded
  <2>10. ASSUME r = Ended(d, Total), d.size = Unknown, Terminators(d.start) = {},
                Total # Unknown, \A q \in Rest(d) : q \notin WholeEntries(d.start)
         PROVE  Exact(r.cluster)
    <3>1. EndsRight(d.start, Total) /\ Total = ClusterStop(d.start)
      BY <2>4, <2>10, TotalEnds DEF ClusterStop
    <3> QED
      BY <2>3, <2>10, <3>1, ExactWhenEnded
  <2>11. CASE /\ r = Ended(d, Total) /\ d.size = Unknown /\ Rest(d) = {}
              /\ Terminators(d.start) = {} /\ Total # Unknown
    BY <2>10, <2>11
  <2>12. CASE /\ r = Ended(d, Total) /\ d.size = Unknown /\ Rest(d) # {}
              /\ Total # Unknown /\ Stop(Min(Rest(d))) > Total
    <3>1. PICK m : m = Min(Rest(d))
      OBVIOUS
    <3>2. m \in Entries(d.start) /\ \A q \in Rest(d) : m <= q /\ q \in Entries(d.start)
      BY <2>3, <2>12, <3>1, RestFacts
    <3>3. Terminators(d.start) = {}
      BY <2>4, <2>12, <3>1, <3>2, CutBlock
    <3>4. Total = file.length /\ file.length \in Nat
      BY <2>12, FileFacts DEF Total
    <3>5. Stop(m) > file.length /\ Stop(m) \in Nat
      <4>1. m \in Headers /\ Sized(m)
        BY <2>4, <3>2, EntryFacts
      <4> QED
        BY <2>12, <3>1, <3>4, <4>1, HeaderFacts
    <3>6. ASSUME NEW q \in Rest(d) PROVE q \notin WholeEntries(d.start)
      <4>1. q \in Nat /\ m \in Nat /\ q < file.length
        BY <2>4, <3>2, EntryFacts, FileFacts
      <4>2. CASE q = m
        BY <3>4, <3>5, <4>2 DEF WholeEntries
      <4>3. CASE m < q
        <5>1. Stop(m) <= q /\ Stop(m) \in Nat
          BY <2>4, <3>2, <4>3, BlocksApart
        <5> QED
          BY <3>4, <3>5, <4>1, <5>1
      <4> QED
        BY <3>2, <4>1, <4>2, <4>3
    <3> QED
      BY <2>10, <2>12, <3>3, <3>6
  <2>13. CASE \E q \in Rest(d) :
                /\ q = Min(Rest(d)) /\ BlockReadable(q, d.size # Unknown)
                /\ r.status = "block"
                /\ r.cluster = [d EXCEPT !.entries = Append(@, q), !.pos = Stop(q)]
    <3>1. PICK e : e = r.cluster
      OBVIOUS
    <3>2. PICK q \in Rest(d) :
            /\ q = Min(Rest(d)) /\ BlockReadable(q, d.size # Unknown)
            /\ e = [d EXCEPT !.entries = Append(@, q), !.pos = Stop(q)]
      BY <2>13, <3>1
    <3>3. \A x \in Rest(d) : q <= x
      BY <2>3, <3>2, RestFacts
    <3>4. Exact(e)
      BY <2>3, <3>2, <3>3, ExactWithBlock, ZenonT(30)
    <3> QED
      BY <3>1, <3>4
  <2> QED
    BY <2>5, <2>6, <2>7, <2>8, <2>9, <2>11, <2>12, <2>13 DEF ParseOutcome
<1> QED
  BY <1>1, <1>2

\* Clusters whose records are exact.
LEMMA ExactStays ==
  ASSUME file' = file, \A i \in 1 .. Len(clusters') : Exact(clusters'[i])
  PROVE  AllExact'
<1>1. ASSUME NEW p
      PROVE  /\ WholeEntries(p)' = WholeEntries(p) /\ ClusterStop(p)' = ClusterStop(p)
             /\ (NotCut(p)' <=> NotCut(p)) /\ (Sized(p)' <=> Sized(p))
  <2>1. WholeEntries(p)' = WholeEntries(p) /\ Terminators(p)' = Terminators(p)
    BY DEF WholeEntries, Entries, Children, Terminators, Headers, Id, Sized, Stop
  <2>2. Stop(p)' = Stop(p) /\ (Sized(p)' <=> Sized(p))
    BY SameFile
  <2> QED
    BY <2>1, <2>2 DEF ClusterStop, NotCut
<1> SUFFICES ASSUME NEW i \in 1 .. Len(clusters') PROVE Exact(clusters[i])'
  BY DEF AllExact
<1>2. Exact(clusters'[i])
  OBVIOUS
<1> QED
  BY <1>1, <1>2 DEF Exact, Increasing, End, Range

\* The record of a cluster that was just found has no entry and no size to be wrong.
LEMMA ExactWhenNew ==
  ASSUME file \in Files, NEW p \in Headers, NEW n
  PROVE  Exact(NewCluster(p, n))
<1>1. PICK c : c = NewCluster(p, n)
  OBVIOUS
<1>2. c.start = p /\ c.pos = p /\ c.entries = << >> /\ c.size = Unknown
  BY <1>1 DEF NewCluster
<1>3. \A q \in WholeEntries(p) : ~ (q < p)
  <2> TAKE q \in WholeEntries(p)
  <2>1. q \in Entries(p) /\ q \in Nat /\ p \in Nat
    BY ClusterStopFacts, FileFacts DEF WholeEntries
  <2> QED
    BY <2>1, EntryFacts
<1> QED
  BY <1>1, <1>2, <1>3 DEF Exact, Increasing, Range

\* Every step keeps the records exact.
LEMMA AllExactStays ==
  ASSUME LoadInv, LoadInv', file' = file, AllExact, [Next]_vars
  PROVE  AllExact'
<1>0. /\ file \in Files /\ avail \in 0 .. file.length /\ ArrayInv
      /\ Len(clusters) \in Nat /\ count \in Nat /\ count <= Len(clusters)
      /\ DOMAIN clusters = 1 .. Len(clusters)
  BY ArrayFacts DEF LoadInv, CallInv
<1>1. \A i \in 1 .. Len(clusters) : clusters[i] \in ClusterRecord /\ Parsed(clusters[i])
                                      /\ Exact(clusters[i])
  BY <1>0, ArrayFacts DEF ArrayInv, ClustersParsed, AllExact
<1> SUFFICES ASSUME NEW j \in 1 .. Len(clusters') PROVE Exact(clusters'[j])
  BY ExactStays
<1>2. CASE UNCHANGED array
  <2>1. clusters' = clusters
    BY <1>2 DEF array
  <2> QED
    BY <1>1, <2>1
<1>3. CASE ParsesOne
  <2>1. PICK i \in DOMAIN clusters : \E r \in Parse(clusters[i]) :
          clusters' = [clusters EXCEPT ![i] = r.cluster] /\ count' = count
    BY <1>3 DEF ParsesOne
  <2>2. PICK r \in Parse(clusters[i]) : clusters' = [clusters EXCEPT ![i] = r.cluster]
    BY <2>1
  <2>3. Exact(r.cluster) /\ r.cluster \in ClusterRecord
    BY <1>0, <1>1, ExactWhenParsed, ParseFacts
  <2>4. j \in 1 .. Len(clusters) /\ (j = i \/ clusters'[j] = clusters[j])
        /\ clusters'[i] = r.cluster
    BY <1>0, <2>2, <2>3 DEF ArrayInv
  <2> QED
    BY <1>1, <2>3, <2>4
<1>4. ASSUME NEW k \in 1 .. Len(clusters) + 1, NEW p \in Headers, Id(p) = "Cluster",
             NEW n \in Nat \cup {-1}, clusters' = InsertAt(clusters, k, NewCluster(p, n))
      PROVE  Exact(clusters'[j])
  <2>1. /\ Len(clusters') = Len(clusters) + 1
        /\ \A i \in 1 .. k - 1 : clusters'[i] = clusters[i]
        /\ clusters'[k] = NewCluster(p, n)
        /\ \A i \in k .. Len(clusters) : clusters'[i + 1] = clusters[i]
    BY <1>0, <1>4, Inserted
  <2>2. CASE j < k
    <3>1. j \in 1 .. k - 1 /\ j \in 1 .. Len(clusters)
      BY <1>0, <2>1, <2>2
    <3> QED
      BY <1>1, <2>1, <3>1
  <2>3. CASE j = k
    BY <1>0, <2>1, <2>3, ExactWhenNew
  <2>4. CASE j > k
    <3>1. j - 1 \in k .. Len(clusters) /\ j - 1 \in 1 .. Len(clusters) /\ j = (j - 1) + 1
      BY <1>0, <2>1, <2>4
    <3>2. clusters'[j] = clusters[j - 1]
      BY <2>1, <3>1
    <3> QED
      BY <1>1, <3>1, <3>2
  <2> QED
    BY <1>0, <2>1, <2>2, <2>3, <2>4
<1>5. CASE PreloadsOne
  <2>1. PICK p \in Headers : \E s :
          /\ Id(p) = "Cluster" /\ ~s.hit /\ PreloadCluster(p, s.at)
          /\ s = SearchAll(p) \/ s = SearchPreloaded(p)
    BY <1>5 DEF PreloadsOne
  <2>2. PICK s : /\ Id(p) = "Cluster" /\ ~s.hit /\ PreloadCluster(p, s.at)
                 /\ s = SearchAll(p) \/ s = SearchPreloaded(p)
    BY <2>1
  <2>3. p \in Nat
    BY <1>0, FileFacts
  <2>4. Finds(s, 1, Len(clusters) + 1, p) \/ Finds(s, count + 1, Len(clusters) + 1, p)
    BY <1>0, <2>2, <2>3, SearchesFind
  <2>5. s.at \in 1 .. Len(clusters) + 1
    BY <1>0, <2>2, <2>4 DEF Finds
  <2> QED
    BY <1>4, <2>2, <2>5 DEF PreloadCluster
<1>6. CASE LoadsNew
  <2>1. mPos \in Headers /\ Id(mPos) = "Cluster"
    BY <1>0, <1>6, RealFacts DEF LoadsNew
  <2>2. count + 1 \in 1 .. Len(clusters) + 1 /\ count \in Nat \cup {-1}
    BY <1>0
  <2> QED
    BY <1>4, <1>6, <2>1, <2>2 DEF LoadsNew
<1>7. CASE Adopts
  <2>1. count + 1 \in 1 .. Len(clusters) /\ clusters \in Seq(ClusterRecord)
        /\ clusters' = [clusters EXCEPT ![count + 1].index = count]
    BY <1>0, <1>7 DEF Adopts, ArrayInv
  <2>2. j \in 1 .. Len(clusters)
    BY <1>0, <2>1
  <2>3. /\ clusters'[j].start = clusters[j].start /\ clusters'[j].pos = clusters[j].pos
        /\ clusters'[j].size = clusters[j].size
        /\ clusters'[j].entries = clusters[j].entries
    BY <1>0, <1>1, <2>1, <2>2 DEF ClusterRecord
  <2>4. End(clusters'[j]) = End(clusters[j])
    BY <2>3 DEF End
  <2> QED
    BY <1>1, <2>2, <2>3, <2>4 DEF Exact
<1> QED
  BY <1>2, <1>3, <1>5, <1>6, <1>7, ArrayChanges

\* So they are exact in every state.
LEMMA ExactInvariance == Spec => [](LoadInv /\ AllExact)
<1>1. Init => LoadInv /\ AllExact
  BY InitLoadInv DEF Init, AllExact
<1>2. LoadInv /\ AllExact /\ [Next]_vars => (LoadInv /\ AllExact)'
  <2> SUFFICES ASSUME LoadInv, AllExact, [Next]_vars PROVE LoadInv' /\ AllExact'
    OBVIOUS
  <2>1. LoadInv' /\ file' = file
    BY LoadInvInductive DEF LoadStep
  <2> QED
    BY <2>1, AllExactStays
<1> QED
  BY <1>1, <1>2, PTL DEF Spec

\* In whatever steps a cluster is parsed, while the file grows and other clusters are
\* loaded and looked up: its blocks are found in order, none before the position that
\* was reached is left out, and the size found for a cluster that does not tell its
\* own is what it is.
THEOREM EntriesTrue == Spec => []EntriesExact
<1>1. LoadInv /\ AllExact => EntriesExact
  <2> SUFFICES ASSUME LoadInv, AllExact, NEW i \in DOMAIN clusters, NEW c, c = clusters[i],
                      NotCut(c.start)
               PROVE  /\ \A j, k \in DOMAIN c.entries : j < k => c.entries[j] < c.entries[k]
                      /\ Range(c.entries) = { q \in WholeEntries(c.start) : q < c.pos }
                      /\ c.size # Unknown => End(c) = ClusterStop(c.start)
                      /\ c.size # Unknown /\ c.pos >= End(c) =>
                           Range(c.entries) = WholeEntries(c.start)
    BY DEF EntriesExact, NotCut
  <2>1. /\ file \in Files /\ i \in 1 .. Len(clusters) /\ c \in ClusterRecord
        /\ c.start \in Headers /\ c.pos \in Nat
    BY ArrayFacts, RecordFields DEF LoadInv, CallInv
  <2>2. /\ Increasing(c.entries)
        /\ Range(c.entries) = { q \in WholeEntries(c.start) : q < c.pos }
        /\ c.size # Unknown => End(c) = ClusterStop(c.start)
    BY <2>1 DEF AllExact, Exact
  <2>3. ASSUME c.size # Unknown, c.pos >= End(c), NEW q \in WholeEntries(c.start)
        PROVE  q < c.pos
    <3>1. q < ClusterStop(c.start) /\ q \in Nat /\ ClusterStop(c.start) \in Nat
      BY <2>1, ClusterStopFacts DEF WholeEntries
    <3> QED
      BY <2>1, <2>2, <2>3, <3>1
  <2> QED
    BY <2>2, <2>3 DEF Increasing
<1> QED
  BY <1>1, ExactInvariance, PTL

-----------------------------------------------------------------------------
(* What ParseNext and GetNext find, for an ordinary file.                   *)

\* The headers before the first cluster are parsed one by one.
HeadersParsed == api \in {"none", "headers"} =>
  /\ mInfo   <=> \E p \in Headers : Id(p) = "Info" /\ p < mPos
  /\ mTracks <=> \E p \in Headers : Id(p) = "Tracks" /\ p < mPos

\* ParseNext loads behind the last of the loaded clusters.
LoadsFromLast == pc = "load" /\ api = "next" => count > 0 /\ curr = clusters[count].start

\* DoParseNext passes over no cluster that has blocks.
WalksFrom == pc = "next" =>
  /\ curr < pos /\ (pos \in Headers \/ pos >= LastStop)
  /\ \A q \in RealClusters : ~ (curr < q /\ q < pos)

\* Every cluster of the array has blocks.
LEMMA ArrayIsReal ==
  ASSUME LoadInv, Ordinary, ArrayOrder, NEW i \in 1 .. Len(clusters)
  PROVE  clusters[i].start \in RealClusters /\ (i > count => Sized(clusters[i].start))
<1>1. /\ file \in Files /\ clusters[i].start \in Headers /\ Parsed(clusters[i])
      /\ i \in Nat /\ count \in Nat /\ Len(clusters) \in Nat
      /\ DOMAIN clusters = 1 .. Len(clusters)
  BY ArrayFacts DEF LoadInv, CallInv, ArrayInv, ClustersParsed
<1>2. CASE i <= count
  <2>1. i \in 1 .. count
    BY <1>1, <1>2
  <2>2. clusters[i].start \in KnownStarts
    BY <2>1 DEF KnownStarts
  <2> QED
    BY <1>1, <1>2, <2>2 DEF LoadInv, ArrayInv, LoadedSoFar
<1>3. CASE i > count
  <2>1. i \in count + 1 .. Len(clusters)
    BY <1>1, <1>3
  <2> QED
    BY <1>1, <2>1, CueIsReal DEF ArrayOrder, CueReached, Parsed
<1> QED
  BY <1>1, <1>2, <1>3

\* Where DoParseNext comes to a cluster, it is one that has blocks.
LEMMA WalkFindsReal ==
  ASSUME LoadInv, Ordinary, ArrayOrder, WalksBehind, NextCluster
  PROVE  pos \in Headers /\ pos \in RealClusters /\ HasBlockEntries(pos) # "none"
<1>1. /\ file \in Files /\ pos \in Headers /\ pos \in Nat /\ Id(pos) = "Cluster"
      /\ pc = "next"
  BY FileFacts DEF LoadInv, CallInv, NextCluster, AtNext, AtCluster
<1>2. PICK i \in count + 1 .. Len(clusters) : clusters[i].start < pos
  BY <1>1 DEF WalksBehind
<1>3. PICK c \in file.cues : clusters[i].start >= c + file.start
  BY DEF ArrayOrder, CueReached, BehindCue
<1>4. /\ clusters[i].start \in Nat /\ c \in Nat /\ file.start \in Nat
  <2>1. i \in 1 .. Len(clusters)
    BY ArrayFacts DEF LoadInv
  <2> QED
    BY <1>1, <2>1, ArrayFacts, FileFacts, CueNamesCluster DEF LoadInv
<1>5. BehindCue(pos)
  BY <1>1, <1>2, <1>3, <1>4 DEF BehindCue
<1> QED
  BY <1>1, <1>5, CueIsReal, HasBlocksFacts

\* Before the first cluster, or at the end, Info and Tracks have been found, and
\* neither is found again.
LEMMA BothFound ==
  ASSUME LoadInv, Ordinary, HeadersParsed, pc = "headers"
  PROVE  /\ mPos \in Nat /\ (CanRead(mPos) /\ ~AtEnd(mPos) => mPos \in Headers)
         /\ HeadersEnd => mInfo /\ mTracks
         /\ mPos \in Headers => ~AgainFound(mPos)
<1>1. /\ file \in Files /\ api = "headers" /\ avail \in Nat /\ avail <= file.length
      /\ \A p \in Headers : p \in Nat /\ p < LastStop
      /\ LastStop \in Nat
  BY FileFacts DEF LoadInv, CallInv, Calling
<1>2. mPos \in Nat /\ (mPos \in Headers \/ mPos >= LastStop)
  <2>1. count = 0
    BY <1>1 DEF LoadInv, ArrayInv, CallInv, Calling
  <2> QED
    BY <2>1 DEF LoadInv, ArrayInv
<1>3. CanRead(mPos) /\ ~AtEnd(mPos) => mPos \in Headers
  BY <1>1, <1>2, AtHeader
<1>4. AtEnd(mPos) => mPos >= LastStop
  BY <1>1, <1>2, EndIsLast
<1>5. PICK p \in Headers : Id(p) = "Info" /\ OneInFront(p)
  BY DEF Ordinary, Faultless
<1>6. PICK q \in Headers : Id(q) = "Tracks" /\ OneInFront(q)
  BY DEF Ordinary, Faultless
<1>7. HeadersEnd => p < mPos /\ q < mPos
  BY <1>1, <1>2, <1>3, <1>4, <1>5, <1>6 DEF HeadersEnd, OneInFront
<1>8. mPos \in Headers => ~AgainFound(mPos)
  BY <1>1, <1>5, <1>6 DEF AgainFound, HeadersParsed, OneInFront
<1> QED
  BY <1>1, <1>2, <1>3, <1>5, <1>6, <1>7, <1>8 DEF HeadersParsed

\* No call finds an ordinary file invalid.
LEMMA NothingInvalid ==
  ASSUME LoadInv, Ordinary, ArrayOrder, WalksBehind, HeadersParsed, ret # "invalid",
         [Next]_vars
  PROVE  ret' # "invalid"
<1>0. /\ file \in Files /\ Len(clusters) \in Nat /\ count \in Nat /\ count <= Len(clusters)
      /\ DOMAIN clusters = 1 .. Len(clusters)
      /\ \A i \in 1 .. Len(clusters) : clusters[i] \in ClusterRecord /\ Parsed(clusters[i])
                                         /\ clusters[i].start \in Headers
      /\ \A p \in Headers : InSegment(p)
  BY ArrayFacts DEF LoadInv, CallInv, ArrayInv, ClustersParsed, Ordinary, Faultless
<1>1. CASE UNCHANGED vars
  BY <1>1 DEF vars, calls
<1>2. CASE Grow \/ ParseHeaders \/ LoadCluster
  BY <1>2 DEF Grow, ParseHeaders, LoadCluster, calls, Call
<1>3. ASSUME NEW i \in DOMAIN clusters, NEW r \in Parse(clusters[i])
      PROVE  r.status # "invalid"
  BY <1>0, ArrayIsReal, RealFacts, ParseFacts
<1>4. ASSUME NEW i \in DOMAIN clusters, ParseCluster(i) PROVE ret' # "invalid"
  BY <1>3, <1>4 DEF ParseCluster, CallReturns
<1>5. ASSUME NEW i \in DOMAIN clusters, ParseNext(i) PROVE ret' # "invalid"
  <2>1. CASE i <= count
    BY <1>0, <1>5, <2>1 DEF ParseNext, CallReturns, Call
  <2>2. CASE i > count
    BY <1>0, <1>5, <2>2 DEF ParseNext, CallReturns, Call
  <2> QED
    BY <1>0, <2>1, <2>2
<1>6. ASSUME NEW i \in DOMAIN clusters, GetNext(i) PROVE ret' # "invalid"
  BY <1>6 DEF GetNext, CallReturns
<1>7. ASSUME NEW off \in file.cues, FindOrPreloadCluster(off) PROVE ret' # "invalid"
  BY <1>7 DEF FindOrPreloadCluster, CallReturns
<1>8. ASSUME NEW p \in Headers, ParseCues(p) PROVE ret' # "invalid"
  BY <1>0, <1>8 DEF ParseCues, CallReturns, CuesStatus
<1>9. CASE ReturnFromHeaders
  <2>1. /\ mPos \in Nat /\ (CanRead(mPos) /\ ~AtEnd(mPos) => mPos \in Headers)
        /\ HeadersEnd => mInfo /\ mTracks
        /\ mPos \in Headers => ~AgainFound(mPos)
    BY <1>9, BothFound DEF ReturnFromHeaders
  <2> QED
    BY <1>0, <1>9, <2>1 DEF ReturnFromHeaders, Return, HeadersEnd
<1>10. CASE ReturnFromLoad
  <2>1. mPos \in Nat /\ (mPos \in Headers \/ mPos >= LastStop)
        /\ avail \in Nat /\ avail <= file.length
    BY <1>0, <1>10, FileFacts DEF ReturnFromLoad, LoadInv, ArrayInv, CallInv
  <2>2. CanRead(mPos) /\ ~AtEnd(mPos) => InSegment(mPos)
    BY <1>0, <2>1, AtHeader
  <2> QED
    BY <1>10, <2>2 DEF ReturnFromLoad, Return
<1>11. CASE LoadUnknownSize
  <2>1. mUnknown \in DOMAIN clusters
    BY <1>0, <1>11 DEF LoadUnknownSize, LoadInv, ArrayInv
  <2> QED
    BY <1>3, <1>11, <2>1 DEF LoadUnknownSize, Return
<1>12. CASE AdoptPreloaded
  <2>1. count + 1 \in 1 .. Len(clusters) /\ count + 1 > count
        /\ clusters[count + 1].start = mPos
    BY <1>0, <1>12 DEF AdoptPreloaded, Preloaded, First
  <2>2. mPos \in RealClusters /\ Sized(mPos)
    BY <2>1, ArrayIsReal
  <2>3. HasBlockEntries(mPos) # "none"
    BY <1>0, <2>2, RealFacts, HasBlocksFacts
  <2> QED
    BY <1>12, <2>2, <2>3 DEF AdoptPreloaded, Return
<1>13. CASE ReturnFromNext
  BY <1>0, <1>13 DEF ReturnFromNext, Return
<1>14. CASE NextCluster
  BY <1>14, WalkFindsReal DEF NextCluster, Return
<1>15. CASE \/ ParseHeader \/ LoadSkipsElement \/ ClusterUnderflows \/ LoadSkipsCluster
            \/ LoadNewCluster \/ NextSkipsElement \/ NextReadsGarbage
  BY <1>15 DEF ParseHeader, LoadSkipsElement, ClusterUnderflows, LoadSkipsCluster,
     LoadNewCluster, NextSkipsElement, NextReadsGarbage, Return, calls
<1>16. CASE Terminated
  BY <1>1, <1>16 DEF Terminated
<1>17. CASE Caller
  BY <1>2, <1>4, <1>5, <1>6, <1>7, <1>8, <1>17 DEF Caller
<1>18. CASE Step
  BY <1>9, <1>10, <1>11, <1>12, <1>13, <1>14, <1>15, <1>18 DEF Step
<1> QED
  BY <1>1, <1>2, <1>16, <1>17, <1>18 DEF Next

\* ParseNext has failed on a preloaded cluster that is as it was made.
Fails == ret = "failed" =>
  /\ pc = "idle" /\ api = "next"
  /\ \E i \in count + 1 .. Len(clusters) : /\ clusters[i].start = curr
                                           /\ ~clusters[i].loaded

\* Of an ordinary file only such a cluster fails,
LEMMA ParseNextFails ==
  ASSUME LoadInv, Ordinary, ArrayOrder, NEW i \in DOMAIN clusters, ParseNext(i)
  PROVE  Fails'
<1> DEFINE c == clusters[i]
<1>1. /\ DOMAIN clusters = 1 .. Len(clusters) /\ i \in 1 .. Len(clusters)
      /\ Parsed(c) /\ c.loaded \in BOOLEAN /\ Len(clusters) \in Nat /\ count \in Nat
  BY ArrayFacts, RecordFields DEF LoadInv, ArrayInv, ClustersParsed
<1>2. UNCHANGED array
  BY DEF ParseNext
<1>3. CASE ret' = "failed"
  <2>1. i > count /\ Behind(c) = Unknown /\ CallReturns("next", c.start, "failed", 0)
    BY <1>3 DEF ParseNext, CallReturns, Call
  <2>2. c.size = Unknown
    BY <1>1, <2>1 DEF Behind, Parsed, EndsRight, Unknown
  <2>3. ~c.loaded
    BY <1>1, <2>1, <2>2, ArrayIsReal DEF Parsed
  <2>4. i \in count + 1 .. Len(clusters)
    BY <1>1, <2>1
  <2> QED
    BY <1>2, <2>1, <2>3, <2>4 DEF Fails, CallReturns, array
<1> QED
  BY <1>3 DEF Fails

\* and no other call fails.
LEMMA FailsStays ==
  ASSUME LoadInv, Ordinary, ArrayOrder, Fails, [Next]_vars
  PROVE  Fails'
<1>1. CASE UNCHANGED << pc, calls, array >>
  BY <1>1 DEF Fails, calls, array
<1>2. CASE Grow \/ Terminated \/ UNCHANGED vars
  BY <1>1, <1>2 DEF Grow, Terminated, vars
<1>3. ASSUME ret' # "failed" PROVE Fails'
  BY <1>3 DEF Fails
<1>4. CASE ParseHeaders \/ LoadCluster
  BY <1>3, <1>4 DEF ParseHeaders, LoadCluster, Call
<1>5. ASSUME NEW i \in DOMAIN clusters, NEW r \in Parse(clusters[i])
      PROVE  r.status # "failed"
  BY ArrayFacts, ParseFacts DEF LoadInv, ArrayInv, CallInv, ClustersParsed
<1>6. ASSUME NEW i \in DOMAIN clusters, ParseCluster(i) PROVE Fails'
  BY <1>3, <1>5, <1>6 DEF ParseCluster, CallReturns
<1>7. ASSUME NEW i \in DOMAIN clusters, GetNext(i) PROVE Fails'
  BY <1>3, <1>7 DEF GetNext, CallReturns
<1>8. ASSUME NEW off \in file.cues, FindOrPreloadCluster(off) PROVE Fails'
  BY <1>3, <1>8 DEF FindOrPreloadCluster, CallReturns
<1>9. ASSUME NEW p \in Headers, ParseCues(p) PROVE Fails'
  BY <1>3, <1>9 DEF ParseCues, CallReturns, CuesStatus
<1>10. CASE Caller
  BY <1>4, <1>6, <1>7, <1>8, <1>9, <1>10, ParseNextFails DEF Caller
<1>11. CASE Step
  <2>1. ret # "failed"
    BY <1>11 DEF Fails, Step, ReturnFromHeaders, ParseHeader, LoadUnknownSize,
       ReturnFromLoad, LoadSkipsElement, AdoptPreloaded, ClusterUnderflows,
       LoadSkipsCluster, LoadNewCluster, ReturnFromNext, NextSkipsElement, NextCluster,
       NextReadsGarbage, AtLoadable, AtNext
  <2>2. CASE LoadUnknownSize
    <3>1. mUnknown \in DOMAIN clusters
      BY <2>2, ArrayFacts DEF LoadUnknownSize, LoadInv, ArrayInv
    <3> QED
      BY <1>3, <1>5, <2>1, <2>2, <3>1 DEF LoadUnknownSize, Return
  <2>3. CASE \/ ReturnFromHeaders \/ ParseHeader \/ ReturnFromLoad \/ LoadSkipsElement
             \/ AdoptPreloaded \/ ClusterUnderflows \/ LoadSkipsCluster \/ LoadNewCluster
    BY <1>3, <2>1, <2>3 DEF ReturnFromHeaders, ParseHeader, ReturnFromLoad,
       LoadSkipsElement, AdoptPreloaded, ClusterUnderflows, LoadSkipsCluster,
       LoadNewCluster, Return, calls
  <2>4. CASE ReturnFromNext \/ NextSkipsElement \/ NextCluster \/ NextReadsGarbage
    BY <1>3, <2>1, <2>4 DEF ReturnFromNext, NextSkipsElement, NextCluster,
       NextReadsGarbage, Return, calls
  <2> QED
    BY <1>11, <2>2, <2>3, <2>4 DEF Step
<1> QED
  BY <1>2, <1>10, <1>11 DEF Next

\* Info and Tracks have been found when ParseHeaders returns successfully.
LEMMA HeadersParsedStays ==
  ASSUME LoadInv, file' = file, Ordinary, HeadersParsed, [Next]_vars
  PROVE  HeadersParsed'
<1>0. /\ file \in Files /\ DOMAIN clusters = 1 .. Len(clusters) /\ Headers' = Headers
      /\ \A p : Id(p)' = Id(p)
  BY ArrayFacts, SameFile DEF LoadInv, CallInv
<1>1. CASE api' \notin {"none", "headers"}
  BY <1>1 DEF HeadersParsed
<1>2. CASE api \in {"none", "headers"} /\ UNCHANGED << mPos, mInfo, mTracks >>
  BY <1>0, <1>2 DEF HeadersParsed
<1>3. CASE UNCHANGED vars
  BY <1>0, <1>3 DEF HeadersParsed, vars, calls, found
<1>4. CASE Grow
  BY <1>0, <1>4 DEF HeadersParsed, Grow, calls, found
<1>5. CASE ParseHeaders
  BY <1>2, <1>5 DEF ParseHeaders, found
<1>6. CASE LoadCluster
  BY <1>1, <1>6 DEF LoadCluster, Call
<1>7. ASSUME NEW i \in DOMAIN clusters, ParseCluster(i) \/ ParseNext(i) \/ GetNext(i)
      PROVE  HeadersParsed'
  BY <1>1, <1>7 DEF ParseCluster, ParseNext, GetNext, CallReturns, Call
<1>8. ASSUME NEW off \in file.cues, FindOrPreloadCluster(off) PROVE HeadersParsed'
  BY <1>1, <1>8 DEF FindOrPreloadCluster, CallReturns
<1>9. ASSUME NEW p \in Headers, ParseCues(p) PROVE HeadersParsed'
  BY <1>1, <1>9 DEF ParseCues, CallReturns
<1>10. CASE ReturnFromHeaders
  BY <1>0, <1>10 DEF ReturnFromHeaders, HeadersParsed, found
<1>11. CASE ParseHeader
  <2>1. /\ mPos \in Nat /\ (CanRead(mPos) /\ ~AtEnd(mPos) => mPos \in Headers)
        /\ api = "headers" /\ api' = api
    BY <1>11, BothFound DEF ParseHeader, LoadInv, CallInv, Calling, calls
  <2>2. mPos \in Headers /\ Id(mPos) # "Cluster" /\ mPos' = Stop(mPos)
        /\ (mInfo' <=> mInfo \/ Id(mPos) = "Info")
        /\ (mTracks' <=> mTracks \/ Id(mPos) = "Tracks")
    BY <1>11, <2>1 DEF ParseHeader, HeadersEnd
  <2>3. Sized(mPos) /\ Stop(mPos) \in Nat /\ Stop(mPos) > mPos
    BY <1>0, <2>2, HeaderFacts
  <2>4. ASSUME NEW p \in Headers PROVE p < mPos' <=> p < mPos \/ p = mPos
    <3>1. ~ (mPos < p /\ p < Stop(mPos))
      BY <1>0, <2>2, <2>3, Nested
    <3>2. p \in Nat
      BY <1>0, FileFacts
    <3> QED
      BY <2>1, <2>2, <2>3, <3>1, <3>2
  <2> QED
    BY <1>0, <2>1, <2>2, <2>4 DEF HeadersParsed
<1>12. CASE \/ LoadUnknownSize \/ ReturnFromLoad \/ LoadSkipsElement \/ AdoptPreloaded
            \/ ClusterUnderflows \/ LoadSkipsCluster \/ LoadNewCluster
  <2>1. pc = "load" /\ api' = api
    BY <1>12 DEF LoadUnknownSize, ReturnFromLoad, LoadSkipsElement, AdoptPreloaded,
       ClusterUnderflows, LoadSkipsCluster, LoadNewCluster, AtLoadable, calls
  <2> QED
    BY <1>1, <2>1 DEF LoadInv, CallInv, Calling
<1>13. CASE ReturnFromNext \/ NextSkipsElement \/ NextCluster \/ NextReadsGarbage
  <2>1. pc = "next" /\ api' = api
    BY <1>13 DEF ReturnFromNext, NextSkipsElement, NextCluster, NextReadsGarbage, AtNext, calls
  <2> QED
    BY <1>1, <2>1 DEF LoadInv, CallInv, Calling
<1>14. CASE Terminated
  BY <1>3, <1>14 DEF Terminated
<1>15. CASE Caller
  BY <1>5, <1>6, <1>7, <1>8, <1>9, <1>15 DEF Caller
<1>16. CASE Step
  BY <1>10, <1>11, <1>12, <1>13, <1>16 DEF Step
<1> QED
  BY <1>3, <1>4, <1>14, <1>15, <1>16 DEF Next

\* A cluster is the successor of a position behind which there is none in front of it.
LEMMA FollowsAt ==
  ASSUME file \in Files, file' = file, curr' \in Nat,
         ret' = "ok" => result' \in RealClusters /\ curr' < result'
                          /\ \A q \in RealClusters : ~ (curr' < q /\ q < result'),
         ret' = "none" => \A q \in RealClusters : ~ (curr' < q)
  PROVE  NextFollows'
<1>1. /\ RealClusters' = RealClusters
      /\ \A q \in RealClusters : q \in Nat
  BY SameClusters, RealFacts
<1> DEFINE S == { q \in RealClusters : q > curr' }
<1>2. Successors(curr)' = S
  BY <1>1 DEF Successors
<1>3. ret' = "none" => S = {}
  BY <1>1
<1>4. ASSUME ret' = "ok" PROVE S # {} /\ result' = Min(S)
  <2>1. result' \in S /\ S \subseteq Nat
    BY <1>1, <1>4
  <2>2. Min(S) \in S /\ Min(S) <= result'
    BY <2>1, MinIsLeast
  <2> HIDE DEF S
  <2>3. Min(S) \in RealClusters /\ curr' < Min(S)
    BY <2>2 DEF S
  <2> QED
    BY <1>1, <1>4, <2>1, <2>2, <2>3
<1> HIDE DEF S
<1>5. (ret' = "ok" => Successors(curr)' # {} /\ result' = Min(Successors(curr)'))
      /\ (ret' = "none" => Successors(curr)' = {})
  BY <1>2, <1>3, <1>4
<1> QED
  BY <1>5 DEF NextFollows

\* The clusters behind a loaded one are the next in the array, or else not in front
\* of the position of loading.
LEMMA BehindLoaded ==
  ASSUME LoadInv, Ordinary, ArrayOrder, NEW i \in 1 .. count
  PROVE  /\ clusters[i].start \in Nat /\ clusters[i].start < Reached /\ Reached \in Nat
         /\ \A q \in RealClusters :
              clusters[i].start < q /\ q < Reached =>
                i < count /\ clusters[i + 1].start <= q
<1>1. /\ file \in Files /\ count \in Nat /\ Len(clusters) \in Nat /\ count <= Len(clusters)
      /\ \A j \in 1 .. Len(clusters) : clusters[j].start \in Nat
      /\ i \in 1 .. Len(clusters)
  BY ArrayFacts, FileFacts DEF LoadInv, CallInv
<1>2. Reached \in Nat
  BY DEF LoadInv, ArrayInv, Reached
<1>3. clusters[i].start < Reached
  BY <1>1 DEF LoadInv, ArrayInv, LoadedSoFar, KnownStarts
<1>4. ASSUME NEW q \in RealClusters, clusters[i].start < q, q < Reached
      PROVE  i < count /\ clusters[i + 1].start <= q
  <2>1. PICK k \in 1 .. count : q = clusters[k].start
    BY <1>4 DEF LoadInv, ArrayInv, LoadedSoFar, KnownStarts
  <2>2. k \in 1 .. Len(clusters)
    BY <1>1
  <2>3. i < k
    BY <1>1, <1>4, <2>1, <2>2 DEF ArrayOrder, Sorted
  <2>4. i < count /\ i + 1 \in 1 .. Len(clusters) /\ (i + 1 = k \/ i + 1 < k)
    BY <1>1, <2>3
  <2> QED
    BY <1>1, <2>1, <2>2, <2>4 DEF ArrayOrder, Sorted
<1> QED
  BY <1>1, <1>2, <1>3, <1>4
Follows == NextFollows /\ LoadsFromLast /\ WalksFrom

\* ParseNext answers with the entry behind the one it was given,
LEMMA ParseNextFollows ==
  ASSUME LoadInv, file' = file, Ordinary, ArrayOrder, NEW i \in DOMAIN clusters, ParseNext(i)
  PROVE  Follows'
<1>0. /\ file \in Files /\ Len(clusters) \in Nat /\ count \in Nat /\ count <= Len(clusters)
      /\ DOMAIN clusters = 1 .. Len(clusters) /\ i \in 1 .. Len(clusters)
      /\ clusters[i].start \in Headers /\ clusters[i].start \in Nat /\ Parsed(clusters[i])
      /\ clusters[i] \in ClusterRecord
  BY ArrayFacts, FileFacts DEF LoadInv, CallInv, ArrayInv, ClustersParsed
<1>1. CASE i < count
  <2>1. pc' = "idle" /\ curr' = clusters[i].start /\ ret' = "ok"
        /\ result' = clusters[i + 1].start
    BY <1>0, <1>1 DEF ParseNext, CallReturns
  <2>2. i \in 1 .. count /\ i + 1 \in 1 .. count /\ i + 1 \in 1 .. Len(clusters) /\ i < i + 1
    BY <1>0, <1>1
  <2>3. result' \in RealClusters /\ curr' < result'
    BY <1>0, <2>1, <2>2, ArrayIsReal DEF ArrayOrder, Sorted
  <2>4. ASSUME NEW q \in RealClusters, curr' < q, q < result' PROVE FALSE
    <3>1. clusters[i + 1].start < Reached /\ clusters[i + 1].start \in Nat /\ Reached \in Nat
      BY <2>2, BehindLoaded
    <3>2. q \in Nat
      BY <1>0, RealFacts
    <3>3. q < Reached
      BY <2>1, <2>4, <3>1, <3>2
    <3>4. clusters[i + 1].start <= q
      BY <2>1, <2>2, <2>4, <3>3, BehindLoaded
    <3> QED
      BY <2>1, <2>4, <3>1, <3>2, <3>4
  <2>5. NextFollows'
    BY <1>0, <2>1, <2>3, <2>4, FollowsAt
  <2> QED
    BY <2>1, <2>5 DEF Follows, LoadsFromLast, WalksFrom
<1>2. CASE i = count /\ pc' = "load"
  <2>1. curr' = clusters[i].start /\ UNCHANGED array
    BY <1>0, <1>2 DEF ParseNext, Call, CallReturns
  <2> QED
    BY <1>0, <1>2, <2>1 DEF Follows, NextFollows, LoadsFromLast, WalksFrom, array
<1>3. CASE i > count /\ Behind(clusters[i]) # Unknown
  <2>1. pos' = Behind(clusters[i]) /\ pc' = "next" /\ curr' = clusters[i].start
    BY <1>0, <1>3 DEF ParseNext, Call, CallReturns
  <2>2. EndsRight(clusters[i].start, pos')
    BY <1>0, <1>3, <2>1 DEF Behind, Parsed
  <2>3. WalksFrom'
    <3>1. /\ curr' < pos' /\ (pos' \in Headers \/ pos' >= LastStop)
          /\ \A q \in RealClusters : ~ (curr' < q /\ q < pos')
      BY <1>0, <2>1, <2>2, RealFacts DEF EndsRight
    <3> QED
      BY <3>1, SameFile, SameClusters DEF WalksFrom
  <2> QED
    BY <2>1, <2>3 DEF Follows, NextFollows, LoadsFromLast
<1>4. CASE i > count /\ Behind(clusters[i]) = Unknown
  <2>1. pc' = "idle" /\ ret' \in {"failed", "more"}
    BY <1>0, <1>4 DEF ParseNext, CallReturns
  <2> QED
    BY <2>1 DEF Follows, NextFollows, LoadsFromLast, WalksFrom
<1>5. i = count => pc' = "load"
  BY <1>0 DEF ParseNext
<1> QED
  BY <1>0, <1>1, <1>2, <1>3, <1>4, <1>5

\* GetNext runs only when all of the file can be read: then a cluster has blocks if
\* HasBlockEntries says so.
LEMMA LaterAreReal ==
  ASSUME file \in Files, avail = file.length, NEW p \in Nat
  PROVE  NextWithBlocks(p) = Successors(p)
<1>0. \A q \in Headers : q \in Nat /\ q + 1 <= file.length
  BY FileFacts
<1>1. ASSUME NEW q \in NextWithBlocks(p) PROVE q \in Successors(p)
  BY HasBlocksFacts DEF NextWithBlocks, Successors, AtCluster
<1>2. ASSUME NEW q \in Successors(p) PROVE q \in NextWithBlocks(p)
  <2>1. /\ q \in Headers /\ q > p /\ Id(q) = "Cluster" /\ Entries(q) # {}
        /\ file.hdr[q].size # 0 /\ ~CutOff(q)
    BY RealFacts DEF Successors, RealClusters
  <2>2. Entries(q) \subseteq Headers /\ Entries(q) \subseteq Nat
    BY <1>0 DEF Entries, Children
  <2>3. Min(Entries(q)) \in Headers
    BY <2>1, <2>2, MinIsLeast
  <2>4. CanRead(Min(Entries(q)))
    BY <1>0, <2>3 DEF CanRead
  <2>5. HasBlockEntries(q) = "some"
    BY <2>1, <2>4 DEF HasBlockEntries, FirstEntry
  <2> QED
    BY <2>1, <2>5 DEF NextWithBlocks, AtCluster
<1> QED
  BY <1>1, <1>2

\* and so does GetNext, from the array or by looking ahead in the file.
LEMMA GetNextFollows ==
  ASSUME LoadInv, file' = file, Ordinary, ArrayOrder, NEW i \in DOMAIN clusters, GetNext(i)
  PROVE  Follows'
<1>0. /\ file \in Files /\ Len(clusters) \in Nat /\ count \in Nat /\ count <= Len(clusters)
      /\ DOMAIN clusters = 1 .. Len(clusters) /\ i \in 1 .. Len(clusters)
      /\ clusters[i].start \in Nat
  BY ArrayFacts, FileFacts DEF LoadInv, CallInv
<1>1. pc' = "idle"
  BY DEF GetNext, CallReturns
<1> SUFFICES NextFollows'
  BY <1>1 DEF Follows, LoadsFromLast, WalksFrom
<1>2. CASE i < count
  <2>1. curr' = clusters[i].start /\ ret' = "ok" /\ result' = clusters[i + 1].start
    BY <1>0, <1>2 DEF GetNext, CallReturns
  <2>2. i \in 1 .. count /\ i + 1 \in 1 .. count /\ i + 1 \in 1 .. Len(clusters) /\ i < i + 1
    BY <1>0, <1>2
  <2>3. result' \in RealClusters /\ curr' < result'
    BY <1>0, <2>1, <2>2, ArrayIsReal DEF ArrayOrder, Sorted
  <2>4. ASSUME NEW q \in RealClusters, curr' < q, q < result' PROVE FALSE
    <3>1. clusters[i + 1].start < Reached /\ clusters[i + 1].start \in Nat /\ Reached \in Nat
      BY <2>2, BehindLoaded
    <3>2. q \in Nat
      BY <1>0, RealFacts
    <3>3. q < Reached
      BY <2>1, <2>4, <3>1, <3>2
    <3>4. clusters[i + 1].start <= q
      BY <2>1, <2>2, <2>4, <3>3, BehindLoaded
    <3> QED
      BY <2>1, <2>4, <3>1, <3>2, <3>4
  <2> QED
    BY <1>0, <2>1, <2>3, <2>4, FollowsAt
<1>3. CASE i = count
  <2>1. ret' = "eos"
    BY <1>0, <1>3 DEF GetNext, CallReturns
  <2> QED
    BY <2>1 DEF NextFollows
<1>4. CASE i > count
  <2> DEFINE p == clusters[i].start
             later == NextWithBlocks(p)
  <2>1. /\ curr' = p /\ avail = file.length
        /\ \/ later = {} /\ ret' = "none"
           \/ later # {} /\ ret' = "ok" /\ result' = Min(later)
    BY <1>0, <1>4 DEF GetNext, CallReturns
  <2>2. later = Successors(p)
    BY <1>0, <2>1, LaterAreReal
  <2>3. Successors(curr)' = Successors(p)
    BY <2>1, SameClusters DEF Successors
  <2> HIDE DEF p, later
  <2> QED
    BY <2>1, <2>2, <2>3 DEF NextFollows
<1> QED
  BY <1>0, <1>2, <1>3, <1>4

\* LoadCluster goes on from the last loaded cluster, and finds the next behind it.
LEMMA LoadFollows ==
  ASSUME LoadInv, LoadInv', file' = file, Ordinary, ArrayOrder, LoadsFromLast,
         \/ LoadUnknownSize \/ ReturnFromLoad \/ LoadSkipsElement \/ AdoptPreloaded
         \/ ClusterUnderflows \/ LoadSkipsCluster \/ LoadNewCluster
  PROVE  Follows'
<1>0. /\ file \in Files /\ Len(clusters) \in Nat /\ count \in Nat /\ count <= Len(clusters)
      /\ \A i \in 1 .. Len(clusters) : clusters[i].start \in Nat
      /\ clusters \in Seq(ClusterRecord)
  BY ArrayFacts, FileFacts DEF LoadInv, CallInv, ArrayInv
<1>1. pc = "load" /\ api' = api /\ curr' = curr /\ pc' \in {"idle", "load"}
  BY DEF LoadUnknownSize, ReturnFromLoad, LoadSkipsElement, AdoptPreloaded,
     ClusterUnderflows, LoadSkipsCluster, LoadNewCluster, AtLoadable, Return, calls
<1>2. api \in {"load", "next"}
  BY <1>1 DEF LoadInv, CallInv, Calling
<1>3. CASE api = "load"
  BY <1>1, <1>3 DEF Follows, NextFollows, LoadsFromLast, WalksFrom
<1>4. ASSUME api = "next"
      PROVE  /\ count \in 1 .. count /\ curr = clusters[count].start /\ curr \in Nat
             /\ curr < Reached /\ Reached \in Nat
             /\ \A q \in RealClusters : curr < q => Reached <= q
  <2>1. count \in 1 .. count /\ curr = clusters[count].start /\ curr \in Nat
    BY <1>0, <1>1, <1>4 DEF LoadsFromLast
  <2> QED
    BY <1>0, <2>1, BehindLoaded, RealFacts
<1>5. ASSUME api = "next", pc' = "idle", ret' \notin {"ok", "none"} PROVE Follows'
  BY <1>5 DEF Follows, NextFollows, LoadsFromLast, WalksFrom
<1>6. ASSUME api = "next", pc' = "load", count' = count,
             clusters'[count].start = clusters[count].start
      PROVE  Follows'
  BY <1>0, <1>1, <1>4, <1>6 DEF Follows, NextFollows, LoadsFromLast, WalksFrom
<1>7. ASSUME api = "next", pc' = "idle", ret' = "ok", result' = mPos, mPos \in RealClusters
      PROVE  Follows'
  <2>1. mPos \in Nat /\ Reached = mPos
    BY <1>0, <1>7, RealFacts DEF Reached
  <2>2. \A q \in RealClusters : q \in Nat
    BY <1>0, RealFacts
  <2>3. /\ curr \in Nat /\ curr < mPos
        /\ \A q \in RealClusters : curr < q => mPos <= q
    BY <1>4, <1>7, <2>1
  <2>4. \A q \in RealClusters : ~ (curr < q /\ q < mPos)
    BY <2>1, <2>2, <2>3
  <2>5. curr' = curr /\ result' = mPos /\ ret' = "ok"
    BY <1>1, <1>7
  <2>6. NextFollows'
    BY <1>0, <1>7, <2>3, <2>4, <2>5, FollowsAt
  <2> QED
    BY <1>7, <2>6 DEF Follows, LoadsFromLast, WalksFrom
<1>8. ASSUME api = "next", pc' = "idle", ret' = "none", mPos' \in Nat, mPos' >= LastStop,
             UNCHANGED array
      PROVE  Follows'
  <2>1. \A q \in RealClusters : q < mPos' /\ q \in Nat
    BY <1>0, <1>8, RealFacts, FileFacts
  <2>2. /\ Reached' = mPos' /\ KnownStarts' = KnownStarts /\ RealClusters' = RealClusters
    BY <1>8, SameClusters DEF Reached, KnownStarts, array
  <2>3. \A q \in RealClusters : q < Reached
    BY <2>1, <2>2 DEF LoadInv, ArrayInv, LoadedSoFar
  <2>4. NextFollows'
    BY <1>0, <1>1, <1>4, <1>8, <2>1, <2>3, FollowsAt
  <2> QED
    BY <1>8, <2>4 DEF Follows, LoadsFromLast, WalksFrom
<1>9. CASE api = "next" /\ LoadUnknownSize
  <2>1. mUnknown \in DOMAIN clusters /\ count' = count
    BY <1>0, <1>9 DEF LoadUnknownSize, LoadInv, ArrayInv
  <2>2. PICK r \in Parse(clusters[mUnknown]) :
          /\ clusters' = [clusters EXCEPT ![mUnknown] = r.cluster]
          /\ \/ r.status \in {"more", "invalid"} /\ Return(r.status, 0)
             \/ UNCHANGED << pc, ret, result >>
    BY <1>9 DEF LoadUnknownSize
  <2>3. r.cluster \in ClusterRecord /\ r.cluster.start = clusters[mUnknown].start
    <3>1. clusters[mUnknown] \in ClusterRecord /\ Parsed(clusters[mUnknown])
      BY <1>0, <2>1 DEF LoadInv, ArrayInv, ClustersParsed
    <3> QED
      BY <1>0, <3>1, ParseFacts
  <2>4. count \in DOMAIN clusters
    BY <1>0, <1>4, <1>9
  <2>5. clusters'[count].start = clusters[count].start
    BY <1>0, <2>1, <2>2, <2>3, <2>4
  <2> QED
    BY <1>1, <1>5, <1>6, <1>9, <2>1, <2>2, <2>5 DEF Return
<1>10. CASE api = "next" /\ ReturnFromLoad
  <2>1. CASE AtEnd(mPos) /\ Return("none", 0)
    <3>1. mPos' = mPos /\ mPos \in Nat
      BY <1>10 DEF ReturnFromLoad, LoadInv, ArrayInv
    <3> QED
      BY <1>0, <1>8, <1>10, <2>1, <3>1, EndIsLast DEF ReturnFromLoad, Return
  <2>2. CASE Return("more", 0) \/ Return("invalid", 0)
    BY <1>5, <1>10, <2>2 DEF Return
  <2> QED
    BY <1>10, <2>1, <2>2 DEF ReturnFromLoad
<1>11. CASE api = "next" /\ LoadSkipsElement
  BY <1>1, <1>6, <1>11 DEF LoadSkipsElement, AtLoadable, array
<1>12. CASE api = "next" /\ ClusterUnderflows
  BY <1>5, <1>12 DEF ClusterUnderflows, Return
<1>13. CASE api = "next" /\ (AdoptPreloaded \/ LoadNewCluster)
  <2>1. mPos \in Headers
    BY <1>13, LoadableFacts DEF AdoptPreloaded, LoadNewCluster
  <2>2. CASE ret' = "invalid"
    BY <1>5, <1>13, <2>2 DEF AdoptPreloaded, LoadNewCluster, Return
  <2>3. CASE ret' # "invalid"
    <3>1. /\ HasBlockEntries(mPos) \notin {"none", "more"} /\ Id(mPos) = "Cluster"
          /\ pc' = "idle" /\ ret' = "ok" /\ result' = mPos
      BY <1>13, <2>3 DEF AdoptPreloaded, LoadNewCluster, Return, AtCluster
    <3>2. mPos \in RealClusters
      BY <1>0, <2>1, <3>1, HasBlocksFacts
    <3> QED
      BY <1>7, <1>13, <3>1, <3>2
  <2> QED
    BY <2>2, <2>3
<1>14. CASE api = "next" /\ LoadSkipsCluster
  <2>1. UNCHANGED array
    BY <1>14 DEF LoadSkipsCluster
  <2>2. CASE pc' = "load"
    BY <1>6, <1>14, <2>1, <2>2 DEF array
  <2>3. CASE pc' = "idle"
    <3>1. /\ \/ Total # Unknown /\ mPos' = Total
             \/ SegmentStop # Unknown /\ mPos' = SegmentStop
          /\ ret' = "none"
      BY <1>1, <1>14, <2>3 DEF LoadSkipsCluster, AtTotal, AtSegmentStop, Return
    <3>2. mPos' \in Nat /\ mPos' >= LastStop
      BY <1>0, <3>1, FileFacts DEF Total, SegmentStop, LastStop
    <3> QED
      BY <1>8, <1>14, <2>1, <2>3, <3>1, <3>2
  <2> QED
    BY <1>1, <2>2, <2>3
<1> QED
  BY <1>2, <1>3, <1>9, <1>10, <1>11, <1>12, <1>13, <1>14

\* DoParseNext goes on from the caller's cluster to the next that has blocks.
LEMMA WalkFollows ==
  ASSUME LoadInv, file' = file, Ordinary, ArrayOrder, WalksBehind, WalksFrom,
         ReturnFromNext \/ NextSkipsElement \/ NextCluster \/ NextReadsGarbage
  PROVE  Follows'
<1>0. /\ file \in Files /\ pos \in Nat /\ curr \in Nat /\ LastStop \in Nat
      /\ \A p \in Headers : p \in Nat
  BY FileFacts DEF LoadInv, CallInv
<1>1. pc = "next" /\ api' = api /\ curr' = curr
  BY DEF ReturnFromNext, NextSkipsElement, NextCluster, NextReadsGarbage, AtNext, calls
<1>2. /\ curr < pos /\ (pos \in Headers \/ pos >= LastStop)
      /\ \A q \in RealClusters : ~ (curr < q /\ q < pos)
  BY <1>1 DEF WalksFrom
<1>3. ASSUME pc' = "idle", NextFollows' PROVE Follows'
  BY <1>3 DEF Follows, LoadsFromLast, WalksFrom
<1>4. CASE ReturnFromNext
  <2>1. pc' = "idle" /\ ret' \in {"none", "more", "invalid"} /\ (ret' = "none" => AtEnd(pos))
    BY <1>4 DEF ReturnFromNext, Return
  <2>2. AtEnd(pos) => \A q \in RealClusters : ~ (curr < q)
    BY <1>0, <1>2, EndIsLast, RealFacts
  <2> QED
    BY <1>0, <1>1, <1>3, <2>1, <2>2, FollowsAt
<1>5. CASE NextSkipsElement
  <2>1. pos \in Headers /\ ~AtCluster(pos) /\ pos' = Stop(pos) /\ pc' = pc
    BY <1>5 DEF NextSkipsElement, AtNext
  <2>2. pos \notin RealClusters /\ Sized(pos)
    BY <1>0, <2>1, NotReal
  <2>3. EndsRight(pos, pos')
    BY <1>0, <2>1, <2>2, SizedEnds
  <2>4. /\ curr' < pos' /\ (pos' \in Headers \/ pos' >= LastStop)
        /\ \A q \in RealClusters : ~ (curr' < q /\ q < pos')
    BY <1>0, <1>1, <1>2, <2>2, <2>3, RealFacts DEF EndsRight
  <2>5. WalksFrom'
    BY <2>4, SameFile, SameClusters DEF WalksFrom
  <2> QED
    BY <1>1, <2>1, <2>5 DEF Follows, NextFollows, LoadsFromLast
<1>6. CASE NextCluster
  <2>1. pos \in RealClusters /\ HasBlockEntries(pos) # "none"
    BY <1>6, WalkFindsReal
  <2>2. pc' = "idle" /\ ret' \in {"ok", "more"} /\ (ret' = "ok" => result' = pos)
    BY <1>6, <2>1 DEF NextCluster, Return
  <2> QED
    BY <1>0, <1>1, <1>2, <1>3, <2>1, <2>2, FollowsAt
<1>7. CASE NextReadsGarbage
  BY <1>7 DEF NextReadsGarbage, Follows, NextFollows, LoadsFromLast, WalksFrom
<1> QED
  BY <1>4, <1>5, <1>6, <1>7

\* Every step keeps that.
LEMMA FollowsStays ==
  ASSUME LoadInv, LoadInv', file' = file, Ordinary, ArrayOrder, WalksBehind, Follows,
         [Next]_vars
  PROVE  Follows'
<1>0. /\ RealClusters' = RealClusters /\ Headers' = Headers /\ LastStop' = LastStop
      /\ \A p : Successors(p)' = Successors(p)
  BY SameFile, SameClusters DEF Successors
<1>1. CASE UNCHANGED << pc, calls, array >>
  <2>1. Successors(curr)' = Successors(curr)
    BY <1>0, <1>1 DEF calls, Successors
  <2> QED
    BY <1>0, <1>1, <2>1 DEF Follows, NextFollows, LoadsFromLast, WalksFrom, calls, array
<1>2. CASE Grow \/ Terminated \/ UNCHANGED vars
  BY <1>1, <1>2 DEF Grow, Terminated, vars
<1>3. ASSUME pc' \in {"idle", "headers", "load", "garbage"}, api' \notin {"next", "getNext"}
      PROVE  Follows'
  BY <1>3 DEF Follows, NextFollows, LoadsFromLast, WalksFrom
<1>4. CASE ParseHeaders \/ LoadCluster
  BY <1>3, <1>4 DEF ParseHeaders, LoadCluster, Call
<1>5. ASSUME NEW i \in DOMAIN clusters, ParseCluster(i) PROVE Follows'
  BY <1>3, <1>5 DEF ParseCluster, CallReturns
<1>6. ASSUME NEW off \in file.cues, FindOrPreloadCluster(off) PROVE Follows'
  BY <1>3, <1>6 DEF FindOrPreloadCluster, CallReturns
<1>7. ASSUME NEW p \in Headers, ParseCues(p) PROVE Follows'
  BY <1>3, <1>7 DEF ParseCues, CallReturns
<1>8. CASE ReturnFromHeaders \/ ParseHeader
  <2>1. pc = "headers" /\ api' = api /\ pc' \in {"idle", "headers"}
    BY <1>8 DEF ReturnFromHeaders, ParseHeader, Return, calls
  <2>2. api = "headers"
    BY <2>1 DEF LoadInv, CallInv, Calling
  <2> QED
    BY <1>3, <2>1, <2>2
<1>9. CASE Caller
  BY <1>4, <1>5, <1>6, <1>7, <1>9, ParseNextFollows, GetNextFollows DEF Caller
<1>10. CASE Step
  BY <1>8, <1>10, LoadFollows, WalkFollows DEF Step, Follows
<1> QED
  BY <1>2, <1>9, <1>10 DEF Next

NextInv == Ordinary => ret # "invalid" /\ Fails /\ HeadersParsed /\ Follows

\* It holds of every state.
LEMMA NextInvariance == Spec => [](LoadInv /\ OrderInv /\ NextInv)
<1>1. Init => LoadInv /\ OrderInv /\ NextInv
  <2> SUFFICES ASSUME Init PROVE OrderInv /\ NextInv
    BY InitLoadInv
  <2>1. Len(clusters) = 0 /\ count = 0 /\ pc = "idle" /\ api = "none" /\ ret = "more"
        /\ mPos = file.start /\ mInfo = FALSE /\ mTracks = FALSE /\ file \in Files
    BY DEF Init
  <2>2. OrderInv
    BY <2>1 DEF OrderInv, ArrayOrder, Sorted, Indexed, CueReached, WalksBehind
  <2>3. \A p \in Headers : ~ (p < mPos)
    BY <2>1, FileFacts
  <2>4. HeadersParsed
    BY <2>1, <2>3 DEF HeadersParsed
  <2>5. Follows
    BY <2>1 DEF Follows, NextFollows, LoadsFromLast, WalksFrom
  <2> QED
    BY <2>1, <2>2, <2>4, <2>5 DEF NextInv, Fails
<1>2. LoadInv /\ OrderInv /\ NextInv /\ [Next]_vars => (LoadInv /\ OrderInv /\ NextInv)'
  <2> SUFFICES ASSUME LoadInv, OrderInv, NextInv, [Next]_vars
               PROVE  LoadInv' /\ OrderInv' /\ NextInv'
    OBVIOUS
  <2>1. LoadInv' /\ file' = file
    BY LoadInvInductive DEF LoadStep
  <2>2. Ordinary' <=> Ordinary
    BY <2>1, OrdinaryStays
  <2>3. OrderInv'
    BY <2>1, <2>2, ArrayOrderStays, WalksBehindStays DEF OrderInv
  <2>4. ASSUME Ordinary PROVE ret' # "invalid" /\ Fails' /\ HeadersParsed' /\ Follows'
    BY <2>1, <2>4, NothingInvalid, FailsStays, HeadersParsedStays, FollowsStays
    DEF OrderInv, NextInv
  <2> QED
    BY <2>1, <2>2, <2>3, <2>4 DEF NextInv
<1> QED
  BY <1>1, <1>2, PTL DEF Spec

\* In an ordinary file ParseNext and GetNext lead from every cluster the caller has,
\* loaded or preloaded, to the one that follows it in the file, and say that there is
\* none only behind the last, however much of the file there is and whatever was called
\* before.  No call finds fault with the file, but for ParseNext on a preloaded cluster of
\* which nothing has been parsed.
THEOREM NextTrue == Spec => []NextIsSuccessor
<1>1. NextInv => NextIsSuccessor
  BY DEF NextInv, NextIsSuccessor, Follows, Fails, FailsUnparsed
<1> QED
  BY <1>1, NextInvariance, PTL
=============================================================================
