-------------------------- MODULE MuxSegmentProofs --------------------------
(***************************************************************************)
(* Proofs about MuxSegment.  First types, where frames are put (the frames  *)
(* queued for the open cluster fit it) and that a closed cluster is never   *)
(* touched again.  TypeOK is not inductive by itself: a cluster must exist  *)
(* where the code takes the last one, and the queue must not be empty where *)
(* a queued frame is being held back.  CallState says so.                   *)
(*                                                                         *)
(* Then the positions it computes while it writes (where the clusters are,  *)
(* what the seek head and the Segment's size say, which cues it adds when   *)
(* it does not hold frames back) and the order of what it was given: each   *)
(* track's blocks are in the file in the order they were added, and frames  *)
(* added in time order are in it in time order, through the queue, the      *)
(* lists of frames held back and the merge when a cluster is closed.        *)
(***************************************************************************)
EXTENDS MuxProperties, TLAPS, WellFoundedInduction, SequenceTheorems, FiniteSetTheorems

-----------------------------------------------------------------------------
(* Least and greatest elements.                                             *)

\* A set of naturals that is not empty has a least element.
LEMMA LeastNatural ==
  ASSUME NEW T, T \subseteq Nat, T # {}
  PROVE  \E x \in T : \A y \in T : x <= y
<1>1. IsWellFoundedOn(OpToRel(<, Nat), Nat)
  BY NatLessThanWellFounded
<1>2. PICK x \in T : \A y \in T : ~ (<<y, x>> \in OpToRel(<, Nat))
  BY <1>1, WFMin
<1>3. \A y \in T : ~ (y < x)
  BY <1>2 DEF OpToRel
<1> QED
  BY <1>3

\* Induction over the naturals, for a property given as a set.
LEMMA NatSetInduction ==
  ASSUME NEW S, 0 \in S, \A n \in Nat : n \in S => n + 1 \in S
  PROVE  Nat \subseteq S
<1> SUFFICES ASSUME ~ (Nat \subseteq S) PROVE FALSE
  OBVIOUS
<1> DEFINE T == Nat \ S
<1>1. PICK x \in T : \A y \in T : x <= y
  BY LeastNatural
<1>2. x # 0 /\ x - 1 \in Nat /\ x - 1 \notin T
  BY <1>1
<1> QED
  BY <1>1, <1>2

\* Finitely many naturals have an upper bound.
LEMMA UpperBound ==
  ASSUME NEW f, NEW k \in Nat, \A i \in 1 .. k : f[i] \in Nat
  PROVE  \E m \in Nat : \A i \in 1 .. k : f[i] <= m
<1> DEFINE T == { n \in Nat : n <= k => \E m \in Nat : \A i \in 1 .. n : f[i] <= m }
<1>1. 0 \in T
  OBVIOUS
<1>2. ASSUME NEW n \in Nat, n \in T PROVE n + 1 \in T
  <2>1. CASE n + 1 > k
    BY <2>1
  <2>2. CASE n + 1 <= k
    <3>1. PICK m \in Nat : \A i \in 1 .. n : f[i] <= m
      BY <1>2, <2>2
    <3>2. f[n + 1] \in Nat
      BY <2>2
    <3> DEFINE b == IF m < f[n + 1] THEN f[n + 1] ELSE m
    <3>3. b \in Nat /\ m <= b /\ f[n + 1] <= b
      BY <3>2
    <3>4. ASSUME NEW i \in 1 .. n + 1 PROVE f[i] <= b
      <4>1. i \in 1 .. n \/ i = n + 1
        OBVIOUS
      <4> QED
        BY <4>1, <3>1, <3>3, <2>2
    <3> QED
      BY <3>3, <3>4
  <2> QED
    BY <2>1, <2>2
<1> HIDE DEF T
<1>3. k \in T
  BY <1>1, <1>2, NatSetInduction
<1> QED
  BY <1>3 DEF T

-----------------------------------------------------------------------------
(* The operators on clusters keep their types.                              *)

\* Scale is not zero.
LEMMA TimecodeType ==
  ASSUME NEW ts \in Nat
  PROVE  Timecode(ts) \in Nat
BY ClusterAssumption DEF Timecode

\* There is a track, and none has number 0.
LEMMA TrackSetType == TrackSet \subseteq Nat \ {0} /\ TrackSet # {}
<1>1. Tracks \in Seq(Nat \ {0}) /\ Tracks # << >>
  BY ClusterAssumption, SegmentAssumption
<1>2. \A i \in DOMAIN Tracks : Tracks[i] \in Nat \ {0}
  BY <1>1
<1>3. 1 \in DOMAIN Tracks
  BY <1>1
<1> QED
  BY <1>2, <1>3 DEF TrackSet

\* The fields of a frame.
LEMMA FrameFields ==
  ASSUME NEW f \in Frame
  PROVE  /\ f.id \in Nat /\ f.track \in Nat /\ f.ts \in Nat /\ f.key \in BOOLEAN
         /\ f.len \in Nat /\ f.extra \in Extras
         /\ f.dur \in Nat \cup {Unset} /\ f.ref \in Nat \cup {Unset}
BY DEF Frame

\* A block has a size.
LEMMA BlockSizeType ==
  ASSUME NEW f \in Frame
  PROVE  BlockSize(f) \in Nat
<1>1. f.len \in Nat /\ f.extra \in Extras
  BY DEF Frame
<1>2. ExtraSize[f.extra] \in Nat
  BY <1>1 DEF ExtraSize, Extras
<1> QED
  BY <1>1, <1>2 DEF BlockSize, SimpleBlockSize, BlockGroupSize

\* The fields of a cluster.
LEMMA ClusterFields ==
  ASSUME NEW c \in Cluster
  PROVE  /\ c.timecode \in Nat /\ c.pos \in Int /\ c.at \in Int
         /\ c.finalized \in BOOLEAN /\ c.payload \in Nat /\ c.blocks \in Seq(Frame)
         /\ c.stored \in [TrackSet -> Seq(Frame)] /\ c.lastTs \in [TrackSet -> Nat]
BY DEF Cluster, FrameList, PerTrack

\* A new cluster is a cluster, with no byte in the file.
LEMMA NewClusterType ==
  ASSUME NEW tc \in Nat, NEW p \in Int
  PROVE  NewCluster(tc, p) \in Cluster /\ ClusterBytes(NewCluster(tc, p)) = 0
<1>1. << >> \in Seq(Frame)
  OBVIOUS
<1> QED
  BY <1>1 DEF NewCluster, Cluster, ClusterBytes, HeaderWritten, Unset, FrameList, PerTrack

\* A cluster's size.
LEMMA ClusterBytesType ==
  ASSUME NEW c \in Cluster
  PROVE  ClusterBytes(c) \in Nat /\ ClusterSize(c) \in Nat
BY ClusterFields DEF ClusterBytes, ClusterSize, ClusterHeaderSize

\* Replacing one field of a cluster.
LEMMA SetAt ==
  ASSUME NEW c \in Cluster, NEW x \in Int, NEW d, d = [c EXCEPT !.at = x]
  PROVE  /\ d \in Cluster /\ d.pos = c.pos
         /\ d.timecode = c.timecode /\ d.at = x /\ d.payload = c.payload
         /\ d.stored = c.stored /\ d.lastTs = c.lastTs /\ d.blocks = c.blocks
         /\ d.finalized = c.finalized
BY DEF Cluster

\* Its payload,
LEMMA SetPayload ==
  ASSUME NEW c \in Cluster, NEW x \in Nat, NEW d, d = [c EXCEPT !.payload = x]
  PROVE  /\ d \in Cluster /\ d.pos = c.pos
         /\ d.timecode = c.timecode /\ d.at = c.at /\ d.payload = x
         /\ d.stored = c.stored /\ d.lastTs = c.lastTs /\ d.blocks = c.blocks
         /\ d.finalized = c.finalized
BY DEF Cluster

\* its blocks,
LEMMA SetBlocks ==
  ASSUME NEW c \in Cluster, NEW x \in FrameList, NEW d, d = [c EXCEPT !.blocks = x]
  PROVE  /\ d \in Cluster /\ d.pos = c.pos
         /\ d.timecode = c.timecode /\ d.at = c.at /\ d.payload = c.payload
         /\ d.stored = c.stored /\ d.lastTs = c.lastTs /\ d.blocks = x
         /\ d.finalized = c.finalized
BY DEF Cluster

\* its tracks' last times,
LEMMA SetLastTs ==
  ASSUME NEW c \in Cluster, NEW x \in PerTrack(Nat), NEW d, d = [c EXCEPT !.lastTs = x]
  PROVE  /\ d \in Cluster /\ d.pos = c.pos
         /\ d.timecode = c.timecode /\ d.at = c.at /\ d.payload = c.payload
         /\ d.stored = c.stored /\ d.lastTs = x /\ d.blocks = c.blocks
         /\ d.finalized = c.finalized
BY DEF Cluster

\* what it holds back,
LEMMA SetStored ==
  ASSUME NEW c \in Cluster, NEW x \in PerTrack(FrameList), NEW d, d = [c EXCEPT !.stored = x]
  PROVE  /\ d \in Cluster /\ d.pos = c.pos
         /\ d.timecode = c.timecode /\ d.at = c.at /\ d.payload = c.payload
         /\ d.stored = x /\ d.lastTs = c.lastTs /\ d.blocks = c.blocks
         /\ d.finalized = c.finalized
BY DEF Cluster

\* and the mark that it is closed.
LEMMA SetFinalized ==
  ASSUME NEW c \in Cluster, NEW x \in BOOLEAN, NEW d, d = [c EXCEPT !.finalized = x]
  PROVE  /\ d \in Cluster /\ d.pos = c.pos
         /\ d.timecode = c.timecode /\ d.at = c.at /\ d.payload = c.payload
         /\ d.stored = c.stored /\ d.lastTs = c.lastTs /\ d.blocks = c.blocks
         /\ d.finalized = x
BY DEF Cluster

\* Opening a cluster keeps its type and adds bytes if anything.
LEMMA PreWriteBlockType ==
  ASSUME NEW c \in Cluster, NEW o \in Nat
  PROVE  /\ PreWriteBlock(c, o) \in Cluster
         /\ PreWriteBlock(c, o).stored = c.stored
         /\ PreWriteBlock(c, o).timecode = c.timecode
         /\ PreWriteBlock(c, o).finalized = c.finalized
         /\ PreWriteBlock(c, o).pos = c.pos
         /\ PreWriteBlock(c, o).blocks = c.blocks
         /\ PreWriteBlock(c, o).at = IF HeaderWritten(c) THEN c.at ELSE o
         /\ HeaderWritten(PreWriteBlock(c, o))
         /\ ClusterBytes(PreWriteBlock(c, o)) >= ClusterBytes(c)
<1> DEFINE c1 == [c EXCEPT !.at = o]
           c2 == [c1 EXCEPT !.payload = c.payload + TimecodeSize]
<1>1. /\ c1 \in Cluster /\ c1.stored = c.stored /\ c1.timecode = c.timecode
      /\ c1.finalized = c.finalized /\ c1.at = o /\ c1.payload = c.payload
      /\ c1.pos = c.pos /\ c1.blocks = c.blocks
  BY SetAt
<1>2. c.payload \in Nat /\ c.payload + TimecodeSize \in Nat
  BY ClusterFields DEF TimecodeSize
<1>3. /\ c2 \in Cluster /\ c2.stored = c.stored /\ c2.timecode = c.timecode
      /\ c2.finalized = c.finalized /\ c2.at = o /\ c2.payload = c.payload + TimecodeSize
      /\ c2.pos = c.pos /\ c2.blocks = c.blocks
  <2> HIDE DEF c1
  <2> QED
    BY <1>1, <1>2, SetPayload
<1>4. [c EXCEPT !.at = o, !.payload = @ + TimecodeSize] = c2
  BY Zenon
<1>5. HeaderWritten(c2) /\ ClusterBytes(c2) >= ClusterBytes(c)
  <2> HIDE DEF c2
  <2> QED
    BY <1>2, <1>3 DEF HeaderWritten, ClusterBytes, ClusterSize, Unset,
                      TimecodeSize, ClusterHeaderSize
<1>6. HeaderWritten(c) => ClusterBytes(c) >= ClusterBytes(c)
  BY ClusterBytesType
<1> HIDE DEF c1, c2
<1> QED
  BY <1>3, <1>4, <1>5, <1>6 DEF PreWriteBlock

\* Writing a frame keeps the type and never takes bytes away.
LEMMA DoWriteFrameType ==
  ASSUME NEW c \in Cluster, NEW f \in Frame, NEW o \in Nat
  PROVE  /\ DoWriteFrame(c, f, o) \in Cluster
         /\ DoWriteFrame(c, f, o).stored = c.stored
         /\ DoWriteFrame(c, f, o).timecode = c.timecode
         /\ DoWriteFrame(c, f, o).finalized = c.finalized
         /\ DoWriteFrame(c, f, o).pos = c.pos
         /\ DoWriteFrame(c, f, o).blocks = IF CanWrite(c, f) THEN Append(c.blocks, f)
                                                            ELSE c.blocks
         /\ DoWriteFrame(c, f, o).at \in {c.at, IF HeaderWritten(c) THEN c.at ELSE o}
         /\ CanWrite(c, f) => HeaderWritten(DoWriteFrame(c, f, o))
         /\ ClusterBytes(DoWriteFrame(c, f, o)) >= ClusterBytes(c)
<1> DEFINE open == PreWriteBlock(c, o)
           p    == open.payload + BlockSize(f)
           c1   == [open EXCEPT !.payload = p]
           bs   == Append(open.blocks, f)
           c2   == [c1 EXCEPT !.blocks = bs]
           c3   == [c2 EXCEPT !.lastTs = [open.lastTs EXCEPT ![f.track] = f.ts]]
<1>1. BlockSize(f) \in Nat /\ f.ts \in Nat
  BY BlockSizeType, FrameFields
<1>2. /\ open \in Cluster /\ open.stored = c.stored /\ open.timecode = c.timecode
      /\ open.finalized = c.finalized /\ open.pos = c.pos /\ open.blocks = c.blocks
      /\ open.at = IF HeaderWritten(c) THEN c.at ELSE o
      /\ ClusterBytes(open) >= ClusterBytes(c) /\ HeaderWritten(open)
  BY PreWriteBlockType
<1> HIDE DEF open
<1>3. /\ open.payload \in Nat /\ open.blocks \in Seq(Frame)
      /\ open.lastTs \in [TrackSet -> Nat] /\ p \in Nat
  BY <1>1, <1>2, ClusterFields
<1>4. /\ c1 \in Cluster /\ c1.stored = c.stored /\ c1.timecode = c.timecode
      /\ c1.finalized = c.finalized /\ c1.pos = c.pos
      /\ c1.at = open.at /\ c1.payload = p
  <2> HIDE DEF p
  <2> QED
    BY <1>2, <1>3, SetPayload
<1>5. bs \in FrameList
  BY <1>3 DEF FrameList
<1>6. /\ c2 \in Cluster /\ c2.stored = c.stored /\ c2.timecode = c.timecode
      /\ c2.finalized = c.finalized /\ c2.pos = c.pos /\ c2.blocks = bs
      /\ c2.at = open.at /\ c2.payload = p
  <2> HIDE DEF p, c1, bs
  <2> QED
    BY <1>4, <1>5, SetBlocks
<1>7. [open.lastTs EXCEPT ![f.track] = f.ts] \in PerTrack(Nat)
  BY <1>1, <1>3 DEF PerTrack
<1>8. /\ c3 \in Cluster /\ c3.stored = c.stored /\ c3.timecode = c.timecode
      /\ c3.finalized = c.finalized /\ c3.pos = c.pos /\ c3.blocks = bs
      /\ c3.at = open.at /\ c3.payload = p
  <2> HIDE DEF p, c2
  <2> QED
    BY <1>6, <1>7, SetLastTs
<1>9. [open EXCEPT !.payload = @ + BlockSize(f), !.blocks = Append(@, f),
                   !.lastTs[f.track] = f.ts] = c3
  BY Zenon
<1>10. ClusterBytes(c3) >= ClusterBytes(c)
  <2>1. ClusterBytes(c3) >= ClusterBytes(open)
    <3> HIDE DEF c3
    <3> QED
      BY <1>1, <1>2, <1>3, <1>8 DEF HeaderWritten, ClusterBytes, ClusterSize,
                                    Unset, ClusterHeaderSize
  <2>2. /\ ClusterBytes(c3) \in Nat /\ ClusterBytes(open) \in Nat
        /\ ClusterBytes(c) \in Nat
    BY <1>2, <1>8, ClusterBytesType
  <2> QED
    BY <1>2, <2>1, <2>2
<1>11. ClusterBytes(c) >= ClusterBytes(c)
  BY ClusterBytesType
<1>12. \/ DoWriteFrame(c, f, o) \in {c, open} /\ ~CanWrite(c, f)
       \/ DoWriteFrame(c, f, o) = c3 /\ CanWrite(c, f)
  <2> HIDE DEF c3
  <2> QED
    BY <1>9 DEF DoWriteFrame, CanWrite, open
<1>13. bs = Append(c.blocks, f)
  BY <1>2
<1>14. HeaderWritten(c3)
  BY <1>2, <1>8 DEF HeaderWritten
<1> HIDE DEF c3, bs
<1> QED
  BY <1>2, <1>8, <1>10, <1>11, <1>12, <1>13, <1>14

\* The lists of held back frames.
LEMMA HoldFrameType ==
  ASSUME NEW c \in Cluster, NEW f \in Frame, f.track \in TrackSet
  PROVE  /\ HoldFrame(c, f) \in Cluster
         /\ HoldFrame(c, f).timecode = c.timecode
         /\ HoldFrame(c, f).finalized = c.finalized
         /\ HoldFrame(c, f).pos = c.pos /\ HoldFrame(c, f).at = c.at
         /\ HoldFrame(c, f).blocks = c.blocks
         /\ ClusterBytes(HoldFrame(c, f)) = ClusterBytes(c)
         /\ HoldFrame(c, f).stored = [c.stored EXCEPT ![f.track] = Append(@, f)]
<1> DEFINE s == [c.stored EXCEPT ![f.track] = Append(@, f)]
           d == [c EXCEPT !.stored = s]
<1>1. s \in PerTrack(FrameList)
  <2>1. c.stored \in [TrackSet -> Seq(Frame)] /\ c.stored[f.track] \in Seq(Frame)
    BY ClusterFields
  <2>2. Append(c.stored[f.track], f) \in Seq(Frame)
    BY <2>1
  <2> QED
    BY <2>1, <2>2 DEF PerTrack, FrameList
<1>2. /\ d \in Cluster /\ d.timecode = c.timecode /\ d.at = c.at
      /\ d.payload = c.payload /\ d.stored = s /\ d.finalized = c.finalized
      /\ d.pos = c.pos /\ d.blocks = c.blocks
  <2> HIDE DEF s
  <2> QED
    BY <1>1, SetStored
<1>3. HoldFrame(c, f) = d
  BY Zenon DEF HoldFrame
<1> HIDE DEF d
<1> QED
  BY <1>2, <1>3 DEF ClusterBytes, ClusterSize, HeaderWritten

\* DropStored takes the first frame off a list that has one.
LEMMA DropStoredType ==
  ASSUME NEW c \in Cluster, NEW t \in TrackSet, c.stored[t] # << >>
  PROVE  /\ DropStored(c, t) \in Cluster
         /\ DropStored(c, t).timecode = c.timecode
         /\ DropStored(c, t).finalized = c.finalized
         /\ DropStored(c, t).pos = c.pos /\ DropStored(c, t).at = c.at
         /\ DropStored(c, t).blocks = c.blocks
         /\ ClusterBytes(DropStored(c, t)) = ClusterBytes(c)
         /\ Head(c.stored[t]) \in Frame
         /\ DropStored(c, t).stored = [c.stored EXCEPT ![t] = Tail(@)]
<1> DEFINE s == [c.stored EXCEPT ![t] = Tail(@)]
           d == [c EXCEPT !.stored = s]
<1>0. c.stored[t] \in Seq(Frame)
  BY ClusterFields
<1>1. s \in PerTrack(FrameList)
  <2>1. Tail(c.stored[t]) \in Seq(Frame)
    BY <1>0
  <2> QED
    BY <2>1, ClusterFields DEF PerTrack, FrameList
<1>2. /\ d \in Cluster /\ d.timecode = c.timecode /\ d.at = c.at
      /\ d.payload = c.payload /\ d.stored = s /\ d.finalized = c.finalized
      /\ d.pos = c.pos /\ d.blocks = c.blocks
  <2> HIDE DEF s
  <2> QED
    BY <1>1, SetStored
<1>3. DropStored(c, t) = d
  BY Zenon DEF DropStored
<1> HIDE DEF d
<1> QED
  BY <1>0, <1>2, <1>3 DEF ClusterBytes, ClusterSize, HeaderWritten

\* Marking a cluster as finalized.
LEMMA FinalizedType ==
  ASSUME NEW c \in Cluster
  PROVE  /\ [c EXCEPT !.finalized = TRUE] \in Cluster
         /\ [c EXCEPT !.finalized = TRUE].timecode = c.timecode
         /\ [c EXCEPT !.finalized = TRUE].finalized
         /\ [c EXCEPT !.finalized = TRUE].pos = c.pos
         /\ [c EXCEPT !.finalized = TRUE].at = c.at
         /\ [c EXCEPT !.finalized = TRUE].blocks = c.blocks
         /\ [c EXCEPT !.finalized = TRUE].stored = c.stored
         /\ ClusterBytes([c EXCEPT !.finalized = TRUE]) = ClusterBytes(c)
<1> DEFINE d == [c EXCEPT !.finalized = TRUE]
<1>1. /\ d \in Cluster /\ d.timecode = c.timecode /\ d.at = c.at
      /\ d.payload = c.payload /\ d.finalized
      /\ d.pos = c.pos /\ d.blocks = c.blocks /\ d.stored = c.stored
  BY SetFinalized, ZenonT(40)
<1> HIDE DEF d
<1>2. ClusterBytes(d) = ClusterBytes(c)
  BY <1>1 DEF ClusterBytes, ClusterSize, HeaderWritten
<1> QED
  BY <1>1, <1>2 DEF d

\* The track Cluster::Finalize writes from next exists, and is the earliest.
LEMMA NextStoredType ==
  ASSUME NEW c \in Cluster, HasStored(c)
  PROVE  /\ NextStored(c) \in TrackSet /\ c.stored[NextStored(c)] # << >>
         /\ \A u \in TrackSet : c.stored[u] # << >> =>
              \/ Head(c.stored[NextStored(c)]).ts < Head(c.stored[u]).ts
              \/ Head(c.stored[NextStored(c)]).ts = Head(c.stored[u]).ts
                 /\ NextStored(c) <= u
<1> DEFINE H    == { t \in TrackSet : c.stored[t] # << >> }
           T    == { Head(c.stored[t]).ts : t \in H }
<1>1. \A t \in H : t \in Nat /\ Head(c.stored[t]).ts \in Nat
  BY TrackSetType, ClusterFields, FrameFields, HeadTailProperties
<1>2. H # {} /\ T \subseteq Nat /\ T # {}
  BY <1>1 DEF HasStored
<1>3. PICK x \in T : \A y \in T : x <= y
  BY <1>2, LeastNatural
<1> DEFINE G == { t \in H : Head(c.stored[t]).ts = x }
<1>4. G \subseteq Nat /\ G # {}
  BY <1>1, <1>3
<1>5. PICK t \in G : \A u \in G : t <= u
  BY <1>4, LeastNatural
<1>6. t \in TrackSet /\ c.stored[t] # << >> /\ Head(c.stored[t]).ts = x
  BY <1>5
<1>7. ASSUME NEW u \in TrackSet, c.stored[u] # << >>
      PROVE  \/ Head(c.stored[t]).ts < Head(c.stored[u]).ts
             \/ (Head(c.stored[t]).ts = Head(c.stored[u]).ts /\ t <= u)
  <2>1. u \in H /\ Head(c.stored[u]).ts \in T
    BY <1>7
  <2>2. x <= Head(c.stored[u]).ts /\ x \in Nat /\ Head(c.stored[u]).ts \in Nat
    BY <2>1, <1>1, <1>2, <1>3
  <2>3. Head(c.stored[u]).ts = x => t <= u
    BY <2>1, <1>5
  <2> QED
    BY <2>2, <2>3, <1>6
<1> HIDE DEF H, T, G
<1> QED
  BY <1>6, <1>7 DEF NextStored

\* Frames that get a duration or a reference on the way.
LEMMA FrameUpdates ==
  ASSUME NEW f \in Frame, NEW n \in Nat
  PROVE  /\ [f EXCEPT !.dur = n] \in Frame
         /\ [f EXCEPT !.ref = n] \in Frame
         /\ [f EXCEPT !.id = n] \in Frame
BY DEF Frame

\* A frame with the duration that was left is a frame.
LEMMA WithLastDurationType ==
  ASSUME NEW c \in Cluster, NEW f \in Frame, f.track \in TrackSet,
         NEW d \in BOOLEAN, NEW end \in Nat
  PROVE  WithLastDuration(c, f, d, end) \in Frame
<1> DEFINE n == (end - f.ts) % WordSize
           r == IF ~f.key /\ f.ref = Unset THEN c.lastTs[f.track] ELSE f.ref
           g == [f EXCEPT !.dur = n]
           h == [g EXCEPT !.ref = r]
<1>1. n \in Nat
  BY ClusterAssumption, FrameFields
<1>2. r \in Nat \cup {Unset}
  BY ClusterFields, FrameFields
<1>3. g \in Frame
  <2> HIDE DEF n
  <2> QED
    BY <1>1, FrameUpdates
<1>4. h \in Frame
  <2> HIDE DEF g, r
  <2> QED
    BY <1>2, <1>3 DEF Frame
<1>5. [f EXCEPT !.dur = (end - f.ts) % WordSize,
                !.ref = IF ~f.key /\ @ = Unset THEN c.lastTs[f.track] ELSE @] = h
  BY Zenon
<1> HIDE DEF h
<1> QED
  BY <1>4, <1>5 DEF WithLastDuration

-----------------------------------------------------------------------------
(* The inductive invariant.                                                 *)

\* Where each kind of call can stand, and what it relies on there.
CallState ==
  /\ pc \in {"close", "write", "hold"} => clusters # << >>
  /\ pc = "flushAll" /\ call = "frame" => clusters # << >>
  /\ pc \in {"idle", "test", "flushOlder", "write"} => call = "frame"
  /\ pc = "hold" => /\ origin # "flushAll" => call = "frame"
                    /\ origin # "write" => queue # << >>
  /\ call = "frame" /\ pc \notin {"idle", "undefined"} => frame.track \in TrackSet

\* Every frame that waits is of a track of the segment, and on its own list.
ByTrack(c) == \A t \in TrackSet : \A i \in DOMAIN c.stored[t] :
                 c.stored[t][i].track = t

WaitingByTrack ==
  /\ \A i \in DOMAIN queue : queue[i].track \in TrackSet
  /\ \A i \in DOMAIN clusters : ByTrack(clusters[i])

IInv == TypeOK /\ CallState /\ WaitingByTrack

\* Replacing the last cluster of a list.
LEMMA ReplaceLast ==
  ASSUME NEW cs \in Seq(Cluster), cs # << >>, NEW c \in Cluster, ByTrack(c),
         \A i \in DOMAIN cs : ByTrack(cs[i]),
         NEW ds, ds = [cs EXCEPT ![Len(cs)] = c]
  PROVE  /\ ds \in Seq(Cluster) /\ ds # << >> /\ ds[Len(cs)] = c
         /\ Len(ds) = Len(cs) /\ \A i \in 1 .. Len(cs) - 1 : ds[i] = cs[i]
         /\ \A i \in DOMAIN ds : ByTrack(ds[i])
<1>1. Len(cs) \in DOMAIN cs /\ Len(cs) \in Nat
  OBVIOUS
<1>2. ds \in Seq(Cluster) /\ Len(ds) = Len(cs) /\ ds[Len(cs)] = c
  BY <1>1, ExceptSeq
<1>3. \A i \in DOMAIN ds : i \in DOMAIN cs /\ ds[i] \in {c, cs[i]}
  BY <1>1
<1>4. \A i \in 1 .. Len(cs) - 1 : ds[i] = cs[i]
  BY <1>1
<1>5. \A i \in DOMAIN ds : ByTrack(ds[i])
  BY <1>3
<1>6. ds # << >>
  BY <1>1, <1>2
<1> QED
  BY <1>2, <1>4, <1>5, <1>6

\* A step that only touches the contents of the last cluster.
SameClusters ==
  /\ Len(clusters') = Len(clusters)
  /\ \A i \in 1 .. Len(clusters) - 1 : clusters'[i] = clusters[i]
  /\ clusters # << >> =>
       /\ clusters'[Len(clusters)].timecode = LastCluster.timecode
       /\ clusters'[Len(clusters)].finalized = LastCluster.finalized

\* What setting the last cluster keeps.
LEMMA SetLastClusterType ==
  ASSUME TypeOK, WaitingByTrack, clusters # << >>,
         NEW c \in Cluster, ByTrack(c), ClusterBytes(c) >= ClusterBytes(LastCluster),
         SetLastCluster(c)
  PROVE  /\ clusters' \in Seq(Cluster) /\ clusters' # << >> /\ written' \in Nat
         /\ clusters'[Len(clusters)] = c
         /\ Len(clusters') = Len(clusters)
         /\ \A i \in 1 .. Len(clusters) - 1 : clusters'[i] = clusters[i]
         /\ \A i \in DOMAIN clusters' : ByTrack(clusters'[i])
<1>1. clusters \in Seq(Cluster) /\ written \in Nat /\ LastCluster \in Cluster
  BY DEF TypeOK, LastCluster
<1>2. ClusterBytes(c) \in Nat /\ ClusterBytes(LastCluster) \in Nat
  BY <1>1, ClusterBytesType
<1>3. written' \in Nat
  BY <1>1, <1>2 DEF SetLastCluster
<1>4. clusters' = [clusters EXCEPT ![Len(clusters)] = c]
  BY DEF SetLastCluster
<1>5. \A i \in DOMAIN clusters : ByTrack(clusters[i])
  BY DEF WaitingByTrack
<1> QED
  BY <1>1, <1>3, <1>4, <1>5, ReplaceLast

\* Writing, holding back and dropping keep each frame on its track's list.
LEMMA DoWriteFrameByTrack ==
  ASSUME NEW c \in Cluster, NEW f \in Frame, NEW o \in Nat, ByTrack(c)
  PROVE  ByTrack(DoWriteFrame(c, f, o))
BY DoWriteFrameType DEF ByTrack

\* Holding a frame back puts it on its own track's list;
LEMMA HoldFrameByTrack ==
  ASSUME NEW c \in Cluster, NEW f \in Frame, f.track \in TrackSet, ByTrack(c)
  PROVE  ByTrack(HoldFrame(c, f))
<1> DEFINE s == c.stored
           r == [s EXCEPT ![f.track] = Append(@, f)]
<1>1. HoldFrame(c, f).stored = r
  BY HoldFrameType
<1>2. s \in [TrackSet -> Seq(Frame)]
  BY ClusterFields
<1>3. ASSUME NEW t \in TrackSet, NEW i \in DOMAIN r[t] PROVE r[t][i].track = t
  <2>1. s[t] \in Seq(Frame) /\ \A j \in DOMAIN s[t] : s[t][j].track = t
    BY <1>2 DEF ByTrack
  <2>2. CASE t # f.track
    BY <1>2, <1>3, <2>1, <2>2
  <2>3. CASE t = f.track
    <3>1. r[t] = Append(s[t], f)
      BY <1>2, <2>3
    <3>2. (i \in DOMAIN s[t] /\ r[t][i] = s[t][i]) \/ r[t][i] = f
      BY <1>3, <2>1, <3>1
    <3> QED
      BY <2>1, <2>3, <3>2
  <2> QED
    BY <2>2, <2>3
<1> HIDE DEF r
<1> QED
  BY <1>1, <1>3 DEF ByTrack

\* dropping one leaves the others where they are.
LEMMA DropStoredByTrack ==
  ASSUME NEW c \in Cluster, NEW t \in TrackSet, c.stored[t] # << >>, ByTrack(c)
  PROVE  ByTrack(DropStored(c, t)) /\ Head(c.stored[t]).track = t
<1> DEFINE s == c.stored
           r == [s EXCEPT ![t] = Tail(@)]
<1>1. DropStored(c, t).stored = r
  BY DropStoredType
<1>2. s \in [TrackSet -> Seq(Frame)]
  BY ClusterFields
<1>3. ASSUME NEW u \in TrackSet, NEW i \in DOMAIN r[u] PROVE r[u][i].track = u
  <2>1. s[u] \in Seq(Frame) /\ \A j \in DOMAIN s[u] : s[u][j].track = u
    BY <1>2 DEF ByTrack
  <2>2. CASE u # t
    BY <1>2, <1>3, <2>1, <2>2
  <2>3. CASE u = t
    <3>1. r[u] = Tail(s[u]) /\ s[u] # << >>
      BY <1>2, <2>3
    <3>2. i \in DOMAIN Tail(s[u])
      BY <1>3, <3>1
    <3>3. i + 1 \in DOMAIN s[u] /\ Tail(s[u])[i] = s[u][i + 1]
      <4> HIDE DEF s, r
      <4> QED
        BY <2>1, <3>1, <3>2
    <3> QED
      BY <2>1, <3>1, <3>3
  <2> QED
    BY <2>2, <2>3
<1>4. Head(s[t]).track = t
  BY <1>2 DEF ByTrack
<1> HIDE DEF r
<1> QED
  BY <1>1, <1>3, <1>4 DEF ByTrack

\* What a finished Cluster::AddFrame leaves.
LEMMA AddFrameType ==
  ASSUME TypeOK, WaitingByTrack, clusters # << >>,
         NEW f \in Frame, f.track \in TrackSet, NEW p,
         AddFrameDone(f, p) \/ AddFrameFails(f, p)
  PROVE  /\ clusters' \in Seq(Cluster) /\ clusters' # << >> /\ written' \in Nat
         /\ clusters'[Len(clusters)] \in Cluster
         /\ \A i \in DOMAIN clusters' : ByTrack(clusters'[i])
         /\ SameClusters
<1> DEFINE c == LastCluster
           d == DoWriteFrame(c, f, written)
<1>1. c \in Cluster /\ ByTrack(c) /\ written \in Nat
  BY DEF TypeOK, LastCluster, WaitingByTrack
<1>2. /\ d \in Cluster /\ ByTrack(d) /\ ClusterBytes(d) >= ClusterBytes(c)
      /\ d.timecode = c.timecode /\ d.finalized = c.finalized
  <2> HIDE DEF c
  <2> QED
    BY <1>1, DoWriteFrameType, DoWriteFrameByTrack
<1>3. \/ SetLastCluster(d)
      \/ UNCHANGED << clusters, written >>
  BY DEF AddFrameDone, AddFrameFails
<1>4. CASE SetLastCluster(d)
  <2> HIDE DEF d
  <2> QED
    BY <1>2, <1>4, SetLastClusterType DEF SameClusters
<1>5. CASE UNCHANGED << clusters, written >>
  BY <1>1, <1>5 DEF TypeOK, WaitingByTrack, LastCluster, SameClusters
<1> QED
  BY <1>3, <1>4, <1>5

\* A cue that is added.
LEMMA AddCuePointType ==
  ASSUME TypeOK, NEW f \in Frame, f.track \in TrackSet,
         clusters # << >>, clusters'[Len(clusters)] \in Cluster, AddCuePoint(f)
  PROVE  /\ newCue' \in BOOLEAN
         /\ cues' \in Seq([time : Nat, track : TrackSet, pos : Int, block : Nat])
<1> DEFINE Cue == [time : Nat, track : TrackSet, pos : Int, block : Nat]
           cue == [ time  |-> Timecode(f.ts), track |-> f.track,
                    pos   |-> LastCluster.pos,
                    block |-> Len(clusters'[Len(clusters)].blocks) ]
<1>1. Timecode(f.ts) \in Nat
  BY TimecodeType, FrameFields
<1>2. LastCluster.pos \in Int
  <2>1. LastCluster \in Cluster
    BY DEF TypeOK, LastCluster
  <2> QED
    BY <2>1, ClusterFields
<1>3. Len(clusters'[Len(clusters)].blocks) \in Nat
  <2>1. clusters'[Len(clusters)].blocks \in Seq(Frame)
    BY ClusterFields
  <2> QED
    BY <2>1
<1>4. cue \in Cue
  BY <1>1, <1>2, <1>3
<1>5. cues \in Seq(Cue) /\ newCue \in BOOLEAN
  BY DEF TypeOK
<1> HIDE DEF Cue
<1>6. Append(cues, cue) \in Seq(Cue)
  <2> HIDE DEF cue
  <2> QED
    BY <1>4, <1>5
<1>7. \/ newCue' = FALSE /\ cues' = Append(cues, cue)
      \/ newCue' = newCue /\ cues' = cues
  BY DEF AddCuePoint, cueVars
<1> HIDE DEF cue
<1>8. newCue' \in BOOLEAN /\ cues' \in Seq(Cue)
  BY <1>5, <1>6, <1>7
<1> QED
  BY <1>8 DEF Cue

\* The times that are raised.
LEMMA RaiseLastTsType ==
  ASSUME TypeOK, NEW f \in Frame, f.track \in TrackSet, RaiseLastTs(f)
  PROVE  lastTs' \in Nat /\ lastTrackTs' \in [TrackSet -> Nat]
BY FrameFields DEF TypeOK, RaiseLastTs, timeVars

\* The frame Cluster::AddFrame is given, wherever the call stands.
LEMMA QueueHeadType ==
  ASSUME TypeOK, WaitingByTrack, queue # << >>
  PROVE  /\ Head(queue) \in Frame /\ Head(queue).track \in TrackSet
         /\ Tail(queue) \in Seq(Frame)
         /\ \A i \in DOMAIN Tail(queue) : Tail(queue)[i].track \in TrackSet
<1>1. queue \in Seq(Frame) /\ \A i \in DOMAIN queue : queue[i].track \in TrackSet
  BY DEF TypeOK, WaitingByTrack
<1>2. \A i \in DOMAIN Tail(queue) : i + 1 \in DOMAIN queue /\ Tail(queue)[i] = queue[i + 1]
  BY <1>1
<1>3. 1 \in DOMAIN queue /\ Head(queue) = queue[1]
  BY <1>1
<1> QED
  BY <1>1, <1>2, <1>3

\* The call's frame with its reference.
LEMMA WithReferenceType ==
  ASSUME TypeOK, frame.track \in TrackSet
  PROVE  WithReference(frame) \in Frame /\ WithReference(frame).track \in TrackSet
<1>1. frame \in Frame /\ lastTrackTs[frame.track] \in Nat
  BY DEF TypeOK
<1>2. \A n \in Nat : /\ [frame EXCEPT !.ref = n] \in Frame
                     /\ [frame EXCEPT !.ref = n].track = frame.track
  BY <1>1 DEF Frame
<1> QED
  BY <1>1, <1>2 DEF WithReference

-----------------------------------------------------------------------------
(* The header and the end of the file.                                      *)

\* The header has at least Info and Tracks,
LEMMA HeaderElementsType ==
  /\ HeaderElements \in Seq(ElementNames)
  /\ Len(HeaderElements) \in Nat /\ Len(HeaderElements) >= 2
<1> DEFINE a == IF conf.mode = "file" THEN << "SeekHead" >> ELSE << >>
           b == << "Info", "Tracks" >>
           c == IF conf.chapters THEN << "Chapters" >> ELSE << >>
           d == IF conf.tags THEN << "Tags" >> ELSE << >>
<1>1. /\ a \in Seq(ElementNames) /\ b \in Seq(ElementNames) /\ c \in Seq(ElementNames) /\ d \in Seq(ElementNames)
      /\ Len(b) = 2
  <2>1. \A x, y \in ElementNames : << x, y >> \in Seq(ElementNames) /\ << x >> \in Seq(ElementNames)
    OBVIOUS
  <2>2. << >> \in Seq(ElementNames) /\ Len(b) = 2
    OBVIOUS
  <2>3. /\ "SeekHead" \in ElementNames /\ "Info" \in ElementNames /\ "Tracks" \in ElementNames
        /\ "Chapters" \in ElementNames /\ "Tags" \in ElementNames
    BY DEF ElementNames
  <2> QED
    BY <2>1, <2>2, <2>3, Zenon
<1> HIDE DEF a, b, c, d
<1>2. a \o b \in Seq(ElementNames) /\ Len(a \o b) = Len(a) + Len(b)
  BY <1>1, ConcatProperties
<1>3. a \o b \o c \in Seq(ElementNames) /\ Len(a \o b \o c) = Len(a \o b) + Len(c)
  BY <1>1, <1>2, ConcatProperties
<1>4. a \o b \o c \o d \in Seq(ElementNames) /\ Len(a \o b \o c \o d) = Len(a \o b \o c) + Len(d)
  BY <1>1, <1>3, ConcatProperties
<1>5. Len(a) \in Nat /\ Len(b) \in Nat /\ Len(c) \in Nat /\ Len(d) \in Nat
  BY <1>1, LenProperties
<1>6. HeaderElements = a \o b \o c \o d
  BY DEF HeaderElements, a, b, c, d
<1> QED
  BY <1>1, <1>2, <1>3, <1>4, <1>5, <1>6

\* an entry for each but the SeekHead,
LEMMA HeaderEntriesType == HeaderEntries \in Seq([id : ElementNames, pos : Int])
<1> DEFINE first == IF conf.mode = "file" THEN 2 ELSE 1
           n == Len(HeaderElements) - first + 1
           e == [ i \in 1 .. n |->
                    [ id |-> HeaderElements[first + i - 1], pos |-> first + i - 2 ] ]
<1>1. first \in {1, 2}
  OBVIOUS
<1> HIDE DEF first
<1>2. n \in Nat
  BY <1>1, HeaderElementsType
<1>3. ASSUME NEW i \in 1 .. n
      PROVE  [ id |-> HeaderElements[first + i - 1], pos |-> first + i - 2 ]
               \in [id : ElementNames, pos : Int]
  <2>1. first + i - 1 \in 1 .. Len(HeaderElements) /\ first + i - 2 \in Int
    BY <1>1, HeaderElementsType
  <2>2. HeaderElements[first + i - 1] \in ElementNames
    BY <2>1, HeaderElementsType, ElementOfSeq
  <2> QED
    BY <2>1, <2>2
<1>4. e \in [1 .. n -> [id : ElementNames, pos : Int]]
  BY <1>3
<1> HIDE DEF n
<1>5. e \in Seq([id : ElementNames, pos : Int])
  BY <1>2, <1>4, SeqDef
<1> QED
  BY <1>5 DEF HeaderEntries, first, n

\* and an end.
LEMMA HeaderEndType == HeaderEnd \in Int
BY HeaderElementsType DEF HeaderEnd, PayloadPos

\* The cues' track that is chosen is one of the tracks.
LEMMA DefaultCuesTrackType == DefaultCuesTrack \in TrackSet
<1> DEFINE videos == { i \in DOMAIN Tracks : Tracks[i] \in Video }
<1>1. Tracks \in Seq(Nat \ {0}) /\ Tracks # << >>
  BY ClusterAssumption, SegmentAssumption
<1>2. CASE videos = {}
  BY <1>1, <1>2 DEF DefaultCuesTrack, TrackSet
<1>3. CASE videos # {}
  <2>1. videos \subseteq Nat
    BY <1>1
  <2>2. \E i \in videos : \A j \in videos : i <= j
    BY <2>1, <1>3, LeastNatural
  <2>3. (CHOOSE i \in videos : \A j \in videos : i <= j) \in DOMAIN Tracks
    BY <2>2
  <2> QED
    BY <1>3, <2>3 DEF DefaultCuesTrack, TrackSet
<1> QED
  BY <1>2, <1>3

\* The duration is the greatest of a finite set of naturals.
LEMMA FileDurationType ==
  ASSUME TypeOK
  PROVE  FileDuration \in Nat
<1> DEFINE counted == { n \in 1 .. Len(Tracks) : n \in TrackSet /\ framesWritten[n] >= 2 }
           end(n) == lastTrackTs[n] + (lastTrackTs[n] \div (framesWritten[n] - 1))
           last   == lastTs + lastDur
           ends   == { end(n) : n \in counted } \cup { last }
<1>1. last \in Nat /\ Len(Tracks) \in Nat
  BY ClusterAssumption DEF TypeOK
<1>2. ASSUME NEW n \in counted PROVE end(n) \in Nat
  <2>1. lastTrackTs[n] \in Nat /\ framesWritten[n] \in Nat /\ framesWritten[n] - 1 \in Nat \ {0}
    BY <1>2 DEF TypeOK
  <2>2. \A a \in Nat, b \in Nat \ {0} : a + (a \div b) \in Nat
    OBVIOUS
  <2> QED
    BY <2>1, <2>2
<1> HIDE DEF last
<1>3. ends \subseteq Nat
  BY <1>1, <1>2
<1> DEFINE f == [ n \in 1 .. Len(Tracks) |-> IF n \in counted THEN end(n) ELSE 0 ]
<1>4. PICK m \in Nat : \A i \in 1 .. Len(Tracks) : f[i] <= m
  <2>1. \A i \in 1 .. Len(Tracks) : f[i] \in Nat
    <3> HIDE DEF counted, end
    <3> QED
      BY <1>2
  <2> HIDE DEF f
  <2> QED
    BY <2>1, <1>1, UpperBound
<1>5. \A n \in counted : f[n] = end(n)
  OBVIOUS
<1> DEFINE Bounds == { b \in Nat : \A x \in ends : x <= b }
<1>6. m + last \in Bounds
  <2>1. ASSUME NEW n \in counted PROVE end(n) <= m + last
    <3>1. end(n) <= m /\ end(n) \in Nat
      BY <1>2, <1>4, <1>5
    <3> QED
      BY <3>1, <1>1
  <2> HIDE DEF end, counted
  <2> QED
    BY <2>1, <1>1
<1>7. PICK b \in Bounds : \A x \in Bounds : b <= x
  <2> HIDE DEF ends
  <2> QED
    BY <1>6, LeastNatural
<1>8. b \in ends
  <2> SUFFICES ASSUME b \notin ends PROVE FALSE
    OBVIOUS
  <2> HIDE DEF ends
  <2>1. last \in ends
    BY DEF ends
  <2>2. \A x \in ends : x < b
    BY <1>3, <1>7
  <2>3. b - 1 \in Bounds
    BY <1>3, <1>7, <2>1, <2>2
  <2> QED
    BY <2>3, <1>7
<1>9. \E d \in ends : \A e \in ends : e <= d
  <2> HIDE DEF ends
  <2> QED
    BY <1>7, <1>8
<1>10. (CHOOSE d \in ends : \A e \in ends : e <= d) \in Nat
  <2> HIDE DEF ends
  <2> QED
    BY <1>3, <1>9
<1>11. lastTs + lastDur \in Nat
  BY DEF TypeOK
<1> QED
  BY <1>10, <1>11 DEF FileDuration, last

\* The size of the Cues.
LEMMA CuesSizeType ==
  ASSUME TypeOK
  PROVE  CuesSize \in Nat
<1>1. Len(cues) \in Nat
  <2>1. cues \in Seq([time : Nat, track : TrackSet, pos : Int, block : Nat])
    BY DEF TypeOK
  <2> QED
    BY <2>1
<1> QED
  BY <1>1 DEF CuesSize

-----------------------------------------------------------------------------
(* Every step keeps the invariant.                                          *)

USE DEF localVars, loopVars, placeVars, cueVars, timeVars, countVars,
        headerVars, endVars, outerVars, history

\* The invariant holds at the start.
LEMMA InitInv == Init => IInv
<1> SUFFICES ASSUME Init PROVE IInv
  OBVIOUS
<1>1. /\ << >> \in Seq(Frame) /\ << >> \in Seq(Cluster)
      /\ << >> \in Seq([time : Nat, track : TrackSet, pos : Int, block : Nat])
      /\ << >> \in Seq([id : ElementNames, pos : Int])
  OBVIOUS
<1>2. NoFrame \in Frame
  BY DEF NoFrame, Frame, Extras, Unset
<1>3. conf \in Config /\ cuesTrack \in Nat /\ MaxCalls \in Nat
  BY SegmentAssumption DEF Init, Config
<1>4. TypeOK
  <2>1. /\ queue \in Seq(Frame) /\ clusters \in Seq(Cluster) /\ accepted \in Seq(Frame)
        /\ cues \in Seq([time : Nat, track : TrackSet, pos : Int, block : Nat])
        /\ seek \in Seq([id : ElementNames, pos : Int])
    BY <1>1, Zenon DEF Init
  <2>2. /\ lastTrackTs \in [TrackSet -> Nat] /\ framesWritten \in [TrackSet -> Nat]
        /\ calls \in 0 .. MaxCalls
    BY <1>3 DEF Init
  <2>3. /\ segSize \in Int /\ duration \in Nat \cup {Unset} /\ cuesAt \in Nat \cup {Unset}
        /\ offset \in Int /\ index \in Nat \ {0} /\ lastTs \in Nat /\ lastDur \in Nat
        /\ hdrPos \in Int /\ written \in Nat /\ test \in {0, 1, 2}
    BY DEF Init, Unset
  <2>4. /\ pc \in {"idle", "test", "flushOlder", "close", "offset", "flushAll", "write",
                   "hold", "done", "undefined"}
        /\ call \in {"frame", "finalize"} /\ origin \in {"flushOlder", "flushAll", "write"}
        /\ ret \in BOOLEAN /\ forceNew \in BOOLEAN /\ newCue \in BOOLEAN
        /\ headerWritten \in BOOLEAN /\ conf \in Configs
    BY Zenon DEF Init
  <2>5. frame \in Frame /\ cuesTrack \in Nat
    BY <1>2, <1>3, Zenon DEF Init
  <2> QED
    BY <2>1, <2>2, <2>3, <2>4, <2>5, Zenon DEF TypeOK
<1>5. CallState /\ WaitingByTrack
  BY DEF Init, CallState, WaitingByTrack
<1> QED
  BY <1>4, <1>5 DEF IInv

\* The header that the first call writes.
LEMMA CheckHeaderInfoType ==
  ASSUME TypeOK, CheckHeaderInfo
  PROVE  /\ headerWritten' \in BOOLEAN /\ hdrPos' \in Int /\ written' \in Nat
         /\ seek' \in Seq([id : ElementNames, pos : Int]) /\ cuesTrack' \in Nat
<1>1. CASE headerWritten
  BY <1>1 DEF CheckHeaderInfo, TypeOK
<1>2. CASE ~headerWritten
  <2>1. "Cluster" \in ElementNames
    BY DEF ElementNames
  <2>2. [id |-> "Cluster", pos |-> HeaderEnd] \in [id : ElementNames, pos : Int]
    BY <2>1, HeaderEndType
  <2>3. Append(HeaderEntries, [id |-> "Cluster", pos |-> HeaderEnd])
          \in Seq([id : ElementNames, pos : Int])
    BY <2>2, HeaderEntriesType, AppendProperties
  <2>4. DefaultCuesTrack \in Nat
    BY DefaultCuesTrackType, TrackSetType
  <2> QED
    BY <1>2, <2>3, <2>4, HeaderElementsType, HeaderEndType
       DEF CheckHeaderInfo, TypeOK
<1> QED
  BY <1>1, <1>2

\* The frame with the number of its call.
LEMMA NextFrameType ==
  ASSUME TypeOK, NEW in \in Inputs
  PROVE  NextFrame(in) \in Frame /\ NextFrame(in).track = in.track
<1>1. in \in Frame /\ calls + 1 \in Nat
  BY SegmentAssumption DEF TypeOK
<1> QED
  BY <1>1 DEF NextFrame, Frame

\* The public calls.
LEMMA CallerStep ==
  ASSUME IInv, Caller
  PROVE  IInv'
<1> USE DEF IInv
<1>1. NoFrame \in Frame
  BY DEF NoFrame, Frame, Extras, Unset
<1>2. ASSUME BeginCall
      PROVE  /\ pc = "idle" /\ call = "frame" /\ calls' \in 0 .. MaxCalls
             /\ headerWritten' \in BOOLEAN /\ hdrPos' \in Int /\ written' \in Nat
             /\ seek' \in Seq([id : ElementNames, pos : Int]) /\ cuesTrack' \in Nat
  BY <1>2, CheckHeaderInfoType, SegmentAssumption DEF BeginCall, TypeOK, CallState
<1>3. ASSUME NEW in \in Inputs, RejectFrame(in) PROVE IInv'
  BY <1>1, <1>2, <1>3
     DEF RejectFrame, BeginCall, Return, TypeOK, CallState, WaitingByTrack
<1>4. ASSUME NEW in \in Inputs, QueueFrame(in) PROVE IInv'
  <2>1. /\ NextFrame(in) \in Frame /\ NextFrame(in).track \in TrackSet
        /\ in.track \in TrackSet
    BY <1>4, NextFrameType DEF QueueFrame, Accepts
  <2>2. queue' \in Seq(Frame) /\ accepted' \in Seq(Frame)
    BY <1>4, <2>1 DEF QueueFrame, TypeOK
  <2>3. \A i \in DOMAIN queue' : queue'[i].track \in TrackSet
    <3>1. ASSUME NEW i \in DOMAIN queue' PROVE queue'[i].track \in TrackSet
      <4>1. queue' = Append(queue, NextFrame(in)) /\ queue \in Seq(Frame)
        BY <1>4 DEF QueueFrame, TypeOK
      <4>2. (i \in DOMAIN queue /\ queue'[i] = queue[i]) \/ queue'[i] = NextFrame(in)
        BY <3>1, <4>1
      <4> QED
        BY <4>2, <2>1 DEF WaitingByTrack
    <3> QED
      BY <3>1
  <2>4. framesWritten' \in [TrackSet -> Nat]
    BY <1>4, <2>1, SMTT(30) DEF QueueFrame, TypeOK
  <2> QED
    BY <1>1, <1>2, <1>4, <2>2, <2>3, <2>4
       DEF QueueFrame, BeginCall, Return, TypeOK, CallState, WaitingByTrack
<1>5. ASSUME NEW in \in Inputs, BeginFrame(in) PROVE IInv'
  <2>1. NextFrame(in) \in Frame /\ NextFrame(in).track \in TrackSet
    BY <1>5, NextFrameType DEF BeginFrame, Accepts
  <2>2. forceNew' \in BOOLEAN
    BY <1>5 DEF BeginFrame, TypeOK, FarFromCluster, InRange
  <2> QED
    BY <1>2, <1>5, <2>1, <2>2
       DEF BeginFrame, BeginCall, TypeOK, CallState, WaitingByTrack
<1>6. CASE ForceNewClusterOnNextFrame
  BY <1>6 DEF ForceNewClusterOnNextFrame, TypeOK, CallState, WaitingByTrack
<1>7. CASE Finalize
  BY <1>7 DEF Finalize, TypeOK, CallState, WaitingByTrack
<1> QED
  BY <1>3, <1>4, <1>5, <1>6, <1>7 DEF Caller

\* Cluster::AddFrame with accurate durations: holding back and releasing.
LEMMA AddingType ==
  ASSUME IInv, NEW p, p = pc \/ (pc = "hold" /\ p = origin),
         p \in {"flushOlder", "flushAll", "write"}, p # "write" => queue # << >>
  PROVE  Adding(p) \in Frame /\ Adding(p).track \in TrackSet
BY QueueHeadType, WithReferenceType DEF IInv, CallState, Adding

\* The steps of Cluster::AddFrame with accurate durations.
LEMMA HoldStep ==
  ASSUME IInv, Hold
  PROVE  IInv' /\ SameClusters
<1> USE DEF IInv
<1> DEFINE f == Adding(pc)
           c == LastCluster
           d == HoldFrame(c, f)
<1>1. clusters # << >> /\ (pc # "write" => queue # << >>)
      /\ pc \in {"flushOlder", "flushAll", "write"}
  <2>1. pc \in {"flushOlder", "flushAll", "write"} /\ AddsFrame
    BY DEF Hold
  <2>2. CASE pc = "flushOlder"
    BY <2>1, <2>2 DEF AddsFrame, OlderFrameQueued, TypeOK
  <2>3. CASE pc = "flushAll"
    BY <2>1, <2>3 DEF AddsFrame
  <2>4. CASE pc = "write"
    BY <2>4 DEF CallState
  <2> QED
    BY <2>1, <2>2, <2>3, <2>4
<1>2. f \in Frame /\ f.track \in TrackSet
  BY <1>1, AddingType
<1>3. c \in Cluster /\ ByTrack(c)
  BY <1>1 DEF TypeOK, WaitingByTrack, LastCluster
<1> HIDE DEF f, c
<1>4. /\ d \in Cluster /\ ByTrack(d) /\ ClusterBytes(d) = ClusterBytes(c)
      /\ ClusterBytes(d) \in Nat
      /\ d.timecode = c.timecode /\ d.finalized = c.finalized
  BY <1>2, <1>3, HoldFrameType, HoldFrameByTrack, ClusterBytesType
<1>5. SetLastCluster(d)
  BY DEF Hold, c, f
<1> HIDE DEF d
<1>6. /\ clusters' \in Seq(Cluster) /\ clusters' # << >> /\ written' \in Nat
      /\ \A i \in DOMAIN clusters' : ByTrack(clusters'[i])
      /\ SameClusters
  BY <1>1, <1>4, <1>5, SetLastClusterType DEF c, SameClusters
<1> QED
  BY <1>1, <1>6 DEF Hold, TypeOK, CallState, WaitingByTrack

\* A held back frame goes into the file.
LEMMA ReleaseStep ==
  ASSUME IInv, Release
  PROVE  IInv' /\ SameClusters
<1> USE DEF IInv
<1> DEFINE c == LastCluster
           t == Adding(origin).track
           f == Head(c.stored[t])
           w == DoWriteFrame(c, f, written)
           d == DropStored(w, t)
<1>1. pc = "hold" /\ clusters # << >> /\ written \in Nat
  BY DEF Release, CallState, TypeOK
<1>2. t \in TrackSet
  BY <1>1, AddingType DEF CallState, TypeOK
<1>3. c \in Cluster /\ ByTrack(c) /\ MayRelease(c, t)
  BY <1>1 DEF TypeOK, WaitingByTrack, LastCluster, Release
<1>4. \/ SetLastCluster(d) /\ UNCHANGED pc
      \/ pc' = "undefined" /\ UNCHANGED << clusters, written >>
  BY DEF Release
<1> HIDE DEF c, t
<1>5. c.stored[t] # << >> /\ f \in Frame
  <2>1. c.stored[t] \in Seq(Frame) /\ Len(c.stored[t]) >= 2
    BY <1>2, <1>3, ClusterFields DEF MayRelease
  <2> QED
    BY <2>1
<1> HIDE DEF f
<1>6. /\ w \in Cluster /\ ByTrack(w) /\ w.stored = c.stored /\ ClusterBytes(w) >= ClusterBytes(c)
      /\ w.timecode = c.timecode /\ w.finalized = c.finalized
  BY <1>1, <1>3, <1>5, DoWriteFrameType, DoWriteFrameByTrack
<1> HIDE DEF w
<1>7. /\ d \in Cluster /\ ByTrack(d) /\ ClusterBytes(d) = ClusterBytes(w)
      /\ d.timecode = w.timecode /\ d.finalized = w.finalized
  <2>1. w.stored[t] # << >>
    BY <1>5, <1>6
  <2>2. DropStored(w, t) \in Cluster /\ ByTrack(DropStored(w, t))
    BY <1>2, <1>6, <2>1, DropStoredType, DropStoredByTrack
  <2> QED
    BY <1>2, <1>6, <2>1, <2>2, DropStoredType
<1> HIDE DEF d
<1>8. CASE SetLastCluster(d) /\ UNCHANGED pc
  <2>1. ClusterBytes(d) >= ClusterBytes(LastCluster)
    BY <1>6, <1>7 DEF c
  <2>2. /\ clusters' \in Seq(Cluster) /\ clusters' # << >> /\ written' \in Nat
        /\ \A i \in DOMAIN clusters' : ByTrack(clusters'[i])
        /\ SameClusters
    BY <1>1, <1>6, <1>7, <1>8, <2>1, SetLastClusterType DEF c, SameClusters
  <2> QED
    BY <1>1, <1>8, <2>2 DEF Release, TypeOK, CallState, WaitingByTrack
<1>9. CASE pc' = "undefined" /\ UNCHANGED << clusters, written >>
  BY <1>1, <1>9
     DEF Release, TypeOK, CallState, WaitingByTrack, SameClusters, LastCluster
<1> QED
  BY <1>4, <1>8, <1>9

\* The loops around it.
LEMMA FlushOlderStep ==
  ASSUME IInv, FlushOlder
  PROVE  IInv' /\ SameClusters
<1> USE DEF IInv
<1>1. queue # << >> /\ clusters # << >> /\ call = "frame" /\ frame.track \in TrackSet
  BY DEF FlushOlder, OlderFrameQueued, AddFrameDone, CallState
<1>2. /\ Head(queue) \in Frame /\ Head(queue).track \in TrackSet
      /\ Tail(queue) \in Seq(Frame)
      /\ \A i \in DOMAIN Tail(queue) : Tail(queue)[i].track \in TrackSet
  BY <1>1, QueueHeadType
<1>3. /\ clusters' \in Seq(Cluster) /\ clusters' # << >> /\ written' \in Nat
      /\ clusters'[Len(clusters)] \in Cluster
      /\ \A i \in DOMAIN clusters' : ByTrack(clusters'[i])
      /\ SameClusters
  BY <1>1, <1>2, AddFrameType DEF FlushOlder
<1>4. /\ newCue' \in BOOLEAN
      /\ cues' \in Seq([time : Nat, track : TrackSet, pos : Int, block : Nat])
  BY <1>1, <1>2, <1>3, AddCuePointType DEF FlushOlder
<1>5. lastTs' \in Nat /\ lastTrackTs' \in [TrackSet -> Nat]
  BY <1>2, RaiseLastTsType DEF FlushOlder
<1> QED
  BY <1>1, <1>2, <1>3, <1>4, <1>5
     DEF FlushOlder, TypeOK, CallState, WaitingByTrack

\* It is refused.
LEMMA FlushOlderFailsStep ==
  ASSUME IInv, FlushOlderFails
  PROVE  IInv' /\ SameClusters
<1> USE DEF IInv
<1>1. queue # << >> /\ clusters # << >>
  BY DEF FlushOlderFails, OlderFrameQueued
<1>2. Head(queue) \in Frame /\ Head(queue).track \in TrackSet
  BY <1>1, QueueHeadType
<1>3. /\ clusters' \in Seq(Cluster) /\ clusters' # << >> /\ written' \in Nat
      /\ \A i \in DOMAIN clusters' : ByTrack(clusters'[i])
      /\ SameClusters
  BY <1>1, <1>2, AddFrameType DEF FlushOlderFails
<1> QED
  BY <1>1, <1>3 DEF FlushOlderFails, TypeOK, CallState, WaitingByTrack

\* WriteFramesAll.
LEMMA FlushAllStep ==
  ASSUME IInv, FlushAll
  PROVE  IInv' /\ SameClusters
<1> USE DEF IInv
<1>1. queue # << >> /\ clusters # << >>
  BY DEF FlushAll
<1>2. pc = "flushAll" \/ (pc = "hold" /\ origin = "flushAll")
  BY DEF FlushAll, AddFrameDone, AddFrameFails
<1>3. call = "frame" => frame.track \in TrackSet
  BY <1>2 DEF CallState
<1>4. /\ Head(queue) \in Frame /\ Head(queue).track \in TrackSet
      /\ Tail(queue) \in Seq(Frame)
      /\ \A i \in DOMAIN Tail(queue) : Tail(queue)[i].track \in TrackSet
  BY <1>1, QueueHeadType
<1>5. /\ clusters' \in Seq(Cluster) /\ clusters' # << >> /\ written' \in Nat
      /\ clusters'[Len(clusters)] \in Cluster
      /\ \A i \in DOMAIN clusters' : ByTrack(clusters'[i])
      /\ SameClusters
  BY <1>1, <1>4, AddFrameType DEF FlushAll
<1>6. /\ newCue' \in BOOLEAN
      /\ cues' \in Seq([time : Nat, track : TrackSet, pos : Int, block : Nat])
  <2>1. CASE AddCuePoint(Head(queue))
    BY <1>1, <1>4, <1>5, <2>1, AddCuePointType
  <2>2. CASE UNCHANGED cueVars
    BY <2>2 DEF TypeOK
  <2> QED
    BY <2>1, <2>2 DEF FlushAll
<1>7. lastTs' \in Nat /\ lastTrackTs' \in [TrackSet -> Nat]
  <2>1. CASE RaiseLastTs(Head(queue))
    BY <1>4, <2>1, RaiseLastTsType
  <2>2. CASE UNCHANGED timeVars
    BY <2>2 DEF TypeOK
  <2> QED
    BY <2>1, <2>2 DEF FlushAll
<1> QED
  BY <1>3, <1>4, <1>5, <1>6, <1>7, SMTT(30)
     DEF FlushAll, TypeOK, CallState, WaitingByTrack

\* The call's own frame.
LEMMA WriteFrameStep ==
  ASSUME IInv, WriteFrame
  PROVE  IInv' /\ SameClusters
<1> USE DEF IInv
<1> DEFINE f == WithReference(frame)
<1>1. /\ clusters # << >> /\ call = "frame" /\ frame.track \in TrackSet
      /\ frame \in Frame
  BY DEF WriteFrame, AddFrameDone, AddFrameFails, CallState, TypeOK
<1>2. f \in Frame /\ f.track \in TrackSet
  BY <1>1, WithReferenceType
<1>3. /\ clusters' \in Seq(Cluster) /\ clusters' # << >> /\ written' \in Nat
      /\ clusters'[Len(clusters)] \in Cluster
      /\ \A i \in DOMAIN clusters' : ByTrack(clusters'[i])
      /\ SameClusters
  BY <1>1, <1>2, AddFrameType DEF WriteFrame
<1>4. NoFrame \in Frame
  BY DEF NoFrame, Frame, Extras, Unset
<1>5. /\ newCue' \in BOOLEAN
      /\ cues' \in Seq([time : Nat, track : TrackSet, pos : Int, block : Nat])
  <2>1. CASE AddCuePoint(frame)
    BY <1>1, <1>3, <2>1, AddCuePointType
  <2>2. CASE UNCHANGED cueVars
    BY <2>2 DEF TypeOK
  <2> QED
    BY <2>1, <2>2 DEF WriteFrame
<1>6. /\ lastTs' \in Nat /\ lastTrackTs' \in [TrackSet -> Nat]
      /\ lastDur' \in Nat /\ framesWritten' \in [TrackSet -> Nat]
      /\ accepted' \in Seq(Frame)
  <2>1. frame.ts \in Nat /\ Duration(frame) \in Nat
    BY <1>1, FrameFields DEF Duration
  <2>2. /\ [lastTrackTs EXCEPT ![frame.track] = frame.ts] \in [TrackSet -> Nat]
        /\ [framesWritten EXCEPT ![frame.track] = @ + 1] \in [TrackSet -> Nat]
    BY <1>1, <2>1 DEF TypeOK
  <2>3. Append(accepted, f) \in Seq(Frame)
    BY <1>2, AppendProperties DEF TypeOK
  <2> HIDE DEF f
  <2> QED
    BY <2>1, <2>2, <2>3 DEF WriteFrame, TypeOK, f
<1> QED
  BY <1>1, <1>3, <1>4, <1>5, <1>6
     DEF WriteFrame, Return, TypeOK, CallState, WaitingByTrack

\* Closing and opening clusters.
LEMMA CloseStoredStep ==
  ASSUME IInv, CloseStored
  PROVE  IInv' /\ SameClusters
<1> USE DEF IInv
<1> DEFINE c == LastCluster
           t == NextStored(c)
           f == WithLastDuration(c, Head(c.stored[t]), call = "frame", frame.ts)
           w == DoWriteFrame(c, f, written)
           d == DropStored(w, t)
<1>1. pc = "close" /\ clusters # << >> /\ written \in Nat
  BY DEF CloseStored, CallState, TypeOK
<1>2. c \in Cluster /\ ByTrack(c) /\ HasStored(c)
  BY <1>1 DEF TypeOK, WaitingByTrack, LastCluster, CloseStored
<1>3. SetLastCluster(d) /\ (Goto("close") \/ Fail)
  BY DEF CloseStored
<1> HIDE DEF c
<1>4. t \in TrackSet /\ c.stored[t] # << >>
  BY <1>2, NextStoredType
<1>5. Head(c.stored[t]) \in Frame /\ Head(c.stored[t]).track = t
  BY <1>2, <1>4, DropStoredType, DropStoredByTrack
<1>6. f \in Frame
  <2>1. frame.ts \in Nat /\ (call = "frame") \in BOOLEAN
    BY FrameFields DEF TypeOK
  <2> HIDE DEF t
  <2> QED
    BY <1>2, <1>4, <1>5, <2>1, WithLastDurationType
<1> HIDE DEF t, f
<1>7. /\ w \in Cluster /\ ByTrack(w) /\ w.stored = c.stored /\ ClusterBytes(w) >= ClusterBytes(c)
      /\ w.timecode = c.timecode /\ w.finalized = c.finalized
  BY <1>1, <1>2, <1>6, DoWriteFrameType, DoWriteFrameByTrack
<1> HIDE DEF w
<1>8. /\ d \in Cluster /\ ByTrack(d) /\ ClusterBytes(d) = ClusterBytes(w)
      /\ d.timecode = w.timecode /\ d.finalized = w.finalized
  <2>1. w.stored[t] # << >>
    BY <1>4, <1>7
  <2>2. DropStored(w, t) \in Cluster /\ ByTrack(DropStored(w, t))
    BY <1>4, <1>7, <2>1, DropStoredType, DropStoredByTrack
  <2> QED
    BY <1>4, <1>7, <2>1, <2>2, DropStoredType
<1> HIDE DEF d
<1>9. /\ clusters' \in Seq(Cluster) /\ clusters' # << >> /\ written' \in Nat
      /\ \A i \in DOMAIN clusters' : ByTrack(clusters'[i])
      /\ SameClusters
  <2>1. ClusterBytes(d) >= ClusterBytes(LastCluster)
    BY <1>7, <1>8 DEF c
  <2> QED
    BY <1>1, <1>3, <1>7, <1>8, <2>1, SetLastClusterType DEF c, SameClusters
<1>10. NoFrame \in Frame
  BY DEF NoFrame, Frame, Extras, Unset
<1>11. /\ UNCHANGED << call, origin, loopVars, queue, forceNew, cueVars, timeVars,
                        countVars, outerVars, history >>
       /\ call = "frame" => frame.track \in TrackSet
  BY <1>1 DEF CloseStored, CallState
<1>12. CASE Goto("close")
  BY <1>9, <1>11, <1>12 DEF Goto, TypeOK, CallState, WaitingByTrack
<1>13. CASE Fail
  BY <1>9, <1>10, <1>11, <1>13, ZenonT(40) DEF Fail, Return, TypeOK, CallState, WaitingByTrack
<1> QED
  BY <1>3, <1>12, <1>13

\* A cluster is closed.
LEMMA CloseClusterStep ==
  ASSUME IInv, CloseCluster
  PROVE  IInv'
<1> USE DEF IInv
<1> DEFINE c == LastCluster
           d == [c EXCEPT !.finalized = TRUE]
<1>1. pc = "close" /\ clusters # << >>
  BY DEF CloseCluster, CallState
<1>2. c \in Cluster /\ ByTrack(c)
  BY <1>1 DEF TypeOK, WaitingByTrack, LastCluster
<1>3. \/ SetLastCluster(d) /\ Measure
      \/ Fail /\ UNCHANGED << clusters, written, loopVars >>
  BY DEF CloseCluster
<1>4. NoFrame \in Frame
  BY DEF NoFrame, Frame, Extras, Unset
<1>5. CASE SetLastCluster(d) /\ Measure
  <2> HIDE DEF c
  <2>1. /\ d \in Cluster /\ ClusterBytes(d) = ClusterBytes(c) /\ ClusterBytes(c) \in Nat
    BY <1>2, FinalizedType, ClusterBytesType
  <2>2. ByTrack(d)
    <3>1. d.stored = c.stored
      BY <1>2, SetFinalized
    <3> HIDE DEF d
    <3> QED
      BY <1>2, <3>1 DEF ByTrack
  <2> HIDE DEF d
  <2>3. /\ clusters' \in Seq(Cluster) /\ clusters' # << >> /\ written' \in Nat
        /\ \A i \in DOMAIN clusters' : ByTrack(clusters'[i])
    BY <1>1, <1>5, <2>1, <2>2, SetLastClusterType DEF c
  <2>4. offset' \in Int /\ index' \in Nat \ {0}
    BY <1>5 DEF Measure, TypeOK
  <2> QED
    BY <1>1, <1>5, <2>3, <2>4, SMTT(30)
       DEF CloseCluster, Measure, Goto, TypeOK, CallState, WaitingByTrack
<1>6. CASE Fail /\ UNCHANGED << clusters, written, loopVars >>
  BY <1>1, <1>4, <1>6, ZenonT(40)
     DEF CloseCluster, Fail, Return, TypeOK, CallState, WaitingByTrack
<1> QED
  BY <1>3, <1>5, <1>6

\* A cluster is measured.
LEMMA AddClusterSizeStep ==
  ASSUME IInv, AddClusterSize
  PROVE  IInv'
<1> USE DEF IInv
<1>1. offset' \in Int /\ index' \in Nat \ {0}
  <2>1. index \in 1 .. Len(clusters)
    BY DEF AddClusterSize, Measured, TypeOK
  <2>2. clusters[index] \in Cluster
    BY <2>1 DEF TypeOK
  <2>3. ClusterSize(clusters[index]) \in Nat
    BY <2>2, ClusterBytesType
  <2> QED
    BY <2>3 DEF AddClusterSize, TypeOK
<1> QED
  BY <1>1 DEF AddClusterSize, TypeOK, CallState, WaitingByTrack

\* The test for a new cluster.
LEMMA TestForNewClusterStep ==
  ASSUME IInv, TestForNewCluster
  PROVE  IInv'
<1> USE DEF IInv
<1>1. pc = "test" /\ call = "frame" /\ frame.track \in TrackSet
  BY DEF TestForNewCluster, CallState
<1>2. TestFrame(frame) \in {-1, 0, 1, 2}
  BY DEF TestFrame
<1>3. TestFrame(frame) = 0 => clusters # << >>
  BY DEF TestFrame
<1>4. NoFrame \in Frame
  BY DEF NoFrame, Frame, Extras, Unset
<1>5. CASE TestFrame(frame) < 0
  BY <1>1, <1>4, <1>5
     DEF TestForNewCluster, Return, TypeOK, CallState, WaitingByTrack
<1>6. CASE ~(TestFrame(frame) < 0)
  <2>1. test' \in {0, 1, 2} /\ forceNew' = FALSE
    BY <1>2, <1>6 DEF TestForNewCluster
  <2>2. pc' = "flushOlder" \/ (pc' = "flushAll" /\ clusters # << >>)
    BY <1>2, <1>3, <1>6 DEF TestForNewCluster
  <2>3. UNCHANGED << ret, frame, call, origin, loopVars, placeVars, cueVars, timeVars,
                     countVars, outerVars, history >>
    BY <1>6 DEF TestForNewCluster
  <2> QED
    BY <1>1, <2>1, <2>2, <2>3 DEF TypeOK, CallState, WaitingByTrack
<1> QED
  BY <1>5, <1>6

\* A cluster is added.
LEMMA OpenClusterStep ==
  ASSUME IInv, OpenCluster
  PROVE  IInv' /\ \E c \in Cluster : clusters' = Append(clusters, c) /\ ~c.finalized
<1> USE DEF IInv
<1> DEFINE tc     == Timecode(frame.ts)
           oldest == IF queue = << >> THEN tc ELSE Timecode(Head(queue).ts)
           start  == IF oldest < tc THEN oldest ELSE tc
           c      == NewCluster(start, offset)
<1>1. pc = "offset" /\ call = "frame" /\ frame.track \in TrackSet
  BY DEF OpenCluster, Measured, CallState
<1>2. start \in Nat
  <2>1. frame.ts \in Nat /\ (queue # << >> => Head(queue).ts \in Nat)
    BY QueueHeadType, FrameFields DEF TypeOK
  <2> QED
    BY <2>1, TimecodeType
<1>3. c \in Cluster /\ ByTrack(c) /\ ~c.finalized
  <2>1. c \in Cluster
    BY <1>2, NewClusterType DEF TypeOK
  <2>2. ~c.finalized /\ \A t \in TrackSet : c.stored[t] = << >>
    BY DEF NewCluster
  <2> HIDE DEF c
  <2> QED
    BY <2>1, <2>2 DEF ByTrack
<1>4. clusters' = Append(clusters, c)
  BY DEF OpenCluster
<1> HIDE DEF c
<1>5. clusters' \in Seq(Cluster) /\ clusters' # << >>
  <2>1. clusters \in Seq(Cluster)
    BY DEF TypeOK
  <2> QED
    BY <1>3, <1>4, <2>1, AppendProperties
<1>6. \A i \in DOMAIN clusters' : ByTrack(clusters'[i])
  <2>1. \A i \in DOMAIN clusters' : (i \in DOMAIN clusters /\ clusters'[i] = clusters[i])
                                       \/ clusters'[i] = c
    BY <1>4 DEF TypeOK
  <2> QED
    BY <1>3, <2>1 DEF WaitingByTrack
<1>7. newCue' \in BOOLEAN
  <2>1. conf.outputCues \in BOOLEAN
    BY SegmentAssumption DEF TypeOK, Config
  <2> QED
    BY <2>1 DEF OpenCluster, TypeOK
<1> QED
  BY <1>1, <1>3, <1>4, <1>5, <1>6, <1>7, SMTT(30)
     DEF OpenCluster, TypeOK, CallState, WaitingByTrack

\* The ends of the loops that write the queue,
LEMMA FlushOlderEndStep ==
  ASSUME IInv, FlushOlderEnd
  PROVE  IInv'
<1> USE DEF IInv
<1>1. pc = "flushOlder" /\ call = "frame" /\ frame.track \in TrackSet
  BY DEF FlushOlderEnd, CallState
<1>2. CASE clusters = << >> /\ Measure
  BY <1>1, <1>2 DEF FlushOlderEnd, Measure, Goto, TypeOK, CallState, WaitingByTrack
<1>3. CASE clusters # << >> /\ Goto("close") /\ UNCHANGED loopVars
  BY <1>1, <1>3 DEF FlushOlderEnd, Goto, TypeOK, CallState, WaitingByTrack
<1> QED
  BY <1>2, <1>3 DEF FlushOlderEnd

\* with clusters,
LEMMA FlushAllEndStep ==
  ASSUME IInv, FlushAllEnd
  PROVE  IInv'
<1> USE DEF IInv
<1>1. /\ pc = "flushAll"
      /\ call = "frame" => frame.track \in TrackSet /\ clusters # << >>
  BY DEF FlushAllEnd, CallState
<1>2. \/ call = "frame" /\ Goto("test") /\ UNCHANGED loopVars
      \/ call = "frame" /\ Goto("write") /\ UNCHANGED loopVars
      \/ call # "frame" /\ clusters # << >> /\ Goto("close") /\ UNCHANGED loopVars
      \/ call # "frame" /\ Measure
  BY DEF FlushAllEnd
<1>3. CASE Goto("test") /\ call = "frame" /\ UNCHANGED loopVars
  BY <1>1, <1>3 DEF FlushAllEnd, Goto, TypeOK, CallState, WaitingByTrack
<1>4. CASE Goto("write") /\ call = "frame" /\ UNCHANGED loopVars
  BY <1>1, <1>4 DEF FlushAllEnd, Goto, TypeOK, CallState, WaitingByTrack
<1>5. CASE Goto("close") /\ clusters # << >> /\ UNCHANGED loopVars
  BY <1>1, <1>5 DEF FlushAllEnd, Goto, TypeOK, CallState, WaitingByTrack
<1>6. CASE Measure
  BY <1>1, <1>6 DEF FlushAllEnd, Measure, Goto, TypeOK, CallState, WaitingByTrack
<1> QED
  BY <1>2, <1>3, <1>4, <1>5, <1>6

\* and without.
LEMMA FlushAllFailsStep ==
  ASSUME IInv, FlushAllFails
  PROVE  IInv'
<1> USE DEF IInv
<1>1. call = "finalize"
  BY DEF FlushAllFails, CallState, TypeOK
<1> QED
  BY <1>1, ZenonT(40) DEF FlushAllFails, Fail, TypeOK, CallState, WaitingByTrack

\* The end of Finalize.
LEMMA FinishFileStep ==
  ASSUME IInv, FinishFile
  PROVE  IInv'
<1> USE DEF IInv
<1>1. pc = "offset" /\ call = "finalize"
  BY DEF FinishFile, Measured
<1>2. CuesSize \in Nat /\ FileDuration \in Nat /\ offset \in Int /\ written \in Nat
  BY CuesSizeType, FileDurationType DEF TypeOK
<1>3. Append(seek, [id |-> "Cues", pos |-> offset]) \in Seq([id : ElementNames, pos : Int])
  <2>1. "Cues" \in ElementNames
    BY DEF ElementNames
  <2>2. [id |-> "Cues", pos |-> offset] \in [id : ElementNames, pos : Int]
    BY <1>2, <2>1
  <2> QED
    BY <2>2, AppendProperties DEF TypeOK
<1>4. seek' \in Seq([id : ElementNames, pos : Int]) /\ written' \in Nat
      /\ duration' \in Nat \cup {Unset} /\ segSize' \in Int /\ cuesAt' \in Nat \cup {Unset}
  <2>1. \/ /\ duration' = FileDuration /\ segSize' = offset + CuesSize
           /\ seek' = Append(seek, [id |-> "Cues", pos |-> offset])
           /\ cuesAt' = written /\ written' = written + CuesSize
        \/ /\ duration' = FileDuration /\ segSize' = offset
           /\ UNCHANGED << seek, cuesAt, written >>
        \/ UNCHANGED << seek, written, endVars >>
    BY Zenon DEF FinishFile
  <2>2. offset + CuesSize \in Int /\ written + CuesSize \in Nat
    BY <1>2
  <2> QED
    BY <1>2, <1>3, <2>1, <2>2 DEF TypeOK
<1>5. ret' \in BOOLEAN
  BY Zenon DEF FinishFile
<1> QED
  BY <1>1, <1>4, <1>5 DEF FinishFile, TypeOK, CallState, WaitingByTrack

\* Together: the invariant is inductive.
LEMMA NextInv == IInv /\ [Next]_vars => IInv'
<1>1. ASSUME IInv, Step PROVE IInv'
  BY <1>1, HoldStep, ReleaseStep, AddClusterSizeStep, TestForNewClusterStep,
     FlushOlderStep, FlushOlderFailsStep, FlushOlderEndStep, CloseStoredStep,
     CloseClusterStep, OpenClusterStep, FlushAllStep, FlushAllEndStep,
     FlushAllFailsStep, WriteFrameStep, FinishFileStep DEF Step
<1>2. ASSUME IInv, UNCHANGED vars PROVE IInv'
  BY <1>2 DEF vars, IInv, TypeOK, CallState, WaitingByTrack
<1> QED
  BY <1>1, <1>2, CallerStep DEF Next, Terminated

\* Every variable keeps its type, whatever the tracks, the frames and the
\* settings: the lists that are read at the front are not empty there, the
\* duration of a last frame is a number the field can hold, and the file never
\* gets shorter.
THEOREM TypeCorrect == Spec => []TypeOK
<1>1. Init => IInv
  BY InitInv
<1>2. IInv /\ [Next]_vars => IInv'
  BY NextInv
<1>3. IInv => TypeOK
  BY DEF IInv
<1> QED
  BY <1>1, <1>2, <1>3, PTL DEF Spec

-----------------------------------------------------------------------------
(* Where frames are put.                                                     *)

\* The steps that write to the last cluster and touch no other.
WritesToLast == \/ Hold \/ Release \/ FlushOlder \/ FlushOlderFails \/ CloseStored
                \/ FlushAll \/ WriteFrame

\* They keep the timecodes of the clusters and which are finalized.
LEMMA WritesToLastKeeps ==
  ASSUME IInv, WritesToLast
  PROVE  SameClusters
BY HoldStep, ReleaseStep, FlushOlderStep, FlushOlderFailsStep, CloseStoredStep,
   FlushAllStep, WriteFrameStep DEF WritesToLast

-----------------------------------------------------------------------------
(* QueueFitsCluster.  It is not inductive: the queue must fit the cluster    *)
(* through the calls' inner states that come back to these, and it must be   *)
(* empty before the call's own frame is written.                             *)

InFlushOlder == pc = "flushOlder" \/ (pc = "hold" /\ origin = "flushOlder")
InWrite      == pc = "write" \/ (pc = "hold" /\ origin = "write")

QueueFits == clusters # << >> => \A i \in DOMAIN queue : InRange(LastCluster, queue[i])

QueueInv ==
  /\ pc \in {"idle", "test"} \/ InFlushOlder \/ (pc = "close" /\ call = "frame")
       => QueueFits
  /\ InWrite => queue = << >>

\* Whether a frame fits depends on the timecode of the last cluster only.
LEMMA SameFits ==
  ASSUME TypeOK, SameClusters, QueueFits, UNCHANGED queue
  PROVE  QueueFits'
<1>1. CASE clusters = << >>
  BY <1>1 DEF SameClusters, QueueFits, TypeOK
<1>2. CASE clusters # << >>
  <2>1. LastCluster'.timecode = LastCluster.timecode
    BY <1>2 DEF SameClusters, LastCluster
  <2> QED
    BY <1>2, <2>1 DEF QueueFits, InRange
<1> QED
  BY <1>1, <1>2

\* A frame is queued only if it fits.
LEMMA QueueInvCaller ==
  ASSUME IInv, QueueInv, Caller
  PROVE  QueueInv'
<1> USE DEF InFlushOlder, InWrite
<1>1. ASSUME NEW in \in Inputs, RejectFrame(in) PROVE QueueInv'
  BY <1>1 DEF RejectFrame, BeginCall, Return, QueueInv, QueueFits, LastCluster
<1>2. ASSUME NEW in \in Inputs, QueueFrame(in) PROVE QueueInv'
  <2>1. /\ queue' = Append(queue, NextFrame(in)) /\ queue \in Seq(Frame)
        /\ UNCHANGED clusters /\ pc = "idle" /\ pc' = "idle"
    BY <1>2 DEF QueueFrame, BeginCall, Return, IInv, TypeOK
  <2>2. clusters # << >> => InRange(LastCluster, NextFrame(in))
    <3>1. clusters # << >> => InRange(LastCluster, in)
      BY <1>2 DEF QueueFrame, HoldsBack, FarFromCluster
    <3>2. NextFrame(in).ts = in.ts
      BY SegmentAssumption DEF NextFrame, Frame
    <3> QED
      BY <3>1, <3>2 DEF InRange
  <2>3. \A i \in DOMAIN queue' : (i \in DOMAIN queue /\ queue'[i] = queue[i])
                                   \/ queue'[i] = NextFrame(in)
    BY <2>1
  <2> QED
    BY <2>1, <2>2, <2>3 DEF QueueInv, QueueFits, LastCluster
<1>3. ASSUME NEW in \in Inputs, BeginFrame(in) PROVE QueueInv'
  BY <1>3 DEF BeginFrame, BeginCall, QueueInv, QueueFits, LastCluster
<1>4. CASE ForceNewClusterOnNextFrame
  BY <1>4 DEF ForceNewClusterOnNextFrame, QueueInv, QueueFits, LastCluster
<1>5. CASE Finalize
  BY <1>5 DEF Finalize, QueueInv
<1> QED
  BY <1>1, <1>2, <1>3, <1>4, <1>5 DEF Caller

\* The queue is emptied before the cluster it fitted is replaced.
LEMMA QueueInvStep ==
  ASSUME IInv, QueueInv, Step
  PROVE  QueueInv'
<1> USE DEF InFlushOlder, InWrite, IInv
<1>1. CASE Hold
  <2>1. UNCHANGED queue /\ pc' = "hold" /\ origin' = pc
    BY <1>1 DEF Hold
  <2>2. SameClusters
    BY <1>1, WritesToLastKeeps DEF WritesToLast
  <2> QED
    BY <2>1, <2>2, SameFits DEF QueueInv
<1>2. CASE Release
  <2>1. UNCHANGED << queue, origin >> /\ pc = "hold" /\ pc' \in {"hold", "undefined"}
    BY <1>2 DEF Release
  <2>2. SameClusters
    BY <1>2, WritesToLastKeeps DEF WritesToLast
  <2> QED
    BY <2>1, <2>2, SameFits DEF QueueInv
<1>3. CASE TestForNewCluster
  <2>1. /\ UNCHANGED << queue, clusters, origin >> /\ pc = "test"
        /\ pc' \in {"idle", "flushOlder", "flushAll"}
    BY <1>3 DEF TestForNewCluster, Return
  <2> QED
    BY <2>1 DEF QueueInv, QueueFits, LastCluster
<1>4. CASE FlushOlder
  <2>1. /\ queue # << >> /\ queue \in Seq(Frame) /\ queue' = Tail(queue)
        /\ pc' = "flushOlder" /\ InFlushOlder
    BY <1>4 DEF FlushOlder, OlderFrameQueued, AddFrameDone, TypeOK
  <2>2. SameClusters
    BY <1>4, WritesToLastKeeps DEF WritesToLast
  <2>3. \A i \in DOMAIN queue' : i + 1 \in DOMAIN queue /\ queue'[i] = queue[i + 1]
    BY <2>1
  <2>4. clusters # << >> /\ LastCluster'.timecode = LastCluster.timecode
    BY <1>4, <2>2 DEF FlushOlder, OlderFrameQueued, SameClusters, LastCluster
  <2>5. \A i \in DOMAIN queue : InRange(LastCluster, queue[i])
    BY <2>1, <2>4 DEF QueueInv, QueueFits
  <2>6. \A i \in DOMAIN queue' : InRange(LastCluster', queue'[i])
    BY <2>3, <2>4, <2>5 DEF InRange
  <2> QED
    BY <2>1, <2>6 DEF QueueInv, QueueFits
<1>5. CASE FlushOlderFails
  BY <1>5 DEF FlushOlderFails, QueueInv
<1>6. CASE FlushOlderEnd
  <2>1. /\ UNCHANGED << queue, clusters >> /\ pc = "flushOlder"
        /\ pc' \in {"close", "offset"}
    BY <1>6 DEF FlushOlderEnd, Measure, Goto
  <2> QED
    BY <2>1 DEF QueueInv, QueueFits, LastCluster
<1>7. CASE CloseStored
  <2>1. /\ UNCHANGED << queue, call, origin >> /\ pc = "close"
        /\ pc' = "close" \/ (pc' = "idle" /\ call = "frame") \/ pc' = "done"
    BY <1>7 DEF CloseStored, Goto, Fail, Return
  <2>2. SameClusters
    BY <1>7, WritesToLastKeeps DEF WritesToLast
  <2> QED
    BY <2>1, <2>2, SameFits DEF QueueInv
<1>8. CASE CloseCluster
  <2>1. /\ UNCHANGED << queue, call, origin >> /\ pc = "close"
        /\ \/ pc' \in {"offset", "done"}
           \/ pc' = "idle" /\ call = "frame" /\ UNCHANGED clusters
    BY <1>8 DEF CloseCluster, Measure, Goto, Fail, Return
  <2> QED
    BY <2>1 DEF QueueInv, QueueFits, LastCluster
<1>9. CASE FlushAllEnd
  <2>1. queue = << >> /\ UNCHANGED queue
    BY <1>9 DEF FlushAllEnd
  <2> QED
    BY <2>1 DEF QueueInv, QueueFits
<1>10. CASE WriteFrame
  <2>1. queue = << >> /\ UNCHANGED queue
    BY <1>10 DEF WriteFrame, AddFrameDone, AddFrameFails, QueueInv
  <2> QED
    BY <2>1 DEF QueueInv, QueueFits
<1>11. CASE FlushAllFails
  <2>1. pc' = "done"
    BY <1>11 DEF FlushAllFails, Fail, CallState
  <2> QED
    BY <2>1 DEF QueueInv
<1>12. CASE AddClusterSize \/ OpenCluster \/ FlushAll \/ FinishFile
  <2>1. pc' \in {"offset", "flushAll", "done"}
    BY <1>12 DEF AddClusterSize, OpenCluster, FlushAll, FinishFile
  <2> QED
    BY <2>1 DEF QueueInv
<1> QED
  BY <1>1, <1>2, <1>3, <1>4, <1>5, <1>6, <1>7, <1>8, <1>9, <1>10, <1>11, <1>12 DEF Step

\* Whatever the frames, their order and the settings, an audio frame that waits
\* for a call of AddFrame fits the cluster that is open: a frame too far ahead
\* is never queued, and nothing that is queued outlives a change of cluster.
THEOREM QueueAlwaysFits == Spec => []QueueFitsCluster
<1>1. Init => IInv /\ QueueInv
  <2>1. Init => QueueInv
    BY DEF Init, QueueInv, QueueFits, InWrite
  <2> QED
    BY <2>1, InitInv
<1>2. IInv /\ QueueInv /\ [Next]_vars => IInv' /\ QueueInv'
  <2>1. ASSUME QueueInv, UNCHANGED vars PROVE QueueInv'
    BY <2>1 DEF vars, QueueInv, QueueFits, InFlushOlder, InWrite, LastCluster
  <2> QED
    BY <2>1, NextInv, QueueInvCaller, QueueInvStep DEF Next, Terminated
<1>3. IInv /\ QueueInv => QueueFitsCluster
  BY DEF QueueInv, QueueFits, QueueFitsCluster, InFlushOlder
<1> QED
  BY <1>1, <1>2, <1>3, PTL DEF Spec

-----------------------------------------------------------------------------
(* ClosedClustersStay.  The last cluster is open wherever a frame can be     *)
(* added to it, and closed where the next one is opened.                     *)

OpenInv ==
  /\ \A i \in 1 .. Len(clusters) - 1 : clusters[i].finalized
  /\ clusters # << >> =>
       /\ LastCluster.finalized => pc \in {"offset", "done"}
       /\ pc = "offset" /\ call = "frame" => LastCluster.finalized

ClosedStay == /\ \A i \in DOMAIN clusters : clusters[i].finalized =>
                   i \in DOMAIN clusters' /\ clusters'[i] = clusters[i]
              /\ \A i \in 1 .. Len(clusters') - 1 : clusters'[i].finalized

\* The last cluster and the others.
LEMMA LastOfDomain ==
  ASSUME TypeOK
  PROVE  /\ clusters \in Seq(Cluster) /\ Len(clusters) \in Nat
         /\ \A i \in DOMAIN clusters : i \in 1 .. Len(clusters) - 1 \/ i = Len(clusters)
         /\ clusters # << >> => Len(clusters) \in DOMAIN clusters
BY DEF TypeOK

\* A step that writes to the last cluster finds it open.
LEMMA OpenInvWrites ==
  ASSUME IInv, IInv', OpenInv, WritesToLast
  PROVE  OpenInv' /\ ClosedStay
<1> USE DEF IInv
<1>1. SameClusters
  BY WritesToLastKeeps
<1>2. /\ clusters # << >> /\ pc \notin {"offset", "done"}
      /\ pc' # "offset"
  BY DEF WritesToLast, Hold, Release, FlushOlder, FlushOlderFails, CloseStored,
         FlushAll, WriteFrame, AddsFrame, OlderFrameQueued, AddFrameDone,
         AddFrameFails, Goto, Fail, Return, CallState
<1>3. ~LastCluster.finalized /\ LastCluster = clusters[Len(clusters)]
  BY <1>2 DEF OpenInv, LastCluster
<1>4. ClosedStay
  <2>1. \A i \in 1 .. Len(clusters) - 1 : clusters'[i] = clusters[i] /\ clusters[i].finalized
    BY <1>1 DEF SameClusters, OpenInv
  <2>2. Len(clusters') = Len(clusters) /\ clusters' \in Seq(Cluster)
    BY <1>1 DEF SameClusters, TypeOK
  <2>3. \A i \in DOMAIN clusters : i \in DOMAIN clusters'
                                   /\ (i \in 1 .. Len(clusters) - 1 \/ i = Len(clusters))
    BY <2>2, LastOfDomain
  <2> QED
    BY <1>3, <2>1, <2>2, <2>3 DEF ClosedStay
<1>5. ~LastCluster'.finalized
  BY <1>1, <1>2, <1>3 DEF SameClusters, LastCluster
<1> QED
  BY <1>2, <1>4, <1>5 DEF OpenInv, ClosedStay

\* Which clusters are open, and what a step may change, over every step.
LEMMA OpenInvNext ==
  ASSUME IInv, IInv', OpenInv, [Next]_vars
  PROVE  OpenInv' /\ ClosedStay
<1> USE DEF IInv
<1>1. CASE WritesToLast
  BY <1>1, OpenInvWrites
<1>2. CASE CloseCluster
  <2> DEFINE d == [LastCluster EXCEPT !.finalized = TRUE]
  <2>1. /\ pc = "close" /\ clusters # << >> /\ UNCHANGED call
        /\ ~LastCluster.finalized /\ LastCluster \in Cluster /\ clusters \in Seq(Cluster)
    <3>1. pc = "close" /\ UNCHANGED call
      BY <1>2 DEF CloseCluster
    <3>2. clusters # << >>
      BY <3>1 DEF CallState
    <3>3. clusters \in Seq(Cluster) /\ LastCluster \in Cluster
      BY <3>2, LastOfDomain, ElementOfSeq DEF LastCluster
    <3>4. ~LastCluster.finalized
      BY <3>1, <3>2 DEF OpenInv
    <3> QED
      BY <3>1, <3>2, <3>3, <3>4
  <2>2. CASE SetLastCluster(d) /\ Measure
    <3>1. d.finalized
      BY <2>1, FinalizedType
    <3> HIDE DEF d
    <3>2. /\ clusters' = [clusters EXCEPT ![Len(clusters)] = d]
          /\ pc' = "offset"
      BY <2>2 DEF SetLastCluster, Measure, Goto
    <3>3. /\ Len(clusters') = Len(clusters) /\ LastCluster' = d
          /\ \A i \in 1 .. Len(clusters) - 1 : clusters'[i] = clusters[i]
          /\ DOMAIN clusters' = DOMAIN clusters
      BY <2>1, <3>2 DEF LastCluster
    <3>4. ClosedStay
      BY <2>1, <3>3, LastOfDomain DEF OpenInv, ClosedStay, LastCluster
    <3> QED
      BY <3>1, <3>2, <3>3, <3>4 DEF OpenInv, ClosedStay
  <2>3. CASE Fail /\ UNCHANGED clusters
    <3>1. pc' # "offset"
      BY <2>3 DEF Fail, Return
    <3> QED
      BY <2>1, <2>3, <3>1 DEF OpenInv, ClosedStay, LastCluster
  <2> QED
    BY <1>2, <2>2, <2>3 DEF CloseCluster
<1>3. CASE OpenCluster
  <2>1. PICK c \in Cluster : clusters' = Append(clusters, c) /\ ~c.finalized
    BY <1>3, OpenClusterStep
  <2>2. /\ pc = "offset" /\ call = "frame" /\ pc' = "flushAll"
        /\ clusters \in Seq(Cluster)
    BY <1>3 DEF OpenCluster, Measured, TypeOK
  <2>3. /\ Len(clusters') = Len(clusters) + 1 /\ LastCluster' = c
        /\ \A i \in DOMAIN clusters : i \in DOMAIN clusters' /\ clusters'[i] = clusters[i]
    BY <2>1, <2>2 DEF LastCluster
  <2>4. \A i \in DOMAIN clusters : clusters[i].finalized
    BY <2>2, LastOfDomain DEF OpenInv, LastCluster
  <2>5. \A i \in 1 .. Len(clusters') - 1 : clusters'[i].finalized
    BY <2>2, <2>3, <2>4
  <2> QED
    BY <2>1, <2>2, <2>3, <2>5 DEF OpenInv, ClosedStay
<1>4. CASE /\ UNCHANGED clusters
           /\ pc \in {"offset", "done"} => pc' \in {"offset", "done"}
           /\ pc' = "offset" /\ call' = "frame" =>
                clusters = << >> \/ (pc = "offset" /\ call = "frame")
  BY <1>4 DEF OpenInv, ClosedStay, LastCluster
<1>5. CASE Caller
  <2>1. UNCHANGED clusters /\ pc = "idle" /\ pc' # "offset"
    BY <1>5 DEF Caller, RejectFrame, QueueFrame, BeginFrame, BeginCall, Return,
                ForceNewClusterOnNextFrame, Finalize
  <2> QED
    BY <1>4, <2>1
<1>6. CASE TestForNewCluster
  <2>1. UNCHANGED clusters /\ pc = "test" /\ pc' # "offset"
    BY <1>6 DEF TestForNewCluster, Return
  <2> QED
    BY <1>4, <2>1
<1>7. CASE FlushOlderEnd
  <2>1. UNCHANGED clusters /\ pc = "flushOlder" /\ (clusters # << >> => pc' = "close")
    BY <1>7 DEF FlushOlderEnd, Goto
  <2> QED
    BY <1>4, <2>1
<1>8. CASE FlushAllEnd
  <2>1. /\ UNCHANGED << clusters, call >> /\ pc = "flushAll"
        /\ call = "frame" => pc' # "offset"
    BY <1>8 DEF FlushAllEnd, Goto
  <2> QED
    BY <1>4, <2>1
<1>9. CASE FlushAllFails
  <2>1. UNCHANGED clusters /\ clusters = << >> /\ pc = "flushAll"
    BY <1>9 DEF FlushAllFails
  <2> QED
    BY <1>4, <2>1
<1>10. CASE AddClusterSize \/ UNCHANGED vars
  <2>1. UNCHANGED << clusters, pc, call >>
    BY <1>10 DEF AddClusterSize, vars
  <2> QED
    BY <1>4, <2>1
<1>11. CASE FinishFile
  <2>1. UNCHANGED clusters /\ pc' = "done"
    BY <1>11 DEF FinishFile
  <2> QED
    BY <1>4, <2>1
<1> QED
  BY <1>1, <1>2, <1>3, <1>5, <1>6, <1>7, <1>8, <1>9, <1>10, <1>11
     DEF Next, Step, WritesToLast, Terminated

\* Whatever the frames and the settings, a cluster that was finalized never
\* changes again and only the last cluster of the list can be open: the sizes
\* and positions taken from closed clusters stay right.
THEOREM ClosedNeverReopened == Spec => ClosedClustersStay
<1>1. Init => IInv /\ OpenInv
  <2>1. Init => OpenInv
    BY DEF Init, OpenInv
  <2> QED
    BY <2>1, InitInv
<1>2. IInv /\ OpenInv /\ [Next]_vars => IInv' /\ OpenInv' /\ ClosedStay
  BY NextInv, OpenInvNext
<1>3. Spec => [][ClosedStay]_vars
  BY <1>1, <1>2, PTL DEF Spec
<1>4. ClosedClustersStay <=> [][ClosedStay]_vars
  BY DEF ClosedClustersStay, ClosedStay
<1> QED
  BY <1>3, <1>4

USE DEF localVars, loopVars, placeVars, cueVars, timeVars, countVars,
        headerVars, endVars, outerVars, history

-----------------------------------------------------------------------------
(* The inductive invariant.  It has no sum over the clusters: each begins    *)
(* where the one before it ends.                                             *)

HeaderLength == Len(HeaderElements)

\* How far the positions of the code, which count from its writer's start, are
\* from the payload's offsets: zero unless a live stream is cut into chunks.
Shift == HeaderEnd - HeaderLength

\* The payload offset behind the first i clusters.
End(i) == IF i = 0 THEN HeaderLength ELSE clusters[i].at + ClusterSize(clusters[i])

\* Nothing is there before the header, which every AddFrame sees written.
HeaderFirst ==
  /\ headerWritten => hdrPos = HeaderEnd
  /\ call = "frame" /\ pc # "idle" => headerWritten
  /\ ~headerWritten => clusters = << >> /\ seek = << >> /\ ~newCue

ClustersChained ==
  \A i \in DOMAIN clusters :
    /\ HeaderWritten(clusters[i]) => clusters[i].at = End(i - 1)
    /\ clusters[i].finalized => HeaderWritten(clusters[i])
    /\ clusters[i].pos = End(i - 1) + Shift
    /\ \A j \in DOMAIN clusters : i < j => clusters[i].pos < clusters[j].pos

WrittenEnd == IF clusters # << >> /\ ~HeaderWritten(LastCluster)
              THEN End(Len(clusters) - 1) ELSE End(Len(clusters))

WrittenExact == headerWritten /\ pc # "done" => written = WrittenEnd

\* The loop of MaxOffset.
OffsetExact ==
  pc = "offset" /\ headerWritten /\ (call = "frame" \/ conf.mode = "file") =>
    /\ clusters # << >> => LastCluster.finalized
    /\ IF conf.chunking THEN index <= Len(clusters) + 1 /\ offset = End(index - 1) + Shift
                        ELSE offset = written

SeekExact ==
  /\ \A i \in DOMAIN seek :
       /\ seek[i].id = "Cluster" => seek[i].pos = HeaderEnd
       /\ seek[i].id = "Cues" => pc = "done" /\ conf.mode = "file" /\ seek[i].pos = cuesAt
  /\ pc = "done" /\ ret /\ conf.mode = "file" =>
       /\ segSize = written
       /\ clusters # << >> => LastCluster.finalized

PlaceInv == HeaderFirst /\ ClustersChained /\ WrittenExact /\ OffsetExact /\ SeekExact

\* It rests on the types and on which clusters are open.
BaseInv == IInv /\ OpenInv

-----------------------------------------------------------------------------
(* The header.                                                               *)

\* The header's length and the shift that a closed header writer causes.
LEMMA HeaderLengthType ==
  /\ HeaderLength \in Nat /\ HeaderEnd \in Int /\ Shift \in Int
  /\ ~conf.chunking \/ conf.mode = "file" => Shift = 0
<1>1. conf.mode = "file" => conf.mode # "live"
  OBVIOUS
<1> QED
  BY <1>1, HeaderElementsType, HeaderEndType DEF HeaderLength, Shift, HeaderEnd

\* They depend on the settings only.
LEMMA SameHeader ==
  ASSUME UNCHANGED conf
  PROVE  HeaderLength' = HeaderLength /\ HeaderEnd' = HeaderEnd /\ Shift' = Shift
<1>1. HeaderElements' = HeaderElements
  BY DEF HeaderElements
<1> QED
  BY <1>1 DEF HeaderLength, HeaderEnd, Shift

\* No element of the header is a cluster or the cues.
LEMMA HeaderIds ==
  \A i \in DOMAIN HeaderEntries : HeaderEntries[i].id \notin {"Cluster", "Cues"}
<1> DEFINE Ids == {"SeekHead", "Info", "Tracks", "Chapters", "Tags"}
           a == IF conf.mode = "file" THEN << "SeekHead" >> ELSE << >>
           b == << "Info", "Tracks" >>
           c == IF conf.chapters THEN << "Chapters" >> ELSE << >>
           d == IF conf.tags THEN << "Tags" >> ELSE << >>
<1>1. a \in Seq(Ids) /\ b \in Seq(Ids) /\ c \in Seq(Ids) /\ d \in Seq(Ids)
  <2>1. \A x, y \in Ids : << x, y >> \in Seq(Ids) /\ << x >> \in Seq(Ids)
    OBVIOUS
  <2>2. << >> \in Seq(Ids)
    OBVIOUS
  <2>3. /\ "SeekHead" \in Ids /\ "Info" \in Ids /\ "Tracks" \in Ids
        /\ "Chapters" \in Ids /\ "Tags" \in Ids
    OBVIOUS
  <2> HIDE DEF Ids
  <2> QED
    BY <2>1, <2>2, <2>3, Zenon
<1>2. HeaderElements \in Seq(Ids)
  <2> HIDE DEF Ids, a, b, c, d
  <2>1. a \o b \in Seq(Ids)
    BY <1>1, ConcatProperties
  <2>2. a \o b \o c \in Seq(Ids)
    BY <1>1, <2>1, ConcatProperties
  <2>3. a \o b \o c \o d \in Seq(Ids)
    BY <1>1, <2>2, ConcatProperties
  <2> QED
    BY <2>3 DEF HeaderElements, a, b, c, d
<1> HIDE DEF a, b, c, d
<1> DEFINE first == IF conf.mode = "file" THEN 2 ELSE 1
           n     == Len(HeaderElements) - first + 1
<1>3. first \in {1, 2} /\ n \in Int /\ Len(HeaderElements) \in Nat
  BY HeaderElementsType
<1>4. ASSUME NEW i \in 1 .. n PROVE HeaderElements[first + i - 1] \in Ids
  <2>1. first + i - 1 \in 1 .. Len(HeaderElements)
    BY <1>3
  <2> HIDE DEF first, Ids
  <2> QED
    BY <1>2, <2>1
<1>5. DOMAIN HeaderEntries = 1 .. n
  BY DEF HeaderEntries
<1>6. \A i \in 1 .. n : HeaderEntries[i].id = HeaderElements[first + i - 1]
  BY DEF HeaderEntries
<1> HIDE DEF first, n
<1> QED
  BY <1>4, <1>5, <1>6

-----------------------------------------------------------------------------
(* What a step that writes to the last cluster does to its place.            *)

Grows(c, d) ==
  /\ d.pos = c.pos
  /\ d.finalized => c.finalized \/ HeaderWritten(d)
  /\ IF HeaderWritten(c) THEN d.at = c.at ELSE d.at \in {Unset, written}

\* A step that leaves the clusters alone sets the last one to itself.
LEMMA SetSameCluster ==
  ASSUME TypeOK, clusters # << >>, UNCHANGED << clusters, written >>
  PROVE  /\ LastCluster \in Cluster /\ SetLastCluster(LastCluster)
         /\ Grows(LastCluster, LastCluster)
<1>1. LastCluster \in Cluster /\ clusters \in Seq(Cluster) /\ written \in Nat
  BY DEF TypeOK, LastCluster
<1>2. clusters = [clusters EXCEPT ![Len(clusters)] = LastCluster]
  BY <1>1 DEF LastCluster
<1>3. ClusterBytes(LastCluster) \in Nat
  BY <1>1, ClusterBytesType
<1> QED
  BY <1>1, <1>2, <1>3 DEF SetLastCluster, Grows, HeaderWritten

\* DoWriteFrame lets a cluster grow.
LEMMA WriteGrows ==
  ASSUME NEW c \in Cluster, NEW f \in Frame, written \in Nat
  PROVE  /\ DoWriteFrame(c, f, written) \in Cluster
         /\ Grows(c, DoWriteFrame(c, f, written))
BY DoWriteFrameType DEF Grows, HeaderWritten

\* Dropping a held back frame changes no byte.
LEMMA DropGrows ==
  ASSUME NEW c \in Cluster, NEW d \in Cluster, NEW t \in TrackSet, d.stored[t] # << >>,
         Grows(c, d)
  PROVE  DropStored(d, t) \in Cluster /\ Grows(c, DropStored(d, t))
BY DropStoredType DEF Grows, HeaderWritten

\* The clusters the steps put in the place of the last.
LEMMA AddFrameGrows ==
  ASSUME TypeOK, clusters # << >>, NEW f \in Frame, NEW p,
         AddFrameDone(f, p) \/ AddFrameFails(f, p)
  PROVE  \E d \in Cluster : SetLastCluster(d) /\ Grows(LastCluster, d)
<1>1. LastCluster \in Cluster /\ written \in Nat
  BY DEF TypeOK, LastCluster
<1>2. \/ SetLastCluster(DoWriteFrame(LastCluster, f, written))
      \/ UNCHANGED << clusters, written >>
  BY DEF AddFrameDone, AddFrameFails
<1> QED
  BY <1>1, <1>2, WriteGrows, SetSameCluster

\* Every step that writes to the last cluster lets it grow.
LEMMA WritesToLastGrows ==
  ASSUME IInv, WritesToLast
  PROVE  /\ clusters # << >>
         /\ \E d \in Cluster : SetLastCluster(d) /\ Grows(LastCluster, d)
<1> USE DEF IInv
<1>1. clusters # << >> /\ written \in Nat
  BY DEF WritesToLast, Hold, Release, FlushOlder, FlushOlderFails, CloseStored, FlushAll,
         WriteFrame, AddsFrame, OlderFrameQueued, AddFrameDone, AddFrameFails, CallState,
         TypeOK
<1>2. LastCluster \in Cluster
  BY <1>1 DEF TypeOK, LastCluster
<1>3. CASE Hold
  <2> DEFINE f == Adding(pc)
  <2>1. f \in Frame /\ f.track \in TrackSet /\ SetLastCluster(HoldFrame(LastCluster, f))
    <3>1. /\ pc \in {"flushOlder", "flushAll", "write"} /\ AddsFrame
          /\ SetLastCluster(HoldFrame(LastCluster, f))
      BY <1>3 DEF Hold
    <3>2. pc # "write" => queue # << >>
      <4>1. pc = "flushOlder" => queue # << >>
        BY <3>1 DEF AddsFrame, OlderFrameQueued, TypeOK
      <4>2. pc = "flushAll" => queue # << >>
        BY <3>1 DEF AddsFrame
      <4> QED
        BY <3>1, <4>1, <4>2
    <3> QED
      BY <3>1, <3>2, AddingType
  <2> HIDE DEF f
  <2>2. HoldFrame(LastCluster, f) \in Cluster /\ Grows(LastCluster, HoldFrame(LastCluster, f))
    BY <1>2, <2>1, HoldFrameType DEF Grows, HeaderWritten
  <2> QED
    BY <1>1, <2>1, <2>2
<1>4. CASE Release
  <2> DEFINE t == Adding(origin).track
             f == Head(LastCluster.stored[t])
             w == DoWriteFrame(LastCluster, f, written)
  <2>1. t \in TrackSet /\ MayRelease(LastCluster, t)
    BY <1>4, AddingType DEF Release, CallState, TypeOK
  <2>2. LastCluster.stored[t] # << >> /\ f \in Frame
    <3>1. LastCluster.stored[t] \in Seq(Frame) /\ Len(LastCluster.stored[t]) >= 2
      BY <1>2, <2>1, ClusterFields DEF MayRelease
    <3> QED
      BY <3>1
  <2>3. \/ SetLastCluster(DropStored(w, t))
        \/ UNCHANGED << clusters, written >>
    BY <1>4 DEF Release
  <2> HIDE DEF t, f
  <2>4. w \in Cluster /\ Grows(LastCluster, w) /\ w.stored = LastCluster.stored
    BY <1>1, <1>2, <2>2, WriteGrows, DoWriteFrameType
  <2> HIDE DEF w
  <2>5. DropStored(w, t) \in Cluster /\ Grows(LastCluster, DropStored(w, t))
    BY <1>2, <2>1, <2>2, <2>4, DropGrows
  <2> QED
    BY <1>1, <2>3, <2>5, SetSameCluster
<1>5. CASE CloseStored
  <2> DEFINE t == NextStored(LastCluster)
             h == Head(LastCluster.stored[t])
             f == WithLastDuration(LastCluster, h, call = "frame", frame.ts)
             w == DoWriteFrame(LastCluster, f, written)
  <2>1. HasStored(LastCluster) /\ SetLastCluster(DropStored(w, t))
    BY <1>5 DEF CloseStored
  <2>2. t \in TrackSet /\ LastCluster.stored[t] # << >>
    BY <1>2, <2>1, NextStoredType
  <2>3. ByTrack(LastCluster)
    BY <1>1 DEF WaitingByTrack, LastCluster, TypeOK
  <2> HIDE DEF t
  <2>4. h \in Frame /\ h.track = t
    BY <1>2, <2>2, <2>3, DropStoredType, DropStoredByTrack
  <2> HIDE DEF h
  <2>5. f \in Frame
    <3>1. frame.ts \in Nat /\ (call = "frame") \in BOOLEAN
      BY FrameFields DEF TypeOK
    <3> QED
      BY <1>2, <2>2, <2>4, <3>1, WithLastDurationType
  <2> HIDE DEF f
  <2>6. w \in Cluster /\ Grows(LastCluster, w) /\ w.stored = LastCluster.stored
    BY <1>1, <1>2, <2>5, WriteGrows, DoWriteFrameType
  <2> HIDE DEF w
  <2>7. DropStored(w, t) \in Cluster /\ Grows(LastCluster, DropStored(w, t))
    BY <1>2, <2>2, <2>6, DropGrows
  <2> QED
    BY <1>1, <2>1, <2>7
<1>6. CASE FlushOlder \/ FlushOlderFails \/ FlushAll
  <2>1. queue # << >>
    BY <1>6 DEF FlushOlder, FlushOlderFails, FlushAll, OlderFrameQueued, TypeOK
  <2>2. \E p : AddFrameDone(Head(queue), p) \/ AddFrameFails(Head(queue), p)
    BY <1>6 DEF FlushOlder, FlushOlderFails, FlushAll
  <2> QED
    BY <1>1, <2>1, <2>2, QueueHeadType, AddFrameGrows
<1>7. CASE WriteFrame
  <2>1. frame.track \in TrackSet
    BY <1>7 DEF WriteFrame, AddFrameDone, AddFrameFails, CallState
  <2>2. AddFrameDone(WithReference(frame), "write") \/ AddFrameFails(WithReference(frame), "write")
    BY <1>7 DEF WriteFrame
  <2> QED
    BY <1>1, <2>1, <2>2, WithReferenceType, AddFrameGrows
<1> QED
  BY <1>3, <1>4, <1>5, <1>6, <1>7 DEF WritesToLast

-----------------------------------------------------------------------------
(* The clusters follow each other.                                           *)

\* The ends of the clusters are integers.
LEMMA EndType ==
  ASSUME TypeOK
  PROVE  /\ clusters \in Seq(Cluster) /\ Len(clusters) \in Nat
         /\ DOMAIN clusters = 1 .. Len(clusters)
         /\ \A i \in 0 .. Len(clusters) : End(i) \in Int
         /\ \A i \in DOMAIN clusters : clusters[i] \in Cluster
<1>1. clusters \in Seq(Cluster)
  BY DEF TypeOK
<1>2. \A i \in DOMAIN clusters : clusters[i] \in Cluster
  BY <1>1
<1>3. ASSUME NEW i \in 0 .. Len(clusters) PROVE End(i) \in Int
  <2>1. CASE i = 0
    BY <2>1, HeaderLengthType DEF End
  <2>2. CASE i # 0
    <3>1. clusters[i] \in Cluster
      BY <1>1, <1>2, <2>2
    <3> QED
      BY <2>2, <3>1, ClusterBytesType, ClusterFields DEF End
  <2> QED
    BY <2>1, <2>2
<1> QED
  BY <1>1, <1>2, <1>3

\* What WrittenEnd and the chain say of the last cluster.
ChainInv == ClustersChained /\ written = WrittenEnd

\* A last cluster that grows still begins where the one before it ends.
LEMMA ChainWrites ==
  ASSUME TypeOK, ChainInv, clusters # << >>, UNCHANGED conf,
         NEW d \in Cluster, SetLastCluster(d), Grows(LastCluster, d)
  PROVE  ChainInv'
<1> DEFINE n == Len(clusters)
           c == clusters[n]
<1>1. /\ clusters \in Seq(Cluster) /\ n \in Nat /\ n # 0 /\ DOMAIN clusters = 1 .. n
      /\ c \in Cluster /\ n \in DOMAIN clusters /\ written \in Nat
      /\ \A i \in 0 .. n : End(i) \in Int
  BY EndType DEF TypeOK
<1>2. /\ clusters' = [clusters EXCEPT ![n] = d]
      /\ written' = written + ClusterBytes(d) - ClusterBytes(c)
      /\ Grows(c, d)
  BY DEF SetLastCluster, LastCluster
<1>3. /\ Len(clusters') = n /\ n' = n /\ DOMAIN clusters' = 1 .. n /\ clusters'[n] = d
      /\ \A i \in 1 .. n - 1 : clusters'[i] = clusters[i]
  <2>1. clusters \in Seq(Cluster) /\ n \in Nat /\ n # 0
    BY <1>1
  <2> QED
    BY <1>2, <2>1
<1>4. LastCluster = c /\ LastCluster' = d /\ clusters' # << >>
  BY <1>1, <1>3 DEF LastCluster
<1>5. \A i \in 0 .. n - 1 : End(i)' = End(i)
  BY <1>1, <1>3, SameHeader, SMTT(30) DEF End
<1>6. Shift' = Shift /\ Shift \in Int
  BY SameHeader, HeaderLengthType
<1>7. /\ End(n) = c.at + ClusterSize(c) /\ End(n)' = d.at + ClusterSize(d)
      /\ ClusterSize(c) \in Nat /\ ClusterSize(d) \in Nat /\ c.at \in Int /\ d.at \in Int
  BY <1>1, <1>3, ClusterBytesType, ClusterFields DEF End
<1>8. /\ HeaderWritten(c) => c.at = End(n - 1)
      /\ c.finalized => HeaderWritten(c)
      /\ c.pos = End(n - 1) + Shift
  BY <1>1 DEF ChainInv, ClustersChained
<1>9. written = IF HeaderWritten(c) THEN End(n) ELSE End(n - 1)
  BY <1>1, <1>4 DEF ChainInv, WrittenEnd
<1>10. \A i \in 1 .. n : clusters'[i].pos = clusters[i].pos
  <2>1. ASSUME NEW i \in 1 .. n PROVE clusters'[i].pos = clusters[i].pos
    <3>1. i = n \/ i \in 1 .. n - 1
      <4>1. n \in Nat
        BY <1>1
      <4> QED
        BY <4>1
    <3> QED
      BY <1>2, <1>3, <3>1 DEF Grows
  <2> QED
    BY <2>1
<1>11. /\ HeaderWritten(d) => d.at = End(n - 1)
       /\ d.finalized => HeaderWritten(d)
       /\ d.pos = End(n - 1) + Shift
       /\ HeaderWritten(c) => HeaderWritten(d)
  <2>1. CASE HeaderWritten(c)
    BY <1>2, <1>8, <2>1 DEF Grows, HeaderWritten
  <2>2. CASE ~HeaderWritten(c)
    BY <1>2, <1>8, <1>9, <2>2 DEF Grows, HeaderWritten
  <2> QED
    BY <2>1, <2>2
<1> HIDE DEF c, n
<1>12. ClustersChained'
  <2> SUFFICES ASSUME NEW i \in 1 .. n
               PROVE  /\ HeaderWritten(clusters'[i]) => clusters'[i].at = End(i - 1)'
                      /\ clusters'[i].finalized => HeaderWritten(clusters'[i])
                      /\ clusters'[i].pos = End(i - 1)' + Shift'
                      /\ \A j \in 1 .. n : i < j => clusters'[i].pos < clusters'[j].pos
    BY <1>3 DEF ClustersChained
  <2>1. \A j \in 1 .. n : i < j => clusters'[i].pos < clusters'[j].pos
    BY <1>1, <1>10 DEF ChainInv, ClustersChained
  <2>2. End(i - 1)' = End(i - 1)
    BY <1>1, <1>5
  <2>3. CASE i = n
    <3>1. clusters'[i] = d /\ End(i - 1)' = End(n - 1)
      BY <1>3, <2>2, <2>3
    <3> QED
      BY <1>6, <1>11, <2>1, <3>1
  <2>4. CASE i \in 1 .. n - 1
    <3>1. /\ HeaderWritten(clusters[i]) => clusters[i].at = End(i - 1)
          /\ clusters[i].finalized => HeaderWritten(clusters[i])
          /\ clusters[i].pos = End(i - 1) + Shift
      BY <1>1 DEF ChainInv, ClustersChained
    <3>2. clusters'[i] = clusters[i]
      BY <1>3, <2>4
    <3> QED
      BY <1>6, <2>1, <2>2, <3>1, <3>2
  <2> QED
    BY <1>1, <2>3, <2>4
<1>13. WrittenEnd' = IF HeaderWritten(d) THEN End(n)' ELSE End(n - 1)'
  BY <1>3, <1>4 DEF WrittenEnd, n
<1>14. written' = WrittenEnd'
  <2>1. End(n - 1)' = End(n - 1) /\ End(n - 1) \in Int
    BY <1>1, <1>3, <1>5
  <2>2. CASE HeaderWritten(c)
    <3>1. HeaderWritten(d) /\ d.at = c.at
      BY <1>2, <1>11, <2>2 DEF Grows
    <3>2. written = c.at + ClusterSize(c)
      BY <1>7, <1>9, <2>2
    <3>3. written' = written + ClusterSize(d) - ClusterSize(c)
      BY <1>2, <2>2, <3>1 DEF ClusterBytes
    <3> QED
      BY <1>7, <1>13, <3>1, <3>2, <3>3
  <2>3. CASE ~HeaderWritten(c)
    <3>1. written = End(n - 1) /\ written' = written + ClusterBytes(d)
      BY <1>1, <1>2, <1>9, <2>3, ClusterBytesType DEF ClusterBytes
    <3>2. CASE HeaderWritten(d)
      <4>1. ClusterBytes(d) = ClusterSize(d) /\ d.at = End(n - 1)
        BY <1>11, <3>2 DEF ClusterBytes
      <4> QED
        BY <1>7, <1>13, <2>1, <3>1, <3>2, <4>1
    <3>3. CASE ~HeaderWritten(d)
      BY <1>13, <2>1, <3>1, <3>3 DEF ClusterBytes
    <3> QED
      BY <3>2, <3>3
  <2> QED
    BY <2>2, <2>3
<1> QED
  BY <1>12, <1>14 DEF ChainInv

\* A chain of clusters that do not change.
LEMMA SameChain ==
  ASSUME UNCHANGED << conf, clusters, written >>
  PROVE  /\ \A i : End(i)' = End(i)
         /\ ChainInv => ChainInv'
<1>1. /\ HeaderLength' = HeaderLength /\ Shift' = Shift
  BY SameHeader
<1>2. \A i : End(i)' = End(i)
  BY <1>1 DEF End
<1> QED
  BY <1>1, <1>2 DEF ChainInv, ClustersChained, WrittenEnd, LastCluster

-----------------------------------------------------------------------------
(* Every step keeps the invariant.                                           *)

\* What PlaceInv says of the clusters once there is a header.
LEMMA ChainOfPlace ==
  ASSUME PlaceInv, headerWritten, pc # "done"
  PROVE  ChainInv
BY DEF PlaceInv, WrittenExact, ChainInv

\* What a step that leaves the header and the end of the file alone has to keep.
LEMMA PlaceStep ==
  ASSUME TypeOK, PlaceInv, pc # "done", UNCHANGED << conf, headerVars, endVars >>,
         headerWritten => ChainInv',
         headerWritten \/ (UNCHANGED << clusters, newCue >>
                           /\ (pc' = "idle" \/ call' = "finalize")),
         OffsetExact', pc' = "done" => ~ret'
  PROVE  PlaceInv'
<1>1. HeaderEnd' = HeaderEnd
  BY SameHeader
<1>2. UNCHANGED << headerWritten, hdrPos, seek, cuesAt >>
  OBVIOUS
<1>3. HeaderFirst'
  BY <1>1, <1>2 DEF PlaceInv, HeaderFirst
<1>4. ClustersChained'
  <2>1. CASE headerWritten
    BY <2>1 DEF ChainInv
  <2>2. CASE ~headerWritten
    <3>1. clusters' = << >>
      BY <2>2 DEF PlaceInv, HeaderFirst
    <3> QED
      BY <3>1 DEF ClustersChained
  <2> QED
    BY <2>1, <2>2
<1>5. WrittenExact'
  BY <1>2 DEF WrittenExact, ChainInv
<1>6. SeekExact'
  BY <1>1, <1>2 DEF PlaceInv, SeekExact
<1> QED
  BY <1>3, <1>4, <1>5, <1>6 DEF PlaceInv

\* The steps that write to the last cluster.
LEMMA PlaceWrites ==
  ASSUME IInv, PlaceInv, WritesToLast
  PROVE  PlaceInv'
<1> USE DEF IInv
<1>1. /\ UNCHANGED << conf, headerVars, endVars >> /\ pc \notin {"done", "offset"}
      /\ pc' # "offset" /\ (pc' = "done" => ~ret')
  BY DEF WritesToLast, Hold, Release, FlushOlder, FlushOlderFails, CloseStored,
         FlushAll, WriteFrame, AddFrameDone, AddFrameFails, Goto, Fail, Return
<1>2. /\ clusters # << >>
      /\ \E d \in Cluster : SetLastCluster(d) /\ Grows(LastCluster, d)
  BY WritesToLastGrows
<1>3. headerWritten
  BY <1>2 DEF PlaceInv, HeaderFirst
<1>4. ChainInv'
  BY <1>1, <1>2, <1>3, ChainOfPlace, ChainWrites
<1>5. OffsetExact'
  BY <1>1 DEF OffsetExact
<1> QED
  BY <1>1, <1>3, <1>4, <1>5, PlaceStep

\* The header is written before any cluster.
LEMMA PlaceCheckHeader ==
  ASSUME TypeOK, PlaceInv, pc = "idle", CheckHeaderInfo,
         UNCHANGED << conf, clusters, newCue, endVars >>, pc' \in {"idle", "test"}
  PROVE  PlaceInv'
<1>1. OffsetExact'
  BY DEF OffsetExact
<1>2. CASE headerWritten
  <2>1. UNCHANGED << headerVars, written >>
    BY <1>2 DEF CheckHeaderInfo
  <2>2. ChainInv'
    BY <1>2, <2>1, ChainOfPlace, SameChain
  <2> QED
    BY <1>1, <1>2, <2>1, <2>2, PlaceStep
<1>3. CASE ~headerWritten
  <2>1. /\ headerWritten' /\ hdrPos' = HeaderEnd /\ written' = HeaderLength
        /\ seek' = Append(HeaderEntries, [id |-> "Cluster", pos |-> HeaderEnd])
    BY <1>3 DEF CheckHeaderInfo, HeaderLength
  <2>2. HeaderEnd' = HeaderEnd /\ HeaderLength' = HeaderLength
    BY SameHeader
  <2>3. clusters' = << >> /\ ~newCue'
    BY <1>3 DEF PlaceInv, HeaderFirst
  <2>4. HeaderFirst' /\ ClustersChained'
    BY <2>1, <2>2, <2>3 DEF HeaderFirst, ClustersChained
  <2>5. WrittenExact'
    BY <2>1, <2>2, <2>3 DEF WrittenExact, WrittenEnd, End
  <2>6. SeekExact'
    <3>1. \A i \in DOMAIN seek' : \/ i \in DOMAIN HeaderEntries /\ seek'[i] = HeaderEntries[i]
                                  \/ seek'[i] = [id |-> "Cluster", pos |-> HeaderEnd]
      BY <2>1, HeaderEntriesType
    <3>2. \A i \in DOMAIN seek' :
             /\ seek'[i].id = "Cluster" => seek'[i].pos = HeaderEnd
             /\ seek'[i].id # "Cues"
      BY <3>1, HeaderIds
    <3> QED
      BY <2>2, <3>2 DEF SeekExact
  <2> QED
    BY <1>1, <2>4, <2>5, <2>6 DEF PlaceInv
<1> QED
  BY <1>2, <1>3

\* The caller's steps.
LEMMA PlaceCaller ==
  ASSUME IInv, PlaceInv, Caller
  PROVE  PlaceInv'
<1> USE DEF IInv
<1>1. ASSUME NEW in \in Inputs, RejectFrame(in) \/ QueueFrame(in) \/ BeginFrame(in)
      PROVE  PlaceInv'
  <2>1. /\ pc = "idle" /\ CheckHeaderInfo
        /\ UNCHANGED << conf, clusters, newCue, endVars >> /\ pc' \in {"idle", "test"}
    BY <1>1 DEF RejectFrame, QueueFrame, BeginFrame, BeginCall, Return
  <2> QED
    BY <2>1, PlaceCheckHeader
<1>2. CASE ForceNewClusterOnNextFrame \/ Finalize
  <2>1. /\ pc = "idle" /\ pc' \in {"idle", "flushAll"}
        /\ UNCHANGED << conf, headerVars, endVars, clusters, newCue, written >>
        /\ pc' = "idle" \/ call' = "finalize"
    BY <1>2 DEF ForceNewClusterOnNextFrame, Finalize
  <2>2. headerWritten => ChainInv'
    BY <2>1, ChainOfPlace, SameChain
  <2>3. OffsetExact'
    BY <2>1 DEF OffsetExact
  <2> QED
    BY <2>1, <2>2, <2>3, PlaceStep
<1> QED
  BY <1>1, <1>2 DEF Caller

\* MaxOffset begins: its sum stands behind the header, or it is what the writer
\* says.
LEMMA MeasureStarts ==
  ASSUME PlaceInv, Measure, UNCHANGED << conf, headerVars, written >>,
         clusters' \in Seq(Cluster), clusters' # << >> => LastCluster'.finalized
  PROVE  OffsetExact'
<1>1. /\ index' = 1 /\ Len(clusters') \in Nat
      /\ offset' = IF conf.chunking THEN hdrPos ELSE written
  BY DEF Measure
<1>2. CASE headerWritten
  <2>1. hdrPos = HeaderEnd
    BY <1>2 DEF PlaceInv, HeaderFirst
  <2>2. End(index - 1)' = HeaderLength /\ Shift' = Shift
    BY <1>1, SameHeader DEF End
  <2>3. HeaderEnd = HeaderLength + Shift
    BY HeaderLengthType DEF Shift
  <2>4. /\ conf'.chunking => index' <= Len(clusters') + 1
                             /\ offset' = End(index - 1)' + Shift'
        /\ ~conf'.chunking => offset' = written'
    BY <1>1, <2>1, <2>2, <2>3
  <2> QED
    BY <2>4 DEF OffsetExact
<1>3. CASE ~headerWritten
  BY <1>3 DEF OffsetExact
<1> QED
  BY <1>2, <1>3

\* A closed cluster keeps its size, and MaxOffset begins.
LEMMA PlaceCloseCluster ==
  ASSUME IInv, IInv', OpenInv, PlaceInv, CloseCluster
  PROVE  PlaceInv'
<1> USE DEF IInv
<1> DEFINE d == [LastCluster EXCEPT !.finalized = TRUE]
<1>1. /\ pc = "close" /\ clusters # << >> /\ headerWritten
      /\ UNCHANGED << conf, headerVars, endVars >>
  <2>1. pc = "close" /\ clusters # << >> /\ UNCHANGED << conf, headerVars, endVars >>
    BY DEF CloseCluster, CallState
  <2> QED
    BY <2>1 DEF PlaceInv, HeaderFirst
<1>2. ChainInv
  BY <1>1, ChainOfPlace
<1>3. LastCluster \in Cluster /\ ClusterBytes(LastCluster) \in Nat /\ written \in Nat
  <2>1. LastCluster \in Cluster
    BY <1>1, LastOfDomain, ElementOfSeq DEF LastCluster
  <2> QED
    BY <2>1, ClusterBytesType DEF TypeOK
<1>4. CASE HeaderWritten(LastCluster) /\ SetLastCluster(d) /\ Measure
  <2>1. /\ d \in Cluster /\ d.finalized /\ Grows(LastCluster, d)
        /\ ClusterBytes(d) = ClusterBytes(LastCluster)
    BY <1>3, <1>4, FinalizedType DEF Grows, HeaderWritten
  <2> HIDE DEF d
  <2>2. ChainInv'
    BY <1>1, <1>2, <1>4, <2>1, ChainWrites
  <2>3. written' = written
    BY <1>3, <1>4, <2>1 DEF SetLastCluster
  <2>4. clusters' \in Seq(Cluster) /\ LastCluster'.finalized
    <3>1. clusters \in Seq(Cluster) /\ clusters' = [clusters EXCEPT ![Len(clusters)] = d]
      BY <1>4 DEF SetLastCluster, TypeOK
    <3>2. LastCluster' = d
      BY <1>1, <3>1 DEF LastCluster
    <3> QED
      BY <2>1, <3>2 DEF TypeOK
  <2>5. OffsetExact'
    BY <1>1, <1>4, <2>3, <2>4, MeasureStarts
  <2>6. pc' # "done"
    BY <1>4 DEF Measure, Goto
  <2> QED
    BY <1>1, <2>2, <2>5, <2>6, PlaceStep
<1>5. CASE Fail /\ UNCHANGED << clusters, written >>
  <2>1. ChainInv'
    BY <1>1, <1>2, <1>5, SameChain
  <2>2. pc' # "offset" /\ (pc' = "done" => ~ret')
    BY <1>5 DEF Fail, Return
  <2> QED
    BY <1>1, <2>1, <2>2, PlaceStep DEF OffsetExact
<1> QED
  BY <1>4, <1>5 DEF CloseCluster

\* All clusters are closed where the offset is summed up.
LEMMA AllChained ==
  ASSUME IInv, OpenInv, PlaceInv, pc = "offset", headerWritten,
         call = "frame" \/ conf.mode = "file"
  PROVE  /\ \A i \in DOMAIN clusters : HeaderWritten(clusters[i])
                                       /\ clusters[i].at = End(i - 1)
         /\ written = End(Len(clusters))
<1>1. \A i \in DOMAIN clusters : clusters[i].finalized
  BY LastOfDomain DEF IInv, OpenInv, PlaceInv, OffsetExact, LastCluster
<1>2. \A i \in DOMAIN clusters : HeaderWritten(clusters[i])
                                 /\ clusters[i].at = End(i - 1)
  BY <1>1 DEF PlaceInv, ClustersChained
<1>3. written = WrittenEnd
  BY DEF PlaceInv, WrittenExact
<1>4. clusters # << >> => HeaderWritten(LastCluster)
  BY <1>2, LastOfDomain DEF LastCluster, IInv
<1> QED
  BY <1>2, <1>3, <1>4 DEF WrittenEnd

\* One more cluster is measured.
LEMMA PlaceAddClusterSize ==
  ASSUME IInv, OpenInv, PlaceInv, AddClusterSize
  PROVE  PlaceInv'
<1> USE DEF IInv
<1>1. /\ pc = "offset" /\ pc' = "offset"
      /\ UNCHANGED << conf, headerVars, endVars, clusters, written, newCue, call, ret >>
      /\ conf.chunking /\ index <= Len(clusters) /\ index \in Nat \ {0}
      /\ offset' = offset + ClusterSize(clusters[index]) /\ index' = index + 1
      /\ Len(clusters) \in Nat
  BY DEF AddClusterSize, Measured, TypeOK
<1>2. headerWritten => ChainInv'
  BY <1>1, ChainOfPlace, SameChain
<1>3. headerWritten \/ call' = "finalize"
  BY <1>1 DEF PlaceInv, HeaderFirst, TypeOK
<1>4. OffsetExact'
  <2> SUFFICES ASSUME headerWritten, call = "frame" \/ conf.mode = "file"
               PROVE  /\ clusters # << >> => LastCluster.finalized
                      /\ index' <= Len(clusters) + 1
                      /\ offset' = End(index - 1)' + Shift'
    BY <1>1 DEF OffsetExact, LastCluster
  <2>1. clusters # << >> => LastCluster.finalized
    BY <1>1 DEF PlaceInv, OffsetExact
  <2>2. /\ index \in DOMAIN clusters /\ End(index - 1) \in Int /\ Shift \in Int
        /\ clusters[index] \in Cluster
    <3>1. index \in 1 .. Len(clusters) /\ index - 1 \in 0 .. Len(clusters)
      BY <1>1
    <3> QED
      BY <3>1, EndType, HeaderLengthType
  <2>3. offset = End(index - 1) + Shift
    BY <1>1 DEF PlaceInv, OffsetExact
  <2>4. clusters[index].at = End(index - 1)
    BY <1>1, <2>2, AllChained
  <2>5. ClusterSize(clusters[index]) \in Nat
    BY <2>2, ClusterBytesType
  <2>6. End(index) = End(index - 1) + ClusterSize(clusters[index])
    BY <1>1, <2>4 DEF End
  <2>7. offset' = End(index) + Shift
    BY <1>1, <2>2, <2>3, <2>5, <2>6
  <2>8. End(index - 1)' = End(index) /\ Shift' = Shift
    <3>1. index' - 1 = index
      BY <1>1
    <3>2. \A i : End(i)' = End(i)
      BY <1>1, SameChain
    <3> QED
      BY <1>1, <3>1, <3>2, SameHeader DEF End
  <2> QED
    BY <1>1, <2>1, <2>7, <2>8
<1> QED
  BY <1>1, <1>2, <1>3, <1>4, PlaceStep

\* Where MaxOffset ends, it stands behind the last cluster.
LEMMA OffsetAtEnd ==
  ASSUME IInv, OpenInv, PlaceInv, Measured, headerWritten,
         call = "frame" \/ conf.mode = "file"
  PROVE  /\ offset = End(Len(clusters)) + Shift
         /\ written = End(Len(clusters)) /\ End(Len(clusters)) \in Int
<1>1. pc = "offset" /\ Len(clusters) \in Nat /\ index \in Nat
  BY DEF Measured, IInv, TypeOK
<1>2. written = End(Len(clusters))
  BY <1>1, AllChained
<1>3. End(Len(clusters)) \in Int
  BY <1>1, EndType DEF IInv
<1>4. CASE conf.chunking
  <2>1. index > Len(clusters) /\ index <= Len(clusters) + 1
        /\ offset = End(index - 1) + Shift
    BY <1>1, <1>4 DEF Measured, PlaceInv, OffsetExact
  <2>2. index - 1 = Len(clusters)
    BY <1>1, <2>1
  <2> QED
    BY <1>2, <1>3, <2>1, <2>2
<1>5. CASE ~conf.chunking
  <2>1. offset = written /\ Shift = 0
    BY <1>1, <1>5, HeaderLengthType DEF PlaceInv, OffsetExact
  <2> QED
    BY <1>2, <1>3, <2>1
<1> QED
  BY <1>4, <1>5

\* The new cluster is given the offset at which it will be written.
LEMMA PlaceOpenCluster ==
  ASSUME IInv, OpenInv, PlaceInv, OpenCluster
  PROVE  PlaceInv'
<1> USE DEF IInv
<1> DEFINE n == Len(clusters)
<1>1. /\ Measured /\ pc = "offset" /\ pc' = "flushAll" /\ call = "frame"
      /\ UNCHANGED << conf, headerVars, endVars, written >>
  BY DEF OpenCluster, Measured
<1>2. PICK tc : clusters' = Append(clusters, NewCluster(tc, offset))
  BY DEF OpenCluster
<1> DEFINE c == NewCluster(tc, offset)
<1>3. c.at = Unset /\ ~c.finalized /\ c.pos = offset
  BY DEF NewCluster
<1> HIDE DEF c
<1>4. headerWritten
  BY <1>1 DEF PlaceInv, HeaderFirst
<1>5. /\ offset = End(n) + Shift /\ written = End(n) /\ End(n) \in Int /\ Shift \in Int
  BY <1>1, <1>4, OffsetAtEnd, HeaderLengthType
<1>6. clusters \in Seq(Cluster) /\ n \in Nat
  BY DEF TypeOK
<1>7. /\ Len(clusters') = n + 1 /\ clusters'[n + 1] = c /\ DOMAIN clusters' = 1 .. n + 1
      /\ \A i \in 1 .. n : clusters'[i] = clusters[i]
  BY <1>2, <1>6 DEF c
<1>8. Shift' = Shift /\ HeaderLength' = HeaderLength
  BY <1>1, SameHeader
<1> HIDE DEF n
<1>9. ASSUME NEW i \in 0 .. n
      PROVE  (IF i = 0 THEN HeaderLength' ELSE clusters'[i].at + ClusterSize(clusters'[i]))
               = End(i)
  <2>1. i # 0 => i \in 1 .. n
    BY <1>6
  <2> QED
    BY <1>7, <1>8, <2>1 DEF End
<1>10. \A i \in 1 .. n : clusters[i].pos \in Int /\ clusters[i].pos < offset
  <2>1. ASSUME NEW i \in 1 .. n
        PROVE  clusters[i].pos \in Int /\ clusters[i].pos < offset
    <3>1. /\ n \in DOMAIN clusters /\ i \in DOMAIN clusters
          /\ clusters[i] \in Cluster /\ clusters[n] \in Cluster
      BY <1>6 DEF n
    <3>2. clusters[i].pos \in Int /\ clusters[n].pos \in Int
      BY <3>1, ClusterFields
    <3>3. clusters[n].at = End(n - 1) /\ clusters[n].pos = End(n - 1) + Shift
      BY <1>1, <1>4, <3>1, AllChained DEF PlaceInv, ClustersChained
    <3>4. End(n) = clusters[n].at + ClusterSize(clusters[n])
      BY <1>6, <2>1 DEF End
    <3>5. ClusterSize(clusters[n]) >= 12 /\ ClusterSize(clusters[n]) \in Int
          /\ clusters[n].at \in Int
      BY <3>1, ClusterFields DEF ClusterSize, ClusterHeaderSize
    <3>6. clusters[n].pos < offset
      BY <1>5, <3>3, <3>4, <3>5
    <3>7. i < n => clusters[i].pos < clusters[n].pos
      BY <3>1 DEF PlaceInv, ClustersChained
    <3> QED
      BY <1>5, <1>6, <3>2, <3>6, <3>7
  <2> QED
    BY <2>1
<1>11. ClustersChained'
  <2> SUFFICES ASSUME NEW i \in 1 .. n + 1
               PROVE  /\ HeaderWritten(clusters'[i]) => clusters'[i].at = End(i - 1)'
                      /\ clusters'[i].finalized => HeaderWritten(clusters'[i])
                      /\ clusters'[i].pos = End(i - 1)' + Shift'
                      /\ \A j \in 1 .. n + 1 : i < j => clusters'[i].pos < clusters'[j].pos
    BY <1>7 DEF ClustersChained
  <2>1. End(i - 1)' = End(i - 1)
    <3>1. i - 1 \in 0 .. n
      BY <1>6
    <3>2. End(i - 1)' = IF i - 1 = 0 THEN HeaderLength'
                        ELSE clusters'[i - 1].at + ClusterSize(clusters'[i - 1])
      BY DEF End
    <3> QED
      BY <1>9, <3>1, <3>2
  <2>2. CASE i = n + 1
    <3>1. clusters'[i] = c /\ i - 1 = n
      BY <1>6, <1>7, <2>2
    <3>2. \A j \in 1 .. n + 1 : ~(i < j)
      BY <1>6, <2>2
    <3> QED
      BY <1>3, <1>5, <1>8, <2>1, <3>1, <3>2 DEF HeaderWritten
  <2>3. CASE i \in 1 .. n
    <3>1. clusters'[i] = clusters[i] /\ i \in DOMAIN clusters
      BY <1>6, <1>7, <2>3 DEF n
    <3>2. /\ HeaderWritten(clusters[i]) => clusters[i].at = End(i - 1)
          /\ clusters[i].finalized => HeaderWritten(clusters[i])
          /\ clusters[i].pos = End(i - 1) + Shift
      BY <3>1 DEF PlaceInv, ClustersChained
    <3>3. ASSUME NEW j \in 1 .. n + 1, i < j PROVE clusters'[i].pos < clusters'[j].pos
      <4>1. CASE j = n + 1
        BY <1>3, <1>7, <1>10, <2>3, <3>1, <4>1
      <4>2. CASE j # n + 1
        <5>1. j \in 1 .. n
          BY <1>6, <4>2
        <5>2. j \in DOMAIN clusters /\ clusters'[j] = clusters[j]
          BY <1>6, <1>7, <5>1 DEF n
        <5> QED
          BY <3>1, <3>3, <5>2 DEF PlaceInv, ClustersChained
      <4> QED
        BY <4>1, <4>2
    <3> QED
      BY <1>8, <2>1, <3>1, <3>2, <3>3
  <2> QED
    BY <1>6, <2>2, <2>3
<1>12. written' = WrittenEnd'
  <2>1. LastCluster' = c /\ clusters' # << >> /\ Len(clusters') - 1 = n
    BY <1>6, <1>7 DEF LastCluster
  <2>2. WrittenEnd' = IF n = 0 THEN HeaderLength'
                      ELSE clusters'[n].at + ClusterSize(clusters'[n])
    BY <1>3, <2>1 DEF WrittenEnd, HeaderWritten, End
  <2> QED
    BY <1>1, <1>5, <1>6, <1>9, <2>2
<1>13. OffsetExact'
  BY <1>1 DEF OffsetExact
<1> QED
  BY <1>1, <1>4, <1>11, <1>12, <1>13, PlaceStep DEF ChainInv

\* The Cues go where the last cluster ends.
LEMMA PlaceFinishFile ==
  ASSUME IInv, OpenInv, PlaceInv, FinishFile
  PROVE  PlaceInv'
<1> USE DEF IInv
<1>1. /\ Measured /\ pc = "offset" /\ pc' = "done" /\ call = "finalize" /\ call' = call
      /\ UNCHANGED << conf, clusters, headerWritten, hdrPos, newCue >>
  BY DEF FinishFile, Measured
<1>2. HeaderEnd' = HeaderEnd
  BY <1>1, SameHeader
<1>3. ClustersChained' /\ WrittenExact' /\ OffsetExact'
  <2>1. \A i : End(i)' = End(i)
    BY <1>1, SameHeader DEF End
  <2>2. Shift' = Shift
    BY <1>1, SameHeader
  <2>3. ClustersChained'
    BY <1>1, <2>1, <2>2 DEF PlaceInv, ClustersChained
  <2> QED
    BY <1>1, <2>3 DEF WrittenExact, OffsetExact
<1>4. seek \in Seq([id : ElementNames, pos : Int])
  BY DEF TypeOK
<1>5. \A i \in DOMAIN seek : /\ seek[i].id = "Cluster" => seek[i].pos = HeaderEnd
                             /\ seek[i].id # "Cues"
  BY <1>1 DEF PlaceInv, SeekExact
<1>6. CASE conf.mode = "file" /\ headerWritten /\ conf.outputCues
           /\ seek' = Append(seek, [id |-> "Cues", pos |-> offset])
           /\ cuesAt' = written /\ written' = written + CuesSize
           /\ segSize' = offset + CuesSize
  <2>1. offset = written
    BY <1>1, <1>6, OffsetAtEnd, HeaderLengthType
  <2>2. \A i \in DOMAIN clusters : clusters[i].finalized
    BY <1>1, <1>6, LastOfDomain DEF OpenInv, PlaceInv, OffsetExact, LastCluster
  <2>3. clusters # << >> => LastCluster'.finalized
    BY <1>1, <2>2, LastOfDomain DEF LastCluster
  <2>4. \A i \in DOMAIN seek' : \/ i \in DOMAIN seek /\ seek'[i] = seek[i]
                                \/ seek'[i] = [id |-> "Cues", pos |-> offset]
    BY <1>4, <1>6
  <2>5. \A i \in DOMAIN seek' :
          /\ seek'[i].id = "Cluster" => seek'[i].pos = HeaderEnd
          /\ seek'[i].id = "Cues" => seek'[i].pos = cuesAt'
    BY <1>5, <1>6, <2>1, <2>4
  <2>6. SeekExact'
    BY <1>1, <1>2, <1>6, <2>1, <2>3, <2>5 DEF SeekExact
  <2>7. HeaderFirst'
    BY <1>1, <1>2, <1>6 DEF PlaceInv, HeaderFirst
  <2> QED
    BY <1>3, <2>6, <2>7 DEF PlaceInv
<1>7. CASE UNCHANGED << seek, cuesAt, written >>
           /\ (ret' /\ conf.mode = "file" => headerWritten /\ segSize' = offset)
  <2>1. ASSUME ret', conf.mode = "file"
        PROVE  segSize' = written' /\ (clusters' # << >> => LastCluster'.finalized)
    <3>1. offset = written
      BY <1>1, <1>7, <2>1, OffsetAtEnd, HeaderLengthType
    <3>2. clusters # << >> => LastCluster.finalized
      BY <1>1, <1>7, <2>1 DEF PlaceInv, OffsetExact
    <3> QED
      BY <1>1, <1>7, <2>1, <3>1, <3>2 DEF LastCluster
  <2>2. SeekExact'
    BY <1>1, <1>2, <1>5, <1>7, <2>1 DEF SeekExact
  <2>3. HeaderFirst'
    BY <1>1, <1>2, <1>7 DEF PlaceInv, HeaderFirst
  <2> QED
    BY <1>3, <2>2, <2>3 DEF PlaceInv
<1> QED
  BY <1>6, <1>7 DEF FinishFile

\* PlaceInv is kept by every step.
LEMMA PlaceNext ==
  ASSUME IInv, IInv', OpenInv, PlaceInv, [Next]_vars
  PROVE  PlaceInv'
<1> USE DEF IInv
<1>1. CASE /\ pc \notin {"idle", "done"} /\ pc' \notin {"offset"}
           /\ UNCHANGED << conf, headerVars, endVars, clusters, written, newCue, call >>
           /\ pc' = "done" => ~ret'
  <2>1. headerWritten => ChainInv'
    BY <1>1, ChainOfPlace, SameChain
  <2>2. headerWritten \/ call' = "finalize"
    BY <1>1 DEF PlaceInv, HeaderFirst, TypeOK
  <2> QED
    BY <1>1, <2>1, <2>2, PlaceStep DEF OffsetExact
<1>2. CASE /\ pc \notin {"idle", "done"} /\ Measure
           /\ clusters = << >> \/ (call = "finalize" /\ conf.mode = "live")
           /\ UNCHANGED << conf, headerVars, endVars, clusters, written, newCue, call >>
  <2>1. headerWritten => ChainInv'
    BY <1>2, ChainOfPlace, SameChain
  <2>2. headerWritten \/ call' = "finalize"
    BY <1>2 DEF PlaceInv, HeaderFirst, TypeOK
  <2>3. OffsetExact'
    <3>1. CASE clusters = << >>
      BY <1>2, <3>1, MeasureStarts DEF TypeOK
    <3>2. CASE call = "finalize" /\ conf.mode = "live"
      BY <1>2, <3>2 DEF OffsetExact
    <3> QED
      BY <1>2, <3>1, <3>2
  <2>4. pc' = "offset"
    BY <1>2 DEF Measure, Goto
  <2> QED
    BY <1>2, <2>1, <2>2, <2>3, <2>4, PlaceStep
<1>3. CASE TestForNewCluster
  <2>1. /\ pc = "test" /\ pc' \notin {"offset", "done"}
        /\ UNCHANGED << conf, headerVars, endVars, clusters, written, newCue, call >>
    BY <1>3 DEF TestForNewCluster, Return
  <2> QED
    BY <1>1, <2>1
<1>4. CASE FlushOlderEnd
  <2>1. /\ pc = "flushOlder"
        /\ UNCHANGED << conf, headerVars, endVars, clusters, written, newCue, call >>
        /\ (clusters = << >> /\ Measure) \/ pc' = "close"
    BY <1>4 DEF FlushOlderEnd, Goto
  <2> QED
    BY <1>1, <1>2, <2>1
<1>5. CASE FlushAllEnd
  <2>1. /\ pc = "flushAll"
        /\ UNCHANGED << conf, headerVars, endVars, clusters, written, newCue, call >>
        /\ \/ pc' \in {"test", "write", "close"}
           \/ /\ call # "frame" /\ Measure
              /\ ~(clusters # << >> /\ (conf.mode = "live" => conf.accurate))
    BY <1>5 DEF FlushAllEnd, Goto
  <2>2. call # "frame" => call = "finalize"
    BY DEF TypeOK
  <2> QED
    BY <1>1, <1>2, <2>1, <2>2
<1>6. CASE FlushAllFails
  <2>1. /\ pc = "flushAll" /\ pc' # "offset" /\ (pc' = "done" => ~ret')
        /\ UNCHANGED << conf, headerVars, endVars, clusters, written, newCue, call >>
    BY <1>6 DEF FlushAllFails, Fail, Return
  <2> QED
    BY <1>1, <2>1
<1>7. CASE UNCHANGED vars
  BY <1>7, SameHeader, SameChain
     DEF vars, PlaceInv, HeaderFirst, ClustersChained, WrittenExact, WrittenEnd,
         OffsetExact, SeekExact, LastCluster
<1> QED
  BY <1>3, <1>4, <1>5, <1>6, <1>7, PlaceWrites, PlaceCaller, PlaceCloseCluster,
     PlaceAddClusterSize, PlaceOpenCluster, PlaceFinishFile
     DEF Next, Step, WritesToLast, Terminated

\* It holds at the start.
LEMMA InitPlace == Init => BaseInv /\ PlaceInv
<1> SUFFICES ASSUME Init PROVE BaseInv /\ PlaceInv
  OBVIOUS
<1>1. OpenInv
  BY DEF Init, OpenInv
<1>2. PlaceInv
  BY DEF Init, PlaceInv, HeaderFirst, ClustersChained, WrittenExact, OffsetExact, SeekExact
<1> QED
  BY <1>1, <1>2, InitInv DEF BaseInv

\* With what it rests on it is inductive.
LEMMA NextPlace ==
  ASSUME BaseInv, PlaceInv, [Next]_vars
  PROVE  BaseInv' /\ PlaceInv'
BY NextInv, OpenInvNext, PlaceNext DEF BaseInv

\* Whatever is added and however the segment is set up: after a successful
\* Finalize of a file the seek head's entries name the offsets of the first
\* cluster and of the Cues, and the Segment's size is what was written.
THEOREM SeekHeadTrue == Spec => []SeekHeadExact
<1>1. BaseInv /\ PlaceInv => SeekHeadExact
  <2> SUFFICES ASSUME BaseInv, PlaceInv, pc = "done", ret, conf.mode = "file"
               PROVE  /\ segSize = written
                      /\ \A i \in DOMAIN seek :
                           /\ seek[i].id = "Cluster" /\ clusters # << >> =>
                                seek[i].pos = clusters[1].at
                           /\ seek[i].id = "Cues" => seek[i].pos = cuesAt
    BY DEF SeekHeadExact
  <2>1. segSize = written /\ (clusters # << >> => LastCluster.finalized)
    BY DEF PlaceInv, SeekExact
  <2>2. ASSUME clusters # << >> PROVE clusters[1].at = HeaderEnd
    <3>1. 1 \in DOMAIN clusters /\ clusters[1].finalized
      BY <2>1, <2>2, LastOfDomain DEF BaseInv, IInv, OpenInv, LastCluster
    <3>2. clusters[1].at = End(0)
      BY <3>1 DEF PlaceInv, ClustersChained
    <3> QED
      BY <3>2, HeaderLengthType DEF End, Shift
  <2> QED
    BY <2>1, <2>2 DEF PlaceInv, SeekExact
<1> QED
  BY <1>1, InitPlace, NextPlace, PTL DEF Spec

-----------------------------------------------------------------------------
(* The cues: each names a cluster that is in the file and its first block of *)
(* the cues' track, and no cluster with such a block is left out or named    *)
(* twice.                                                                    *)

HasCuesTrack(c) == \E j \in DOMAIN c.blocks : c.blocks[j].track = cuesTrack

HasCue(c) == \E k \in DOMAIN cues : cues[k].pos = c.pos

FirstBlock(cue, c) ==
  /\ cue.block \in DOMAIN c.blocks
  /\ c.blocks[cue.block].track = cue.track /\ Timecode(c.blocks[cue.block].ts) = cue.time
  /\ \A j \in 1 .. cue.block - 1 : c.blocks[j].track # cue.track

IsCueOf(cue, c) == cue.pos = c.pos /\ HeaderWritten(c) /\ FirstBlock(cue, c)

NothingStored ==
  pc # "hold" /\ \A i \in DOMAIN clusters : \A t \in TrackSet : clusters[i].stored[t] = << >>

\* new_cuepoint_ tells whether the last cluster still has to get its cue.
CueDue ==
  /\ newCue => conf.outputCues /\ clusters # << >> /\ ~HasCuesTrack(LastCluster)
  /\ conf.outputCues /\ clusters # << >> /\ ~newCue => HasCue(LastCluster)

CuesNameBlocks ==
  \A k \in DOMAIN cues : /\ cues[k].track = cuesTrack
                         /\ \E i \in DOMAIN clusters : IsCueOf(cues[k], clusters[i])

CuesDiffer == \A k, l \in DOMAIN cues : cues[k].pos = cues[l].pos => k = l

ClustersHaveCues ==
  conf.outputCues => \A i \in DOMAIN clusters : HasCuesTrack(clusters[i]) => HasCue(clusters[i])

CuesInv == ~conf.accurate => NothingStored /\ CueDue /\ CuesNameBlocks
                             /\ CuesDiffer /\ ClustersHaveCues

-----------------------------------------------------------------------------
(* Steps that add no block.                                                  *)

\* The clusters keep what the cues depend on.
SameBlocks ==
  /\ DOMAIN clusters' = DOMAIN clusters /\ Len(clusters') = Len(clusters)
  /\ \A i \in DOMAIN clusters :
       /\ clusters'[i].pos = clusters[i].pos /\ clusters'[i].blocks = clusters[i].blocks
       /\ clusters'[i].stored = clusters[i].stored
       /\ HeaderWritten(clusters[i]) => HeaderWritten(clusters'[i])

\* A step that keeps blocks, lists and places keeps the cues true.
LEMMA CuesSame ==
  ASSUME TypeOK, TypeOK', CuesInv, SameBlocks, UNCHANGED << conf, cuesTrack, cueVars >>,
         conf.accurate \/ pc' # "hold"
  PROVE  CuesInv'
<1> SUFFICES ASSUME ~conf.accurate
             PROVE  (NothingStored /\ CueDue /\ CuesNameBlocks
                     /\ CuesDiffer /\ ClustersHaveCues)'
  BY DEF CuesInv
<1>1. NothingStored /\ CueDue /\ CuesNameBlocks /\ CuesDiffer /\ ClustersHaveCues
  BY DEF CuesInv
<1>2. \A i \in DOMAIN clusters :
        /\ HasCuesTrack(clusters[i])' <=> HasCuesTrack(clusters[i])
        /\ HasCue(clusters[i])' <=> HasCue(clusters[i])
        /\ \A cue : IsCueOf(cue, clusters[i]) => IsCueOf(cue, clusters[i])'
  BY DEF SameBlocks, HasCuesTrack, HasCue, IsCueOf, FirstBlock
<1>3. NothingStored'
  BY <1>1 DEF NothingStored, SameBlocks
<1>4. CueDue'
  <2> DEFINE n == Len(clusters)
  <2>1. clusters' \in Seq(Cluster) /\ n \in Nat /\ n' = n
        /\ (clusters # << >> <=> n # 0) /\ (n # 0 => n \in DOMAIN clusters)
    <3>1. clusters \in Seq(Cluster) /\ clusters' \in Seq(Cluster)
      BY DEF TypeOK
    <3>2. n' = n
      BY DEF SameBlocks
    <3> QED
      BY <3>1, <3>2
  <2>2. clusters' = << >> <=> clusters = << >>
    BY <2>1
  <2>3. clusters # << >> => /\ HasCuesTrack(LastCluster)' <=> HasCuesTrack(LastCluster)
                            /\ HasCue(LastCluster)' <=> HasCue(LastCluster)
    BY <1>2, <2>1 DEF LastCluster
  <2> QED
    BY <1>1, <2>2, <2>3 DEF CueDue
<1>5. CuesNameBlocks'
  BY <1>1, <1>2 DEF CuesNameBlocks, SameBlocks
<1>6. CuesDiffer'
  BY <1>1 DEF CuesDiffer
<1>7. ClustersHaveCues'
  BY <1>1, <1>2 DEF ClustersHaveCues, SameBlocks
<1> QED
  BY <1>3, <1>4, <1>5, <1>6, <1>7

\* Replacing the last cluster by one with the same blocks.
LEMMA SetLastSameBlocks ==
  ASSUME TypeOK, clusters # << >>, NEW d \in Cluster, SetLastCluster(d),
         d.pos = LastCluster.pos, d.blocks = LastCluster.blocks,
         d.stored = LastCluster.stored, HeaderWritten(LastCluster) => HeaderWritten(d)
  PROVE  SameBlocks
<1> DEFINE n == Len(clusters)
<1>1. clusters \in Seq(Cluster) /\ clusters' = [clusters EXCEPT ![n] = d]
  BY DEF TypeOK, SetLastCluster
<1>2. DOMAIN clusters' = DOMAIN clusters /\ Len(clusters') = Len(clusters)
  BY <1>1
<1>3. \A i \in DOMAIN clusters : clusters'[i] = IF i = n THEN d ELSE clusters[i]
  BY <1>1
<1> QED
  BY <1>2, <1>3 DEF SameBlocks, LastCluster

-----------------------------------------------------------------------------
(* A frame is written to the last cluster, and its cue is added.             *)

\* A sequence of frames with one more at its end.
LEMMA AppendFrame ==
  ASSUME NEW s \in Seq(Frame), NEW f \in Frame, NEW r, r = Append(s, f)
  PROVE  /\ Len(s) \in Nat /\ Len(r) = Len(s) + 1 /\ r[Len(s) + 1] = f
         /\ DOMAIN s = 1 .. Len(s) /\ DOMAIN r = 1 .. Len(s) + 1
         /\ \A j \in 1 .. Len(s) : r[j] = s[j]
OBVIOUS

\* DoWriteFrame of a frame that can be written appends it.
LEMMA DoWriteWritable ==
  ASSUME NEW c \in Cluster, NEW f \in Frame, NEW o \in Nat, CanWrite(c, f)
  PROVE  LET d == DoWriteFrame(c, f, o)
         IN  /\ d \in Cluster /\ d.stored = c.stored /\ d.pos = c.pos
             /\ d.blocks = Append(c.blocks, f) /\ HeaderWritten(d)
<1> DEFINE d == DoWriteFrame(c, f, o)
<1>1. /\ d \in Cluster /\ d.stored = c.stored /\ d.pos = c.pos
      /\ d.blocks = IF CanWrite(c, f) THEN Append(c.blocks, f) ELSE c.blocks
      /\ CanWrite(c, f) => HeaderWritten(d)
  BY DoWriteFrameType
<1> HIDE DEF d
<1>2. /\ d \in Cluster /\ d.stored = c.stored /\ d.pos = c.pos
      /\ d.blocks = Append(c.blocks, f) /\ HeaderWritten(d)
  BY <1>1
<1> QED
  BY <1>2 DEF d

\* A block is written, with a cue if it is the first of the cues' track.
LEMMA CuesWrite ==
  ASSUME TypeOK, TypeOK', CuesInv, ClustersChained, ~conf.accurate,
         clusters # << >>, NEW f \in Frame, NEW g \in Frame,
         f.track = g.track, f.ts = g.ts, CanWrite(LastCluster, f),
         SetLastCluster(DoWriteFrame(LastCluster, f, written)), AddCuePoint(g),
         UNCHANGED << conf, cuesTrack >>, pc' # "hold"
  PROVE  CuesInv'
<1>1. PICK n : n = Len(clusters)
  OBVIOUS
<1>2. clusters \in Seq(Cluster) /\ n \in Nat /\ n # 0
  BY <1>1 DEF TypeOK
<1>3. PICK c : c = LastCluster
  OBVIOUS
<1>4. n \in DOMAIN clusters /\ c = clusters[n] /\ c \in Cluster /\ written \in Nat
  <2>1. n \in DOMAIN clusters /\ c = clusters[n] /\ written \in Nat
    BY <1>1, <1>3, LastOfDomain DEF TypeOK, LastCluster
  <2> QED
    BY <1>2, <2>1, ElementOfSeq
<1>5. PICK d : d = DoWriteFrame(c, f, written)
  OBVIOUS
<1>6. /\ d \in Cluster /\ d.stored = c.stored /\ d.pos = c.pos
      /\ d.blocks = Append(c.blocks, f) /\ HeaderWritten(d)
      /\ c.blocks \in Seq(Frame)
  <2>1. CanWrite(c, f) /\ c.blocks \in Seq(Frame)
    BY <1>3, <1>4, ClusterFields
  <2> QED
    BY <1>4, <1>5, <2>1, DoWriteWritable, Zenon
<1>7. clusters' = [clusters EXCEPT ![n] = d]
  BY <1>1, <1>3, <1>5 DEF SetLastCluster
<1>8. /\ Len(clusters') = n /\ DOMAIN clusters' = DOMAIN clusters /\ clusters'[n] = d
      /\ \A i \in DOMAIN clusters : i # n => clusters'[i] = clusters[i]
      /\ LastCluster' = d /\ clusters' # << >>
  BY <1>1, <1>2, <1>7 DEF LastCluster
<1>9. PICK m : m = Len(c.blocks)
  OBVIOUS
<1>10. /\ m \in Nat /\ Len(d.blocks) = m + 1 /\ d.blocks[m + 1] = f
       /\ DOMAIN d.blocks = 1 .. m + 1 /\ DOMAIN c.blocks = 1 .. m
       /\ \A j \in 1 .. m : d.blocks[j] = c.blocks[j]
  BY <1>6, <1>9, AppendFrame
<1>11. NothingStored /\ CueDue /\ CuesNameBlocks /\ CuesDiffer /\ ClustersHaveCues
  BY DEF CuesInv
<1>12. NothingStored'
  BY <1>4, <1>6, <1>8, <1>11 DEF NothingStored
<1>13. \A i, j \in DOMAIN clusters : clusters[i].pos = clusters[j].pos => i = j
  <2>1. \A i \in DOMAIN clusters : i \in Nat /\ clusters[i].pos \in Int
    BY <1>2, ClusterFields
  <2> QED
    BY <2>1 DEF ClustersChained

\* The cues that are there still name the same blocks.
<1>14. ASSUME NEW cue, NEW i \in DOMAIN clusters, IsCueOf(cue, clusters[i])
       PROVE  IsCueOf(cue, clusters[i])'
  <2>1. CASE i # n
    BY <1>8, <1>14, <2>1 DEF IsCueOf, FirstBlock
  <2>2. CASE i = n
    <3>1. cue.block \in 1 .. m /\ cue.block \in 1 .. m + 1
          /\ 1 .. cue.block - 1 \subseteq 1 .. m
      BY <1>4, <1>10, <1>14, <2>2 DEF IsCueOf, FirstBlock
    <3>2. clusters'[i] = d /\ clusters[i] = c
      BY <1>4, <1>8, <2>2
    <3> QED
      BY <1>6, <1>10, <1>14, <3>1, <3>2 DEF IsCueOf, FirstBlock
  <2> QED
    BY <2>1, <2>2
<1>15. cues \in Seq([time : Nat, track : TrackSet, pos : Int, block : Nat])
  BY DEF TypeOK
<1>16. CASE newCue /\ cuesTrack = g.track
  <2>1. PICK q : q = [ time |-> Timecode(g.ts), track |-> g.track, pos |-> c.pos,
                       block |-> m + 1 ]
    OBVIOUS
  <2>2. cues' = Append(cues, q) /\ ~newCue'
    BY <1>1, <1>3, <1>8, <1>10, <1>16, <2>1 DEF AddCuePoint
  <2>3. PICK l : l = Len(cues)
    OBVIOUS
  <2>4. /\ l \in Nat /\ DOMAIN cues' = 1 .. l + 1 /\ DOMAIN cues = 1 .. l
        /\ cues'[l + 1] = q /\ \A k \in 1 .. l : cues'[k] = cues[k]
    BY <1>15, <2>2, <2>3
  <2>5. \A k \in 1 .. l + 1 : k = l + 1 \/ k \in 1 .. l
    BY <2>4
  <2>6. conf.outputCues /\ \A j \in 1 .. m : c.blocks[j].track # cuesTrack
    BY <1>3, <1>10, <1>11, <1>16 DEF CueDue, HasCuesTrack
  <2>7. IsCueOf(q, clusters[n])'
    <3>1. /\ q.pos = c.pos /\ q.block = m + 1 /\ q.track = cuesTrack
          /\ q.time = Timecode(g.ts) /\ m + 1 \in 1 .. m + 1 /\ m + 1 - 1 = m
      BY <1>10, <1>16, <2>1
    <3>2. d.blocks[m + 1].track = q.track /\ Timecode(d.blocks[m + 1].ts) = q.time
      BY <1>10, <1>16, <3>1
    <3>3. \A j \in 1 .. m : d.blocks[j].track # q.track
      BY <1>10, <2>6, <3>1
    <3>4. FirstBlock(q, d)
      BY <1>10, <3>1, <3>2, <3>3 DEF FirstBlock
    <3> QED
      BY <1>6, <1>8, <3>1, <3>4 DEF IsCueOf, FirstBlock
  <2>8. ASSUME NEW k \in 1 .. l PROVE cues[k].pos # q.pos
    <3>1. PICK i \in DOMAIN clusters : IsCueOf(cues[k], clusters[i])
      BY <1>11, <2>4 DEF CuesNameBlocks
    <3>2. cues[k].track = cuesTrack
      BY <1>11, <2>4 DEF CuesNameBlocks
    <3>3. i # n
      BY <1>4, <1>10, <2>6, <3>1, <3>2 DEF IsCueOf, FirstBlock
    <3> QED
      BY <1>4, <1>13, <2>1, <3>1, <3>3 DEF IsCueOf
  <2>9. CueDue'
    <3>1. HasCue(LastCluster)'
      BY <1>6, <1>8, <2>1, <2>4 DEF HasCue
    <3> QED
      BY <2>2, <3>1 DEF CueDue
  <2>10. CuesNameBlocks'
    <3>1. ASSUME NEW k \in 1 .. l + 1
          PROVE  cues'[k].track = cuesTrack' /\ \E i \in DOMAIN clusters' :
                                                 IsCueOf(cues[k], clusters[i])'
      <4>1. CASE k = l + 1
        <5>1. cues'[k] = q /\ n \in DOMAIN clusters'
          BY <1>4, <1>8, <2>4, <4>1
        <5>2. IsCueOf(cues[k], clusters[n])'
          BY <2>7, <5>1 DEF IsCueOf, FirstBlock
        <5> QED
          BY <1>16, <2>1, <5>1, <5>2
      <4>2. CASE k \in 1 .. l
        <5>1. cues'[k] = cues[k] /\ k \in DOMAIN cues
          BY <2>4, <4>2
        <5>2. PICK i \in DOMAIN clusters : IsCueOf(cues[k], clusters[i])
          BY <1>11, <5>1 DEF CuesNameBlocks
        <5>3. PICK x : x = cues[k]
          OBVIOUS
        <5>4. IsCueOf(x, clusters[i])'
          BY <1>14, <5>2, <5>3
        <5>5. IsCueOf(cues[k], clusters[i])'
          BY <5>1, <5>3, <5>4 DEF IsCueOf, FirstBlock
        <5> QED
          BY <1>8, <1>11, <5>1, <5>5 DEF CuesNameBlocks
      <4> QED
        BY <2>5, <4>1, <4>2
    <3> QED
      BY <2>4, <3>1 DEF CuesNameBlocks
  <2>11. CuesDiffer'
    <3> SUFFICES ASSUME NEW k \in 1 .. l + 1, NEW h \in 1 .. l + 1,
                        cues'[k].pos = cues'[h].pos
                 PROVE  k = h
      BY <2>4 DEF CuesDiffer
    <3> QED
      BY <1>11, <2>4, <2>5, <2>8 DEF CuesDiffer
  <2>12. ClustersHaveCues'
    <3> SUFFICES ASSUME NEW i \in DOMAIN clusters, HasCuesTrack(clusters[i])'
                 PROVE  HasCue(clusters[i])'
      BY <1>8 DEF ClustersHaveCues
    <3>1. CASE i = n
      BY <1>6, <1>8, <2>1, <2>4, <3>1, SMTT(30) DEF HasCue
    <3>2. CASE i # n
      <4>1. clusters'[i] = clusters[i]
        BY <1>8, <3>2
      <4>2. HasCue(clusters[i])
        BY <1>11, <2>6, <4>1 DEF ClustersHaveCues, HasCuesTrack
      <4>3. PICK k \in 1 .. l : cues[k].pos = clusters[i].pos
        BY <2>4, <4>2 DEF HasCue
      <4>4. k \in DOMAIN cues' /\ cues'[k] = cues[k]
        BY <2>4, <2>5
      <4> QED
        BY <4>1, <4>3, <4>4 DEF HasCue
    <3> QED
      BY <3>1, <3>2
  <2> QED
    BY <1>12, <2>9, <2>10, <2>11, <2>12 DEF CuesInv
<1>17. CASE ~(newCue /\ cuesTrack = g.track)
  <2>1. UNCHANGED << newCue, cues >>
    BY <1>17 DEF AddCuePoint
  <2>2. \A i \in DOMAIN clusters : HasCue(clusters[i]) => HasCue(clusters[i])'
    BY <1>4, <1>6, <1>8, <2>1 DEF HasCue
  <2>3. HasCuesTrack(clusters[n])' <=> HasCuesTrack(c) \/ f.track = cuesTrack
    <3>1. HasCuesTrack(clusters[n])' <=> \E j \in 1 .. m + 1 : d.blocks[j].track = cuesTrack
      BY <1>8, <1>10 DEF HasCuesTrack
    <3>2. HasCuesTrack(c) <=> \E j \in 1 .. m : d.blocks[j].track = cuesTrack
      BY <1>10 DEF HasCuesTrack
    <3>3. \A j \in 1 .. m + 1 : j = m + 1 \/ j \in 1 .. m
      BY <1>10
    <3>4. m + 1 \in 1 .. m + 1 /\ \A j \in 1 .. m : j \in 1 .. m + 1
      BY <1>10
    <3> QED
      BY <1>10, <3>1, <3>2, <3>3, <3>4
  <2>4. LastCluster' = clusters'[n]
    BY <1>8
  <2>5. CueDue'
    <3>1. newCue => ~HasCuesTrack(LastCluster)'
      <4>1. newCue => ~HasCuesTrack(c) /\ f.track # cuesTrack
        BY <1>3, <1>11, <1>17 DEF CueDue
      <4>2. HasCuesTrack(LastCluster)' <=> HasCuesTrack(clusters[n])'
        BY <2>4 DEF HasCuesTrack
      <4> QED
        BY <2>3, <4>1, <4>2
    <3>2. conf.outputCues /\ ~newCue => HasCue(LastCluster)'
      BY <1>3, <1>6, <1>8, <1>11, <2>1 DEF CueDue, HasCue
    <3> QED
      BY <1>8, <1>11, <2>1, <3>1, <3>2 DEF CueDue
  <2>6. CuesNameBlocks'
    <3> SUFFICES ASSUME NEW k \in DOMAIN cues
                 PROVE  cues[k].track = cuesTrack /\ \E i \in DOMAIN clusters :
                                                     IsCueOf(cues[k], clusters[i])'
      BY <1>8, <2>1 DEF CuesNameBlocks
    <3>1. PICK i \in DOMAIN clusters : IsCueOf(cues[k], clusters[i])
      BY <1>11 DEF CuesNameBlocks
    <3>2. PICK x : x = cues[k]
      OBVIOUS
    <3>3. IsCueOf(x, clusters[i])'
      BY <1>14, <3>1, <3>2
    <3>4. IsCueOf(cues[k], clusters[i])'
      BY <2>1, <3>2, <3>3 DEF IsCueOf, FirstBlock
    <3> QED
      BY <1>11, <3>4 DEF CuesNameBlocks
  <2>7. CuesDiffer'
    BY <1>11, <2>1 DEF CuesDiffer
  <2>8. ClustersHaveCues'
    <3> SUFFICES ASSUME conf.outputCues, NEW i \in DOMAIN clusters, HasCuesTrack(clusters[i])'
                 PROVE  HasCue(clusters[i])
      BY <1>8, <2>2 DEF ClustersHaveCues
    <3>1. CASE i # n
      <4>1. HasCuesTrack(clusters[i])
        BY <1>8, <3>1 DEF HasCuesTrack
      <4> QED
        BY <1>11, <4>1 DEF ClustersHaveCues
    <3>2. CASE i = n
      <4>1. HasCuesTrack(c) \/ f.track = cuesTrack
        BY <2>3, <3>2
      <4>2. HasCuesTrack(c) => HasCue(c)
        BY <1>4, <1>11 DEF ClustersHaveCues
      <4>3. f.track = cuesTrack => HasCue(c)
        BY <1>3, <1>11, <1>17 DEF CueDue
      <4> QED
        BY <1>4, <3>2, <4>1, <4>2, <4>3
    <3> QED
      BY <3>1, <3>2
  <2> QED
    BY <1>12, <2>5, <2>6, <2>7, <2>8 DEF CuesInv
<1> QED
  BY <1>16, <1>17

\* Clusters that do not change keep their blocks.
LEMMA SameBlocksSame ==
  ASSUME UNCHANGED clusters
  PROVE  SameBlocks
BY DEF SameBlocks

\* DoWriteFrame of a frame that cannot be written leaves the blocks alone.
LEMMA DoWriteRefused ==
  ASSUME NEW c \in Cluster, NEW f \in Frame, NEW o \in Nat, ~CanWrite(c, f)
  PROVE  LET d == DoWriteFrame(c, f, o)
         IN  /\ d \in Cluster /\ d.pos = c.pos /\ d.stored = c.stored
             /\ d.blocks = c.blocks /\ (HeaderWritten(c) => HeaderWritten(d))
<1> DEFINE d == DoWriteFrame(c, f, o)
<1>1. /\ d \in Cluster /\ d.pos = c.pos /\ d.stored = c.stored
      /\ d.blocks = IF CanWrite(c, f) THEN Append(c.blocks, f) ELSE c.blocks
      /\ d.at \in {c.at, IF HeaderWritten(c) THEN c.at ELSE o}
  BY DoWriteFrameType
<1> HIDE DEF d
<1>2. d.blocks = c.blocks /\ (HeaderWritten(c) => HeaderWritten(d))
  BY <1>1 DEF HeaderWritten
<1> QED
  BY <1>1, <1>2 DEF d

\* Cluster::AddFrame, when it writes at once.
LEMMA CuesAddFrame ==
  ASSUME TypeOK, TypeOK', CuesInv, ClustersChained, ~conf.accurate, clusters # << >>,
         NEW f \in Frame, NEW g \in Frame, f.track = g.track, f.ts = g.ts, NEW p,
         UNCHANGED << conf, cuesTrack >>, pc' # "hold",
         \/ AddFrameDone(f, p) /\ AddCuePoint(g)
         \/ AddFrameFails(f, p) /\ UNCHANGED cueVars
  PROVE  CuesInv'
<1>1. CASE AddFrameDone(f, p) /\ AddCuePoint(g)
  <2>1. /\ CanWrite(LastCluster, f)
        /\ SetLastCluster(DoWriteFrame(LastCluster, f, written))
    BY <1>1 DEF AddFrameDone, CuesInv, NothingStored
  <2> QED
    BY <1>1, <2>1, CuesWrite
<1>2. CASE AddFrameFails(f, p) /\ UNCHANGED cueVars
  <2>1. /\ ~CanWrite(LastCluster, f)
        /\ SetLastCluster(DoWriteFrame(LastCluster, f, written))
    BY <1>2 DEF AddFrameFails
  <2>2. PICK c : c = LastCluster
    OBVIOUS
  <2>3. PICK d : d = DoWriteFrame(c, f, written)
    OBVIOUS
  <2>4. c \in Cluster /\ written \in Nat
    <3>1. LastCluster \in Cluster
      BY LastOfDomain, ElementOfSeq DEF LastCluster
    <3> QED
      BY <2>2, <3>1 DEF TypeOK
  <2>5. d \in Cluster /\ d.pos = c.pos /\ d.stored = c.stored /\ d.blocks = c.blocks
        /\ (HeaderWritten(c) => HeaderWritten(d))
    BY <2>1, <2>2, <2>3, <2>4, DoWriteRefused, Zenon
  <2>6. SameBlocks
    <3>1. SetLastCluster(d)
      BY <2>1, <2>2, <2>3
    <3>2. d.pos = LastCluster.pos /\ d.stored = LastCluster.stored
          /\ d.blocks = LastCluster.blocks /\ (HeaderWritten(LastCluster) => HeaderWritten(d))
      BY <2>2, <2>5, Zenon
    <3>3. d \in Cluster
      BY <2>5
    <3> QED
      BY <3>1, <3>2, <3>3, SetLastSameBlocks, Zenon
  <2> QED
    BY <1>2, <2>6, CuesSame
<1> QED
  BY <1>1, <1>2

\* A new cluster has no block and no cue yet; the next cue is due.
LEMMA CuesOpenCluster ==
  ASSUME TypeOK, TypeOK', CuesInv, ~conf.accurate, OpenCluster
  PROVE  CuesInv'
<1>1. /\ UNCHANGED << conf, cues, cuesTrack >> /\ newCue' = (newCue \/ conf.outputCues)
      /\ pc' = "flushAll"
  BY DEF OpenCluster
<1>2. PICK tc : clusters' = Append(clusters, NewCluster(tc, offset))
  BY DEF OpenCluster
<1>3. PICK c : c = NewCluster(tc, offset)
  OBVIOUS
<1>4. c.blocks = << >> /\ \A t \in TrackSet : c.stored[t] = << >>
  BY <1>3 DEF NewCluster
<1>5. PICK n : n = Len(clusters)
  OBVIOUS
<1>6. /\ n \in Nat /\ clusters'[n + 1] = c /\ DOMAIN clusters' = 1 .. n + 1
      /\ DOMAIN clusters = 1 .. n
      /\ \A i \in 1 .. n : clusters'[i] = clusters[i]
      /\ LastCluster' = c /\ clusters' # << >>
  <2>1. clusters \in Seq(Cluster) /\ clusters' = Append(clusters, c)
    BY <1>2, <1>3 DEF TypeOK
  <2>2. DOMAIN clusters = 1 .. n
    BY <1>5, <2>1
  <2> QED
    BY <1>5, <2>1, <2>2 DEF LastCluster
<1>7. \A i \in 1 .. n + 1 : i = n + 1 \/ i \in 1 .. n
  BY <1>6
<1>8. NothingStored /\ CueDue /\ CuesNameBlocks /\ CuesDiffer /\ ClustersHaveCues
  BY DEF CuesInv
<1>9. NothingStored'
  BY <1>1, <1>4, <1>6, <1>7, <1>8 DEF NothingStored
<1>10. ~HasCuesTrack(clusters[n + 1])'
  BY <1>4, <1>6 DEF HasCuesTrack
<1>11. CueDue'
  <2>1. ~HasCuesTrack(LastCluster)'
    BY <1>4, <1>6 DEF HasCuesTrack
  <2> QED
    BY <1>1, <1>6, <1>8, <2>1 DEF CueDue
<1>12. CuesNameBlocks'
  <2> SUFFICES ASSUME NEW k \in DOMAIN cues
               PROVE  cues[k].track = cuesTrack /\ \E i \in DOMAIN clusters' :
                                                      IsCueOf(cues[k], clusters[i])'
    BY <1>1 DEF CuesNameBlocks
  <2>1. PICK i \in DOMAIN clusters : IsCueOf(cues[k], clusters[i])
    BY <1>8 DEF CuesNameBlocks
  <2>2. i \in DOMAIN clusters' /\ clusters'[i] = clusters[i]
    BY <1>6
  <2>3. IsCueOf(cues[k], clusters[i])'
    BY <1>1, <2>1, <2>2 DEF IsCueOf, FirstBlock
  <2> QED
    BY <1>8, <2>2, <2>3 DEF CuesNameBlocks
<1>13. CuesDiffer'
  BY <1>1, <1>8 DEF CuesDiffer
<1>14. ClustersHaveCues'
  <2> SUFFICES ASSUME conf.outputCues, NEW i \in 1 .. n + 1, HasCuesTrack(clusters[i])'
               PROVE  HasCue(clusters[i])'
    BY <1>1, <1>6 DEF ClustersHaveCues
  <2>1. i # n + 1
    <3> SUFFICES ASSUME i = n + 1 PROVE FALSE
      OBVIOUS
    <3>1. clusters'[i] = c
      BY <1>6
    <3> QED
      BY <1>4, <3>1 DEF HasCuesTrack
  <2>2. i \in DOMAIN clusters /\ clusters'[i] = clusters[i]
    BY <1>6, <1>7, <2>1
  <2>3. HasCuesTrack(clusters[i])
    BY <1>1, <2>2 DEF HasCuesTrack
  <2> QED
    BY <1>1, <1>8, <2>2, <2>3 DEF ClustersHaveCues, HasCue
<1> QED
  BY <1>9, <1>11, <1>12, <1>13, <1>14 DEF CuesInv

-----------------------------------------------------------------------------
(* Every step keeps the invariant.                                           *)

\* The caller's steps reach no cluster; the header settles the cues' track.
LEMMA CuesCaller ==
  ASSUME TypeOK, TypeOK', CuesInv, HeaderFirst, ~conf.accurate, Caller
  PROVE  CuesInv'
<1>1. pc' # "hold" /\ UNCHANGED << conf, clusters, cueVars >>
  BY DEF Caller, RejectFrame, QueueFrame, BeginFrame, BeginCall, Return,
         ForceNewClusterOnNextFrame, Finalize
<1>2. cuesTrack' = cuesTrack \/ ~headerWritten
  BY DEF Caller, RejectFrame, QueueFrame, BeginFrame, BeginCall, CheckHeaderInfo,
         ForceNewClusterOnNextFrame, Finalize
<1>3. CASE cuesTrack' = cuesTrack
  BY <1>1, <1>3, SameBlocksSame, CuesSame
<1>4. CASE ~headerWritten
  <2>1. clusters = << >> /\ ~newCue
    BY <1>4 DEF HeaderFirst
  <2>2. ASSUME NEW k \in DOMAIN cues PROVE FALSE
    <3>1. PICK i \in DOMAIN clusters : IsCueOf(cues[k], clusters[i])
      BY <2>2 DEF CuesInv, CuesNameBlocks
    <3> QED
      BY <2>1, <3>1
  <2>3. clusters' = << >> /\ DOMAIN cues' = {} /\ ~newCue'
    BY <1>1, <2>1, <2>2 DEF cueVars
  <2> QED
    BY <1>1, <2>3 DEF CuesInv, NothingStored, CueDue, CuesNameBlocks, CuesDiffer,
                      ClustersHaveCues
<1> QED
  BY <1>2, <1>3, <1>4

\* CuesInv is kept by every step, given where the clusters are (PlaceInv).
LEMMA CuesNext ==
  ASSUME IInv, IInv', OpenInv, PlaceInv, CuesInv, [Next]_vars
  PROVE  CuesInv'
<1> USE DEF IInv
<1>1. ClustersChained /\ HeaderFirst
  BY DEF PlaceInv
<1>2. CASE conf.accurate
  <2>1. conf' = conf
    BY DEF Next, Caller, RejectFrame, QueueFrame, BeginFrame, BeginCall,
           ForceNewClusterOnNextFrame, Finalize, Step, Hold, Release, AddClusterSize,
           TestForNewCluster, FlushOlder, FlushOlderFails, FlushOlderEnd, CloseStored,
           CloseCluster, OpenCluster, FlushAll, FlushAllEnd, FlushAllFails, WriteFrame,
           FinishFile, Terminated, vars
  <2> QED
    BY <1>2, <2>1 DEF CuesInv
<1>3. CASE ~conf.accurate
  <2>1. ~Hold /\ ~Release /\ ~CloseStored
    <3>1. NothingStored
      BY <1>3 DEF CuesInv
    <3>2. ~Hold /\ ~Release
      BY <1>3, <3>1 DEF Hold, Release, NothingStored
    <3>3. CloseStored => FALSE
      <4> SUFFICES ASSUME CloseStored PROVE FALSE
        OBVIOUS
      <4>1. clusters # << >> /\ HasStored(LastCluster)
        BY DEF CloseStored, CallState
      <4>2. Len(clusters) \in DOMAIN clusters
        BY <4>1, LastOfDomain
      <4> QED
        BY <3>1, <4>1, <4>2 DEF NothingStored, HasStored, LastCluster
    <3> QED
      BY <3>2, <3>3
  <2>2. CASE UNCHANGED << conf, clusters, cuesTrack, cueVars >> /\ pc' # "hold"
    BY <2>2, SameBlocksSame, CuesSame
  <2>3. CASE FlushOlder \/ FlushOlderFails
    <3>1. queue # << >> /\ clusters # << >>
      BY <2>3 DEF FlushOlder, FlushOlderFails, OlderFrameQueued
    <3>2. /\ UNCHANGED << conf, cuesTrack >> /\ pc' # "hold"
          /\ \/ AddFrameDone(Head(queue), "flushOlder") /\ AddCuePoint(Head(queue))
             \/ AddFrameFails(Head(queue), "flushOlder") /\ UNCHANGED cueVars
      BY <2>3 DEF FlushOlder, FlushOlderFails
    <3> QED
      BY <1>1, <1>3, <3>1, <3>2, QueueHeadType, CuesAddFrame
  <2>4. CASE FlushAll
    <3>1. queue # << >> /\ clusters # << >>
      BY <2>4 DEF FlushAll
    <3>2. /\ UNCHANGED << conf, cuesTrack >> /\ pc' # "hold"
          /\ \/ AddFrameDone(Head(queue), "flushAll") /\ AddCuePoint(Head(queue))
             \/ AddFrameFails(Head(queue), "flushAll") /\ UNCHANGED cueVars
      BY <2>4 DEF FlushAll
    <3> QED
      BY <1>1, <1>3, <3>1, <3>2, QueueHeadType, CuesAddFrame
  <2>5. CASE WriteFrame
    <3>1. clusters # << >> /\ frame \in Frame /\ frame.track \in TrackSet
      BY <2>5 DEF WriteFrame, AddFrameDone, AddFrameFails, CallState, TypeOK
    <3>2. /\ UNCHANGED << conf, cuesTrack >> /\ pc' # "hold"
          /\ \/ AddFrameDone(WithReference(frame), "write") /\ AddCuePoint(frame)
             \/ AddFrameFails(WithReference(frame), "write") /\ UNCHANGED cueVars
      BY <2>5 DEF WriteFrame, Return
    <3>3. WithReference(frame).track = frame.track /\ WithReference(frame).ts = frame.ts
      BY <3>1 DEF WithReference, Frame
    <3> QED
      BY <1>1, <1>3, <3>1, <3>2, <3>3, WithReferenceType, CuesAddFrame
  <2>6. CASE CloseCluster
    <3>1. /\ UNCHANGED << conf, cuesTrack, cueVars >> /\ pc' # "hold" /\ clusters # << >>
      BY <2>6 DEF CloseCluster, Measure, Goto, Fail, Return, CallState
    <3>2. CASE UNCHANGED clusters
      BY <2>2, <3>1, <3>2
    <3>3. CASE SetLastCluster([LastCluster EXCEPT !.finalized = TRUE])
      <4>1. LastCluster \in Cluster
        BY <3>1, LastOfDomain, ElementOfSeq DEF LastCluster
      <4>2. PICK d : d = [LastCluster EXCEPT !.finalized = TRUE]
        OBVIOUS
      <4>3. /\ d \in Cluster /\ d.pos = LastCluster.pos /\ d.at = LastCluster.at
            /\ d.blocks = LastCluster.blocks /\ d.stored = LastCluster.stored
        BY <4>1, <4>2, FinalizedType
      <4>4. SameBlocks
        BY <3>1, <3>3, <4>2, <4>3, SetLastSameBlocks DEF HeaderWritten
      <4> QED
        BY <3>1, <4>4, CuesSame
    <3> QED
      BY <2>6, <3>2, <3>3 DEF CloseCluster
  <2>7. CASE OpenCluster
    BY <1>3, <2>7, CuesOpenCluster
  <2>8. CASE AddClusterSize \/ TestForNewCluster \/ FlushOlderEnd \/ FlushAllEnd
             \/ FlushAllFails
    <3>1. UNCHANGED << conf, clusters, cuesTrack, cueVars >> /\ pc' # "hold"
      BY <2>8 DEF AddClusterSize, TestForNewCluster, FlushOlderEnd, FlushAllEnd,
                  FlushAllFails, Goto, Measure, Return, Fail
    <3> QED
      BY <2>2, <3>1
  <2>9. CASE FinishFile
    <3>1. UNCHANGED << conf, clusters, cuesTrack, cueVars >> /\ pc' # "hold"
      BY <2>9 DEF FinishFile
    <3> QED
      BY <2>2, <3>1
  <2>10. CASE UNCHANGED vars
    <3>1. pc' # "hold"
      BY <1>3, <2>10 DEF vars, CuesInv, NothingStored
    <3> QED
      BY <2>2, <2>10, <3>1 DEF vars
  <2> QED
    BY <1>1, <1>3, <2>1, <2>3, <2>4, <2>5, <2>6, <2>7, <2>8, <2>9, <2>10, CuesCaller
       DEF Next, Step, Terminated
<1> QED
  BY <1>2, <1>3

\* It holds at the start, where there is no cue.
LEMMA InitCues == Init => CuesInv
<1> SUFFICES ASSUME Init PROVE CuesInv
  OBVIOUS
<1>1. clusters = << >> /\ DOMAIN cues = {} /\ ~newCue /\ pc = "idle"
  BY DEF Init
<1> QED
  BY <1>1 DEF CuesInv, NothingStored, CueDue, CuesNameBlocks, CuesDiffer, ClustersHaveCues

\* Whatever is added and however the segment is set up, unless frames are held
\* back or a live stream is cut into chunks: every cue names a cluster of the
\* file and its first block of the cues' track, and every cluster with such a
\* block has one cue and only one.
THEOREM CuesTrue == Spec => []CuesExact
<1>1. Init => BaseInv /\ PlaceInv /\ CuesInv
  BY InitPlace, InitCues
<1>2. BaseInv /\ PlaceInv /\ CuesInv /\ [Next]_vars => BaseInv' /\ PlaceInv' /\ CuesInv'
  BY NextPlace, CuesNext DEF BaseInv
<1>3. BaseInv /\ PlaceInv /\ CuesInv => CuesExact
  <2> SUFFICES ASSUME BaseInv, PlaceInv, CuesInv, Resting, ~conf.accurate,
                      ~(conf.chunking /\ conf.mode = "live")
               PROVE  CuesExact
    BY DEF CuesExact
  <2>1. CuesNameBlocks /\ CuesDiffer /\ ClustersHaveCues
    BY DEF CuesInv
  <2>2. Shift = 0
    <3>1. conf.mode \in {"file", "live"}
      BY SegmentAssumption DEF BaseInv, IInv, TypeOK, Config
    <3> QED
      BY <3>1, HeaderLengthType
  <2>3. \A i \in DOMAIN clusters :
          HeaderWritten(clusters[i]) => clusters[i].pos = clusters[i].at
    <3> SUFFICES ASSUME NEW i \in DOMAIN clusters, HeaderWritten(clusters[i])
                 PROVE  clusters[i].pos = clusters[i].at
      OBVIOUS
    <3>1. /\ clusters[i].at = End(i - 1) /\ clusters[i].pos = End(i - 1) + Shift
          /\ clusters[i] \in Cluster
      BY EndType DEF PlaceInv, ClustersChained, BaseInv, IInv
    <3> QED
      BY <2>2, <3>1, ClusterFields
  <2>4. \A i, j \in DOMAIN clusters : clusters[i].pos = clusters[j].pos => i = j
    <3>1. \A i \in DOMAIN clusters : i \in Nat /\ clusters[i].pos \in Int
      BY EndType, ClusterFields DEF BaseInv, IInv
    <3> QED
      BY <3>1 DEF PlaceInv, ClustersChained
  <2>5. ASSUME NEW k \in DOMAIN cues
        PROVE  \E i \in DOMAIN clusters :
                 /\ cues[k].pos = clusters[i].at
                 /\ cues[k].block \in DOMAIN clusters[i].blocks
                 /\ LET b == clusters[i].blocks[cues[k].block]
                    IN  b.track = cues[k].track /\ Timecode(b.ts) = cues[k].time
                 /\ \A j \in 1 .. cues[k].block - 1 :
                      clusters[i].blocks[j].track # cues[k].track
    BY <2>1, <2>3 DEF CuesNameBlocks, IsCueOf, FirstBlock
  <2>6. ASSUME conf.outputCues, NEW i \in DOMAIN clusters,
               NEW j \in DOMAIN clusters[i].blocks, clusters[i].blocks[j].track = cuesTrack
        PROVE  Cardinality({ k \in DOMAIN cues : cues[k].pos = clusters[i].at }) = 1
    <3>1. PICK k \in DOMAIN cues : cues[k].pos = clusters[i].pos
      BY <2>1, <2>6 DEF ClustersHaveCues, HasCuesTrack, HasCue
    <3>2. PICK h \in DOMAIN clusters : IsCueOf(cues[k], clusters[h])
      BY <2>1 DEF CuesNameBlocks
    <3>3. h = i
      BY <2>4, <3>1, <3>2 DEF IsCueOf
    <3>4. clusters[i].at = cues[k].pos
      BY <2>3, <3>1, <3>2, <3>3 DEF IsCueOf
    <3>5. { l \in DOMAIN cues : cues[l].pos = clusters[i].at } = {k}
      BY <2>1, <3>4 DEF CuesDiffer
    <3> QED
      BY <3>5, FS_Singleton
  <2> QED
    BY <2>5, <2>6 DEF CuesExact
<1> QED
  BY <1>1, <1>2, <1>3, PTL DEF Spec

-----------------------------------------------------------------------------
(* The inductive invariant.                                                  *)

\* The places of blocks; what the last cluster holds back; whether its last
\* frame of the track is the one the call is still adding; from where on the
\* queue is only queue, and whether AddFrame is running.
Places == { s \in Nat \X Nat : /\ s[1] \in DOMAIN clusters
                               /\ s[2] \in DOMAIN clusters[s[1]].blocks }

Waiting(t) == IF clusters = << >> THEN << >> ELSE LastCluster.stored[t]

Pending == pc = "hold" /\ origin = "write"

QueueFrom == IF pc = "hold" /\ origin # "write" THEN 2 ELSE 1

Inside == call = "frame" /\ pc \notin {"idle", "done", "undefined"}

\* The frame is one that AddFrame took.
Known(x) == \E k \in DOMAIN accepted : accepted[k].id = x.id /\ accepted[k].ts = x.ts

AcceptedInOrder ==
  /\ \A i, j \in DOMAIN accepted : i < j => accepted[i].id < accepted[j].id
  /\ \A i \in DOMAIN accepted : /\ accepted[i].id <= calls
                                /\ Inside => accepted[i].id < calls
  /\ Inside => frame.id = calls

BlocksKnown == \A s \in Places : Known(Block(s))
QueueKnown  == \A i \in DOMAIN queue : Known(queue[i])
StoredKnown == \A t \in TrackSet : \A i \in DOMAIN Waiting(t) :
                 \/ Known(Waiting(t)[i])
                 \/ Pending /\ Waiting(t)[i].id = calls /\ Waiting(t)[i].ts = frame.ts

BlocksInOrder ==
  \A s, r \in Places : Before(s, r) /\ Block(s).track = Block(r).track
                         => Block(s).id < Block(r).id

StoredInOrder ==
  \A t \in TrackSet : \A i \in DOMAIN Waiting(t) :
    /\ \A j \in DOMAIN Waiting(t) : i < j => Waiting(t)[i].id < Waiting(t)[j].id
    /\ \A s \in Places : Block(s).track = t => Block(s).id < Waiting(t)[i].id

QueueInOrder ==
  \A a \in DOMAIN queue :
    /\ \A b \in DOMAIN queue : a < b => queue[a].id < queue[b].id
    /\ a >= QueueFrom =>
         /\ \A s \in Places : Block(s).id < queue[a].id
         /\ \A t \in TrackSet : \A i \in DOMAIN Waiting(t) : Waiting(t)[i].id < queue[a].id

BlocksInTime ==
  FeedInOrder => \A s, r \in Places : Before(s, r) => Block(s).ts <= Block(r).ts

StoredInTime ==
  FeedInOrder => \A s \in Places : \A t \in TrackSet : \A i \in DOMAIN Waiting(t) :
    Known(Waiting(t)[i]) => Block(s).ts <= Waiting(t)[i].ts

\* After undefined behaviour only the blocks still count.
WaitingOrder == StoredKnown /\ StoredInOrder /\ QueueKnown /\ QueueInOrder /\ StoredInTime

OrderInv == /\ AcceptedInOrder /\ BlocksKnown /\ BlocksInOrder /\ BlocksInTime
            /\ pc # "undefined" => WaitingOrder

\* It rests on what may be queued (QueueInv) and on nothing being held back
\* unless accurate durations are asked for (CuesInv).

-----------------------------------------------------------------------------
(* A feed in time order orders its frames by id.                             *)

\* In a feed in time order the ids order the times.
LEMMA AcceptedInTime ==
  ASSUME NEW acc \in Seq(Frame), NEW k \in DOMAIN acc, NEW l \in DOMAIN acc,
         \A i, j \in DOMAIN acc : i < j => acc[i].id < acc[j].id,
         \A i, j \in DOMAIN acc : i < j => acc[i].ts <= acc[j].ts,
         acc[k].id <= acc[l].id
  PROVE  acc[k].ts <= acc[l].ts
<1>1. /\ acc[k].id \in Nat /\ acc[l].id \in Nat /\ acc[k].ts \in Nat /\ acc[l].ts \in Nat
      /\ k \in Nat /\ l \in Nat
  <2>1. acc[k] \in Frame /\ acc[l] \in Frame /\ k \in Nat /\ l \in Nat
    OBVIOUS
  <2> QED
    BY <2>1, FrameFields
<1>2. k <= l
  BY <1>1
<1> QED
  BY <1>1, <1>2

\* The same of any two frames that AddFrame took,
LEMMA KnownInTime ==
  ASSUME TypeOK, AcceptedInOrder, FeedInOrder,
         NEW x, NEW y, Known(x), Known(y), x.id <= y.id
  PROVE  x.ts <= y.ts
BY AcceptedInTime DEF Known, TypeOK, AcceptedInOrder, FeedInOrder

\* and after the step.
LEMMA KnownInTimeNext ==
  ASSUME TypeOK', AcceptedInOrder', FeedInOrder',
         NEW x, NEW y, Known(x)', Known(y)', x.id <= y.id
  PROVE  x.ts <= y.ts
BY AcceptedInTime DEF Known, TypeOK, AcceptedInOrder, FeedInOrder

\* The id of a frame that AddFrame took is the number of an earlier call.
LEMMA KnownIds ==
  ASSUME TypeOK, AcceptedInOrder, NEW x, Known(x)
  PROVE  x.id \in Nat /\ x.ts \in Nat /\ x.id <= calls /\ (Inside => x.id < calls)
<1>1. PICK k \in DOMAIN accepted : accepted[k].id = x.id /\ accepted[k].ts = x.ts
  BY DEF Known
<1>2. accepted[k] \in Frame
  BY DEF TypeOK
<1> QED
  BY <1>1, <1>2, FrameFields DEF AcceptedInOrder

\* Types of what the invariant speaks of.
LEMMA OrderTypes ==
  ASSUME TypeOK
  PROVE  /\ \A s \in Places : Block(s) \in Frame
         /\ \A t \in TrackSet : Waiting(t) \in Seq(Frame)
         /\ queue \in Seq(Frame)
<1>1. clusters \in Seq(Cluster) /\ queue \in Seq(Frame)
  BY DEF TypeOK
<1>2. ASSUME NEW s \in Places PROVE Block(s) \in Frame
  <2>1. s[1] \in DOMAIN clusters /\ s[2] \in DOMAIN clusters[s[1]].blocks
    BY DEF Places
  <2>2. clusters[s[1]] \in Cluster
    BY <1>1, <2>1
  <2>3. clusters[s[1]].blocks \in Seq(Frame)
    BY <2>2, ClusterFields
  <2> QED
    BY <2>1, <2>3 DEF Block
<1>3. ASSUME NEW t \in TrackSet PROVE Waiting(t) \in Seq(Frame)
  <2>1. CASE clusters = << >>
    BY <2>1 DEF Waiting
  <2>2. CASE clusters # << >>
    <3>1. LastCluster \in Cluster
      BY <2>2, LastOfDomain, ElementOfSeq DEF LastCluster
    <3> QED
      BY <2>2, <3>1, ClusterFields DEF Waiting
  <2> QED
    BY <2>1, <2>2
<1> QED
  BY <1>1, <1>2, <1>3

\* The same after a step.
LEMMA OrderTypesNext ==
  ASSUME TypeOK'
  PROVE  \A t \in TrackSet : Waiting(t)' \in Seq(Frame)
<1> SUFFICES ASSUME NEW t \in TrackSet PROVE Waiting(t)' \in Seq(Frame)
  OBVIOUS
<1>1. clusters' \in Seq(Cluster)
  BY DEF TypeOK
<1>2. CASE clusters' = << >>
  BY <1>2 DEF Waiting
<1>3. CASE clusters' # << >>
  <2>1. LastCluster' \in Cluster
    BY <1>1, <1>3, ElementOfSeq DEF LastCluster
  <2> QED
    BY <1>3, <2>1, ClusterFields DEF Waiting
<1> QED
  BY <1>2, <1>3

-----------------------------------------------------------------------------
(* What a step does to the blocks and to what waits.                         *)

\* No block goes away, and the new ones are from F and behind all others.
PlacesGrow(F) ==
  /\ \A s \in Places : s \in Places' /\ Block(s)' = Block(s)
  /\ \A p \in Places' : p \in Places \/ (Block(p)' \in F /\ \A r \in Places' : ~Before(p, r))

\* Frames leave from the front, at most one of each track.
WaitingShrinks ==
  \A t \in TrackSet : \E k \in {0, 1} : \A i \in DOMAIN Waiting(t)' :
    i + k \in DOMAIN Waiting(t) /\ Waiting(t)'[i] = Waiting(t)[i + k]

QueueShrinks ==
  \E k \in {0, 1} : \A i \in DOMAIN queue' :
    /\ i + k \in DOMAIN queue /\ queue'[i] = queue[i + k]
    /\ i >= QueueFrom' => i + k >= QueueFrom

\* What the frames accepted by then say still holds.
KnowledgeGrows == /\ \A x : Known(x) => Known(x)'
                  /\ FeedInOrder' => FeedInOrder

\* New blocks that come after those of their track keep the blocks in order.
LEMMA BlocksKept ==
  ASSUME TypeOK, OrderInv, NEW F, PlacesGrow(F), KnowledgeGrows,
         \A f \in F : Known(f)',
         \A f \in F, s \in Places : Block(s).track = f.track => Block(s).id < f.id,
         FeedInOrder' => \A f \in F, s \in Places : Block(s).ts <= f.ts
  PROVE  BlocksKnown' /\ BlocksInOrder' /\ BlocksInTime'
<1>1. ASSUME NEW p \in Places'
      PROVE  \/ p \in Places /\ Block(p)' = Block(p)
             \/ Block(p)' \in F /\ \A r \in Places' : ~Before(p, r)
  BY DEF PlacesGrow
<1>2. BlocksKnown'
  <2> SUFFICES ASSUME NEW p \in Places' PROVE Known(Block(p))'
    BY DEF BlocksKnown
  <2>1. PICK x : x = Block(p)'
    OBVIOUS
  <2>2. Known(x)'
    BY <1>1, <2>1 DEF OrderInv, BlocksKnown, KnowledgeGrows
  <2> QED
    BY <2>1, <2>2 DEF Known
<1>3. ASSUME NEW s \in Places', NEW r \in Places', Before(s, r)
      PROVE  /\ Block(s)'.track = Block(r)'.track => Block(s)'.id < Block(r)'.id
             /\ FeedInOrder' => Block(s)'.ts <= Block(r)'.ts
  <2>1. s \in Places /\ Block(s)' = Block(s)
    BY <1>1, <1>3
  <2>2. CASE r \in Places /\ Block(r)' = Block(r)
    BY <1>3, <2>1, <2>2 DEF OrderInv, BlocksInOrder, BlocksInTime, KnowledgeGrows
  <2>3. CASE Block(r)' \in F
    BY <2>1, <2>3
  <2> QED
    BY <1>1, <2>2, <2>3
<1>4. \A s, r : Before(s, r)' = Before(s, r)
  BY DEF Before
<1> QED
  BY <1>2, <1>3, <1>4 DEF BlocksInOrder, BlocksInTime

\* The frame the call is adding stays on its list, or it has been accepted.
PendingKept == \A x : Pending /\ x.id = calls /\ x.ts = frame.ts =>
                        Known(x)' \/ (Pending' /\ x.id = calls' /\ x.ts = frame'.ts)

\* Lists that lose their first frames stay in order and behind the blocks.
LEMMA StoredKept ==
  ASSUME TypeOK, TypeOK', OrderInv, pc # "undefined", AcceptedInOrder', BlocksKnown',
         NEW F, PlacesGrow(F), WaitingShrinks, KnowledgeGrows, PendingKept,
         \A f \in F, t \in TrackSet : \A i \in DOMAIN Waiting(t)' :
           /\ f.track = t => f.id < Waiting(t)'[i].id
           /\ FeedInOrder' /\ Known(Waiting(t)[i])' => f.ts <= Waiting(t)'[i].ts
  PROVE  StoredKnown' /\ StoredInOrder' /\ StoredInTime'
<1> USE DEF OrderInv, WaitingOrder
<1>1. ASSUME NEW p \in Places' PROVE (p \in Places /\ Block(p)' = Block(p)) \/ Block(p)' \in F
  BY DEF PlacesGrow
<1>2. StoredKnown'
  <2> SUFFICES ASSUME NEW t \in TrackSet, NEW i \in DOMAIN Waiting(t)'
               PROVE  \/ Known(Waiting(t)[i])'
                      \/ /\ Pending' /\ Waiting(t)'[i].id = calls'
                         /\ Waiting(t)'[i].ts = frame'.ts
    BY DEF StoredKnown
  <2>1. PICK k \in {0, 1} : i + k \in DOMAIN Waiting(t) /\ Waiting(t)'[i] = Waiting(t)[i + k]
    BY DEF WaitingShrinks
  <2>2. PICK x : x = Waiting(t)'[i]
    OBVIOUS
  <2>3. Known(x) \/ (Pending /\ x.id = calls /\ x.ts = frame.ts)
    BY <2>1, <2>2 DEF StoredKnown, Known
  <2>4. Known(x)' \/ (Pending' /\ x.id = calls' /\ x.ts = frame'.ts)
    BY <2>3 DEF PendingKept, KnowledgeGrows
  <2> QED
    BY <2>2, <2>4 DEF Known
<1>3. StoredInOrder'
  <2> SUFFICES ASSUME NEW t \in TrackSet, NEW i \in DOMAIN Waiting(t)'
               PROVE  /\ \A j \in DOMAIN Waiting(t)' : i < j =>
                           Waiting(t)'[i].id < Waiting(t)'[j].id
                      /\ \A s \in Places' : Block(s)'.track = t =>
                           Block(s)'.id < Waiting(t)'[i].id
    BY DEF StoredInOrder
  <2>1. PICK k \in {0, 1} : \A j \in DOMAIN Waiting(t)' :
          j + k \in DOMAIN Waiting(t) /\ Waiting(t)'[j] = Waiting(t)[j + k]
    BY DEF WaitingShrinks
  <2>2. DOMAIN Waiting(t)' \subseteq Nat
    <3>1. Waiting(t)' \in Seq(Frame)
      BY OrderTypesNext
    <3> QED
      BY <3>1
  <2>3. ASSUME NEW j \in DOMAIN Waiting(t)', i < j
        PROVE  Waiting(t)'[i].id < Waiting(t)'[j].id
    <3>1. i + k < j + k
      BY <2>2, <2>3
    <3> QED
      BY <2>1, <3>1 DEF StoredInOrder
  <2>4. ASSUME NEW s \in Places', Block(s)'.track = t
        PROVE  Block(s)'.id < Waiting(t)'[i].id
    <3>1. CASE s \in Places /\ Block(s)' = Block(s)
      BY <2>1, <2>4, <3>1 DEF StoredInOrder
    <3>2. CASE Block(s)' \in F
      BY <2>4, <3>2
    <3> QED
      BY <1>1, <3>1, <3>2
  <2> QED
    BY <2>3, <2>4
<1>4. StoredInTime'
  <2> SUFFICES ASSUME FeedInOrder', NEW s \in Places', NEW t \in TrackSet,
                      NEW i \in DOMAIN Waiting(t)', Known(Waiting(t)[i])'
               PROVE  Block(s)'.ts <= Waiting(t)'[i].ts
    BY DEF StoredInTime
  <2>1. CASE Block(s)' \in F
    BY <2>1
  <2>2. CASE s \in Places /\ Block(s)' = Block(s)
    <3>1. PICK k \in {0, 1} : i + k \in DOMAIN Waiting(t)
                              /\ Waiting(t)'[i] = Waiting(t)[i + k]
      BY DEF WaitingShrinks
    <3>2. PICK x : x = Waiting(t)'[i]
      OBVIOUS
    <3>3. PICK b : b = Block(s)
      OBVIOUS
    <3>4. CASE Known(x)
      <4>1. Known(Waiting(t)[i + k])
        BY <3>1, <3>2, <3>4 DEF Known
      <4> QED
        BY <2>2, <3>1, <4>1 DEF StoredInTime, KnowledgeGrows
    <3>5. CASE Pending /\ x.id = calls
      <4>1. Known(b) /\ Known(b)' /\ Known(x)'
        <5>1. Known(b)
          BY <2>2, <3>3 DEF BlocksKnown, Known
        <5> QED
          BY <3>2, <5>1 DEF KnowledgeGrows, Known
      <4>2. b.id <= x.id
        BY <3>5, <4>1, KnownIds
      <4>3. b.ts <= x.ts
        BY <4>1, <4>2, KnownInTimeNext
      <4> QED
        BY <2>2, <3>2, <3>3, <4>3
    <3>6. Known(x) \/ (Pending /\ x.id = calls)
      BY <3>1, <3>2 DEF StoredKnown, Known
    <3> QED
      BY <3>4, <3>5, <3>6
  <2> QED
    BY <1>1, <2>1, <2>2
<1> QED
  BY <1>2, <1>3, <1>4

\* So does a queue that loses its first frame.
LEMMA QueueKept ==
  ASSUME TypeOK, TypeOK', OrderInv, pc # "undefined",
         NEW F, PlacesGrow(F), WaitingShrinks, QueueShrinks, KnowledgeGrows,
         \A f \in F : \A a \in DOMAIN queue' : a >= QueueFrom' => f.id < queue'[a].id
  PROVE  QueueKnown' /\ QueueInOrder'
<1> USE DEF OrderInv, WaitingOrder
<1>1. PICK k \in {0, 1} : \A a \in DOMAIN queue' :
        /\ a + k \in DOMAIN queue /\ queue'[a] = queue[a + k]
        /\ a >= QueueFrom' => a + k >= QueueFrom
  BY DEF QueueShrinks
<1>2. DOMAIN queue' \subseteq Nat
  <2>1. queue' \in Seq(Frame)
    BY DEF TypeOK
  <2> QED
    BY <2>1
<1>3. QueueKnown'
  <2> SUFFICES ASSUME NEW a \in DOMAIN queue' PROVE Known(queue[a])'
    BY DEF QueueKnown
  <2>1. PICK x : x = queue'[a]
    OBVIOUS
  <2>2. Known(x)
    BY <1>1, <2>1 DEF QueueKnown, Known
  <2> QED
    BY <2>1, <2>2 DEF KnowledgeGrows, Known
<1>4. QueueInOrder'
  <2> SUFFICES ASSUME NEW a \in DOMAIN queue'
               PROVE  /\ \A b \in DOMAIN queue' : a < b => queue'[a].id < queue'[b].id
                      /\ a >= QueueFrom' =>
                           /\ \A s \in Places' : Block(s)'.id < queue'[a].id
                           /\ \A t \in TrackSet : \A i \in DOMAIN Waiting(t)' :
                                Waiting(t)'[i].id < queue'[a].id
    BY DEF QueueInOrder
  <2>1. ASSUME NEW b \in DOMAIN queue', a < b PROVE queue'[a].id < queue'[b].id
    <3>1. a + k < b + k
      BY <1>2, <2>1
    <3> QED
      BY <1>1, <3>1 DEF QueueInOrder
  <2>2. ASSUME a >= QueueFrom', NEW s \in Places' PROVE Block(s)'.id < queue'[a].id
    BY <1>1, <2>2 DEF PlacesGrow, QueueInOrder
  <2>3. ASSUME a >= QueueFrom', NEW t \in TrackSet, NEW i \in DOMAIN Waiting(t)'
        PROVE  Waiting(t)'[i].id < queue'[a].id
    <3>1. PICK h \in {0, 1} : i + h \in DOMAIN Waiting(t)
                              /\ Waiting(t)'[i] = Waiting(t)[i + h]
      BY DEF WaitingShrinks
    <3> QED
      BY <1>1, <2>3, <3>1 DEF QueueInOrder
  <2> QED
    BY <2>1, <2>2, <2>3
<1> QED
  BY <1>3, <1>4

-----------------------------------------------------------------------------
(* What the operations on clusters do to the blocks and to what waits.       *)

\* Each list stays as it is, or loses its first frame, or is new.
LEMMA ListsShrink ==
  ASSUME TypeOK,
         \A t \in TrackSet : \/ Waiting(t)' = Waiting(t) \/ Waiting(t)' = << >>
                             \/ Waiting(t) # << >> /\ Waiting(t)' = Tail(Waiting(t))
  PROVE  WaitingShrinks
<1> SUFFICES ASSUME NEW t \in TrackSet
             PROVE  \E k \in {0, 1} : \A i \in DOMAIN Waiting(t)' :
                      i + k \in DOMAIN Waiting(t) /\ Waiting(t)'[i] = Waiting(t)[i + k]
  BY DEF WaitingShrinks
<1>1. PICK v : v = Waiting(t)
  OBVIOUS
<1>2. PICK w : w = Waiting(t)'
  OBVIOUS
<1>3. v \in Seq(Frame)
  BY <1>1, OrderTypes
<1>4. CASE w = v
  <2>1. \A i \in DOMAIN w : i + 0 \in DOMAIN v /\ w[i] = v[i + 0]
    BY <1>3, <1>4
  <2> QED
    BY <1>1, <1>2, <2>1
<1>5. CASE w = << >>
  <2>1. \A i \in DOMAIN w : i + 0 \in DOMAIN v /\ w[i] = v[i + 0]
    BY <1>5
  <2> QED
    BY <1>1, <1>2, <2>1
<1>6. CASE v # << >> /\ w = Tail(v)
  <2>1. \A i \in DOMAIN w : i + 1 \in DOMAIN v /\ w[i] = v[i + 1]
    BY <1>3, <1>6
  <2> QED
    BY <1>1, <1>2, <2>1
<1> QED
  BY <1>1, <1>2, <1>4, <1>5, <1>6

\* Clusters that do not change keep blocks and lists.
LEMMA SamePlaces ==
  ASSUME TypeOK, UNCHANGED clusters
  PROVE  PlacesGrow({}) /\ WaitingShrinks
<1>1. Places' = Places /\ \A s : Block(s)' = Block(s)
  BY DEF Places, Block
<1>2. \A t \in TrackSet : Waiting(t)' = Waiting(t)
  BY DEF Waiting, LastCluster
<1>3. WaitingShrinks
  BY <1>2, ListsShrink
<1> QED
  BY <1>1, <1>3 DEF PlacesGrow

\* The queue does not change,
LEMMA QueueSame ==
  ASSUME TypeOK, UNCHANGED queue, QueueFrom' >= QueueFrom \/ queue = << >>
  PROVE  QueueShrinks
<1>1. QueueFrom \in {1, 2} /\ QueueFrom' \in {1, 2} /\ queue \in Seq(Frame)
  BY DEF QueueFrom, TypeOK
<1>2. \A i \in DOMAIN queue : /\ i + 0 \in DOMAIN queue /\ queue[i] = queue[i + 0]
                              /\ i >= QueueFrom' => i + 0 >= QueueFrom
  <2> SUFFICES ASSUME NEW i \in DOMAIN queue
               PROVE  /\ i + 0 \in DOMAIN queue /\ queue[i] = queue[i + 0]
                      /\ i >= QueueFrom' => i + 0 >= QueueFrom
    OBVIOUS
  <2>1. i \in Nat /\ i + 0 = i /\ queue # << >>
    BY <1>1
  <2> QED
    BY <1>1, <2>1
<1> QED
  BY <1>2 DEF QueueShrinks

\* or loses its first frame.
LEMMA QueueTail ==
  ASSUME TypeOK, queue # << >>, queue' = Tail(queue)
  PROVE  QueueShrinks
<1>1. QueueFrom \in {1, 2} /\ QueueFrom' \in {1, 2} /\ queue \in Seq(Frame)
  BY DEF QueueFrom, TypeOK
<1>2. \A i \in DOMAIN queue' : /\ i + 1 \in DOMAIN queue /\ queue'[i] = queue[i + 1]
                               /\ i \in Nat \ {0}
  BY <1>1
<1>3. \A i \in DOMAIN queue' : i >= QueueFrom' => i + 1 >= QueueFrom
  BY <1>1, <1>2
<1> QED
  BY <1>2, <1>3 DEF QueueShrinks

\* What setting the last cluster does to the blocks and the lists.
LEMMA LastPlaces ==
  ASSUME TypeOK, clusters # << >>, NEW d \in Cluster, SetLastCluster(d), NEW f \in Frame
  PROVE  /\ d.blocks = LastCluster.blocks => PlacesGrow({})
         /\ d.blocks = Append(LastCluster.blocks, f) => PlacesGrow({f})
         /\ \A t : Waiting(t) = LastCluster.stored[t] /\ Waiting(t)' = d.stored[t]
<1>1. PICK n : n = Len(clusters)
  OBVIOUS
<1>2. clusters \in Seq(Cluster) /\ n \in Nat /\ n # 0
  BY <1>1 DEF TypeOK
<1>3. PICK c : c = LastCluster
  OBVIOUS
<1>4. n \in DOMAIN clusters /\ c = clusters[n] /\ c \in Cluster
  <2>1. n \in DOMAIN clusters /\ c = clusters[n]
    BY <1>1, <1>3, LastOfDomain DEF LastCluster
  <2> QED
    BY <1>2, <2>1, ElementOfSeq
<1>5. clusters' = [clusters EXCEPT ![n] = d]
  BY <1>1, <1>3 DEF SetLastCluster
<1>6. /\ Len(clusters') = n /\ DOMAIN clusters' = DOMAIN clusters /\ clusters'[n] = d
      /\ \A i \in DOMAIN clusters : i # n => clusters'[i] = clusters[i]
      /\ LastCluster' = d /\ clusters' # << >>
  BY <1>1, <1>2, <1>5 DEF LastCluster
<1>7. \A t : Waiting(t) = c.stored[t] /\ Waiting(t)' = d.stored[t]
  BY <1>3, <1>6 DEF Waiting
<1>8. PICK m : m = Len(c.blocks)
  OBVIOUS
<1>9. c.blocks \in Seq(Frame)
  BY <1>4, ClusterFields
<1>10. ASSUME d.blocks = c.blocks PROVE PlacesGrow({})
  <2>1. \A s \in Nat \X Nat : s[1] \in DOMAIN clusters => clusters'[s[1]].blocks = clusters[s[1]].blocks
    BY <1>4, <1>6, <1>10
  <2>2. Places' = Places /\ \A s \in Places : Block(s)' = Block(s)
    BY <1>6, <2>1 DEF Places, Block
  <2> QED
    BY <2>2 DEF PlacesGrow
<1>11. ASSUME d.blocks = Append(c.blocks, f) PROVE PlacesGrow({f})
  <2>1. /\ m \in Nat /\ d.blocks[m + 1] = f /\ DOMAIN d.blocks = 1 .. m + 1
        /\ DOMAIN c.blocks = 1 .. m /\ \A j \in 1 .. m : d.blocks[j] = c.blocks[j]
    BY <1>8, <1>9, <1>11, AppendFrame
  <2>2. ASSUME NEW s \in Places PROVE s \in Places' /\ Block(s)' = Block(s)
    <3>1. s \in Nat \X Nat /\ s[1] \in DOMAIN clusters /\ s[2] \in DOMAIN clusters[s[1]].blocks
      BY DEF Places
    <3>2. CASE s[1] = n
      <4>1. s[2] \in 1 .. m /\ s[2] \in 1 .. m + 1
        BY <1>4, <2>1, <3>1, <3>2
      <4>2. clusters'[s[1]] = d /\ clusters[s[1]] = c
        BY <1>4, <1>6, <3>2
      <4> QED
        BY <1>6, <2>1, <3>1, <4>1, <4>2 DEF Places, Block
    <3>3. CASE s[1] # n
      <4>1. clusters'[s[1]] = clusters[s[1]]
        BY <1>6, <3>1, <3>3
      <4> QED
        BY <1>6, <3>1, <4>1 DEF Places, Block
    <3> QED
      BY <3>2, <3>3
  <2>3. ASSUME NEW p \in Places', p \notin Places
        PROVE  Block(p)' = f /\ \A r \in Places' : ~Before(p, r)
    <3>1. p \in Nat \X Nat /\ p[1] \in DOMAIN clusters /\ p[2] \in DOMAIN clusters'[p[1]].blocks
      BY <1>6 DEF Places
    <3>2. p[1] = n
      BY <1>6, <2>3, <3>1 DEF Places
    <3>3. p[2] = m + 1
      <4>1. p[2] \in 1 .. m + 1 /\ p[2] \notin 1 .. m
        BY <1>4, <1>6, <2>1, <2>3, <3>1, <3>2 DEF Places
      <4> QED
        BY <2>1, <4>1
    <3>4. Block(p)' = f
      BY <1>6, <2>1, <3>2, <3>3 DEF Block
    <3>5. ASSUME NEW r \in Places' PROVE ~Before(p, r)
      <4>1. r \in Nat \X Nat /\ r[1] \in DOMAIN clusters /\ r[2] \in DOMAIN clusters'[r[1]].blocks
        BY <1>6 DEF Places
      <4>2. r[1] <= n
        BY <1>1, <1>2, <4>1
      <4>3. r[1] = n => r[2] \in 1 .. m + 1
        BY <1>6, <2>1, <4>1
      <4> QED
        BY <1>2, <2>1, <3>2, <3>3, <4>1, <4>2, <4>3 DEF Before
    <3> QED
      BY <3>4, <3>5
  <2> QED
    BY <2>2, <2>3 DEF PlacesGrow
<1> QED
  BY <1>3, <1>7, <1>10, <1>11

\* A step that keeps the blocks of every cluster.
LEMMA SameBlocksPlaces ==
  ASSUME TypeOK, SameBlocks
  PROVE  PlacesGrow({}) /\ WaitingShrinks
<1>1. \A i \in DOMAIN clusters : clusters'[i].blocks = clusters[i].blocks
  BY DEF SameBlocks
<1>2. Places' = Places /\ \A s \in Places : Block(s)' = Block(s)
  BY <1>1 DEF Places, Block, SameBlocks
<1>3. \A t \in TrackSet : Waiting(t)' = Waiting(t)
  <2>1. clusters' = << >> <=> clusters = << >>
    BY DEF SameBlocks
  <2>2. CASE clusters # << >>
    <3>1. Len(clusters) \in DOMAIN clusters
      BY <2>2, LastOfDomain
    <3>2. LastCluster'.stored = LastCluster.stored
      BY <3>1 DEF SameBlocks, LastCluster
    <3> QED
      BY <2>1, <2>2, <3>2 DEF Waiting
  <2> QED
    BY <2>1, <2>2 DEF Waiting
<1> QED
  BY <1>2, <1>3, ListsShrink DEF PlacesGrow

\* A frame that is refused changes no block and no list.
LEMMA RefusedSame ==
  ASSUME TypeOK, clusters # << >>, NEW f \in Frame, NEW p, AddFrameFails(f, p)
  PROVE  SameBlocks
<1>1. CASE UNCHANGED clusters
  BY <1>1, SameBlocksSame
<1>2. CASE ~CanWrite(LastCluster, f) /\ SetLastCluster(DoWriteFrame(LastCluster, f, written))
  <2>1. PICK c : c = LastCluster
    OBVIOUS
  <2>2. PICK d : d = DoWriteFrame(c, f, written)
    OBVIOUS
  <2>3. c \in Cluster /\ written \in Nat
    <3>1. LastCluster \in Cluster
      BY LastOfDomain, ElementOfSeq DEF LastCluster
    <3> QED
      BY <2>1, <3>1 DEF TypeOK
  <2>4. d \in Cluster /\ d.pos = c.pos /\ d.stored = c.stored /\ d.blocks = c.blocks
        /\ (HeaderWritten(c) => HeaderWritten(d))
    BY <1>2, <2>1, <2>2, <2>3, DoWriteRefused, Zenon
  <2>5. SetLastCluster(d)
    BY <1>2, <2>1, <2>2
  <2>6. d.pos = LastCluster.pos /\ d.stored = LastCluster.stored
        /\ d.blocks = LastCluster.blocks /\ (HeaderWritten(LastCluster) => HeaderWritten(d))
    BY <2>1, <2>4, Zenon
  <2> QED
    BY <2>4, <2>5, <2>6, SetLastSameBlocks, Zenon
<1> QED
  BY <1>1, <1>2 DEF AddFrameFails

\* An open last cluster to which f is written, or was by Hold and Release.
LEMMA DonePlaces ==
  ASSUME TypeOK, CuesInv, clusters # << >>, NEW f \in Frame, NEW p, AddFrameDone(f, p)
  PROVE  \/ pc = p /\ PlacesGrow({f}) /\ \A t \in TrackSet : Waiting(t) = << >> /\ Waiting(t)' = << >>
         \/ pc = "hold" /\ origin = p /\ UNCHANGED clusters
<1>1. CASE /\ pc = p /\ ~conf.accurate /\ CanWrite(LastCluster, f)
           /\ SetLastCluster(DoWriteFrame(LastCluster, f, written))
  <2>1. PICK c : c = LastCluster
    OBVIOUS
  <2>2. PICK d : d = DoWriteFrame(c, f, written)
    OBVIOUS
  <2>3. c \in Cluster /\ written \in Nat /\ \A t \in TrackSet : c.stored[t] = << >>
    <3>1. Len(clusters) \in DOMAIN clusters /\ LastCluster \in Cluster
      BY LastOfDomain, ElementOfSeq DEF LastCluster
    <3>2. NothingStored
      BY <1>1 DEF CuesInv
    <3> QED
      BY <2>1, <3>1, <3>2 DEF TypeOK, NothingStored, LastCluster
  <2>4. d \in Cluster /\ d.stored = c.stored /\ d.blocks = Append(c.blocks, f)
    BY <1>1, <2>1, <2>2, <2>3, DoWriteWritable, Zenon
  <2>5. SetLastCluster(d)
    BY <1>1, <2>1, <2>2
  <2>6. PlacesGrow({f}) /\ \A t : Waiting(t) = c.stored[t] /\ Waiting(t)' = d.stored[t]
    BY <2>1, <2>4, <2>5, LastPlaces
  <2>7. \A t \in TrackSet : Waiting(t) = << >> /\ Waiting(t)' = << >>
    <3> SUFFICES ASSUME NEW t \in TrackSet PROVE Waiting(t) = << >> /\ Waiting(t)' = << >>
      OBVIOUS
    <3>1. d.stored[t] = c.stored[t]
      BY <2>4
    <3>2. Waiting(t) = c.stored[t] /\ Waiting(t)' = d.stored[t]
      BY <2>6
    <3> QED
      BY <2>3, <3>1, <3>2
  <2> QED
    BY <1>1, <2>6, <2>7
<1> QED
  BY <1>1 DEF AddFrameDone

-----------------------------------------------------------------------------
(* The parts of the invariant put together.                                  *)

\* What was accepted stays accepted.
LEMMA FeedGrows ==
  ASSUME TypeOK, \/ UNCHANGED accepted
                 \/ \E f \in Frame : accepted' = Append(accepted, f)
  PROVE  KnowledgeGrows
<1>1. accepted \in Seq(Frame)
  BY DEF TypeOK
<1>2. \A k \in DOMAIN accepted : k \in DOMAIN accepted' /\ accepted'[k] = accepted[k]
  BY <1>1, AppendFrame
<1>3. \A x : Known(x) => Known(x)'
  BY <1>2 DEF Known
<1>4. FeedInOrder' => FeedInOrder
  BY <1>2 DEF FeedInOrder
<1> QED
  BY <1>3, <1>4 DEF KnowledgeGrows

\* A step that accepts nothing and starts no call.
LEMMA AcceptedKept ==
  ASSUME AcceptedInOrder, UNCHANGED << accepted, calls >>,
         Inside' => Inside /\ UNCHANGED frame
  PROVE  AcceptedInOrder'
BY DEF AcceptedInOrder

\* The invariant after a step that writes the frames F.
LEMMA OrderStep ==
  ASSUME TypeOK, TypeOK', OrderInv, pc # "undefined", AcceptedInOrder', KnowledgeGrows,
         NEW F, PlacesGrow(F), \A f \in F : Known(f)',
         \A f \in F, s \in Places : Block(s).track = f.track => Block(s).id < f.id,
         FeedInOrder' => \A f \in F, s \in Places : Block(s).ts <= f.ts,
         pc' # "undefined" =>
           /\ WaitingShrinks /\ QueueShrinks /\ PendingKept
           /\ \A f \in F, t \in TrackSet : \A i \in DOMAIN Waiting(t)' :
                /\ f.track = t => f.id < Waiting(t)'[i].id
                /\ FeedInOrder' /\ Known(Waiting(t)[i])' => f.ts <= Waiting(t)'[i].ts
           /\ \A f \in F : \A a \in DOMAIN queue' : a >= QueueFrom' => f.id < queue'[a].id
  PROVE  OrderInv'
<1>1. BlocksKnown' /\ BlocksInOrder' /\ BlocksInTime'
  BY BlocksKept
<1>2. pc' # "undefined" => StoredKnown' /\ StoredInOrder' /\ StoredInTime'
  BY <1>1, StoredKept
<1>3. pc' # "undefined" => QueueKnown' /\ QueueInOrder'
  BY QueueKept
<1> QED
  BY <1>1, <1>2, <1>3 DEF OrderInv, WaitingOrder

\* A step that writes no block.
LEMMA OrderQuiet ==
  ASSUME TypeOK, TypeOK', OrderInv, pc # "undefined", AcceptedInOrder', KnowledgeGrows,
         PlacesGrow({}), pc' # "undefined" => WaitingShrinks /\ QueueShrinks /\ PendingKept
  PROVE  OrderInv'
BY OrderStep

-----------------------------------------------------------------------------
(* The steps that write no block.                                            *)

\* The caller's steps: a queued frame comes behind everything there is.
LEMMA OrderCaller ==
  ASSUME IInv, IInv', OrderInv, Caller
  PROVE  OrderInv'
<1> USE DEF IInv
<1>1. pc = "idle" /\ UNCHANGED clusters
  BY DEF Caller, RejectFrame, QueueFrame, BeginFrame, BeginCall,
         ForceNewClusterOnNextFrame, Finalize
<1>2. PlacesGrow({}) /\ WaitingShrinks /\ PendingKept
  BY <1>1, SamePlaces DEF PendingKept, Pending
<1>3. AcceptedInOrder /\ calls \in Nat /\ accepted \in Seq(Frame) /\ QueueFrom = 1
      /\ ~Inside
  BY <1>1 DEF OrderInv, TypeOK, QueueFrom, Inside
<1>4. ASSUME NEW in \in Inputs, RejectFrame(in) PROVE OrderInv'
  <2>1. /\ UNCHANGED << accepted, queue >> /\ calls' = calls + 1 /\ pc' = "idle"
    BY <1>4 DEF RejectFrame, BeginCall, Return
  <2>2. \A i \in DOMAIN accepted : accepted[i].id \in Nat
    BY <1>3, FrameFields
  <2>3. AcceptedInOrder'
    BY <1>3, <2>1, <2>2 DEF AcceptedInOrder, Inside
  <2>4. QueueShrinks
    BY <1>3, <2>1, QueueSame DEF QueueFrom
  <2> QED
    BY <1>1, <1>2, <2>1, <2>3, <2>4, FeedGrows, OrderQuiet
<1>5. ASSUME NEW in \in Inputs, BeginFrame(in) PROVE OrderInv'
  <2>1. /\ UNCHANGED << accepted, queue >> /\ calls' = calls + 1 /\ pc' = "test"
        /\ frame' = NextFrame(in)
    BY <1>5 DEF BeginFrame, BeginCall
  <2>2. \A i \in DOMAIN accepted : accepted[i].id \in Nat
    BY <1>3, FrameFields
  <2>3. frame'.id = calls + 1
    BY <2>1, SegmentAssumption DEF NextFrame, Frame
  <2>4. AcceptedInOrder'
    BY <1>3, <2>1, <2>2, <2>3 DEF AcceptedInOrder, Inside
  <2>5. QueueShrinks
    BY <1>3, <2>1, QueueSame DEF QueueFrom
  <2> QED
    BY <1>1, <1>2, <2>1, <2>4, <2>5, FeedGrows, OrderQuiet
<1>6. CASE ForceNewClusterOnNextFrame \/ Finalize
  <2>1. /\ UNCHANGED << accepted, queue, calls, frame >> /\ pc' \in {"idle", "flushAll"}
        /\ pc' = "flushAll" => call' = "finalize"
    BY <1>6 DEF ForceNewClusterOnNextFrame, Finalize
  <2>2. AcceptedInOrder'
    BY <1>3, <2>1, AcceptedKept DEF Inside
  <2>3. QueueShrinks
    BY <1>3, <2>1, QueueSame DEF QueueFrom
  <2> QED
    BY <1>1, <1>2, <2>1, <2>2, <2>3, FeedGrows, OrderQuiet
<1>7. ASSUME NEW in \in Inputs, QueueFrame(in) PROVE OrderInv'
  <2>1. PICK g : g = NextFrame(in)
    OBVIOUS
  <2>2. g \in Frame /\ g.id = calls + 1
    <3>1. in \in Frame
      BY SegmentAssumption
    <3>2. calls + 1 \in Nat
      BY <1>3
    <3> QED
      BY <2>1, <3>1, <3>2, FrameUpdates DEF NextFrame, Frame
  <2>3. /\ accepted' = Append(accepted, g) /\ queue' = Append(queue, g)
        /\ calls' = calls + 1 /\ pc' = "idle"
    BY <1>7, <2>1 DEF QueueFrame, BeginCall, Return
  <2>4. KnowledgeGrows
    BY <2>2, <2>3, FeedGrows
  <2>5. \A x : Known(x) => x.id \in Nat /\ x.id <= calls
    BY <1>3, KnownIds
  <2>6. AcceptedInOrder'
    <3>1. \A i \in DOMAIN accepted : accepted[i].id \in Nat /\ accepted[i].id <= calls
      BY <1>3, FrameFields DEF AcceptedInOrder
    <3>2. /\ DOMAIN accepted' = 1 .. Len(accepted) + 1 /\ DOMAIN accepted = 1 .. Len(accepted)
          /\ accepted'[Len(accepted) + 1] = g /\ Len(accepted) \in Nat
          /\ \A j \in 1 .. Len(accepted) : accepted'[j] = accepted[j]
      BY <1>3, <2>2, <2>3, AppendFrame
    <3>3. ASSUME NEW i \in DOMAIN accepted' PROVE accepted'[i].id <= calls'
      BY <1>3, <2>2, <2>3, <3>1, <3>2
    <3>4. ASSUME NEW i \in DOMAIN accepted', NEW j \in DOMAIN accepted', i < j
          PROVE  accepted'[i].id < accepted'[j].id
      <4>1. i \in DOMAIN accepted
        BY <3>2, <3>4
      <4>2. CASE j \in DOMAIN accepted
        BY <1>3, <3>2, <3>4, <4>1, <4>2 DEF AcceptedInOrder
      <4>3. CASE j = Len(accepted) + 1
        BY <1>3, <2>2, <3>1, <3>2, <4>1, <4>3
      <4> QED
        BY <3>2, <4>2, <4>3
    <3> QED
      BY <2>3, <3>3, <3>4 DEF AcceptedInOrder, Inside
  <2>7. BlocksKnown' /\ BlocksInOrder' /\ BlocksInTime'
    BY <1>2, <2>4, BlocksKept
  <2>8. StoredKnown' /\ StoredInOrder' /\ StoredInTime'
    BY <1>1, <1>2, <2>4, <2>6, <2>7, StoredKept
  <2>9. /\ DOMAIN queue' = 1 .. Len(queue) + 1 /\ DOMAIN queue = 1 .. Len(queue)
        /\ queue'[Len(queue) + 1] = g /\ Len(queue) \in Nat
        /\ \A j \in 1 .. Len(queue) : queue'[j] = queue[j]
    <3>1. queue \in Seq(Frame)
      BY DEF TypeOK
    <3> QED
      BY <2>2, <2>3, <3>1, AppendFrame
  <2>10. QueueKnown /\ QueueInOrder /\ StoredKnown /\ BlocksKnown
    BY <1>1 DEF OrderInv, WaitingOrder
  <2>11. Known(g)'
    <3>1. DOMAIN accepted' = 1 .. Len(accepted) + 1 /\ Len(accepted) \in Nat
          /\ accepted'[Len(accepted) + 1] = g
      BY <1>3, <2>2, <2>3, AppendFrame
    <3>2. Len(accepted) + 1 \in DOMAIN accepted'
      BY <3>1
    <3> QED
      BY <3>1, <3>2 DEF Known
  <2>12. QueueKnown'
    <3> SUFFICES ASSUME NEW a \in DOMAIN queue' PROVE Known(queue[a])'
      BY DEF QueueKnown
    <3>1. PICK x : x = queue'[a]
      OBVIOUS
    <3>2. CASE a \in DOMAIN queue
      <4>1. Known(x)
        BY <2>9, <2>10, <3>1, <3>2 DEF QueueKnown, Known
      <4> QED
        BY <2>4, <3>1, <4>1 DEF KnowledgeGrows, Known
    <3>3. CASE a = Len(queue) + 1
      BY <2>9, <2>11, <3>3 DEF Known
    <3> QED
      BY <2>9, <3>2, <3>3
  <2>13. Places' = Places /\ \A s \in Places : Block(s)' = Block(s)
    BY <1>1 DEF Places, Block
  <2>14. \A t \in TrackSet : Waiting(t)' = Waiting(t)
    BY <1>1 DEF Waiting, LastCluster
  <2>15. QueueInOrder'
    <3>1. \A a \in DOMAIN queue : queue[a].id < g.id
      BY <1>3, <2>2, <2>5, <2>10 DEF QueueKnown
    <3>2. \A s \in Places : Block(s).id < g.id
      BY <1>3, <2>2, <2>5, <2>10 DEF BlocksKnown
    <3>3. \A t \in TrackSet : \A i \in DOMAIN Waiting(t) : Waiting(t)[i].id < g.id
      <4>1. \A t \in TrackSet : \A i \in DOMAIN Waiting(t) : Known(Waiting(t)[i])
        BY <1>1, <2>10 DEF StoredKnown, Pending
      <4> QED
        BY <1>3, <2>2, <2>5, <4>1
    <3> SUFFICES ASSUME NEW a \in DOMAIN queue'
                 PROVE  /\ \A b \in DOMAIN queue' : a < b => queue'[a].id < queue'[b].id
                        /\ \A s \in Places : Block(s).id < queue'[a].id
                        /\ \A t \in TrackSet : \A i \in DOMAIN Waiting(t) :
                             Waiting(t)[i].id < queue'[a].id
      BY <2>13, <2>14 DEF QueueInOrder
    <3>4. CASE a \in DOMAIN queue
      <4>1. \A s \in Places : Block(s).id < queue'[a].id
        BY <1>3, <2>9, <2>10, <3>4 DEF QueueInOrder
      <4>2. \A t \in TrackSet : \A i \in DOMAIN Waiting(t) : Waiting(t)[i].id < queue'[a].id
        BY <1>3, <2>9, <2>10, <3>4 DEF QueueInOrder
      <4>3. ASSUME NEW b \in DOMAIN queue', a < b PROVE queue'[a].id < queue'[b].id
        <5>1. CASE b \in DOMAIN queue
          BY <2>9, <2>10, <3>4, <4>3, <5>1 DEF QueueInOrder
        <5>2. CASE b = Len(queue) + 1
          BY <2>9, <3>1, <3>4, <5>2
        <5> QED
          BY <2>9, <5>1, <5>2
      <4> QED
        BY <4>1, <4>2, <4>3
    <3>5. CASE a = Len(queue) + 1
      <4>1. \A b \in DOMAIN queue' : ~(a < b)
        BY <2>9, <3>5
      <4> QED
        BY <2>9, <3>2, <3>3, <3>5, <4>1
    <3> QED
      BY <2>9, <3>4, <3>5
  <2> QED
    BY <2>6, <2>7, <2>8, <2>12, <2>15 DEF OrderInv, WaitingOrder
<1> QED
  BY <1>4, <1>5, <1>6, <1>7 DEF Caller

\* Steps that leave the clusters, or their blocks and lists, as they are.
LEMMA OrderInner ==
  ASSUME IInv, IInv', OrderInv,
         \/ TestForNewCluster \/ FlushOlderEnd \/ FlushAllEnd \/ FlushAllFails
         \/ AddClusterSize \/ FinishFile \/ CloseCluster \/ FlushOlderFails
  PROVE  OrderInv'
<1> USE DEF IInv
<1>1. /\ UNCHANGED << queue, accepted, calls >>
      /\ pc \in {"test", "flushOlder", "flushAll", "offset", "close"} /\ pc' # "hold"
      /\ pc' \notin {"idle", "done", "undefined"} => UNCHANGED << call, frame >>
  BY DEF TestForNewCluster, FlushOlderEnd, FlushAllEnd, FlushAllFails, AddClusterSize,
         FinishFile, CloseCluster, FlushOlderFails, OlderFrameQueued, AddFrameFails,
         Measured, Measure, Goto, Fail, Return
<1>2. SameBlocks
  <2>1. CASE CloseCluster
    <3>1. CASE UNCHANGED clusters
      BY <3>1, SameBlocksSame
    <3>2. CASE SetLastCluster([LastCluster EXCEPT !.finalized = TRUE])
      <4>1. clusters # << >>
        BY <2>1 DEF CloseCluster, CallState
      <4>2. LastCluster \in Cluster
        BY <4>1, LastOfDomain, ElementOfSeq DEF LastCluster
      <4>3. PICK d : d = [LastCluster EXCEPT !.finalized = TRUE]
        OBVIOUS
      <4>4. /\ d \in Cluster /\ d.pos = LastCluster.pos /\ d.at = LastCluster.at
            /\ d.blocks = LastCluster.blocks /\ d.stored = LastCluster.stored
        BY <4>2, <4>3, FinalizedType
      <4> QED
        BY <3>2, <4>1, <4>3, <4>4, SetLastSameBlocks DEF HeaderWritten
    <3> QED
      BY <2>1, <3>1, <3>2 DEF CloseCluster
  <2>2. CASE FlushOlderFails
    <3>1. queue # << >> /\ clusters # << >> /\ AddFrameFails(Head(queue), "flushOlder")
      BY <2>2 DEF FlushOlderFails, OlderFrameQueued
    <3> QED
      BY <3>1, QueueHeadType, RefusedSame
  <2>3. CASE UNCHANGED clusters
    BY <2>3, SameBlocksSame
  <2> QED
    BY <2>1, <2>2, <2>3
       DEF TestForNewCluster, FlushOlderEnd, FlushAllEnd, FlushAllFails, AddClusterSize,
           FinishFile
<1>3. AcceptedInOrder'
  BY <1>1, AcceptedKept DEF Inside, OrderInv
<1>4. QueueShrinks /\ PendingKept
  BY <1>1, QueueSame DEF QueueFrom, PendingKept, Pending
<1> QED
  BY <1>1, <1>2, <1>3, <1>4, SameBlocksPlaces, FeedGrows, OrderQuiet

\* A new cluster has no blocks and no lists.
LEMMA OrderOpenCluster ==
  ASSUME IInv, IInv', OrderInv, OpenCluster
  PROVE  OrderInv'
<1> USE DEF IInv
<1>1. /\ UNCHANGED << queue, accepted, calls, call, frame >>
      /\ pc = "offset" /\ pc' = "flushAll"
  BY DEF OpenCluster, Measured
<1>2. PICK d : clusters' = Append(clusters, d) /\ d.blocks = << >>
               /\ d.stored = [t \in TrackSet |-> << >>]
  BY DEF OpenCluster, NewCluster
<1>3. PICK n : n = Len(clusters)
  OBVIOUS
<1>4. /\ n \in Nat /\ DOMAIN clusters = 1 .. n /\ DOMAIN clusters' = 1 .. n + 1
      /\ clusters'[n + 1] = d /\ Len(clusters') = n + 1 /\ clusters' # << >>
      /\ \A i \in 1 .. n : clusters'[i] = clusters[i]
  <2>1. clusters \in Seq(Cluster)
    BY DEF TypeOK
  <2> QED
    BY <1>2, <1>3, <2>1
<1>5. PlacesGrow({})
  <2>1. ASSUME NEW s, s \in Places \/ s \in Places'
        PROVE  s \in Places /\ s \in Places' /\ Block(s)' = Block(s)
    <3>1. s \in Nat \X Nat /\ (s[1] \in 1 .. n \/ s[1] = n + 1)
      BY <1>4, <2>1 DEF Places
    <3>2. s[1] # n + 1
      BY <1>2, <1>4, <2>1 DEF Places
    <3>3. clusters'[s[1]] = clusters[s[1]] /\ s[1] \in 1 .. n /\ s[1] \in 1 .. n + 1
      BY <1>4, <3>1, <3>2
    <3> QED
      BY <1>4, <2>1, <3>1, <3>3 DEF Places, Block
  <2> QED
    BY <2>1 DEF PlacesGrow
<1>6. WaitingShrinks
  <2>1. \A t \in TrackSet : Waiting(t)' = << >>
    BY <1>2, <1>4 DEF Waiting, LastCluster
  <2> QED
    BY <2>1, ListsShrink
<1>7. AcceptedInOrder'
  BY <1>1, AcceptedKept DEF Inside, OrderInv
<1>8. QueueShrinks /\ PendingKept
  BY <1>1, QueueSame DEF QueueFrom, PendingKept, Pending
<1> QED
  BY <1>1, <1>5, <1>6, <1>7, <1>8, FeedGrows, OrderQuiet

-----------------------------------------------------------------------------
(* The steps that write a block, or hold a frame back.                       *)

\* The reference that a BlockGroup needs changes neither id, time nor track.
LEMMA WithReferenceSame ==
  ASSUME frame \in Frame
  PROVE  /\ WithReference(frame).id = frame.id /\ WithReference(frame).ts = frame.ts
         /\ WithReference(frame).track = frame.track
BY DEF WithReference, Frame

\* The frame at the front of the queue goes into the file.
LEMMA OrderFlush ==
  ASSUME IInv, IInv', CuesInv, OrderInv, FlushOlder \/ FlushAll
  PROVE  OrderInv'
<1> USE DEF IInv
<1>1. PICK f : f = Head(queue)
  OBVIOUS
<1>2. PICK p : /\ p \in {"flushOlder", "flushAll"} /\ pc' = p
               /\ AddFrameDone(f, p) \/ (p = "flushAll" /\ AddFrameFails(f, p))
  BY <1>1 DEF FlushOlder, FlushAll
<1>3. /\ queue # << >> /\ clusters # << >> /\ queue' = Tail(queue)
      /\ UNCHANGED << accepted, calls, call, frame, origin >>
  BY DEF FlushOlder, FlushAll, OlderFrameQueued
<1>4. f \in Frame /\ f.track \in TrackSet /\ queue \in Seq(Frame)
      /\ 1 \in DOMAIN queue /\ f = queue[1]
  <2>1. queue \in Seq(Frame)
    BY DEF TypeOK
  <2> QED
    BY <1>1, <1>3, <2>1, QueueHeadType
<1>5. pc = p \/ (pc = "hold" /\ origin = p)
  BY <1>2 DEF AddFrameDone, AddFrameFails
<1>6. AcceptedInOrder' /\ KnowledgeGrows /\ QueueShrinks /\ PendingKept /\ QueueFrom' = 1
  <2>1. AcceptedInOrder'
    BY <1>2, <1>3, <1>5, AcceptedKept DEF Inside, OrderInv
  <2> QED
    BY <1>2, <1>3, <1>5, <2>1, FeedGrows, QueueTail DEF PendingKept, Pending, QueueFrom
<1>7. CASE PlacesGrow({}) /\ WaitingShrinks
  BY <1>2, <1>5, <1>6, <1>7, OrderQuiet
<1>8. CASE pc = p /\ PlacesGrow({f}) /\ \A t \in TrackSet : Waiting(t) = << >> /\ Waiting(t)' = << >>
  <2>1. QueueFrom = 1 /\ QueueKnown /\ QueueInOrder /\ BlocksKnown /\ AcceptedInOrder
    BY <1>2, <1>8 DEF QueueFrom, OrderInv, WaitingOrder
  <2>2. Known(f) /\ Known(f)'
    <3>1. Known(f)
      BY <1>4, <2>1 DEF QueueKnown, Known
    <3> QED
      BY <1>6, <3>1 DEF KnowledgeGrows
  <2>3. \A s \in Places : Block(s).id < f.id
    BY <1>4, <2>1 DEF QueueInOrder
  <2>4. FeedInOrder' => \A s \in Places : Block(s).ts <= f.ts
    <3> SUFFICES ASSUME FeedInOrder', NEW s \in Places PROVE Block(s).ts <= f.ts
      OBVIOUS
    <3>1. PICK b : b = Block(s)
      OBVIOUS
    <3>2. Known(b) /\ FeedInOrder
      BY <1>6, <2>1, <3>1 DEF BlocksKnown, Known, KnowledgeGrows
    <3>3. b.id <= f.id
      BY <1>4, <2>2, <2>3, <2>1, <3>1, <3>2, KnownIds
    <3> QED
      BY <2>1, <2>2, <3>1, <3>2, <3>3, KnownInTime
  <2>5. \A a \in DOMAIN queue' : f.id < queue'[a].id
    <3>1. \A a \in DOMAIN queue' : a + 1 \in DOMAIN queue /\ queue'[a] = queue[a + 1] /\ 1 < a + 1
      BY <1>3, <1>4
    <3> QED
      BY <1>4, <2>1, <3>1 DEF QueueInOrder
  <2>6. WaitingShrinks
    BY <1>8, ListsShrink
  <2>7. \A t \in TrackSet : DOMAIN Waiting(t)' = {}
    BY <1>8
  <2>8. pc # "undefined"
    BY <1>2, <1>5
  <2> QED
    BY <1>6, <1>8, <2>2, <2>3, <2>4, <2>5, <2>6, <2>7, <2>8, OrderStep
<1>9. CASE UNCHANGED clusters
  BY <1>7, <1>9, SamePlaces
<1>10. CASE AddFrameFails(f, p)
  BY <1>3, <1>4, <1>7, <1>10, RefusedSame, SameBlocksPlaces
<1>11. CASE AddFrameDone(f, p)
  BY <1>3, <1>4, <1>8, <1>9, <1>11, DonePlaces
<1> QED
  BY <1>2, <1>10, <1>11

\* The call's own frame goes into the file, and the call returns.
LEMMA OrderWriteFrame ==
  ASSUME IInv, IInv', QueueInv, CuesInv, OrderInv, WriteFrame
  PROVE  OrderInv'
<1> USE DEF IInv
<1>1. /\ UNCHANGED << queue, calls >> /\ pc' = "idle" /\ clusters # << >>
      /\ pc = "write" \/ (pc = "hold" /\ origin = "write")
      /\ call = "frame" /\ queue = << >> /\ queue \in Seq(Frame)
  BY DEF WriteFrame, AddFrameDone, AddFrameFails, Return, CallState, QueueInv, InWrite,
         TypeOK
<1>2. frame \in Frame /\ frame.track \in TrackSet /\ Inside
  BY <1>1 DEF TypeOK, CallState, Inside
<1>3. PICK f : f = WithReference(frame)
  OBVIOUS
<1>4. /\ f \in Frame /\ f.id = calls /\ f.ts = frame.ts /\ f.track \in TrackSet
      /\ calls \in Nat /\ accepted \in Seq(Frame) /\ AcceptedInOrder
  <2>1. f \in Frame /\ f.track \in TrackSet
    BY <1>2, <1>3, WithReferenceType
  <2>2. f.id = frame.id /\ f.ts = frame.ts
    BY <1>2, <1>3, WithReferenceSame
  <2>3. AcceptedInOrder /\ frame.id = calls
    BY <1>2 DEF AcceptedInOrder, OrderInv
  <2>4. calls \in Nat /\ accepted \in Seq(Frame)
    BY DEF TypeOK
  <2> QED
    BY <2>1, <2>2, <2>3, <2>4
<1>5. QueueShrinks /\ DOMAIN queue' = {}
  BY <1>1, QueueSame
<1>6. CASE AddFrameFails(f, "write") /\ UNCHANGED accepted
  <2>1. AcceptedInOrder'
    BY <1>1, <1>4, <1>6, AcceptedKept DEF Inside
  <2>2. PendingKept
    BY <1>6 DEF AddFrameFails, PendingKept, Pending
  <2> QED
    BY <1>1, <1>4, <1>5, <1>6, <2>1, <2>2, RefusedSame, SameBlocksPlaces, FeedGrows,
       OrderQuiet
<1>7. CASE AddFrameDone(f, "write") /\ accepted' = Append(accepted, f)
  <2>1. /\ DOMAIN accepted' = 1 .. Len(accepted) + 1 /\ DOMAIN accepted = 1 .. Len(accepted)
        /\ accepted'[Len(accepted) + 1] = f /\ Len(accepted) \in Nat
        /\ \A j \in 1 .. Len(accepted) : accepted'[j] = accepted[j]
    BY <1>4, <1>7, AppendFrame
  <2>2. AcceptedInOrder'
    <3>1. \A i \in DOMAIN accepted : accepted[i].id \in Nat /\ accepted[i].id < f.id
      BY <1>2, <1>4, FrameFields DEF AcceptedInOrder
    <3>2. ASSUME NEW i \in DOMAIN accepted' PROVE accepted'[i].id <= calls'
      BY <1>1, <1>4, <2>1, <3>1
    <3>3. ASSUME NEW i \in DOMAIN accepted', NEW j \in DOMAIN accepted', i < j
          PROVE  accepted'[i].id < accepted'[j].id
      <4>1. i \in DOMAIN accepted
        BY <2>1, <3>3
      <4>2. CASE j \in DOMAIN accepted
        BY <1>4, <2>1, <3>3, <4>1, <4>2 DEF AcceptedInOrder
      <4>3. CASE j = Len(accepted) + 1
        BY <2>1, <3>1, <4>1, <4>3
      <4> QED
        BY <2>1, <4>2, <4>3
    <3> QED
      BY <1>1, <3>2, <3>3 DEF AcceptedInOrder, Inside
  <2>3. KnowledgeGrows
    BY <1>4, <1>7, FeedGrows
  <2>4. Known(f)'
    <3>1. Len(accepted) + 1 \in DOMAIN accepted'
      BY <2>1
    <3> QED
      BY <2>1, <3>1 DEF Known
  <2>5. PendingKept
    BY <1>4, <2>4 DEF PendingKept, Known
  <2>6. CASE UNCHANGED clusters
    BY <1>1, <1>5, <2>2, <2>3, <2>5, <2>6, SamePlaces, OrderQuiet
  <2>7. CASE PlacesGrow({f}) /\ \A t \in TrackSet : Waiting(t) = << >> /\ Waiting(t)' = << >>
    <3>1. \A s \in Places : Known(Block(s)) /\ Block(s).id < f.id
      BY <1>2, <1>4, KnownIds DEF OrderInv, BlocksKnown
    <3>2. FeedInOrder' => \A s \in Places : Block(s).ts <= f.ts
      <4> SUFFICES ASSUME FeedInOrder', NEW s \in Places PROVE Block(s).ts <= f.ts
        OBVIOUS
      <4>1. PICK b : b = Block(s)
        OBVIOUS
      <4>2. Known(b) /\ b.id < f.id
        BY <3>1, <4>1 DEF Known
      <4>3. Known(b)' /\ b.id <= f.id
        BY <1>4, <2>3, <4>2, KnownIds DEF KnowledgeGrows
      <4> QED
        BY <2>2, <2>4, <4>1, <4>3, KnownInTimeNext
    <3>3. WaitingShrinks
      BY <2>7, ListsShrink
    <3>4. \A t \in TrackSet : DOMAIN Waiting(t)' = {}
      BY <2>7
    <3>5. pc # "undefined"
      BY <1>1
    <3> QED
      BY <1>5, <2>2, <2>3, <2>4, <2>5, <2>7, <3>1, <3>2, <3>3, <3>4, <3>5, OrderStep
  <2> QED
    BY <1>1, <1>4, <1>7, <2>6, <2>7, DonePlaces
<1> QED
  BY <1>3, <1>6, <1>7 DEF WriteFrame

\* A frame held back is written, or refused, and dropped from its list.
LEMMA FirstPlaces ==
  ASSUME TypeOK, clusters # << >>, NEW t \in TrackSet, LastCluster.stored[t] # << >>,
         NEW f \in Frame,
         SetLastCluster(DropStored(DoWriteFrame(LastCluster, f, written), t))
  PROVE  /\ CanWrite(LastCluster, f) => PlacesGrow({f})
         /\ ~CanWrite(LastCluster, f) => PlacesGrow({})
         /\ \A u \in TrackSet :
              Waiting(u)' = IF u = t THEN Tail(Waiting(u)) ELSE Waiting(u)
<1>1. PICK c : c = LastCluster
  OBVIOUS
<1>2. PICK w : w = DoWriteFrame(c, f, written)
  OBVIOUS
<1>3. PICK d : d = DropStored(w, t)
  OBVIOUS
<1>4. c \in Cluster /\ written \in Nat
  <2>1. LastCluster \in Cluster
    BY LastOfDomain, ElementOfSeq DEF LastCluster
  <2> QED
    BY <1>1, <2>1 DEF TypeOK
<1>5. /\ w \in Cluster /\ w.stored = c.stored
      /\ CanWrite(c, f) => w.blocks = Append(c.blocks, f)
      /\ ~CanWrite(c, f) => w.blocks = c.blocks
  BY <1>2, <1>4, DoWriteWritable, DoWriteRefused, Zenon
<1>6. d \in Cluster /\ d.blocks = w.blocks /\ d.stored = [c.stored EXCEPT ![t] = Tail(@)]
  BY <1>1, <1>3, <1>5, DropStoredType
<1>7. SetLastCluster(d)
  BY <1>1, <1>2, <1>3
<1>8. /\ d.blocks = c.blocks => PlacesGrow({})
      /\ d.blocks = Append(c.blocks, f) => PlacesGrow({f})
      /\ \A u : Waiting(u) = c.stored[u] /\ Waiting(u)' = d.stored[u]
  BY <1>1, <1>6, <1>7, LastPlaces
<1>9. \A u \in TrackSet : d.stored[u] = IF u = t THEN Tail(c.stored[u]) ELSE c.stored[u]
  BY <1>4, <1>6, ClusterFields
<1> QED
  BY <1>1, <1>5, <1>6, <1>8, <1>9

\* Only the last frame of a list can be the one the call is still adding.
LEMMA NotLastKnown ==
  ASSUME TypeOK, OrderInv, pc # "undefined", NEW t \in TrackSet,
         NEW i \in DOMAIN Waiting(t), NEW j \in DOMAIN Waiting(t), i < j
  PROVE  Known(Waiting(t)[i])
<1>1. StoredKnown /\ StoredInOrder /\ AcceptedInOrder
  BY DEF OrderInv, WaitingOrder
<1>2. calls \in Nat /\ Waiting(t)[i].id \in Nat /\ Waiting(t)[j].id \in Nat
  <2>1. Waiting(t)[i] \in Frame /\ Waiting(t)[j] \in Frame
    BY OrderTypes
  <2> QED
    BY <2>1, FrameFields DEF TypeOK
<1>3. Waiting(t)[i].id < Waiting(t)[j].id
  BY <1>1 DEF StoredInOrder
<1>4. Waiting(t)[j].id <= calls
  BY <1>1, <1>2, KnownIds DEF StoredKnown
<1> QED
  BY <1>1, <1>2, <1>3, <1>4 DEF StoredKnown

\* The frames of a list are in time order, as far as they are accepted.
LEMMA ListInTime ==
  ASSUME TypeOK, OrderInv, pc # "undefined", FeedInOrder, NEW t \in TrackSet,
         NEW j \in DOMAIN Waiting(t), Known(Waiting(t)[j])
  PROVE  Waiting(t) # << >> /\ Head(Waiting(t)).ts <= Waiting(t)[j].ts
<1>1. Waiting(t) \in Seq(Frame)
  BY OrderTypes
<1>2. 1 \in DOMAIN Waiting(t) /\ Head(Waiting(t)) = Waiting(t)[1] /\ Waiting(t) # << >>
      /\ j \in Nat /\ 1 <= j
  BY <1>1
<1>3. CASE j = 1
  <2>1. Waiting(t)[j].ts \in Nat
    BY KnownIds DEF OrderInv
  <2> QED
    BY <1>2, <1>3, <2>1
<1>4. CASE 1 < j
  <2>1. Known(Waiting(t)[1])
    BY <1>2, <1>4, NotLastKnown
  <2>2. Waiting(t)[1].id < Waiting(t)[j].id
    BY <1>2, <1>4 DEF OrderInv, WaitingOrder, StoredInOrder
  <2>3. Waiting(t)[1].id \in Nat /\ Waiting(t)[j].id \in Nat
    BY <2>1, KnownIds DEF OrderInv
  <2>4. Waiting(t)[1].ts <= Waiting(t)[j].ts
    BY <2>1, <2>2, <2>3, KnownInTime DEF OrderInv
  <2> QED
    BY <1>2, <2>4
<1> QED
  BY <1>2, <1>3, <1>4

\* The first frame of a list is written, not later than any other first frame.
LEMMA OrderFirst ==
  ASSUME TypeOK, TypeOK', OrderInv, pc # "undefined", AcceptedInOrder', PendingKept,
         UNCHANGED << queue, accepted >>, QueueFrom' = QueueFrom,
         NEW t \in TrackSet, Waiting(t) # << >>, NEW f \in Frame, PlacesGrow({f}),
         f.id = Head(Waiting(t)).id, f.ts = Head(Waiting(t)).ts, f.track = t, Known(f),
         \A u \in TrackSet : Waiting(u) # << >> => f.ts <= Head(Waiting(u)).ts,
         \A u \in TrackSet : Waiting(u)' = IF u = t THEN Tail(Waiting(u)) ELSE Waiting(u)
  PROVE  OrderInv'
<1>1. KnowledgeGrows /\ Known(f)'
  BY FeedGrows DEF KnowledgeGrows
<1>2. StoredInOrder /\ StoredInTime /\ QueueInOrder /\ AcceptedInOrder
  BY DEF OrderInv, WaitingOrder
<1>3. /\ Waiting(t) \in Seq(Frame) /\ 1 \in DOMAIN Waiting(t) /\ Head(Waiting(t)) = Waiting(t)[1]
      /\ \A i \in DOMAIN Tail(Waiting(t)) :
           i + 1 \in DOMAIN Waiting(t) /\ Tail(Waiting(t))[i] = Waiting(t)[i + 1] /\ 1 < i + 1
  <2>1. Waiting(t) \in Seq(Frame)
    BY OrderTypes
  <2> QED
    BY <2>1
<1>4. \A s \in Places : Block(s).track = f.track => Block(s).id < f.id
  BY <1>2, <1>3 DEF StoredInOrder
<1>5. FeedInOrder' => \A s \in Places : Block(s).ts <= f.ts
  <2>1. Known(Waiting(t)[1])
    BY <1>3 DEF Known
  <2> QED
    BY <1>1, <1>2, <1>3, <2>1 DEF StoredInTime, KnowledgeGrows
<1>6. WaitingShrinks /\ QueueShrinks
  <2>1. QueueShrinks
    BY QueueSame DEF QueueFrom
  <2> QED
    BY <2>1, ListsShrink
<1>7. ASSUME NEW u \in TrackSet, NEW i \in DOMAIN Waiting(u)'
      PROVE  /\ f.track = u => f.id < Waiting(u)'[i].id
             /\ FeedInOrder' /\ Known(Waiting(u)[i])' => f.ts <= Waiting(u)'[i].ts
  <2>1. PICK x : x = Waiting(u)'[i]
    OBVIOUS
  <2>2. PICK j \in DOMAIN Waiting(u) : x = Waiting(u)[j]
    BY <1>3, <1>7, <2>1
  <2>3. f.track = u => f.id < x.id
    <3> SUFFICES ASSUME u = t PROVE f.id < x.id
      OBVIOUS
    <3>1. i \in DOMAIN Tail(Waiting(t)) /\ x = Tail(Waiting(t))[i]
      BY <1>7, <2>1
    <3> QED
      BY <1>2, <1>3, <3>1 DEF StoredInOrder
  <2>4. FeedInOrder' /\ Known(x)' => f.ts <= x.ts
    <3> SUFFICES ASSUME FeedInOrder', Known(x)' PROVE f.ts <= x.ts
      OBVIOUS
    <3>1. FeedInOrder /\ Known(Waiting(u)[j])
      BY <1>1, <2>2 DEF KnowledgeGrows, Known
    <3>2. Waiting(u) # << >> /\ Head(Waiting(u)).ts <= x.ts
      BY <2>2, <3>1, ListInTime
    <3>3. f.ts <= Head(Waiting(u)).ts
      BY <3>2
    <3>4. f.ts \in Nat /\ x.ts \in Nat /\ Head(Waiting(u)).ts \in Nat
      <4>1. Waiting(u) \in Seq(Frame)
        BY OrderTypes
      <4>2. Head(Waiting(u)) \in Frame /\ x \in Frame
        BY <2>2, <3>2, <4>1
      <4> QED
        BY <4>2, FrameFields
    <3> QED
      BY <3>2, <3>3, <3>4
  <2> QED
    BY <2>1, <2>3, <2>4 DEF Known
<1>8. \A a \in DOMAIN queue' : a >= QueueFrom' => f.id < queue'[a].id
  BY <1>2, <1>3 DEF QueueInOrder
<1> QED
  BY <1>1, <1>4, <1>5, <1>6, <1>7, <1>8, OrderStep

\* Cluster::Finalize writes the least first frame: the merge keeps time order.
LEMMA OrderCloseStored ==
  ASSUME IInv, IInv', OrderInv, CloseStored
  PROVE  OrderInv'
<1> USE DEF IInv
<1>1. PICK c : c = LastCluster
  OBVIOUS
<1>2. PICK t : t = NextStored(c)
  OBVIOUS
<1>3. PICK h : h = Head(c.stored[t])
  OBVIOUS
<1>4. PICK f : f = WithLastDuration(c, h, call = "frame", frame.ts)
  OBVIOUS
<1>5. /\ pc = "close" /\ clusters # << >> /\ HasStored(c)
      /\ SetLastCluster(DropStored(DoWriteFrame(c, f, written), t))
      /\ UNCHANGED << queue, accepted, calls, call >>
      /\ IF CanWrite(c, f) THEN Goto("close") ELSE Fail
  BY <1>1, <1>2, <1>3, <1>4 DEF CloseStored, CallState
<1>6. c \in Cluster /\ ByTrack(c)
  <2>1. Len(clusters) \in DOMAIN clusters /\ LastCluster \in Cluster
    BY <1>5, LastOfDomain, ElementOfSeq DEF LastCluster
  <2> QED
    BY <1>1, <2>1 DEF WaitingByTrack, LastCluster
<1>7. t \in TrackSet /\ c.stored[t] # << >>
  BY <1>2, <1>5, <1>6, NextStoredType
<1>8. h \in Frame /\ h.track = t
  BY <1>3, <1>6, <1>7, DropStoredType, DropStoredByTrack
<1>9. f \in Frame
  <2>1. frame.ts \in Nat /\ (call = "frame") \in BOOLEAN
    BY FrameFields DEF TypeOK
  <2> QED
    BY <1>4, <1>6, <1>7, <1>8, <2>1, WithLastDurationType
<1>10. f.id = h.id /\ f.ts = h.ts /\ f.track = h.track
  BY <1>4, <1>8 DEF WithLastDuration, Frame
<1>11. \A u \in TrackSet : Waiting(u) = c.stored[u]
  BY <1>1, <1>5 DEF Waiting
<1>12. /\ CanWrite(c, f) => PlacesGrow({f})
       /\ ~CanWrite(c, f) => PlacesGrow({})
       /\ \A u \in TrackSet : Waiting(u)' = IF u = t THEN Tail(Waiting(u)) ELSE Waiting(u)
  BY <1>1, <1>5, <1>7, <1>9, FirstPlaces
<1>13. /\ pc' \in {"close", "idle", "done"} /\ pc' # "undefined"
       /\ pc' = "close" => UNCHANGED frame
  BY <1>5 DEF Goto, Fail, Return
<1>14. AcceptedInOrder'
  BY <1>5, <1>13, AcceptedKept DEF Inside, OrderInv
<1>15. QueueFrom = 1 /\ QueueFrom' = 1 /\ PendingKept
  BY <1>5, <1>13 DEF QueueFrom, PendingKept, Pending
<1>16. CASE CanWrite(c, f)
  <2>1. Known(f)
    <3>1. Waiting(t) \in Seq(Frame) /\ Waiting(t) # << >> /\ h = Head(Waiting(t))
      BY <1>3, <1>7, <1>11, OrderTypes
    <3>2. 1 \in DOMAIN Waiting(t) /\ h = Waiting(t)[1]
      BY <3>1
    <3>3. Known(Waiting(t)[1])
      BY <1>5, <1>7, <3>2 DEF OrderInv, WaitingOrder, StoredKnown, Pending
    <3> QED
      BY <1>10, <3>2, <3>3 DEF Known
  <2>2. \A u \in TrackSet : Waiting(u) # << >> => f.ts <= Head(Waiting(u)).ts
    <3> SUFFICES ASSUME NEW u \in TrackSet, Waiting(u) # << >>
                 PROVE  f.ts <= Head(Waiting(u)).ts
      OBVIOUS
    <3>1. \/ h.ts < Head(c.stored[u]).ts
          \/ h.ts = Head(c.stored[u]).ts /\ t <= u
      <4>1. c.stored[u] # << >>
        BY <1>11
      <4> QED
        BY <1>2, <1>3, <1>5, <1>6, <4>1, NextStoredType
    <3>2. Waiting(u) = c.stored[u] /\ Head(c.stored[u]).ts \in Nat /\ h.ts \in Nat
      <4>1. Waiting(u) = c.stored[u] /\ Waiting(u) \in Seq(Frame)
        BY <1>11, OrderTypes
      <4>2. Head(Waiting(u)) \in Frame
        BY <4>1
      <4> QED
        BY <1>8, <4>1, <4>2, FrameFields
    <3> QED
      BY <1>10, <3>1, <3>2
  <2>3. Waiting(t) # << >> /\ f.id = Head(Waiting(t)).id /\ f.ts = Head(Waiting(t)).ts
    BY <1>3, <1>7, <1>10, <1>11
  <2> QED
    BY <1>5, <1>7, <1>8, <1>9, <1>10, <1>12, <1>14, <1>15, <1>16, <2>1, <2>2, <2>3,
       OrderFirst
<1>17. CASE ~CanWrite(c, f)
  <2>1. WaitingShrinks
    BY <1>7, <1>11, <1>12, ListsShrink
  <2>2. QueueShrinks
    BY <1>5, <1>15, QueueSame
  <2> QED
    BY <1>5, <1>12, <1>14, <1>15, <1>17, <2>1, <2>2, FeedGrows, OrderQuiet
<1> QED
  BY <1>16, <1>17

\* Release writes a first frame that no other track's first frame precedes.
LEMMA OrderRelease ==
  ASSUME IInv, IInv', OrderInv, Release
  PROVE  OrderInv'
<1> USE DEF IInv
<1>1. PICK c : c = LastCluster
  OBVIOUS
<1>2. PICK t : t = Adding(origin).track
  OBVIOUS
<1>3. PICK f : f = Head(c.stored[t])
  OBVIOUS
<1>4. /\ pc = "hold" /\ clusters # << >> /\ MayRelease(c, t)
      /\ UNCHANGED << queue, accepted, calls, call, frame, origin >>
      /\ \/ /\ CanWrite(c, f) /\ UNCHANGED pc
            /\ SetLastCluster(DropStored(DoWriteFrame(c, f, written), t))
         \/ pc' = "undefined" /\ UNCHANGED clusters
  BY <1>1, <1>2, <1>3 DEF Release, CallState
<1>5. t \in TrackSet
  BY <1>2, <1>4, AddingType DEF CallState, TypeOK
<1>6. c \in Cluster /\ ByTrack(c)
  <2>1. Len(clusters) \in DOMAIN clusters /\ LastCluster \in Cluster
    BY <1>4, LastOfDomain, ElementOfSeq DEF LastCluster
  <2> QED
    BY <1>1, <2>1 DEF WaitingByTrack, LastCluster
<1>7. \A u \in TrackSet : Waiting(u) = c.stored[u]
  BY <1>1, <1>4 DEF Waiting
<1>8. AcceptedInOrder'
  BY <1>4, AcceptedKept DEF Inside, OrderInv
<1>9. CASE pc' = "undefined" /\ UNCHANGED clusters
  BY <1>4, <1>8, <1>9, SamePlaces, FeedGrows, OrderQuiet
<1>10. CASE /\ CanWrite(c, f) /\ UNCHANGED pc
            /\ SetLastCluster(DropStored(DoWriteFrame(c, f, written), t))
  <2>1. /\ Waiting(t) \in Seq(Frame) /\ Waiting(t) # << >> /\ f = Head(Waiting(t))
        /\ 1 \in DOMAIN Waiting(t) /\ 2 \in DOMAIN Waiting(t) /\ f = Waiting(t)[1]
        /\ f \in Frame
    <3>1. Waiting(t) \in Seq(Frame) /\ Len(Waiting(t)) >= 2 /\ f = Head(Waiting(t))
      BY <1>3, <1>4, <1>5, <1>7, OrderTypes DEF MayRelease
    <3> QED
      BY <3>1
  <2>2. f.track = t
    BY <1>5, <1>6, <1>7, <2>1 DEF ByTrack
  <2>3. Known(f)
    <3>1. Known(Waiting(t)[1])
      BY <1>4, <1>5, <2>1, NotLastKnown
    <3> QED
      BY <2>1, <3>1 DEF Known
  <2>4. \A u \in TrackSet : Waiting(u) # << >> => f.ts <= Head(Waiting(u)).ts
    <3> SUFFICES ASSUME NEW u \in TrackSet, Waiting(u) # << >>
                 PROVE  f.ts <= Head(Waiting(u)).ts
      OBVIOUS
    <3>1. f.ts \in Nat /\ Head(Waiting(u)).ts \in Nat
      <4>1. Waiting(u) \in Seq(Frame)
        BY OrderTypes
      <4>2. Head(Waiting(u)) \in Frame
        BY <4>1
      <4> QED
        BY <2>1, <4>2, FrameFields
    <3>2. CASE u = t
      BY <2>1, <3>1, <3>2
    <3>3. CASE u # t
      <4>1. OkayToWrite(c, f)
        BY <1>3, <1>4 DEF MayRelease
      <4> QED
        BY <1>7, <2>2, <3>1, <3>3, <4>1 DEF OkayToWrite
    <3> QED
      BY <3>2, <3>3
  <2>5. PlacesGrow({f})
        /\ \A u \in TrackSet : Waiting(u)' = IF u = t THEN Tail(Waiting(u)) ELSE Waiting(u)
    BY <1>1, <1>3, <1>4, <1>5, <1>7, <1>10, <2>1, FirstPlaces
  <2>6. QueueFrom' = QueueFrom /\ PendingKept
    BY <1>4, <1>10 DEF QueueFrom, PendingKept, Pending
  <2>7. pc # "undefined" /\ UNCHANGED << queue, accepted >>
    BY <1>4
  <2>8. f.id = Head(Waiting(t)).id /\ f.ts = Head(Waiting(t)).ts
    BY <2>1
  <2> QED
    BY <1>5, <1>8, <2>1, <2>2, <2>3, <2>4, <2>5, <2>6, <2>7, <2>8, OrderFirst
<1> QED
  BY <1>4, <1>9, <1>10

\* A frame is held back: it is the last on its list, and ahead of the queue.
LEMMA OrderHold ==
  ASSUME IInv, IInv', QueueInv, OrderInv, Hold
  PROVE  OrderInv'
<1> USE DEF IInv
<1>1. PICK c : c = LastCluster
  OBVIOUS
<1>2. PICK f : f = Adding(pc)
  OBVIOUS
<1>3. PICK d : d = HoldFrame(c, f)
  OBVIOUS
<1>4. /\ pc \in {"flushOlder", "flushAll", "write"} /\ clusters # << >>
      /\ pc # "write" => queue # << >>
      /\ UNCHANGED << queue, accepted, calls, call, frame >>
      /\ pc' = "hold" /\ origin' = pc /\ SetLastCluster(d)
  <2>1. pc \in {"flushOlder", "flushAll", "write"} /\ AddsFrame
    BY DEF Hold
  <2>2. clusters # << >> /\ (pc # "write" => queue # << >>)
    <3>1. CASE pc = "flushOlder"
      BY <2>1, <3>1 DEF AddsFrame, OlderFrameQueued, TypeOK
    <3>2. CASE pc = "flushAll"
      BY <2>1, <3>2 DEF AddsFrame
    <3>3. CASE pc = "write"
      BY <3>3 DEF CallState
    <3> QED
      BY <2>1, <3>1, <3>2, <3>3
  <2> QED
    BY <1>1, <1>2, <1>3, <2>1, <2>2 DEF Hold
<1>5. f \in Frame /\ f.track \in TrackSet
  BY <1>2, <1>4, AddingType
<1>6. c \in Cluster
  BY <1>1, <1>4, LastOfDomain, ElementOfSeq DEF LastCluster
<1>7. d \in Cluster /\ d.blocks = c.blocks
      /\ d.stored = [c.stored EXCEPT ![f.track] = Append(@, f)]
  BY <1>3, <1>5, <1>6, HoldFrameType
<1>8. PlacesGrow({}) /\ \A t : Waiting(t) = c.stored[t] /\ Waiting(t)' = d.stored[t]
  BY <1>1, <1>4, <1>5, <1>7, LastPlaces
<1>9. PICK r : r = Waiting(f.track)
  OBVIOUS
<1>10. /\ r \in Seq(Frame) /\ Waiting(f.track)' = Append(r, f)
       /\ \A t \in TrackSet : t # f.track => Waiting(t)' = Waiting(t)
  <2>1. \A t \in TrackSet :
          d.stored[t] = IF t = f.track THEN Append(c.stored[t], f) ELSE c.stored[t]
    BY <1>5, <1>6, <1>7, ClusterFields
  <2> QED
    BY <1>5, <1>8, <1>9, <2>1, OrderTypes
<1>11. PICK n : n = Len(r)
  OBVIOUS
<1>12. ASSUME NEW t \in TrackSet, NEW i \in DOMAIN Waiting(t)'
       PROVE  \/ i \in DOMAIN Waiting(t) /\ Waiting(t)'[i] = Waiting(t)[i]
              \/ t = f.track /\ i = n + 1 /\ Waiting(t)'[i] = f
  BY <1>5, <1>9, <1>10, <1>11, <1>12, AppendFrame
<1>13. QueueFrom = 1 /\ pc # "undefined" /\ ~Pending
  BY <1>4 DEF QueueFrom, Pending
<1>14. /\ AcceptedInOrder /\ BlocksKnown /\ StoredKnown /\ StoredInOrder /\ StoredInTime
       /\ QueueKnown /\ QueueInOrder
  BY <1>13 DEF OrderInv, WaitingOrder
<1>15. /\ pc = "write" => /\ f.id = calls /\ f.ts = frame.ts /\ Inside /\ queue = << >>
                          /\ frame \in Frame
       /\ pc # "write" => f = queue[1] /\ 1 \in DOMAIN queue
  <2>1. CASE pc = "write"
    <3>1. call = "frame" /\ frame \in Frame /\ queue = << >> /\ Inside
      BY <2>1 DEF CallState, QueueInv, InWrite, TypeOK, Inside
    <3>2. f = WithReference(frame)
      BY <1>2, <2>1 DEF Adding
    <3> QED
      BY <1>14, <2>1, <3>1, <3>2, WithReferenceSame DEF AcceptedInOrder
  <2>2. CASE pc # "write"
    <3>1. queue \in Seq(Frame) /\ queue # << >> /\ f = Head(queue)
      BY <1>2, <1>4, <2>2 DEF Adding, TypeOK
    <3> QED
      BY <2>2, <3>1
  <2> QED
    BY <2>1, <2>2

\* All that was known is older than the frame.
<1>16. /\ \A s \in Places : Block(s).id < f.id
       /\ \A t \in TrackSet : \A i \in DOMAIN Waiting(t) : Waiting(t)[i].id < f.id
  <2>1. CASE pc = "write"
    <3>1. \A x : Known(x) => x.id < f.id
      BY <1>14, <1>15, <2>1, KnownIds
    <3> QED
      BY <1>13, <1>14, <3>1 DEF BlocksKnown, StoredKnown
  <2>2. CASE pc # "write"
    BY <1>13, <1>14, <1>15, <2>2 DEF QueueInOrder
  <2> QED
    BY <2>1, <2>2
<1>17. KnowledgeGrows /\ AcceptedInOrder'
  BY <1>4, <1>14, FeedGrows, AcceptedKept DEF Inside
<1>18. BlocksKnown' /\ BlocksInOrder' /\ BlocksInTime'
  BY <1>8, <1>17, BlocksKept
<1>19. \A s \in Places' : s \in Places /\ Block(s)' = Block(s)
  BY <1>8 DEF PlacesGrow
<1>20. StoredKnown'
  <2> SUFFICES ASSUME NEW t \in TrackSet, NEW i \in DOMAIN Waiting(t)'
               PROVE  \/ Known(Waiting(t)[i])'
                      \/ /\ Pending' /\ Waiting(t)'[i].id = calls'
                         /\ Waiting(t)'[i].ts = frame'.ts
    BY DEF StoredKnown
  <2>1. CASE i \in DOMAIN Waiting(t) /\ Waiting(t)'[i] = Waiting(t)[i]
    <3>1. Known(Waiting(t)[i])
      BY <1>13, <1>14, <2>1 DEF StoredKnown
    <3> QED
      BY <1>4, <2>1, <3>1 DEF Known
  <2>2. CASE Waiting(t)'[i] = f
    <3>1. CASE pc = "write"
      BY <1>4, <1>15, <2>2, <3>1 DEF Pending
    <3>2. CASE pc # "write"
      BY <1>4, <1>14, <1>15, <2>2, <3>2 DEF QueueKnown, Known
    <3> QED
      BY <3>1, <3>2
  <2> QED
    BY <1>12, <2>1, <2>2
<1>21. StoredInOrder'
  <2> SUFFICES ASSUME NEW t \in TrackSet, NEW i \in DOMAIN Waiting(t)'
               PROVE  /\ \A j \in DOMAIN Waiting(t)' : i < j =>
                           Waiting(t)'[i].id < Waiting(t)'[j].id
                      /\ \A s \in Places' : Block(s)'.track = t =>
                           Block(s)'.id < Waiting(t)'[i].id
    BY DEF StoredInOrder
  <2>1. ASSUME NEW s \in Places', Block(s)'.track = t
        PROVE  Block(s)'.id < Waiting(t)'[i].id
    <3>1. s \in Places /\ Block(s)' = Block(s)
      BY <1>19
    <3>2. CASE i \in DOMAIN Waiting(t) /\ Waiting(t)'[i] = Waiting(t)[i]
      BY <1>14, <2>1, <3>1, <3>2 DEF StoredInOrder
    <3>3. CASE Waiting(t)'[i] = f
      BY <1>16, <3>1, <3>3
    <3> QED
      BY <1>12, <3>2, <3>3
  <2>2. ASSUME NEW j \in DOMAIN Waiting(t)', i < j
        PROVE  Waiting(t)'[i].id < Waiting(t)'[j].id
    <3>1. CASE j \in DOMAIN Waiting(t) /\ Waiting(t)'[j] = Waiting(t)[j]
      <4>1. i \in DOMAIN Waiting(t) /\ Waiting(t)'[i] = Waiting(t)[i]
        <5>1. Waiting(t) \in Seq(Frame)
          BY OrderTypes
        <5>2. Waiting(t) = r => ~(n + 1 < j)
          BY <1>10, <1>11, <3>1
        <5> QED
          BY <1>9, <1>12, <2>2, <5>2
      <4> QED
        BY <1>14, <2>2, <3>1, <4>1 DEF StoredInOrder
    <3>2. CASE t = f.track /\ j = n + 1 /\ Waiting(t)'[j] = f
      <4>1. i \in DOMAIN Waiting(t) /\ Waiting(t)'[i] = Waiting(t)[i]
        BY <1>10, <1>11, <1>12, <2>2, <3>2
      <4> QED
        BY <1>16, <3>2, <4>1
    <3> QED
      BY <1>12, <3>1, <3>2
  <2> QED
    BY <2>1, <2>2
<1>22. StoredInTime'
  <2> SUFFICES ASSUME FeedInOrder', NEW s \in Places', NEW t \in TrackSet,
                      NEW i \in DOMAIN Waiting(t)', Known(Waiting(t)[i])'
               PROVE  Block(s)'.ts <= Waiting(t)'[i].ts
    BY DEF StoredInTime
  <2>1. s \in Places /\ Block(s)' = Block(s) /\ FeedInOrder
    BY <1>17, <1>19 DEF KnowledgeGrows
  <2>2. CASE i \in DOMAIN Waiting(t) /\ Waiting(t)'[i] = Waiting(t)[i]
    <3>1. Known(Waiting(t)[i])
      BY <1>4, <2>2 DEF Known
    <3> QED
      BY <1>14, <2>1, <2>2, <3>1 DEF StoredInTime
  <2>3. CASE Waiting(t)'[i] = f
    <3>1. PICK b : b = Block(s)
      OBVIOUS
    <3>2. Known(b) /\ Known(f) /\ b.id < f.id
      BY <1>4, <1>14, <1>16, <2>1, <2>3, <3>1 DEF BlocksKnown, Known
    <3>3. b.id <= f.id
      BY <1>14, <3>2, KnownIds
    <3> QED
      BY <1>14, <2>1, <2>3, <3>1, <3>2, <3>3, KnownInTime
  <2> QED
    BY <1>12, <2>2, <2>3
<1>23. QueueKnown'
  BY <1>4, <1>14 DEF QueueKnown, Known
<1>24. QueueInOrder'
  <2> SUFFICES ASSUME NEW a \in DOMAIN queue
               PROVE  /\ \A b \in DOMAIN queue : a < b => queue[a].id < queue[b].id
                      /\ a >= QueueFrom' =>
                           /\ \A s \in Places' : Block(s)'.id < queue[a].id
                           /\ \A t \in TrackSet : \A i \in DOMAIN Waiting(t)' :
                                Waiting(t)'[i].id < queue[a].id
    BY <1>4 DEF QueueInOrder
  <2>1. pc # "write" /\ QueueFrom' = 2 /\ a \in Nat
    <3>1. queue \in Seq(Frame)
      BY DEF TypeOK
    <3> QED
      BY <1>4, <1>15, <3>1 DEF QueueFrom
  <2>2. \A b \in DOMAIN queue : a < b => queue[a].id < queue[b].id
    BY <1>14 DEF QueueInOrder
  <2>3. ASSUME a >= 2, NEW s \in Places' PROVE Block(s)'.id < queue[a].id
    BY <1>13, <1>14, <1>19, <2>1, <2>3 DEF QueueInOrder
  <2>4. ASSUME a >= 2, NEW t \in TrackSet, NEW i \in DOMAIN Waiting(t)'
        PROVE  Waiting(t)'[i].id < queue[a].id
    <3>1. CASE i \in DOMAIN Waiting(t) /\ Waiting(t)'[i] = Waiting(t)[i]
      BY <1>13, <1>14, <2>1, <2>4, <3>1 DEF QueueInOrder
    <3>2. CASE Waiting(t)'[i] = f
      BY <1>14, <1>15, <2>1, <2>4, <3>2 DEF QueueInOrder
    <3> QED
      BY <1>12, <3>1, <3>2
  <2> QED
    BY <2>1, <2>2, <2>3, <2>4
<1> QED
  BY <1>17, <1>18, <1>20, <1>21, <1>22, <1>23, <1>24 DEF OrderInv, WaitingOrder

\* OrderInv is kept by every step.
LEMMA OrderNext ==
  ASSUME IInv, IInv', QueueInv, CuesInv, OrderInv, [Next]_vars
  PROVE  OrderInv'
<1>1. CASE UNCHANGED vars
  <2>1. /\ Places' = Places /\ \A s : Block(s)' = Block(s)
        /\ \A t : Waiting(t)' = Waiting(t) /\ \A x : Known(x)' <=> Known(x)
    BY <1>1 DEF vars, Places, Block, Waiting, LastCluster, Known
  <2>2. AcceptedInOrder' /\ BlocksKnown' /\ BlocksInOrder' /\ BlocksInTime'
    <3>1. AcceptedInOrder' /\ (FeedInOrder' <=> FeedInOrder)
      BY <1>1 DEF vars, OrderInv, AcceptedInOrder, Inside, FeedInOrder
    <3>2. BlocksKnown'
      BY <1>1, <2>1 DEF vars, OrderInv, BlocksKnown, Known
    <3>3. BlocksInOrder' /\ BlocksInTime'
      BY <2>1, <3>1 DEF OrderInv, BlocksInOrder, BlocksInTime, Before
    <3> QED
      BY <3>1, <3>2, <3>3
  <2>3. ASSUME pc' # "undefined" PROVE WaitingOrder'
    <3>1. WaitingOrder /\ (FeedInOrder' <=> FeedInOrder) /\ QueueFrom' = QueueFrom
          /\ (Pending' <=> Pending) /\ UNCHANGED << queue, calls, frame, accepted >>
      BY <1>1, <2>3 DEF vars, OrderInv, FeedInOrder, QueueFrom, Pending
    <3>2. StoredKnown'
      BY <2>1, <3>1 DEF WaitingOrder, StoredKnown, Known
    <3>3. QueueKnown'
      BY <3>1 DEF WaitingOrder, QueueKnown, Known
    <3>4. StoredInOrder' /\ QueueInOrder'
      BY <2>1, <3>1 DEF WaitingOrder, StoredInOrder, QueueInOrder
    <3>5. StoredInTime'
      BY <2>1, <3>1 DEF WaitingOrder, StoredInTime, Known
    <3> QED
      BY <3>2, <3>3, <3>4, <3>5 DEF WaitingOrder
  <2> QED
    BY <2>2, <2>3 DEF OrderInv
<1> QED
  BY <1>1, OrderCaller, OrderInner, OrderOpenCluster, OrderFlush, OrderWriteFrame,
     OrderCloseStored, OrderRelease, OrderHold DEF Next, Step, Terminated

\* It holds at the start.
LEMMA InitOrder == Init => OrderInv
<1> SUFFICES ASSUME Init PROVE OrderInv
  OBVIOUS
<1>1. clusters = << >> /\ queue = << >> /\ accepted = << >> /\ pc = "idle"
  BY DEF Init
<1>2. Places = {} /\ DOMAIN accepted = {} /\ DOMAIN queue = {} /\ ~Inside
      /\ \A t : DOMAIN Waiting(t) = {}
  BY <1>1 DEF Places, Waiting, Inside
<1> QED
  BY <1>2 DEF OrderInv, AcceptedInOrder, BlocksKnown, BlocksInOrder, BlocksInTime,
              WaitingOrder, StoredKnown, StoredInOrder, QueueKnown, QueueInOrder,
              StoredInTime

\* Everything that is proved of every state, in one inductive invariant.
PlacedInv == BaseInv /\ PlaceInv /\ QueueInv /\ CuesInv /\ OrderInv

\* It is inductive.
LEMMA PlacedInductive ==
  /\ Init => PlacedInv
  /\ PlacedInv /\ [Next]_vars => PlacedInv'
<1>1. Init => PlacedInv
  <2>1. Init => QueueInv
    BY DEF Init, QueueInv, QueueFits, InWrite
  <2> QED
    BY <2>1, InitPlace, InitCues, InitOrder DEF PlacedInv
<1>2. ASSUME PlacedInv, [Next]_vars PROVE PlacedInv'
  <2>1. /\ BaseInv /\ PlaceInv /\ QueueInv /\ CuesInv /\ OrderInv /\ IInv /\ OpenInv
    BY <1>2 DEF PlacedInv, BaseInv
  <2>2. BaseInv' /\ PlaceInv' /\ IInv'
    BY <1>2, <2>1, NextPlace DEF BaseInv
  <2>3. QueueInv'
    <3>1. ASSUME UNCHANGED vars PROVE QueueInv'
      BY <2>1, <3>1 DEF vars, QueueInv, QueueFits, InFlushOlder, InWrite, LastCluster
    <3> QED
      BY <1>2, <2>1, <3>1, QueueInvCaller, QueueInvStep DEF Next, Terminated
  <2>4. CuesInv'
    BY <1>2, <2>1, <2>2, CuesNext
  <2>5. OrderInv'
    BY <1>2, <2>1, <2>2, OrderNext
  <2> QED
    BY <2>2, <2>3, <2>4, <2>5 DEF PlacedInv
<1> QED
  BY <1>1, <1>2

\* The two ways to say where the blocks are.
LEMMA SlotsArePlaces ==
  ASSUME TypeOK
  PROVE  Slots = Places
<1>1. clusters \in Seq(Cluster)
  BY DEF TypeOK
<1>2. DOMAIN clusters \subseteq Nat
  BY <1>1
<1>3. ASSUME NEW i \in DOMAIN clusters PROVE DOMAIN clusters[i].blocks \subseteq Nat
  <2>1. clusters[i] \in Cluster
    BY <1>1
  <2>2. clusters[i].blocks \in Seq(Frame)
    BY <2>1, ClusterFields
  <2> QED
    BY <2>2
<1> QED
  BY <1>2, <1>3 DEF Slots, Places

\* Whatever is added and however the segment is set up, through the queue, the
\* lists of frames held back and the merge when a cluster is closed: the blocks
\* of a track are in the file in the order in which its frames were added, and
\* none of them twice.
THEOREM TrackOrder == Spec => []TrackOrderKept
<1>1. PlacedInv => TrackOrderKept
  BY SlotsArePlaces
     DEF PlacedInv, BaseInv, IInv, OrderInv, BlocksInOrder, TrackOrderKept
<1> QED
  BY <1>1, PlacedInductive, PTL DEF Spec

\* If the frames were added in the order of their time, the blocks of the file
\* are in the order of their time, over all the tracks and all the clusters.
THEOREM FileOrder == Spec => []FileInTimeOrder
<1>1. PlacedInv => FileInTimeOrder
  BY SlotsArePlaces
     DEF PlacedInv, BaseInv, IInv, OrderInv, BlocksInTime, FileInTimeOrder
<1> QED
  BY <1>1, PlacedInductive, PTL DEF Spec
=============================================================================
