---------------------------- MODULE MuxFitProofs ----------------------------
(***************************************************************************)
(* Proofs about what MuxSegment makes of a feed that fits: frames that are  *)
(* valid, in time order and close enough together.  None of them is refused *)
(* by a cluster after the muxer took it, so none is lost, and no deleted    *)
(* frame is read.                                                           *)
(***************************************************************************)
EXTENDS MuxSegmentProofs

USE DEF localVars, loopVars, placeVars, cueVars, timeVars, countVars,
        headerVars, endVars, outerVars, history

-----------------------------------------------------------------------------
(* Where the frames are, whatever was fed.                                   *)

\* The call stands at p, or holds back a frame that was added there.
At(p) == pc = p \/ (pc = "hold" /\ origin = p)

\* The queue is the end of what was accepted ...
QueueTaken ==
  \A i \in DOMAIN queue : LET j == Len(accepted) - Len(queue) + i
                          IN  j \in DOMAIN accepted /\ queue[i] = accepted[j]

\* ... and all of it, and all audio, until there is a cluster.
FirstQueued ==
  clusters = << >> => /\ Len(accepted) = Len(queue)
                      /\ \A i \in DOMAIN accepted : accepted[i].track \in Audio

\* What is held back is valid, and only the last cluster holds anything back.
StoredValid == \A t \in TrackSet : \A i \in DOMAIN Waiting(t) : IsValid(Waiting(t)[i])

FinalizedEmpty == \A i \in DOMAIN clusters : clusters[i].finalized =>
                    \A t \in TrackSet : clusters[i].stored[t] = << >>

\* At most one frame stays queued that is not later than the one being added.
OlderGone ==
  pc \in {"close", "offset"} /\ call = "frame" /\ clusters # << >> =>
    /\ Len(queue) >= 2 => queue[2].ts > frame.ts
    /\ pc = "offset" => QueueFits

\* The frame that is being added is the last on its list.
HeldLast ==
  pc = "hold" => LET f == Adding(origin)
                     w == Waiting(f.track)
                 IN  w # << >> /\ w[Len(w)].id = f.id /\ w[Len(w)].ts = f.ts

\* Finalize empties the queue before it closes the last cluster.
Ending ==
  /\ pc = "done" => call = "finalize"
  /\ call = "finalize" =>
       /\ pc \in {"close", "offset"} => queue = << >>
       /\ pc = "offset" \/ (pc = "done" /\ ret) =>
            queue = << >> /\ \A t \in TrackSet : Waiting(t) = << >>

\* It holds whatever is fed.
TakenInv == /\ QueueTaken /\ FirstQueued /\ StoredValid /\ FinalizedEmpty
            /\ OlderGone /\ HeldLast /\ Ending

-----------------------------------------------------------------------------
(* Facts about times.                                                        *)

\* A later time has no smaller timecode.
LEMMA TimecodeMonotone ==
  ASSUME NEW a \in Nat, NEW b \in Nat, a <= b
  PROVE  Timecode(a) <= Timecode(b)
<1>1. Scale \in Nat \ {0}
  BY ClusterAssumption
<1> DEFINE q == a \div Scale
           r == b \div Scale
<1>2. q \in Nat /\ r \in Nat
  BY <1>1
<1>3. q * Scale <= a /\ b < (r + 1) * Scale
  BY <1>1
<1>4. ASSUME r < q PROVE FALSE
  <2>1. r + 1 <= q
    BY <1>2, <1>4
  <2> HIDE DEF q, r
  <2>2. (r + 1) * Scale <= q * Scale
    BY <1>1, <1>2, <2>1
  <2> QED
    BY <1>1, <1>2, <1>3, <2>2
<1> QED
  BY <1>2, <1>4 DEF Timecode

-----------------------------------------------------------------------------
(* TakenInv, one conjunct at a time.                                         *)

\* A step adds a frame to the queue and to what was accepted, or takes the
\* queue's first frame, or empties it.
LEMMA QueueTakenNext ==
  ASSUME TypeOK, TypeOK', QueueTaken,
         \/ UNCHANGED << queue, accepted >>
         \/ \E f \in Frame : queue' = Append(queue, f) /\ accepted' = Append(accepted, f)
         \/ queue # << >> /\ queue' = Tail(queue) /\ UNCHANGED accepted
         \/ queue' = << >>
  PROVE  QueueTaken'
<1>1. queue \in Seq(Frame) /\ accepted \in Seq(Frame)
  BY DEF TypeOK
<1>2. PICK n : n = Len(queue)
  OBVIOUS
<1>3. PICK m : m = Len(accepted)
  OBVIOUS
<1>4. /\ n \in Nat /\ m \in Nat /\ DOMAIN queue = 1 .. n /\ DOMAIN accepted = 1 .. m
      /\ \A i \in 1 .. n : m - n + i \in 1 .. m /\ queue[i] = accepted[m - n + i]
  BY <1>1, <1>2, <1>3 DEF QueueTaken
<1>5. CASE UNCHANGED << queue, accepted >>
  BY <1>5 DEF QueueTaken
<1>6. CASE \E f \in Frame : queue' = Append(queue, f) /\ accepted' = Append(accepted, f)
  <2>1. PICK f \in Frame : queue' = Append(queue, f) /\ accepted' = Append(accepted, f)
    BY <1>6
  <2>2. /\ Len(queue') = n + 1 /\ queue'[n + 1] = f /\ DOMAIN queue' = 1 .. n + 1
        /\ \A i \in 1 .. n : queue'[i] = queue[i]
    BY <1>1, <1>2, <2>1, AppendFrame
  <2>3. /\ Len(accepted') = m + 1 /\ accepted'[m + 1] = f /\ DOMAIN accepted' = 1 .. m + 1
        /\ \A i \in 1 .. m : accepted'[i] = accepted[i]
    BY <1>1, <1>3, <2>1, AppendFrame
  <2>4. ASSUME NEW i \in 1 .. n + 1
        PROVE  (m + 1) - (n + 1) + i \in 1 .. m + 1
               /\ queue'[i] = accepted'[(m + 1) - (n + 1) + i]
    <3>1. CASE i = n + 1
      <4>1. (m + 1) - (n + 1) + i = m + 1
        BY <1>4, <3>1
      <4> QED
        BY <1>4, <2>2, <2>3, <3>1, <4>1
    <3>2. CASE i \in 1 .. n
      <4>1. (m + 1) - (n + 1) + i = m - n + i
        BY <1>4, <3>2
      <4>2. m - n + i \in 1 .. m + 1
        BY <1>4, <3>2
      <4> QED
        BY <1>4, <2>2, <2>3, <3>2, <4>1, <4>2
    <3> QED
      BY <1>4, <3>1, <3>2
  <2> QED
    BY <2>2, <2>3, <2>4 DEF QueueTaken
<1>7. CASE queue # << >> /\ queue' = Tail(queue) /\ UNCHANGED accepted
  <2>1. /\ Len(queue') = n - 1 /\ n >= 1 /\ DOMAIN queue' = 1 .. n - 1
        /\ \A i \in 1 .. n - 1 : queue'[i] = queue[i + 1]
    BY <1>1, <1>2, <1>7
  <2>2. ASSUME NEW i \in 1 .. n - 1
        PROVE  m - (n - 1) + i \in 1 .. m /\ queue'[i] = accepted[m - (n - 1) + i]
    <3>1. i + 1 \in 1 .. n /\ m - (n - 1) + i = m - n + (i + 1)
      BY <1>4
    <3> QED
      BY <1>4, <2>1, <3>1
  <2> QED
    BY <1>3, <1>4, <1>7, <2>1, <2>2 DEF QueueTaken
<1>8. CASE queue' = << >>
  BY <1>8 DEF QueueTaken
<1> QED
  BY <1>5, <1>6, <1>7, <1>8

\* Lists that only lose frames keep holding valid ones.
LEMMA StoredValidKept ==
  ASSUME StoredValid, WaitingShrinks
  PROVE  StoredValid'
<1> SUFFICES ASSUME NEW t \in TrackSet, NEW i \in DOMAIN Waiting(t)'
             PROVE  IsValid(Waiting(t)[i])'
  BY DEF StoredValid
<1>1. PICK k \in {0, 1} : i + k \in DOMAIN Waiting(t) /\ Waiting(t)'[i] = Waiting(t)[i + k]
  BY DEF WaitingShrinks
<1>2. IsValid(Waiting(t)[i + k])
  BY <1>1 DEF StoredValid
<1> QED
  BY <1>1, <1>2 DEF IsValid, CanBeSimpleBlock, Duration

\* What a write to the last cluster leaves as it is.
Steady ==
  /\ clusters # << >> /\ clusters' # << >>
  /\ LastCluster'.timecode = LastCluster.timecode
  /\ clusters'[1].timecode = clusters[1].timecode
  /\ \A f : InRange(LastCluster, f)' <=> InRange(LastCluster, f)
  /\ ~LastCluster.finalized /\ ~LastCluster'.finalized

\* Every step that writes to the last cluster is such a step.
LEMMA WritesSteady ==
  ASSUME IInv, IInv', OpenInv, WritesToLast
  PROVE  Steady
<1>1. SameClusters /\ clusters # << >>
  BY WritesToLastKeeps, WritesToLastGrows
<1>2. ~LastCluster.finalized
  BY <1>1 DEF OpenInv, WritesToLast, Hold, Release, FlushOlder, FlushOlderFails, CloseStored,
              FlushAll, WriteFrame, AddFrameDone, AddFrameFails
<1>3. PICK n : n = Len(clusters)
  OBVIOUS
<1>4. /\ clusters \in Seq(Cluster) /\ clusters' \in Seq(Cluster) /\ n \in Nat /\ n # 0
      /\ Len(clusters') = n
  BY <1>1, <1>3 DEF IInv, TypeOK, SameClusters
<1>5. clusters' # << >> /\ LastCluster' = clusters'[n] /\ LastCluster = clusters[n]
  BY <1>3, <1>4 DEF LastCluster
<1>6. LastCluster'.timecode = LastCluster.timecode /\ ~LastCluster'.finalized
  BY <1>1, <1>2, <1>3, <1>5 DEF SameClusters
<1>7. clusters'[1].timecode = clusters[1].timecode
  <2>1. CASE n = 1
    BY <1>5, <1>6, <2>1
  <2>2. CASE n # 1
    <3>1. 1 \in 1 .. n - 1
      BY <1>4, <2>2
    <3> QED
      BY <1>1, <1>3, <3>1 DEF SameClusters
  <2> QED
    BY <2>1, <2>2
<1>8. \A f : InRange(LastCluster, f)' <=> InRange(LastCluster, f)
  BY <1>6 DEF InRange, Timecode
<1> QED
  BY <1>1, <1>2, <1>5, <1>6, <1>7, <1>8 DEF Steady

\* The last cluster, which may hold frames back, is not a finalized one.
LEMMA FinalizedEmptyWrites ==
  ASSUME IInv, IInv', OpenInv, WritesToLast, FinalizedEmpty
  PROVE  FinalizedEmpty'
<1>1. Steady /\ ClosedStay /\ SameClusters
  BY WritesSteady, OpenInvWrites, WritesToLastKeeps
<1> SUFFICES ASSUME NEW i \in DOMAIN clusters', clusters'[i].finalized, NEW t \in TrackSet
             PROVE  clusters'[i].stored[t] = << >>
  BY DEF FinalizedEmpty
<1>2. PICK n : n = Len(clusters)
  OBVIOUS
<1>3. /\ Len(clusters') = n /\ i \in 1 .. n /\ n \in Nat /\ DOMAIN clusters = 1 .. n
      /\ LastCluster' = clusters'[n]
  <2>1. clusters \in Seq(Cluster) /\ clusters' \in Seq(Cluster)
    BY DEF IInv, TypeOK
  <2>2. Len(clusters') = n
    BY <1>1, <1>2 DEF SameClusters
  <2> QED
    BY <1>2, <2>1, <2>2 DEF LastCluster
<1>4. i \in 1 .. n - 1
  BY <1>1, <1>3 DEF Steady
<1>5. clusters'[i] = clusters[i] /\ i \in DOMAIN clusters
  BY <1>1, <1>2, <1>3, <1>4 DEF SameClusters
<1> QED
  BY <1>5 DEF FinalizedEmpty

\* Lists of clusters that do not change.
LEMMA WaitingSame ==
  ASSUME UNCHANGED clusters
  PROVE  \A t : Waiting(t)' = Waiting(t)
BY DEF Waiting, LastCluster

\* The caller's steps only add to the queue.
LEMMA TakenCaller ==
  ASSUME IInv, IInv', TakenInv, Caller
  PROVE  TakenInv'
<1> USE DEF IInv
<1>1. /\ pc = "idle" /\ call = "frame" /\ UNCHANGED clusters
      /\ pc' \in {"idle", "test", "flushAll"}
  BY DEF Caller, RejectFrame, QueueFrame, BeginFrame, BeginCall, Return,
         ForceNewClusterOnNextFrame, Finalize, CallState
<1>2. \/ UNCHANGED << queue, accepted >>
      \/ \E f \in Frame : /\ f.track \in Audio
                          /\ queue' = Append(queue, f) /\ accepted' = Append(accepted, f)
  <2>1. ASSUME NEW in \in Inputs, QueueFrame(in)
        PROVE  \E f \in Frame : /\ f.track \in Audio
                                /\ queue' = Append(queue, f) /\ accepted' = Append(accepted, f)
    <3>1. NextFrame(in) \in Frame /\ NextFrame(in).track = in.track /\ in.track \in Audio
      BY <2>1, NextFrameType DEF QueueFrame, HoldsBack
    <3> QED
      BY <2>1, <3>1 DEF QueueFrame
  <2>2. CASE \E in \in Inputs : RejectFrame(in) \/ BeginFrame(in)
    BY <2>2 DEF RejectFrame, BeginFrame
  <2>3. CASE ForceNewClusterOnNextFrame \/ Finalize
    BY <2>3 DEF ForceNewClusterOnNextFrame, Finalize
  <2> QED
    BY <2>1, <2>2, <2>3 DEF Caller
<1>3. QueueTaken'
  BY <1>2, QueueTakenNext DEF TakenInv
<1>4. FirstQueued'
  <2> SUFFICES ASSUME clusters = << >>
               PROVE  /\ Len(accepted') = Len(queue')
                      /\ \A i \in DOMAIN accepted' : accepted'[i].track \in Audio
    BY <1>1 DEF FirstQueued
  <2>1. Len(accepted) = Len(queue) /\ \A i \in DOMAIN accepted : accepted[i].track \in Audio
    BY DEF TakenInv, FirstQueued
  <2>2. CASE UNCHANGED << queue, accepted >>
    BY <2>1, <2>2
  <2>3. ASSUME NEW f \in Frame, f.track \in Audio,
               queue' = Append(queue, f), accepted' = Append(accepted, f)
        PROVE  /\ Len(accepted') = Len(queue')
               /\ \A i \in DOMAIN accepted' : accepted'[i].track \in Audio
    <3>1. queue \in Seq(Frame) /\ accepted \in Seq(Frame)
      BY DEF TypeOK
    <3>2. PICK a : a = accepted
      OBVIOUS
    <3>3. PICK b : b = accepted'
      OBVIOUS
    <3>4. Len(queue') = Len(queue) + 1
      BY <2>3, <3>1, AppendFrame
    <3>5. /\ Len(b) = Len(a) + 1 /\ b[Len(a) + 1] = f /\ DOMAIN b = 1 .. Len(a) + 1
          /\ DOMAIN a = 1 .. Len(a) /\ \A j \in 1 .. Len(a) : b[j] = a[j]
          /\ Len(a) \in Nat
      BY <2>3, <3>1, <3>2, <3>3, AppendFrame
    <3>6. \A i \in DOMAIN b : i \in DOMAIN a \/ i = Len(a) + 1
      BY <3>5
    <3>7. \A i \in DOMAIN b : b[i].track \in Audio
      BY <2>1, <2>3, <3>2, <3>5, <3>6
    <3> QED
      BY <2>1, <3>2, <3>3, <3>4, <3>5, <3>7
  <2> QED
    BY <1>2, <2>2, <2>3
<1>5. StoredValid'
  BY <1>1, SamePlaces, StoredValidKept DEF TakenInv
<1>6. FinalizedEmpty'
  BY <1>1 DEF TakenInv, FinalizedEmpty
<1>7. OlderGone' /\ HeldLast'
  BY <1>1 DEF OlderGone, HeldLast
<1>8. Ending'
  BY <1>1 DEF Ending
<1> QED
  BY <1>3, <1>4, <1>5, <1>6, <1>7, <1>8 DEF TakenInv

\* The steps that leave the clusters and the queue alone.
LEMMA TakenInner ==
  ASSUME IInv, IInv', QueueInv, CuesInv, TakenInv,
         \/ TestForNewCluster \/ FlushOlderEnd \/ FlushAllEnd \/ FlushAllFails
         \/ AddClusterSize \/ FinishFile
  PROVE  TakenInv'
<1> USE DEF IInv
<1>1. UNCHANGED << clusters, queue, accepted >> /\ UNCHANGED call
  BY DEF TestForNewCluster, FlushOlderEnd, FlushAllEnd, FlushAllFails, AddClusterSize, FinishFile
<1>2. QueueTaken' /\ FirstQueued' /\ FinalizedEmpty'
  BY <1>1 DEF TakenInv, QueueTaken, FirstQueued, FinalizedEmpty
<1>3. StoredValid'
  BY <1>1, SamePlaces, StoredValidKept DEF TakenInv
<1>4. \A t : Waiting(t)' = Waiting(t)
  BY <1>1, WaitingSame
<1>5. pc' # "hold"
  BY DEF TestForNewCluster, Return, FlushOlderEnd, FlushAllEnd, FlushAllFails, Fail, Goto,
         AddClusterSize, FinishFile, Measure
<1>6. OlderGone'
  <2> SUFFICES ASSUME pc' \in {"close", "offset"}, call = "frame", clusters # << >>
               PROVE  /\ Len(queue) >= 2 => queue[2].ts > frame'.ts
                      /\ pc' = "offset" => QueueFits
    <3>1. QueueFits' <=> QueueFits
      BY <1>1 DEF QueueFits, LastCluster, InRange, Timecode
    <3> QED
      BY <1>1, <3>1 DEF OlderGone
  <2>1. CASE FlushOlderEnd
    <3>1. /\ pc' = "close" /\ UNCHANGED frame
          /\ ~(Len(queue) >= 2 /\ queue[2].ts <= frame.ts)
      BY <2>1 DEF FlushOlderEnd, Goto, OlderFrameQueued
    <3>2. ASSUME Len(queue) >= 2 PROVE queue[2].ts \in Nat /\ frame.ts \in Nat
      <4>1. queue \in Seq(Frame) /\ frame \in Frame
        BY DEF TypeOK
      <4>2. queue[2] \in Frame
        BY <3>2, <4>1
      <4> QED
        BY <4>1, <4>2, FrameFields
    <3> QED
      BY <3>1, <3>2
  <2>2. CASE AddClusterSize
    <3>1. pc = "offset" /\ pc' = "offset" /\ UNCHANGED frame
      BY <2>2 DEF AddClusterSize
    <3> QED
      BY <3>1 DEF TakenInv, OlderGone
  <2>3. CASE TestForNewCluster \/ FlushAllFails \/ FlushAllEnd \/ FinishFile
    BY <2>3 DEF TestForNewCluster, Return, FlushAllFails, Fail, FlushAllEnd, Goto, FinishFile
  <2> QED
    BY <2>1, <2>2, <2>3
<1>7. Ending'
  <2>1. CASE call = "frame"
    <3>1. pc' # "done"
      BY <2>1 DEF TestForNewCluster, Return, FlushOlderEnd, FlushAllEnd, FlushAllFails, Fail,
                  Goto, AddClusterSize, FinishFile, Measure
    <3> QED
      BY <1>1, <2>1, <3>1 DEF Ending
  <2>2. CASE call = "finalize"
    <3>1. CASE FlushAllEnd
      <4>1. pc = "flushAll" /\ queue = << >> /\ pc' \in {"close", "offset"}
        BY <2>2, <3>1 DEF FlushAllEnd, Goto, Measure
      <4>2. ASSUME pc' = "offset" PROVE \A t \in TrackSet : Waiting(t) = << >>
        <5>1. clusters = << >> \/ ~conf.accurate
          BY <2>2, <3>1, <4>2 DEF FlushAllEnd, Goto
        <5>2. CASE clusters = << >>
          BY <5>2 DEF Waiting
        <5>3. CASE clusters # << >> /\ ~conf.accurate
          <6>1. Len(clusters) \in DOMAIN clusters
            BY <5>3, LastOfDomain
          <6> QED
            BY <5>3, <6>1 DEF CuesInv, NothingStored, Waiting, LastCluster
        <5> QED
          BY <5>1, <5>2, <5>3
      <4> QED
        BY <1>1, <1>4, <2>2, <4>1, <4>2 DEF Ending
    <3>2. CASE FlushAllFails
      BY <1>1, <2>2, <3>2 DEF FlushAllFails, Fail, Ending
    <3>3. CASE AddClusterSize \/ FinishFile
      <4>1. pc = "offset" /\ pc' \in {"offset", "done"}
        BY <3>3 DEF AddClusterSize, FinishFile, Measured
      <4> QED
        BY <1>1, <1>4, <2>2, <4>1 DEF TakenInv, Ending
    <3>4. CASE TestForNewCluster \/ FlushOlderEnd
      BY <2>2, <3>4 DEF TestForNewCluster, FlushOlderEnd, CallState
    <3> QED
      BY <3>1, <3>2, <3>3, <3>4
  <2> QED
    BY <2>1, <2>2 DEF TypeOK
<1> QED
  BY <1>2, <1>3, <1>5, <1>6, <1>7 DEF TakenInv, HeldLast

-----------------------------------------------------------------------------
(* What the steps that hold frames back do, in terms of blocks and lists.    *)

\* The frame is in a block now.
Gains(f) == \E s \in Places' : Block(s)' = f

\* A frame appended to the last cluster is in a block.
LEMMA LastGains ==
  ASSUME TypeOK, clusters # << >>, NEW d \in Cluster, SetLastCluster(d), NEW f \in Frame,
         d.blocks = Append(LastCluster.blocks, f)
  PROVE  Gains(f)
<1>1. PICK n : n = Len(clusters)
  OBVIOUS
<1>2. clusters \in Seq(Cluster) /\ n \in Nat /\ n # 0 /\ n \in DOMAIN clusters
  BY <1>1, LastOfDomain DEF TypeOK
<1>3. clusters' = [clusters EXCEPT ![n] = d]
  BY <1>1 DEF SetLastCluster
<1>4. DOMAIN clusters' = DOMAIN clusters /\ clusters'[n] = d
  BY <1>2, <1>3
<1>5. PICK b : b = LastCluster.blocks
  OBVIOUS
<1>6. b \in Seq(Frame)
  <2>1. LastCluster \in Cluster
    BY <1>1, <1>2, ElementOfSeq DEF LastCluster
  <2> QED
    BY <1>5, <2>1, ClusterFields
<1>7. Len(b) + 1 \in DOMAIN d.blocks /\ d.blocks[Len(b) + 1] = f /\ Len(b) + 1 \in Nat
  BY <1>5, <1>6, AppendFrame
<1>8. PICK s : s = << n, Len(b) + 1 >>
  OBVIOUS
<1>9. s \in Places' /\ Block(s)' = f
  BY <1>2, <1>4, <1>7, <1>8 DEF Places, Block
<1> QED
  BY <1>9 DEF Gains

\* A frame that can be written is in a block once DoWriteFrame was called.
LEMMA WriteGains ==
  ASSUME TypeOK, clusters # << >>, NEW f \in Frame, CanWrite(LastCluster, f),
         \/ SetLastCluster(DoWriteFrame(LastCluster, f, written))
         \/ \E t \in TrackSet : /\ LastCluster.stored[t] # << >>
                               /\ SetLastCluster(DropStored(DoWriteFrame(LastCluster, f, written), t))
  PROVE  Gains(f)
<1>1. PICK c : c = LastCluster
  OBVIOUS
<1>2. PICK d : d = DoWriteFrame(c, f, written)
  OBVIOUS
<1>3. c \in Cluster /\ written \in Nat
  BY <1>1, LastOfDomain, ElementOfSeq DEF LastCluster, TypeOK
<1>4. d \in Cluster /\ d.blocks = Append(c.blocks, f) /\ d.stored = c.stored
  BY <1>1, <1>2, <1>3, DoWriteWritable
<1>5. CASE SetLastCluster(d)
  BY <1>1, <1>4, <1>5, LastGains
<1>6. ASSUME NEW t \in TrackSet, c.stored[t] # << >>, SetLastCluster(DropStored(d, t))
      PROVE  Gains(f)
  <2>1. DropStored(d, t) \in Cluster /\ DropStored(d, t).blocks = d.blocks
    BY <1>4, <1>6, DropStoredType, ZenonT(40)
  <2> QED
    BY <1>1, <1>4, <1>6, <2>1, LastGains
<1> QED
  BY <1>1, <1>2, <1>5, <1>6

\* Cluster::Finalize takes the first frame of a list and writes it, with its
\* duration, or drops it and fails.
LEMMA CloseStoredEffect ==
  ASSUME IInv, CloseStored
  PROVE  /\ pc = "close" /\ clusters # << >> /\ UNCHANGED << queue, accepted, call, lastTs >>
         /\ \E t \in TrackSet, f \in Frame :
              /\ Waiting(t) \in Seq(Frame) /\ Waiting(t) # << >>
              /\ f = WithLastDuration(LastCluster, Head(Waiting(t)), call = "frame", frame.ts)
              /\ f.id = Head(Waiting(t)).id /\ f.ts = Head(Waiting(t)).ts /\ f.track = t
              /\ IF CanWrite(LastCluster, f) THEN PlacesGrow({f}) /\ Gains(f) /\ Goto("close")
                                             ELSE PlacesGrow({}) /\ Fail
              /\ \A u \in TrackSet :
                   Waiting(u)' = IF u = t THEN Tail(Waiting(u)) ELSE Waiting(u)
<1> USE DEF IInv
<1>1. PICK c : c = LastCluster
  OBVIOUS
<1>2. PICK t : t = NextStored(c)
  OBVIOUS
<1>3. PICK h : h = Head(c.stored[t])
  OBVIOUS
<1>4. PICK f : f = WithLastDuration(c, h, call = "frame", frame.ts)
  OBVIOUS
<1>5. /\ pc = "close" /\ clusters # << >> /\ HasStored(c)
      /\ SetLastCluster(DropStored(DoWriteFrame(c, f, written), t))
      /\ UNCHANGED << queue, accepted, call, lastTs >>
      /\ IF CanWrite(c, f) THEN Goto("close") ELSE Fail
  BY <1>1, <1>2, <1>3, <1>4 DEF CloseStored, CallState
<1>6. c \in Cluster /\ ByTrack(c)
  <2>1. Len(clusters) \in DOMAIN clusters /\ LastCluster \in Cluster
    BY <1>5, LastOfDomain, ElementOfSeq DEF LastCluster
  <2> QED
    BY <1>1, <2>1 DEF WaitingByTrack, LastCluster
<1>7. t \in TrackSet /\ c.stored[t] # << >>
  BY <1>2, <1>5, <1>6, NextStoredType
<1>8. h \in Frame /\ h.track = t
  BY <1>3, <1>6, <1>7, DropStoredType, DropStoredByTrack
<1>9. f \in Frame
  <2>1. frame.ts \in Nat /\ (call = "frame") \in BOOLEAN
    BY FrameFields DEF TypeOK
  <2> QED
    BY <1>4, <1>6, <1>7, <1>8, <2>1, WithLastDurationType
<1>10. f.id = h.id /\ f.ts = h.ts /\ f.track = h.track
  BY <1>4, <1>8 DEF WithLastDuration, Frame
<1>11. \A u \in TrackSet : Waiting(u) = c.stored[u]
  BY <1>1, <1>5 DEF Waiting
<1>12. /\ CanWrite(c, f) => PlacesGrow({f})
       /\ ~CanWrite(c, f) => PlacesGrow({})
       /\ \A u \in TrackSet : Waiting(u)' = IF u = t THEN Tail(Waiting(u)) ELSE Waiting(u)
  BY <1>1, <1>5, <1>7, <1>9, FirstPlaces
<1>13. Waiting(t) \in Seq(Frame)
  BY <1>7, OrderTypes
<1>14. c.stored[t] = Waiting(t)
  BY <1>7, <1>11
<1>15. h = Head(Waiting(t))
  BY <1>3, <1>14
<1>16. f = WithLastDuration(LastCluster, Head(Waiting(t)), call = "frame", frame.ts)
  BY <1>1, <1>4, <1>15
<1>17. IF CanWrite(LastCluster, f) THEN PlacesGrow({f}) /\ Gains(f) /\ Goto("close")
                                   ELSE PlacesGrow({}) /\ Fail
  <2>1. CanWrite(LastCluster, f) => Gains(f)
    BY <1>1, <1>5, <1>7, <1>9, WriteGains
  <2> QED
    BY <1>1, <1>5, <1>12, <2>1
<1>18. /\ Waiting(t) \in Seq(Frame) /\ Waiting(t) # << >>
       /\ f.id = Head(Waiting(t)).id /\ f.ts = Head(Waiting(t)).ts /\ f.track = t
       /\ \A u \in TrackSet : Waiting(u)' = IF u = t THEN Tail(Waiting(u)) ELSE Waiting(u)
  BY <1>7, <1>8, <1>10, <1>12, <1>13, <1>14, <1>15
<1>19. pc = "close" /\ clusters # << >> /\ UNCHANGED << queue, accepted, call, lastTs >>
  BY <1>5
<1> QED
  BY <1>7, <1>9, <1>16, <1>17, <1>18, <1>19

\* Release writes the first of at least two frames of the track's list, or
\* leaves a deleted frame behind.
LEMMA ReleaseEffect ==
  ASSUME IInv, Release
  PROVE  /\ pc = "hold" /\ clusters # << >>
         /\ UNCHANGED << queue, accepted, call, calls, frame, origin, lastTs, lastTrackTs >>
         /\ \E t \in TrackSet, f \in Frame :
              /\ t = Adding(origin).track /\ MayRelease(LastCluster, t)
              /\ Waiting(t) \in Seq(Frame) /\ Len(Waiting(t)) >= 2 /\ f = Head(Waiting(t))
              /\ IF CanWrite(LastCluster, f)
                 THEN /\ PlacesGrow({f}) /\ Gains(f) /\ pc' = "hold"
                      /\ \A u \in TrackSet :
                           Waiting(u)' = IF u = t THEN Tail(Waiting(u)) ELSE Waiting(u)
                 ELSE pc' = "undefined" /\ UNCHANGED clusters
<1> USE DEF IInv
<1>1. PICK c : c = LastCluster
  OBVIOUS
<1>2. PICK t : t = Adding(origin).track
  OBVIOUS
<1>3. PICK f : f = Head(c.stored[t])
  OBVIOUS
<1>4. /\ pc = "hold" /\ clusters # << >> /\ MayRelease(c, t)
      /\ UNCHANGED << queue, accepted, call, calls, frame, origin, lastTs, lastTrackTs >>
      /\ IF CanWrite(c, f)
         THEN SetLastCluster(DropStored(DoWriteFrame(c, f, written), t)) /\ UNCHANGED pc
         ELSE pc' = "undefined" /\ UNCHANGED << clusters, written >>
  BY <1>1, <1>2, <1>3 DEF Release, CallState
<1>5. t \in TrackSet
  <2>1. origin # "write" => queue # << >>
    BY <1>4 DEF CallState
  <2>2. origin \in {"flushOlder", "flushAll", "write"}
    BY DEF TypeOK
  <2>3. Adding(origin).track \in TrackSet
    BY <1>4, <2>1, <2>2, AddingType
  <2> QED
    BY <1>2, <2>3
<1>6. Waiting(t) \in Seq(Frame) /\ c.stored[t] = Waiting(t)
  BY <1>1, <1>4, <1>5, OrderTypes DEF Waiting
<1>7. Len(Waiting(t)) >= 2 /\ f = Head(Waiting(t)) /\ Waiting(t) # << >> /\ f \in Frame
  <2>1. Len(Waiting(t)) >= 2 /\ f = Head(Waiting(t))
    BY <1>3, <1>4, <1>6 DEF MayRelease
  <2> QED
    BY <1>6, <2>1
<1>8. CanWrite(c, f) =>
        PlacesGrow({f}) /\ \A u \in TrackSet :
                             Waiting(u)' = IF u = t THEN Tail(Waiting(u)) ELSE Waiting(u)
  BY <1>1, <1>4, <1>5, <1>6, <1>7, FirstPlaces
<1>9. IF CanWrite(LastCluster, f)
      THEN /\ PlacesGrow({f}) /\ Gains(f) /\ pc' = "hold"
           /\ \A u \in TrackSet : Waiting(u)' = IF u = t THEN Tail(Waiting(u)) ELSE Waiting(u)
      ELSE pc' = "undefined" /\ UNCHANGED clusters
  <2>1. CanWrite(LastCluster, f) => Gains(f)
    BY <1>1, <1>4, <1>5, <1>6, <1>7, WriteGains
  <2> QED
    BY <1>1, <1>4, <1>8, <2>1
<1> QED
  BY <1>1, <1>2, <1>4, <1>5, <1>6, <1>7, <1>9

\* Hold puts a valid frame behind the others of its track.
LEMMA HoldEffect ==
  ASSUME IInv, Hold
  PROVE  /\ pc \in {"flushOlder", "flushAll", "write"} /\ clusters # << >>
         /\ pc # "write" => queue # << >>
         /\ UNCHANGED << queue, accepted, calls, call, frame, lastTs, lastTrackTs >>
         /\ pc' = "hold" /\ origin' = pc /\ PlacesGrow({})
         /\ \E f \in Frame :
              /\ f = Adding(pc) /\ f.track \in TrackSet /\ IsValid(f)
              /\ Waiting(f.track) \in Seq(Frame)
              /\ \A t \in TrackSet :
                   Waiting(t)' = IF t = f.track THEN Append(Waiting(t), f) ELSE Waiting(t)
<1> USE DEF IInv
<1>1. PICK c : c = LastCluster
  OBVIOUS
<1>2. PICK f : f = Adding(pc)
  OBVIOUS
<1>3. PICK d : d = HoldFrame(c, f)
  OBVIOUS
<1>4. /\ pc \in {"flushOlder", "flushAll", "write"} /\ AddsFrame /\ IsValid(f)
      /\ UNCHANGED << queue, accepted, calls, call, frame, lastTs, lastTrackTs >>
      /\ pc' = "hold" /\ origin' = pc /\ SetLastCluster(d)
  BY <1>1, <1>2, <1>3 DEF Hold
<1>5. clusters # << >> /\ (pc # "write" => queue # << >>)
  <2>1. CASE pc = "flushOlder"
    BY <1>4, <2>1 DEF AddsFrame, OlderFrameQueued, TypeOK
  <2>2. CASE pc = "flushAll"
    BY <1>4, <2>2 DEF AddsFrame
  <2>3. CASE pc = "write"
    BY <2>3 DEF CallState
  <2> QED
    BY <1>4, <2>1, <2>2, <2>3
<1>6. f \in Frame /\ f.track \in TrackSet
  BY <1>2, <1>4, <1>5, AddingType
<1>7. c \in Cluster
  BY <1>1, <1>5, LastOfDomain, ElementOfSeq DEF LastCluster
<1>8. d \in Cluster /\ d.blocks = c.blocks
      /\ d.stored = [c.stored EXCEPT ![f.track] = Append(@, f)]
  BY <1>3, <1>6, <1>7, HoldFrameType
<1>9. PlacesGrow({}) /\ \A t : Waiting(t) = c.stored[t] /\ Waiting(t)' = d.stored[t]
  BY <1>1, <1>4, <1>5, <1>6, <1>8, LastPlaces
<1>10. \A t \in TrackSet :
         d.stored[t] = IF t = f.track THEN Append(c.stored[t], f) ELSE c.stored[t]
  BY <1>6, <1>7, <1>8, ClusterFields
<1>11. \A t \in TrackSet :
         Waiting(t)' = IF t = f.track THEN Append(Waiting(t), f) ELSE Waiting(t)
  BY <1>9, <1>10
<1>12. Waiting(f.track) \in Seq(Frame)
  BY <1>6, OrderTypes
<1> QED
  BY <1>2, <1>4, <1>5, <1>6, <1>9, <1>11, <1>12

\* Cluster::AddFrame adds no frame to a list but in Hold.
LEMMA AddFrameShrinks ==
  ASSUME TypeOK, CuesInv, clusters # << >>, NEW f \in Frame, NEW p,
         AddFrameDone(f, p) \/ AddFrameFails(f, p)
  PROVE  WaitingShrinks
<1>1. CASE AddFrameFails(f, p)
  BY <1>1, RefusedSame, SameBlocksPlaces
<1>2. CASE AddFrameDone(f, p)
  <2>1. CASE \A t \in TrackSet : Waiting(t)' = << >>
    BY <2>1, ListsShrink
  <2>2. CASE UNCHANGED clusters
    BY <2>2, SamePlaces
  <2> QED
    BY <1>2, <2>1, <2>2, DonePlaces
<1> QED
  BY <1>1, <1>2

\* WriteFramesLessThan has a cluster and a frame to write.
LEMMA OlderQueued ==
  ASSUME OlderFrameQueued
  PROVE  clusters # << >> /\ queue # << >>
BY DEF OlderFrameQueued

-----------------------------------------------------------------------------
(* The steps that change a cluster.                                          *)

\* The steps in which AddFrame returns.
LEMMA TakenFlush ==
  ASSUME IInv, IInv', OpenInv, QueueInv, CuesInv, TakenInv,
         FlushOlder \/ FlushOlderFails \/ FlushAll \/ WriteFrame
  PROVE  TakenInv'
<1> USE DEF IInv
<1>1. Steady /\ FinalizedEmpty'
  BY WritesSteady, FinalizedEmptyWrites DEF WritesToLast, TakenInv
<1>2. WaitingShrinks
  <2>1. CASE FlushOlder \/ FlushOlderFails \/ FlushAll
    <3>1. queue # << >> /\ clusters # << >>
      BY <2>1, OlderQueued DEF FlushOlder, FlushOlderFails, FlushAll
    <3>2. Head(queue) \in Frame
      BY <3>1, QueueHeadType
    <3>3. PICK p : AddFrameDone(Head(queue), p) \/ AddFrameFails(Head(queue), p)
      BY <2>1 DEF FlushOlder, FlushOlderFails, FlushAll
    <3> QED
      BY <3>1, <3>2, <3>3, AddFrameShrinks
  <2>2. CASE WriteFrame
    <3>1. AddFrameDone(WithReference(frame), "write") \/ AddFrameFails(WithReference(frame), "write")
      BY <2>2 DEF WriteFrame
    <3>2. clusters # << >> /\ frame.track \in TrackSet
      BY <3>1 DEF CallState, AddFrameDone, AddFrameFails
    <3>3. WithReference(frame) \in Frame
      BY <3>2, WithReferenceType
    <3> QED
      BY <3>1, <3>2, <3>3, AddFrameShrinks
  <2> QED
    BY <2>1, <2>2
<1>3. QueueTaken'
  <2>1. CASE FlushOlder \/ FlushAll
    <3>1. queue # << >> /\ queue' = Tail(queue) /\ UNCHANGED accepted
      BY <2>1, OlderQueued DEF FlushOlder, FlushAll
    <3> QED
      BY <3>1, QueueTakenNext DEF TakenInv
  <2>2. CASE FlushOlderFails
    BY <2>2, QueueTakenNext DEF FlushOlderFails, TakenInv
  <2>3. CASE WriteFrame
    <3>1. InWrite /\ UNCHANGED queue
      BY <2>3 DEF WriteFrame, AddFrameDone, AddFrameFails, InWrite
    <3>2. queue' = << >>
      BY <3>1 DEF QueueInv
    <3> QED
      BY <3>2, QueueTakenNext DEF TakenInv
  <2> QED
    BY <2>1, <2>2, <2>3
<1>4. StoredValid' /\ FirstQueued'
  BY <1>1, <1>2, StoredValidKept DEF TakenInv, Steady, FirstQueued
<1>5. pc' \notin {"close", "offset", "hold", "done"}
  BY DEF FlushOlder, FlushOlderFails, FlushAll, WriteFrame, Return
<1> QED
  BY <1>1, <1>3, <1>4, <1>5 DEF TakenInv, OlderGone, HeldLast, Ending

\* A frame held back was found valid, and is the last on its list.
LEMMA TakenHold ==
  ASSUME IInv, IInv', OpenInv, TakenInv, Hold
  PROVE  TakenInv'
<1> USE DEF IInv
<1>1. /\ pc \in {"flushOlder", "flushAll", "write"}
      /\ UNCHANGED << queue, accepted, calls, call, frame, lastTs, lastTrackTs >>
      /\ pc' = "hold" /\ origin' = pc
  BY HoldEffect
<1>2. PICK f \in Frame :
        /\ f = Adding(pc) /\ f.track \in TrackSet /\ IsValid(f)
        /\ Waiting(f.track) \in Seq(Frame)
        /\ \A t \in TrackSet :
             Waiting(t)' = IF t = f.track THEN Append(Waiting(t), f) ELSE Waiting(t)
  BY HoldEffect
<1>3. Steady /\ FinalizedEmpty'
  BY WritesSteady, FinalizedEmptyWrites DEF WritesToLast, TakenInv
<1>4. PICK r : r = Waiting(f.track)
  OBVIOUS
<1>5. PICK w : w = Waiting(f.track)'
  OBVIOUS
<1>6. /\ Len(r) \in Nat /\ Len(w) = Len(r) + 1 /\ w[Len(r) + 1] = f
      /\ DOMAIN r = 1 .. Len(r) /\ DOMAIN w = 1 .. Len(r) + 1
      /\ \A j \in 1 .. Len(r) : w[j] = r[j]
  <2>1. r \in Seq(Frame) /\ w = Append(r, f)
    BY <1>2, <1>4, <1>5
  <2> QED
    BY <2>1, AppendFrame
<1>7. StoredValid'
  <2> SUFFICES ASSUME NEW t \in TrackSet, NEW i \in DOMAIN Waiting(t)'
               PROVE  IsValid(Waiting(t)[i])'
    BY DEF StoredValid
  <2>1. PICK x : x = Waiting(t)'[i]
    OBVIOUS
  <2>2. IsValid(x)
    <3>1. CASE t # f.track
      BY <1>2, <2>1, <3>1 DEF TakenInv, StoredValid
    <3>2. CASE t = f.track /\ i = Len(r) + 1
      BY <1>2, <1>5, <1>6, <2>1, <3>2
    <3>3. CASE t = f.track /\ i \in 1 .. Len(r)
      <4>1. x = Waiting(t)[i] /\ i \in DOMAIN Waiting(t)
        BY <1>4, <1>5, <1>6, <2>1, <3>3
      <4> QED
        BY <4>1 DEF TakenInv, StoredValid
    <3> QED
      BY <1>5, <1>6, <3>1, <3>2, <3>3
  <2> QED
    BY <2>1, <2>2 DEF IsValid, CanBeSimpleBlock, Duration
<1>8. HeldLast'
  <2>1. Adding(origin)' = f
    BY <1>1, <1>2 DEF Adding, WithReference, CanBeSimpleBlock, Duration
  <2>2. w # << >> /\ w[Len(w)] = f
    BY <1>6
  <2>3. PICK g : g = Adding(origin)'
    OBVIOUS
  <2>4. Waiting(g.track)' = w
    BY <1>5, <2>1, <2>3
  <2>5. /\ Waiting(g.track)' # << >> /\ Waiting(g.track)'[Len(Waiting(g.track)')].id = g.id
        /\ Waiting(g.track)'[Len(Waiting(g.track)')].ts = g.ts
    BY <2>1, <2>2, <2>3, <2>4
  <2> QED
    BY <2>3, <2>5 DEF HeldLast
<1>9. QueueTaken' /\ FirstQueued'
  BY <1>1, <1>3 DEF TakenInv, QueueTaken, FirstQueued, Steady
<1> QED
  BY <1>1, <1>3, <1>7, <1>8, <1>9 DEF TakenInv, OlderGone, Ending

\* What is released is not the last of its list.
LEMMA TakenRelease ==
  ASSUME IInv, IInv', OpenInv, TakenInv, Release
  PROVE  TakenInv'
<1> USE DEF IInv
<1>1. /\ pc = "hold" /\ pc' \in {"hold", "undefined"}
      /\ UNCHANGED << queue, accepted, call, calls, frame, origin, lastTs, lastTrackTs >>
  BY ReleaseEffect
<1>2. PICK t \in TrackSet :
        /\ t = Adding(origin).track
        /\ Waiting(t) \in Seq(Frame) /\ Len(Waiting(t)) >= 2
        /\ \/ \A u \in TrackSet : Waiting(u)' = IF u = t THEN Tail(Waiting(u)) ELSE Waiting(u)
           \/ pc' = "undefined" /\ UNCHANGED clusters
  BY ReleaseEffect
<1>3. Steady /\ FinalizedEmpty'
  BY WritesSteady, FinalizedEmptyWrites DEF WritesToLast, TakenInv
<1>4. WaitingShrinks
  <2>1. CASE UNCHANGED clusters
    BY <2>1, SamePlaces
  <2>2. CASE \A u \in TrackSet : Waiting(u)' = IF u = t THEN Tail(Waiting(u)) ELSE Waiting(u)
    <3>1. Waiting(t) # << >>
      BY <1>2
    <3> QED
      BY <2>2, <3>1, ListsShrink
  <2> QED
    BY <1>2, <2>1, <2>2
<1>5. HeldLast'
  <2> SUFFICES ASSUME pc' = "hold" PROVE HeldLast'
    BY DEF HeldLast
  <2>1. Adding(origin)' = Adding(origin)
    BY <1>1 DEF Adding, WithReference, CanBeSimpleBlock, Duration
  <2>2. PICK g : g = Adding(origin)
    OBVIOUS
  <2>3. PICK r : r = Waiting(t)
    OBVIOUS
  <2>4. PICK w : w = Waiting(t)'
    OBVIOUS
  <2>5. r \in Seq(Frame) /\ Len(r) >= 2 /\ w = Tail(r)
    BY <1>2, <2>3, <2>4
  <2>6. w # << >> /\ w[Len(w)] = r[Len(r)]
    BY <2>5
  <2>7. r[Len(r)].id = g.id /\ r[Len(r)].ts = g.ts /\ g.track = t
    BY <1>1, <1>2, <2>2, <2>3 DEF TakenInv, HeldLast
  <2>8. /\ Waiting(g.track)' # << >> /\ Waiting(g.track)'[Len(Waiting(g.track)')].id = g.id
        /\ Waiting(g.track)'[Len(Waiting(g.track)')].ts = g.ts
    BY <2>4, <2>6, <2>7
  <2> QED
    BY <2>1, <2>2, <2>8 DEF HeldLast
<1>6. QueueTaken' /\ FirstQueued' /\ StoredValid'
  BY <1>1, <1>3, <1>4, StoredValidKept DEF TakenInv, QueueTaken, FirstQueued, Steady
<1> QED
  BY <1>1, <1>3, <1>5, <1>6 DEF TakenInv, OlderGone, Ending

\* Closing a cluster takes frames off its lists, until none is left.
LEMMA TakenCloseStored ==
  ASSUME IInv, IInv', OpenInv, TakenInv, CloseStored
  PROVE  TakenInv'
<1> USE DEF IInv
<1>1. pc = "close" /\ clusters # << >> /\ UNCHANGED << queue, accepted, call >>
  BY CloseStoredEffect
<1>2. PICK t \in TrackSet :
        /\ Waiting(t) # << >> /\ (Goto("close") \/ Fail)
        /\ \A u \in TrackSet : Waiting(u)' = IF u = t THEN Tail(Waiting(u)) ELSE Waiting(u)
  BY CloseStoredEffect
<1>3. Steady /\ FinalizedEmpty'
  BY WritesSteady, FinalizedEmptyWrites DEF WritesToLast, TakenInv
<1>4. StoredValid'
  <2>1. \A u \in TrackSet : Waiting(u)' = Waiting(u)
                             \/ (Waiting(u) # << >> /\ Waiting(u)' = Tail(Waiting(u)))
    BY <1>2
  <2>2. WaitingShrinks
    BY <2>1, ListsShrink
  <2> QED
    BY <2>2, StoredValidKept DEF TakenInv
<1>5. QueueTaken' /\ FirstQueued'
  BY <1>1, <1>3 DEF TakenInv, QueueTaken, FirstQueued, Steady
<1>6. CASE Goto("close")
  <2>1. pc' = "close" /\ UNCHANGED frame
    BY <1>6 DEF Goto
  <2>2. OlderGone'
    BY <1>1, <1>3, <2>1 DEF TakenInv, OlderGone
  <2>3. Ending'
    BY <1>1, <2>1 DEF TakenInv, Ending
  <2> QED
    BY <1>3, <1>4, <1>5, <2>1, <2>2, <2>3 DEF TakenInv, HeldLast
<1>7. CASE Fail
  <2>1. \/ call = "frame" /\ pc' = "idle"
        \/ call # "frame" /\ pc' = "done" /\ ret' = FALSE
    BY <1>7 DEF Fail, Return
  <2>2. Ending'
    BY <1>1, <2>1 DEF Ending, TypeOK
  <2> QED
    BY <1>3, <1>4, <1>5, <2>1, <2>2 DEF TakenInv, OlderGone, HeldLast
<1> QED
  BY <1>2, <1>6, <1>7

\* A cluster is closed when nothing waits: the mark is all that changes.
LEMMA CloseClusterEffect ==
  ASSUME IInv, CloseCluster
  PROVE  /\ pc = "close" /\ clusters # << >>
         /\ UNCHANGED << queue, accepted, call, calls, lastTs >>
         /\ \A t \in TrackSet : Waiting(t) = << >> /\ Waiting(t)' = << >>
         /\ SameBlocks
         /\ clusters' # << >>
         /\ \A i \in DOMAIN clusters : clusters'[i].timecode = clusters[i].timecode
         /\ LastCluster'.timecode = LastCluster.timecode
         /\ \A f : InRange(LastCluster, f)' <=> InRange(LastCluster, f)
         /\ \/ Measure /\ HeaderWritten(LastCluster)
            \/ Fail /\ UNCHANGED clusters
<1> USE DEF IInv
<1>1. /\ pc = "close" /\ clusters # << >> /\ ~HasStored(LastCluster)
      /\ UNCHANGED << queue, accepted, call, calls, lastTs >>
  BY DEF CloseCluster, CallState
<1>2. \A t \in TrackSet : Waiting(t) = << >>
  BY <1>1 DEF Waiting, HasStored
<1>3. LastCluster \in Cluster
  BY <1>1, LastOfDomain, ElementOfSeq DEF LastCluster
<1>4. CASE Fail /\ UNCHANGED clusters
  <2>1. SameBlocks /\ (\A t : Waiting(t)' = Waiting(t)) /\ LastCluster' = LastCluster
    BY <1>4, SameBlocksSame, WaitingSame DEF LastCluster
  <2> QED
    BY <1>1, <1>2, <1>4, <2>1 DEF InRange, Timecode
<1>5. CASE /\ SetLastCluster([LastCluster EXCEPT !.finalized = TRUE]) /\ Measure
           /\ HeaderWritten(LastCluster)
  <2>1. PICK d : d = [LastCluster EXCEPT !.finalized = TRUE]
    OBVIOUS
  <2>2. /\ d \in Cluster /\ d.timecode = LastCluster.timecode /\ d.pos = LastCluster.pos
        /\ d.at = LastCluster.at /\ d.blocks = LastCluster.blocks /\ d.stored = LastCluster.stored
    BY <1>3, <2>1, FinalizedType
  <2>3. SetLastCluster(d)
    BY <1>5, <2>1
  <2>4. SameBlocks
    BY <1>1, <2>2, <2>3, SetLastSameBlocks DEF HeaderWritten
  <2>5. clusters \in Seq(Cluster) /\ clusters' = [clusters EXCEPT ![Len(clusters)] = d]
    BY <2>3 DEF SetLastCluster, TypeOK
  <2>6. \A i \in DOMAIN clusters : clusters'[i].timecode = clusters[i].timecode
    BY <2>2, <2>5 DEF LastCluster
  <2>7. LastCluster' = d
    BY <1>1, <2>5 DEF LastCluster
  <2>8. \A t \in TrackSet : Waiting(t)' = << >>
    <3>1. clusters' # << >>
      BY <1>1, <2>5
    <3> QED
      BY <1>1, <1>2, <2>2, <2>7, <3>1 DEF Waiting
  <2>9. \A f : InRange(LastCluster, f)' <=> InRange(LastCluster, f)
    BY <2>2, <2>7 DEF InRange, Timecode
  <2> QED
    BY <1>1, <1>2, <1>5, <2>2, <2>4, <2>5, <2>6, <2>7, <2>8, <2>9
<1> QED
  BY <1>4, <1>5 DEF CloseCluster

\* A cluster is finalized when it holds nothing back.
LEMMA TakenCloseCluster ==
  ASSUME IInv, IInv', QueueInv, TakenInv, CloseCluster
  PROVE  TakenInv'
<1> USE DEF IInv
<1>1. /\ pc = "close" /\ clusters # << >> /\ UNCHANGED << queue, accepted, call >>
      /\ \A t \in TrackSet : Waiting(t) = << >> /\ Waiting(t)' = << >>
      /\ SameBlocks /\ \A f : InRange(LastCluster, f)' <=> InRange(LastCluster, f)
      /\ Measure \/ (Fail /\ UNCHANGED clusters)
  BY CloseClusterEffect
<1>2. clusters \in Seq(Cluster) /\ clusters' \in Seq(Cluster) /\ Len(clusters') = Len(clusters)
      /\ DOMAIN clusters' = DOMAIN clusters
  BY <1>1 DEF TypeOK, SameBlocks
<1>3. clusters' # << >>
  BY <1>1, <1>2
<1>4. QueueTaken' /\ FirstQueued'
  BY <1>1, <1>3 DEF TakenInv, QueueTaken, FirstQueued
<1>5. StoredValid'
  BY <1>1 DEF StoredValid
<1>6. FinalizedEmpty'
  <2> SUFFICES ASSUME NEW i \in DOMAIN clusters', clusters'[i].finalized, NEW t \in TrackSet
               PROVE  clusters'[i].stored[t] = << >>
    BY DEF FinalizedEmpty
  <2>1. clusters'[i].stored = clusters[i].stored /\ i \in DOMAIN clusters
    BY <1>1, <1>2 DEF SameBlocks
  <2>2. CASE i = Len(clusters)
    BY <1>1, <2>1, <2>2 DEF Waiting, LastCluster
  <2>3. CASE i # Len(clusters)
    <3>1. clusters'[i] = clusters[i]
      BY <2>1, <2>3 DEF CloseCluster, SetLastCluster
    <3> QED
      BY <2>1, <3>1 DEF TakenInv, FinalizedEmpty
  <2> QED
    BY <2>2, <2>3
<1>7. OlderGone'
  <2> SUFFICES ASSUME pc' \in {"close", "offset"}, call = "frame"
               PROVE  /\ Len(queue) >= 2 => queue[2].ts > frame'.ts
                      /\ pc' = "offset" => QueueFits'
    BY <1>1 DEF OlderGone
  <2>1. pc' = "offset" /\ UNCHANGED frame
    BY <1>1 DEF Measure, Goto, Fail, Return
  <2>2. QueueFits'
    BY <1>1 DEF QueueInv, QueueFits
  <2> QED
    BY <1>1, <2>1, <2>2 DEF TakenInv, OlderGone
<1>8. Ending'
  <2>1. \/ pc' = "offset"
        \/ call = "frame" /\ pc' = "idle"
        \/ call # "frame" /\ pc' = "done" /\ ret' = FALSE
    BY <1>1 DEF Measure, Goto, Fail, Return
  <2> QED
    BY <1>1, <2>1 DEF TakenInv, Ending, TypeOK
<1>9. HeldLast'
  BY <1>1 DEF Measure, Goto, Fail, Return, HeldLast
<1> QED
  BY <1>4, <1>5, <1>6, <1>7, <1>8, <1>9 DEF TakenInv

\* A new cluster is empty, and starts no later than the frame and the queue's
\* oldest.
LEMMA OpenClusterEffect ==
  ASSUME IInv, OpenInv, TakenInv, OpenCluster
  PROVE  /\ pc = "offset" /\ call = "frame" /\ pc' = "flushAll"
         /\ UNCHANGED << queue, accepted, call, calls, frame, lastTs >>
         /\ \A t \in TrackSet : Waiting(t) = << >> /\ Waiting(t)' = << >>
         /\ PlacesGrow({})
         /\ clusters' # << >> /\ ~HeaderWritten(LastCluster') /\ ~LastCluster'.finalized
         /\ \A i \in DOMAIN clusters : i \in DOMAIN clusters' /\ clusters'[i] = clusters[i]
         /\ \A i \in DOMAIN clusters' : i \in DOMAIN clusters \/ clusters'[i] = LastCluster'
         /\ clusters = << >> => clusters'[1] = LastCluster'
         /\ LastCluster'.timecode =
              IF queue = << >> THEN Timecode(frame.ts)
              ELSE IF Timecode(Head(queue).ts) < Timecode(frame.ts)
                   THEN Timecode(Head(queue).ts) ELSE Timecode(frame.ts)
<1> USE DEF IInv
<1>1. PICK tc : tc = IF queue = << >> THEN Timecode(frame.ts)
                     ELSE IF Timecode(Head(queue).ts) < Timecode(frame.ts)
                          THEN Timecode(Head(queue).ts) ELSE Timecode(frame.ts)
  OBVIOUS
<1>2. PICK d : d = NewCluster(tc, offset)
  OBVIOUS
<1>3. /\ pc = "offset" /\ call = "frame" /\ pc' = "flushAll" /\ clusters' = Append(clusters, d)
      /\ UNCHANGED << queue, accepted, call, calls, frame, lastTs >>
  BY <1>1, <1>2 DEF OpenCluster, Measured
<1>4. /\ d.timecode = tc /\ ~HeaderWritten(d) /\ ~d.finalized /\ d.blocks = << >>
      /\ \A t \in TrackSet : d.stored[t] = << >>
  BY <1>2 DEF NewCluster, HeaderWritten
<1>5. clusters \in Seq(Cluster) /\ clusters' \in Seq(Cluster) /\ tc \in Nat /\ d \in Cluster
  <2>1. frame.ts \in Nat /\ (queue # << >> => Head(queue).ts \in Nat)
    BY QueueHeadType, FrameFields DEF TypeOK
  <2>2. tc \in Nat
    BY <1>1, <2>1, TimecodeType
  <2>3. d \in Cluster
    BY <1>2, <2>2, NewClusterType DEF TypeOK
  <2> QED
    BY <1>3, <2>2, <2>3 DEF TypeOK
<1>6. PICK n : n = Len(clusters)
  OBVIOUS
<1>7. /\ n \in Nat /\ Len(clusters') = n + 1 /\ clusters'[n + 1] = d /\ LastCluster' = d
      /\ DOMAIN clusters = 1 .. n /\ DOMAIN clusters' = 1 .. n + 1 /\ clusters' # << >>
      /\ \A i \in 1 .. n : clusters'[i] = clusters[i]
  BY <1>3, <1>5, <1>6 DEF LastCluster
<1>8. \A t \in TrackSet : Waiting(t) = << >> /\ Waiting(t)' = << >>
  <2>1. clusters # << >> => LastCluster.finalized /\ Len(clusters) \in DOMAIN clusters
    BY <1>3, LastOfDomain DEF OpenInv
  <2> QED
    BY <1>4, <1>7, <2>1 DEF TakenInv, FinalizedEmpty, Waiting, LastCluster
<1>9. PlacesGrow({})
  <2>1. Places' = Places /\ \A s \in Places : Block(s)' = Block(s)
    <3>1. \A i \in 1 .. n + 1 : i \in 1 .. n \/ i = n + 1
      BY <1>7
    <3>2. \A i \in 1 .. n : i \in 1 .. n + 1
      BY <1>7
    <3>3. DOMAIN d.blocks = {}
      BY <1>4
    <3> QED
      BY <1>7, <3>1, <3>2, <3>3 DEF Places, Block
  <2> QED
    BY <2>1 DEF PlacesGrow
<1>10. /\ \A i \in DOMAIN clusters : i \in DOMAIN clusters' /\ clusters'[i] = clusters[i]
       /\ \A i \in DOMAIN clusters' : i \in DOMAIN clusters \/ clusters'[i] = LastCluster'
       /\ clusters = << >> => clusters'[1] = LastCluster'
  BY <1>6, <1>7
<1> QED
  BY <1>1, <1>3, <1>4, <1>7, <1>8, <1>9, <1>10

\* A new cluster holds nothing back.
LEMMA TakenOpenCluster ==
  ASSUME IInv, IInv', OpenInv, TakenInv, OpenCluster
  PROVE  TakenInv'
<1>1. /\ pc' = "flushAll" /\ UNCHANGED << queue, accepted, call >> /\ call = "frame"
      /\ \A t \in TrackSet : Waiting(t)' = << >>
      /\ clusters' # << >> /\ ~LastCluster'.finalized
      /\ \A i \in DOMAIN clusters : i \in DOMAIN clusters' /\ clusters'[i] = clusters[i]
      /\ \A i \in DOMAIN clusters' : i \in DOMAIN clusters \/ clusters'[i] = LastCluster'
  BY OpenClusterEffect
<1>2. QueueTaken' /\ FirstQueued'
  BY <1>1 DEF TakenInv, QueueTaken, FirstQueued
<1>3. StoredValid'
  BY <1>1 DEF StoredValid
<1>4. FinalizedEmpty'
  BY <1>1 DEF TakenInv, FinalizedEmpty
<1> QED
  BY <1>1, <1>2, <1>3, <1>4 DEF TakenInv, OlderGone, HeldLast, Ending

\* TakenInv is kept by every step.
LEMMA TakenNext ==
  ASSUME IInv, IInv', OpenInv, QueueInv, CuesInv, TakenInv, [Next]_vars
  PROVE  TakenInv'
<1>1. CASE UNCHANGED vars
  <2>1. \A t : Waiting(t)' = Waiting(t)
    BY <1>1, WaitingSame DEF vars
  <2>2. QueueTaken' /\ FirstQueued' /\ FinalizedEmpty' /\ OlderGone'
    BY <1>1 DEF vars, TakenInv, QueueTaken, FirstQueued, FinalizedEmpty, OlderGone, QueueFits,
                LastCluster, InRange, Timecode
  <2>3. StoredValid'
    BY <1>1, SamePlaces, StoredValidKept DEF vars, TakenInv, IInv
  <2>4. HeldLast' /\ Ending'
    BY <1>1, <2>1 DEF vars, TakenInv, HeldLast, Ending, Adding, WithReference, CanBeSimpleBlock,
                      Duration
  <2> QED
    BY <2>2, <2>3, <2>4 DEF TakenInv
<1> QED
  BY <1>1, TakenCaller, TakenInner, TakenFlush, TakenHold, TakenRelease, TakenCloseStored,
     TakenCloseCluster, TakenOpenCluster DEF Next, Step, Terminated

\* It holds at the start.
LEMMA InitTaken == Init => TakenInv
<1> SUFFICES ASSUME Init PROVE TakenInv
  OBVIOUS
<1>1. clusters = << >> /\ queue = << >> /\ accepted = << >> /\ pc = "idle" /\ call = "frame"
  BY DEF Init
<1>2. DOMAIN queue = {} /\ DOMAIN accepted = {} /\ DOMAIN clusters = {}
      /\ \A t : DOMAIN Waiting(t) = {}
  BY <1>1 DEF Waiting
<1> QED
  BY <1>1, <1>2 DEF TakenInv, QueueTaken, FirstQueued, StoredValid, FinalizedEmpty, OlderGone,
                    HeldLast, Ending

-----------------------------------------------------------------------------
(* What a fitting feed adds to that.                                         *)

\* A cluster to which something was given: its time is not after lastTs.
Anchored == HeaderWritten(LastCluster) \/ HasStored(LastCluster)

\* The feed would still fit if f were accepted next.
Joins(f) ==
  /\ \A i \in DOMAIN accepted : accepted[i].ts <= f.ts
  /\ accepted # << >> => Timecode(f.ts) - Timecode(accepted[Len(accepted)].ts)
                           <= MaxBlockTimecode
  /\ (\A i \in DOMAIN accepted : accepted[i].track \in Audio)
       => Timecode(f.ts) - clusters[1].timecode <= MaxBlockTimecode

\* While its cluster is being chosen the frame is not before the last one,
FrameBehind ==
  call = "frame" /\ (pc \in {"test", "close", "offset"} \/ At("flushOlder"))
  /\ clusters # << >> /\ Anchored => Timecode(frame.ts) >= LastCluster.timecode

\* nor is the last frame that was taken.
LastBehind ==
  pc \notin {"hold", "offset", "done", "undefined"} /\ clusters # << >> /\ Anchored
    => Timecode(lastTs) >= LastCluster.timecode

\* From the test on, the frame can be in the cluster, unless the feed ends to
\* fit with it.
FrameFits ==
  call = "frame" /\ (At("flushAll") \/ At("write")) =>
    /\ Timecode(frame.ts) >= LastCluster.timecode
    /\ Joins(frame) => InRange(LastCluster, frame)
    /\ ~Pending => \/ InRange(LastCluster, frame) \/ queue # << >>
                   \/ Timecode(lastTs) >= LastCluster.timecode

\* What is being flushed, and what is held back, can be in the cluster.
FlushFits == At("flushAll") => QueueFits

WaitFits ==
  \A t \in TrackSet : \A i \in DOMAIN Waiting(t) :
    \/ InRange(LastCluster, Waiting(t)[i])
    \/ Pending /\ t = frame.track /\ i = Len(Waiting(t)) /\ Waiting(t)[i].ts = frame.ts

\* A frame is in the file, held back by the open cluster or queued.
InBlocks(id)  == \E s \in Places : Block(s).id = id
InWaiting(id) == \E t \in TrackSet : \E j \in DOMAIN Waiting(t) : Waiting(t)[j].id = id
InQueue(id)   == \E j \in DOMAIN queue : queue[j].id = id

Kept(id) == InBlocks(id) \/ InWaiting(id) \/ InQueue(id)

AllKept == \A i \in DOMAIN accepted : Kept(accepted[i].id)

\* What holds as long as the feed fits.
FitFacts == /\ pc # "undefined" /\ FrameBehind /\ LastBehind /\ FrameFits /\ FlushFits
            /\ WaitFits /\ AllKept

FitInv == FeedFits => FitFacts

-----------------------------------------------------------------------------
(* What the feed says of the frames.                                         *)

\* If the feed fits after a step, it did before, and the new frame joined it.
LEMMA FeedFitsBefore ==
  ASSUME TypeOK, TypeOK', NEW g \in Frame,
         UNCHANGED accepted \/ accepted' = Append(accepted, g),
         clusters # << >> => clusters' # << >> /\ clusters'[1].timecode = clusters[1].timecode,
         FeedFits'
  PROVE  /\ FeedFits
         /\ accepted' # accepted /\ clusters # << >> => Joins(g)
<1>1. PICK a : a = accepted
  OBVIOUS
<1>2. PICK b : b = accepted'
  OBVIOUS
<1>3. a \in Seq(Frame) /\ b \in Seq(Frame)
  BY <1>1, <1>2 DEF TypeOK
<1>4. /\ \A i, j \in DOMAIN b : i < j => b[i].ts <= b[j].ts
      /\ \A i \in DOMAIN b : IsValid(b[i])
      /\ \A i \in 1 .. Len(b) - 1 : Timecode(b[i + 1].ts) - Timecode(b[i].ts) <= MaxBlockTimecode
      /\ clusters' # << >> => \A i \in DOMAIN b :
           (\A j \in 1 .. i - 1 : b[j].track \in Audio)
             => Timecode(b[i].ts) - clusters'[1].timecode <= MaxBlockTimecode
  BY <1>2 DEF FeedFits, FeedInOrder, FeedValid, FeedDense, LeadFits, IsValid, CanBeSimpleBlock,
              Duration, Timecode
<1>5. CASE b = a
  <2>1. FeedInOrder /\ FeedValid /\ FeedDense
    BY <1>1, <1>4, <1>5 DEF FeedInOrder, FeedValid, FeedDense
  <2>2. LeadFits
    BY <1>1, <1>4, <1>5 DEF LeadFits
  <2> QED
    BY <1>1, <1>2, <1>5, <2>1, <2>2 DEF FeedFits
<1>6. CASE b = Append(a, g)
  <2>1. PICK n : n = Len(a)
    OBVIOUS
  <2>2. /\ n \in Nat /\ Len(b) = n + 1 /\ b[n + 1] = g /\ DOMAIN a = 1 .. n
        /\ DOMAIN b = 1 .. n + 1 /\ \A i \in 1 .. n : b[i] = a[i]
    BY <1>3, <1>6, <2>1, AppendFrame
  <2>3. \A i \in 1 .. n : i \in 1 .. n + 1
    BY <2>2
  <2>4. FeedInOrder /\ FeedValid
    BY <1>1, <1>4, <2>2, <2>3 DEF FeedInOrder, FeedValid
  <2>5. FeedDense
    <3> SUFFICES ASSUME NEW i \in 1 .. n - 1
                 PROVE  Timecode(a[i + 1].ts) - Timecode(a[i].ts) <= MaxBlockTimecode
      BY <1>1, <2>1 DEF FeedDense
    <3>1. i \in 1 .. n /\ i + 1 \in 1 .. n /\ i \in 1 .. (n + 1) - 1
      BY <2>2
    <3> QED
      BY <1>4, <2>2, <3>1
  <2>6. LeadFits
    <3> SUFFICES ASSUME clusters # << >>, NEW i \in 1 .. n,
                        \A j \in 1 .. i - 1 : a[j].track \in Audio
                 PROVE  Timecode(a[i].ts) - clusters[1].timecode <= MaxBlockTimecode
      BY <1>1, <2>2 DEF LeadFits
    <3>1. \A j \in 1 .. i - 1 : j \in 1 .. n
      BY <2>2
    <3> QED
      BY <1>4, <2>2, <2>3, <3>1
  <2>7. ASSUME clusters # << >> PROVE Joins(g)
    <3>1. n + 1 \in 1 .. n + 1 /\ \A i \in 1 .. n : i < n + 1
      BY <2>2
    <3>2. \A i \in DOMAIN a : a[i].ts <= g.ts
      BY <1>4, <2>2, <2>3, <3>1
    <3>3. ASSUME a # << >> PROVE Timecode(g.ts) - Timecode(a[n].ts) <= MaxBlockTimecode
      <4>1. n # 0
        BY <1>3, <2>1, <3>3
      <4>2. n \in 1 .. n /\ n \in 1 .. (n + 1) - 1
        BY <2>2, <4>1
      <4> QED
        BY <1>4, <2>2, <4>2
    <3>4. ASSUME \A i \in DOMAIN a : a[i].track \in Audio
          PROVE  Timecode(g.ts) - clusters[1].timecode <= MaxBlockTimecode
      <4>1. \A j \in 1 .. (n + 1) - 1 : j \in 1 .. n
        BY <2>2
      <4>2. \A j \in 1 .. (n + 1) - 1 : b[j].track \in Audio
        BY <2>2, <3>4, <4>1
      <4> QED
        BY <1>4, <2>2, <2>7, <3>1, <4>2
    <3> QED
      BY <1>1, <2>1, <3>2, <3>3, <3>4 DEF Joins
  <2> QED
    BY <2>4, <2>5, <2>6, <2>7 DEF FeedFits
<1> QED
  BY <1>1, <1>2, <1>5, <1>6

\* The queue's frames are valid and in time order.
LEMMA QueueFed ==
  ASSUME TypeOK, QueueTaken, FeedFits
  PROVE  /\ \A i \in DOMAIN queue : IsValid(queue[i]) /\ queue[i].ts \in Nat
         /\ \A i, j \in DOMAIN queue : i < j => queue[i].ts <= queue[j].ts
<1>1. queue \in Seq(Frame) /\ accepted \in Seq(Frame)
  BY DEF TypeOK
<1>2. PICK d : d = Len(accepted) - Len(queue)
  OBVIOUS
<1>3. d \in Int /\ DOMAIN queue \subseteq Int
  BY <1>1, <1>2
<1>4. \A i \in DOMAIN queue : d + i \in DOMAIN accepted /\ queue[i] = accepted[d + i]
  BY <1>2 DEF QueueTaken
<1>5. \A i \in DOMAIN queue : IsValid(queue[i])
  BY <1>4 DEF FeedFits, FeedValid
<1>6. \A i \in DOMAIN queue : queue[i].ts \in Nat
  <2>1. \A i \in DOMAIN queue : queue[i] \in Frame
    BY <1>1
  <2> QED
    BY <2>1, FrameFields
<1>7. ASSUME NEW i \in DOMAIN queue, NEW j \in DOMAIN queue, i < j
      PROVE  queue[i].ts <= queue[j].ts
  <2>1. d + i < d + j
    BY <1>3, <1>7
  <2> QED
    BY <1>4, <2>1 DEF FeedFits, FeedInOrder
<1> QED
  BY <1>5, <1>6, <1>7

\* A time not before a frame that is in range is not before the cluster.
LEMMA InRangeLater ==
  ASSUME NEW c \in Cluster, NEW a \in Nat, NEW f, f.ts \in Nat, InRange(c, f), f.ts <= a
  PROVE  Timecode(a) >= c.timecode
<1>1. Timecode(f.ts) <= Timecode(a) /\ Timecode(f.ts) \in Nat /\ Timecode(a) \in Nat
  BY TimecodeMonotone, TimecodeType
<1> QED
  BY <1>1, ClusterFields DEF InRange

\* A duration for the last frame leaves it valid.
LEMMA LastDurationValid ==
  ASSUME NEW c \in Cluster, NEW f \in Frame, f.track \in TrackSet, NEW d, NEW end \in Nat,
         IsValid(f)
  PROVE  IsValid(WithLastDuration(c, f, d, end))
<1>1. CASE WithLastDuration(c, f, d, end) = f
  BY <1>1
<1>2. CASE WithLastDuration(c, f, d, end) # f
  <2>1. PICK n : n = (end - f.ts) % WordSize
    OBVIOUS
  <2>2. PICK r : r = IF ~f.key /\ f.ref = Unset THEN c.lastTs[f.track] ELSE f.ref
    OBVIOUS
  <2>3. PICK g : g = [f EXCEPT !.dur = n, !.ref = r]
    OBVIOUS
  <2>4. WithLastDuration(c, f, d, end) = g
    BY <1>2, <2>1, <2>2, <2>3 DEF WithLastDuration
  <2>5. g.len = f.len /\ g.track = f.track /\ g.key = f.key /\ g.ref = r
    BY <2>3 DEF Frame
  <2>6. f.key \/ r # Unset
    <3>1. c.lastTs[f.track] \in Nat
      BY ClusterFields
    <3> QED
      BY <2>2, <3>1 DEF Unset
  <2> QED
    BY <2>4, <2>5, <2>6 DEF IsValid
<1> QED
  BY <1>1, <1>2

-----------------------------------------------------------------------------
(* No frame gets lost on its way.                                            *)

\* If nothing is dropped and what is accepted is kept, all of it is.
LEMMA AllKeptNext ==
  ASSUME TypeOK, AllKept, \A id : Kept(id) => Kept(id)',
         \/ UNCHANGED accepted
         \/ \E f \in Frame : accepted' = Append(accepted, f) /\ Kept(f.id)'
  PROVE  AllKept'
<1> SUFFICES ASSUME NEW i \in DOMAIN accepted' PROVE Kept(accepted[i].id)'
  BY DEF AllKept
<1>1. PICK x : x = accepted'[i]
  OBVIOUS
<1>2. Kept(x.id)'
  <2>1. CASE UNCHANGED accepted
    BY <1>1, <2>1 DEF AllKept
  <2>2. ASSUME NEW f \in Frame, accepted' = Append(accepted, f), Kept(f.id)'
        PROVE  Kept(x.id)'
    <3>1. PICK a : a = accepted
      OBVIOUS
    <3>2. PICK b : b = accepted'
      OBVIOUS
    <3>3. a \in Seq(Frame) /\ b = Append(a, f)
      BY <2>2, <3>1, <3>2 DEF TypeOK
    <3>4. /\ Len(a) \in Nat /\ b[Len(a) + 1] = f /\ DOMAIN a = 1 .. Len(a)
          /\ DOMAIN b = 1 .. Len(a) + 1 /\ \A j \in 1 .. Len(a) : b[j] = a[j]
      BY <3>3, AppendFrame
    <3>5. x = f \/ (i \in DOMAIN a /\ x = a[i])
      BY <1>1, <3>2, <3>4
    <3> QED
      BY <2>2, <3>1, <3>5 DEF AllKept
  <2> QED
    BY <2>1, <2>2
<1>3. Kept(x.id)' => Kept(accepted[i].id)'
  BY <1>1 DEF Kept, InBlocks, InWaiting, InQueue
<1> QED
  BY <1>2, <1>3

\* Blocks stay where they are.
LEMMA BlocksStay ==
  ASSUME NEW F, PlacesGrow(F), NEW id, InBlocks(id)
  PROVE  InBlocks(id)'
BY DEF PlacesGrow, InBlocks

\* Lists that do not change.
LEMMA WaitingStays ==
  ASSUME \A t \in TrackSet : Waiting(t)' = Waiting(t), NEW id, InWaiting(id)
  PROVE  InWaiting(id)'
BY DEF InWaiting

\* With the clusters unchanged only the queue can lose a frame.
LEMMA ClustersStay ==
  ASSUME TypeOK, UNCHANGED clusters, \A id : InQueue(id) => Kept(id)', NEW id, Kept(id)
  PROVE  Kept(id)'
<1>1. InBlocks(id) => InBlocks(id)'
  BY SamePlaces, BlocksStay
<1>2. InWaiting(id) => InWaiting(id)'
  BY WaitingSame, WaitingStays
<1> QED
  BY <1>1, <1>2 DEF Kept

\* The first frame of a list leaves it for a block.
LEMMA FirstLeaves ==
  ASSUME NEW t \in TrackSet, Waiting(t) \in Seq(Frame), Waiting(t) # << >>,
         \A u \in TrackSet : Waiting(u)' = IF u = t THEN Tail(Waiting(u)) ELSE Waiting(u),
         NEW f, f.id = Head(Waiting(t)).id, Gains(f), NEW id, InWaiting(id)
  PROVE  InBlocks(id)' \/ InWaiting(id)'
<1>1. PICK u \in TrackSet : \E j \in DOMAIN Waiting(u) : Waiting(u)[j].id = id
  BY DEF InWaiting
<1>2. PICK j \in DOMAIN Waiting(u) : Waiting(u)[j].id = id
  BY <1>1
<1>3. CASE u # t
  <2>1. Waiting(u)' = Waiting(u)
    BY <1>3
  <2> QED
    BY <1>2, <2>1 DEF InWaiting
<1>4. CASE u = t
  <2>1. PICK v : v = Waiting(t)
    OBVIOUS
  <2>2. PICK w : w = Waiting(t)'
    OBVIOUS
  <2>3. v \in Seq(Frame) /\ v # << >> /\ w = Tail(v) /\ j \in DOMAIN v /\ v[j].id = id
    BY <1>2, <1>4, <2>1, <2>2
  <2>4. CASE j = 1
    <3>1. f.id = id
      BY <2>1, <2>3, <2>4
    <3> QED
      BY <3>1 DEF Gains, InBlocks
  <2>5. CASE j # 1
    <3>1. j - 1 \in DOMAIN w /\ w[j - 1] = v[j]
      BY <2>3, <2>5
    <3> QED
      BY <2>2, <2>3, <3>1 DEF InWaiting
  <2> QED
    BY <2>4, <2>5
<1> QED
  BY <1>3, <1>4

\* The first frame of the queue leaves it; the others stay.
LEMMA HeadLeaves ==
  ASSUME TypeOK, queue # << >>, queue' = Tail(queue), NEW id, InQueue(id)
  PROVE  InQueue(id)' \/ id = Head(queue).id
<1>1. PICK q : q = queue
  OBVIOUS
<1>2. PICK r : r = queue'
  OBVIOUS
<1>3. q \in Seq(Frame) /\ q # << >> /\ r = Tail(q)
  BY <1>1, <1>2 DEF TypeOK
<1>4. PICK j \in DOMAIN q : q[j].id = id
  BY <1>1 DEF InQueue
<1>5. CASE j = 1
  BY <1>1, <1>3, <1>4, <1>5
<1>6. CASE j # 1
  <2>1. j - 1 \in DOMAIN r /\ r[j - 1] = q[j]
    BY <1>3, <1>4, <1>6
  <2> QED
    BY <1>2, <1>4, <2>1 DEF InQueue
<1> QED
  BY <1>5, <1>6

\* After a frame was held back, it is on its list.
LEMMA HeldWaits ==
  ASSUME TypeOK, HeldLast, pc = "hold", Adding(origin).track \in TrackSet
  PROVE  InWaiting(Adding(origin).id)
<1>1. PICK f : f = Adding(origin)
  OBVIOUS
<1>2. PICK w : w = Waiting(f.track)
  OBVIOUS
<1>3. w # << >> /\ w[Len(w)].id = f.id
  BY <1>1, <1>2 DEF HeldLast
<1>4. w \in Seq(Frame)
  BY <1>1, <1>2, OrderTypes
<1>5. Len(w) \in DOMAIN w
  BY <1>3, <1>4
<1> QED
  BY <1>1, <1>2, <1>3, <1>5 DEF InWaiting

\* A frame that is in a block now is found there by its id.
LEMMA GainsKept ==
  ASSUME NEW f, Gains(f)
  PROVE  InBlocks(f.id)'
BY DEF Gains, InBlocks

-----------------------------------------------------------------------------
(* FitInv, one action at a time.                                             *)

\* A frame that is accepted is not before lastTs, so not before the cluster.
LEMMA FitCaller ==
  ASSUME IInv, IInv', QueueInv, FitInv, Caller
  PROVE  FitInv'
<1> USE DEF IInv
<1> SUFFICES ASSUME FeedFits' PROVE FitFacts'
  BY DEF FitInv
<1>1. /\ pc = "idle" /\ call = "frame" /\ UNCHANGED << clusters, lastTs >>
      /\ pc' \in {"idle", "test", "flushAll"} /\ (pc' = "flushAll" => call' # "frame")
  BY DEF Caller, RejectFrame, QueueFrame, BeginFrame, BeginCall, Return,
         ForceNewClusterOnNextFrame, Finalize, CallState
<1>2. \/ UNCHANGED << queue, accepted >>
      \/ \E f \in Frame : queue' = Append(queue, f) /\ accepted' = Append(accepted, f)
                          /\ pc' = "idle"
  <2>1. ASSUME NEW in \in Inputs, QueueFrame(in)
        PROVE  \E f \in Frame : queue' = Append(queue, f) /\ accepted' = Append(accepted, f)
                                /\ pc' = "idle"
    <3>1. NextFrame(in) \in Frame
      BY <2>1, NextFrameType
    <3> QED
      BY <2>1, <3>1 DEF QueueFrame, Return
  <2>2. CASE \E in \in Inputs : RejectFrame(in) \/ BeginFrame(in)
    BY <2>2 DEF RejectFrame, BeginFrame
  <2>3. CASE ForceNewClusterOnNextFrame \/ Finalize
    BY <2>3 DEF ForceNewClusterOnNextFrame, Finalize
  <2> QED
    BY <2>1, <2>2, <2>3 DEF Caller
<1>3. FitFacts
  <2>1. PICK g \in Frame : UNCHANGED accepted \/ accepted' = Append(accepted, g)
    <3>1. CASE UNCHANGED accepted
      BY <3>1 DEF TypeOK
    <3> QED
      BY <1>2, <3>1
  <2> QED
    BY <1>1, <2>1, FeedFitsBefore DEF FitInv
<1>4. /\ LastCluster' = LastCluster /\ (Anchored' <=> Anchored)
      /\ \A t : Waiting(t)' = Waiting(t)
      /\ \A f : InRange(LastCluster, f)' <=> InRange(LastCluster, f)
  BY <1>1, WaitingSame DEF LastCluster, Anchored, HeaderWritten, HasStored, InRange, Timecode
<1>5. FrameBehind'
  <2> SUFFICES ASSUME pc' = "test", clusters # << >>, Anchored
               PROVE  Timecode(frame'.ts) >= LastCluster.timecode
    BY <1>1, <1>4 DEF FrameBehind, At, Timecode
  <2>1. PICK in \in Inputs : BeginFrame(in)
    <3>1. ~(\E in \in Inputs : RejectFrame(in) \/ QueueFrame(in))
      BY DEF RejectFrame, QueueFrame, Return
    <3>2. ~(ForceNewClusterOnNextFrame \/ Finalize)
      BY <1>1 DEF ForceNewClusterOnNextFrame, Finalize
    <3> QED
      BY <3>1, <3>2 DEF Caller
  <2>2. frame' = NextFrame(in) /\ Accepts(in)
    BY <2>1 DEF BeginFrame
  <2>3. in.ts \in Nat /\ lastTs \in Nat /\ lastTs <= in.ts
    <3>1. in \in Frame
      BY SegmentAssumption
    <3>2. in.ts \in Nat /\ lastTs \in Nat
      BY <3>1, FrameFields DEF TypeOK
    <3> QED
      BY <2>2, <3>2 DEF Accepts
  <2>4. frame'.ts = in.ts
    <3>1. in \in Frame
      BY SegmentAssumption
    <3> QED
      BY <2>2, <3>1 DEF NextFrame, Frame
  <2>5. Timecode(lastTs) >= LastCluster.timecode
    BY <1>1, <1>3 DEF FitFacts, LastBehind
  <2>6. Timecode(lastTs) <= Timecode(in.ts) /\ Timecode(lastTs) \in Nat /\ Timecode(in.ts) \in Nat
    BY <2>3, TimecodeMonotone, TimecodeType
  <2>7. LastCluster.timecode \in Nat
    <3>1. LastCluster \in Cluster
      BY LastOfDomain, ElementOfSeq DEF LastCluster
    <3> QED
      BY <3>1, ClusterFields
  <2> QED
    BY <2>4, <2>5, <2>6, <2>7
<1>6. LastBehind'
  BY <1>1, <1>3, <1>4 DEF FitFacts, LastBehind, Timecode
<1>7. FrameFits'
  BY <1>1 DEF FrameFits, At
<1>8. FlushFits'
  <2> SUFFICES ASSUME pc' = "flushAll" PROVE QueueFits'
    BY <1>1 DEF FlushFits, At
  <2>1. UNCHANGED queue /\ QueueFits
    BY <1>1, <1>2 DEF QueueInv
  <2> QED
    BY <1>1, <1>4, <2>1 DEF QueueFits
<1>9. WaitFits'
  <2>1. \A t \in TrackSet : \A i \in DOMAIN Waiting(t) : InRange(LastCluster, Waiting(t)[i])
    BY <1>1, <1>3 DEF FitFacts, WaitFits, Pending
  <2> SUFFICES ASSUME NEW t \in TrackSet, NEW i \in DOMAIN Waiting(t)'
               PROVE  InRange(LastCluster, Waiting(t)[i])'
    BY DEF WaitFits
  <2>2. PICK x : x = Waiting(t)'[i]
    OBVIOUS
  <2>3. InRange(LastCluster, x)'
    BY <1>4, <2>1, <2>2
  <2> QED
    BY <2>2, <2>3 DEF InRange, Timecode
<1>10. AllKept'
  <2>1. CASE UNCHANGED << queue, accepted >>
    <3>1. \A id : InQueue(id) => Kept(id)'
      BY <2>1 DEF InQueue, Kept
    <3>2. \A id : Kept(id) => Kept(id)'
      BY <1>1, <3>1, ClustersStay
    <3> QED
      BY <1>3, <2>1, <3>2, AllKeptNext DEF FitFacts
  <2>2. ASSUME NEW f \in Frame, queue' = Append(queue, f), accepted' = Append(accepted, f)
        PROVE  AllKept'
    <3>1. PICK q : q = queue
      OBVIOUS
    <3>2. PICK r : r = queue'
      OBVIOUS
    <3>3. /\ Len(q) \in Nat /\ r[Len(q) + 1] = f /\ DOMAIN q = 1 .. Len(q)
          /\ DOMAIN r = 1 .. Len(q) + 1 /\ \A j \in 1 .. Len(q) : r[j] = q[j]
      <4>1. q \in Seq(Frame) /\ r = Append(q, f)
        BY <2>2, <3>1, <3>2 DEF TypeOK
      <4> QED
        BY <4>1, AppendFrame
    <3>4. \A j \in DOMAIN q : j \in DOMAIN r /\ r[j] = q[j]
      BY <3>3
    <3>5. Len(q) + 1 \in DOMAIN r
      BY <3>3
    <3>6. InQueue(f.id)' /\ \A id : InQueue(id) => InQueue(id)'
      BY <3>1, <3>2, <3>3, <3>4, <3>5 DEF InQueue
    <3>7. \A id : Kept(id) => Kept(id)'
      BY <1>1, <3>6, ClustersStay DEF Kept
    <3> QED
      BY <1>3, <2>2, <3>6, <3>7, AllKeptNext DEF FitFacts, Kept
  <2> QED
    BY <1>2, <2>1, <2>2
<1> QED
  BY <1>1, <1>5, <1>6, <1>7, <1>8, <1>9, <1>10 DEF FitFacts

\* Whether a frame joins the feed depends on what was accepted before.
LEMMA JoinsSame ==
  ASSUME UNCHANGED accepted, clusters'[1].timecode = clusters[1].timecode,
         NEW f, Joins(f)'
  PROVE  Joins(f)
BY DEF Joins, Timecode

\* The steps that leave the clusters, the queue and the times alone.
LEMMA FitInner ==
  ASSUME IInv, IInv', QueueInv, FitInv,
         \/ TestForNewCluster \/ FlushOlderEnd \/ FlushAllEnd \/ FlushAllFails
         \/ AddClusterSize \/ FinishFile
  PROVE  FitInv'
<1> USE DEF IInv
<1> SUFFICES ASSUME FeedFits' PROVE FitFacts'
  BY DEF FitInv
<1>1. UNCHANGED << clusters, queue, accepted, lastTs, call, origin >>
      /\ pc' \notin {"hold", "undefined"} /\ pc # "hold"
  BY DEF TestForNewCluster, Return, FlushOlderEnd, FlushAllEnd, FlushAllFails, Fail, Goto,
         AddClusterSize, FinishFile, Measure, Measured
<1>2. FitFacts
  <2>1. frame \in Frame
    BY DEF TypeOK
  <2> QED
    BY <1>1, <2>1, FeedFitsBefore DEF FitInv
<1>3. /\ LastCluster' = LastCluster /\ (Anchored' <=> Anchored)
      /\ \A t : Waiting(t)' = Waiting(t)
      /\ \A f : InRange(LastCluster, f)' <=> InRange(LastCluster, f)
  BY <1>1, WaitingSame DEF LastCluster, Anchored, HeaderWritten, HasStored, InRange, Timecode
<1>4. UNCHANGED frame \/ pc' = "idle"
  BY DEF TestForNewCluster, Return, FlushOlderEnd, FlushAllEnd, FlushAllFails, Fail, Goto,
         AddClusterSize, FinishFile, Measure
<1>5. FrameBehind'
  <2> SUFFICES ASSUME call = "frame", pc' \in {"test", "flushOlder", "close", "offset"},
                      clusters # << >>, Anchored
               PROVE  Timecode(frame'.ts) >= LastCluster.timecode
    BY <1>1, <1>3 DEF FrameBehind, At, Timecode
  <2>1. \/ pc \in {"test", "flushOlder", "offset"} \/ pc = "flushAll"
    BY DEF TestForNewCluster, FlushOlderEnd, FlushAllEnd, FlushAllFails, AddClusterSize,
           FinishFile, Measured
  <2>2. CASE pc \in {"test", "flushOlder", "offset"}
    BY <1>2, <1>4, <2>2 DEF FitFacts, FrameBehind, At
  <2>3. CASE pc = "flushAll"
    BY <1>2, <1>4, <2>3 DEF FitFacts, FrameFits, At
  <2> QED
    BY <2>1, <2>2, <2>3
<1>6. LastBehind'
  <2> SUFFICES ASSUME pc' \notin {"offset", "done"}, clusters # << >>, Anchored
               PROVE  Timecode(lastTs) >= LastCluster.timecode
    BY <1>1, <1>3 DEF LastBehind, Timecode
  <2>1. pc \in {"test", "flushOlder", "flushAll"}
    BY DEF TestForNewCluster, FlushOlderEnd, FlushAllEnd, FlushAllFails, AddClusterSize,
           FinishFile
  <2> QED
    BY <1>2, <2>1 DEF FitFacts, LastBehind
<1>7. FrameFits'
  <2> SUFFICES ASSUME call = "frame", pc' \in {"flushAll", "write"}
               PROVE  /\ Timecode(frame'.ts) >= LastCluster.timecode
                      /\ Joins(frame)' => InRange(LastCluster, frame)'
                      /\ \/ InRange(LastCluster, frame)' \/ queue # << >>
                         \/ Timecode(lastTs) >= LastCluster.timecode
    BY <1>1, <1>3 DEF FrameFits, At, Timecode
  <2>1. CASE TestForNewCluster
    <3>1. TestFrame(frame) = 0 /\ UNCHANGED frame
      <4>1. PICK r : r = TestFrame(frame)
        OBVIOUS
      <4>2. r \in {-1, 0, 1, 2}
        BY <4>1 DEF TestFrame
      <4>3. pc' = "flushAll" /\ ~(r < 0) /\ ~(r > 0) /\ UNCHANGED frame
        BY <2>1, <4>1 DEF TestForNewCluster, Return
      <4> QED
        BY <4>1, <4>2, <4>3
    <3>2. clusters # << >> /\ frame.ts \in Nat
      BY <3>1, FrameFields DEF TestFrame, TypeOK
    <3>3. LastCluster \in Cluster /\ Timecode(frame.ts) \in Nat
      <4>1. LastCluster \in Cluster
        BY <3>2, LastOfDomain, ElementOfSeq DEF LastCluster
      <4> QED
        BY <3>2, <4>1, TimecodeType
    <3>4. InRange(LastCluster, frame)
      <4>1. LastCluster.timecode \in Nat /\ MaxBlockTimecode \in Nat
        BY <3>3, ClusterFields, ClusterAssumption
      <4>2. PICK k : k = Timecode(frame.ts) - LastCluster.timecode
        OBVIOUS
      <4>3. ~(k < 0) /\ ~(k > MaxBlockTimecode)
        BY <3>1, <3>2, <4>2 DEF TestFrame
      <4> QED
        BY <3>3, <4>1, <4>2, <4>3 DEF InRange
    <3>5. InRange(LastCluster, frame)'
      BY <1>3, <3>1, <3>4 DEF InRange, Timecode
    <3> QED
      BY <3>1, <3>4, <3>5 DEF InRange
  <2>2. CASE FlushAllEnd
    <3>1. pc = "flushAll" /\ UNCHANGED frame
      BY <2>2 DEF FlushAllEnd, Goto, Measure
    <3>2. /\ Timecode(frame.ts) >= LastCluster.timecode
          /\ Joins(frame) => InRange(LastCluster, frame)
          /\ \/ InRange(LastCluster, frame) \/ queue # << >>
             \/ Timecode(lastTs) >= LastCluster.timecode
      BY <1>1, <1>2, <3>1 DEF FitFacts, FrameFits, At, Pending
    <3>3. PICK f : f = frame
      OBVIOUS
    <3>4. Joins(frame)' => Joins(frame)
      <4>1. Joins(f)' => Joins(f)
        BY <1>1, JoinsSame
      <4> QED
        BY <3>1, <3>3, <4>1 DEF Joins, Timecode
    <3>5. InRange(LastCluster, frame)' <=> InRange(LastCluster, frame)
      BY <1>3, <3>1 DEF InRange, Timecode
    <3> QED
      BY <3>1, <3>2, <3>4, <3>5
  <2>3. CASE FlushOlderEnd \/ FlushAllFails \/ AddClusterSize \/ FinishFile
    BY <2>3 DEF FlushOlderEnd, FlushAllFails, Fail, Return, Goto, Measure, AddClusterSize,
                FinishFile
  <2> QED
    BY <2>1, <2>2, <2>3
<1>8. FlushFits'
  <2> SUFFICES ASSUME pc' = "flushAll" PROVE QueueFits'
    BY <1>1 DEF FlushFits, At
  <2>1. pc = "test"
    BY DEF TestForNewCluster, FlushOlderEnd, FlushAllEnd, FlushAllFails, Fail, Return, Goto,
           Measure, AddClusterSize, FinishFile
  <2>2. QueueFits
    BY <2>1 DEF QueueInv
  <2> QED
    BY <1>1, <1>3, <2>2 DEF QueueFits
<1>9. WaitFits'
  <2>1. \A t \in TrackSet : \A i \in DOMAIN Waiting(t) : InRange(LastCluster, Waiting(t)[i])
    BY <1>1, <1>2 DEF FitFacts, WaitFits, Pending
  <2> SUFFICES ASSUME NEW t \in TrackSet, NEW i \in DOMAIN Waiting(t)'
               PROVE  InRange(LastCluster, Waiting(t)[i])'
    BY DEF WaitFits
  <2>2. PICK x : x = Waiting(t)'[i]
    OBVIOUS
  <2>3. InRange(LastCluster, x)'
    BY <1>3, <2>1, <2>2
  <2> QED
    BY <2>2, <2>3 DEF InRange, Timecode
<1>10. AllKept'
  <2>1. \A id : InQueue(id) => Kept(id)'
    BY <1>1 DEF InQueue, Kept
  <2>2. \A id : Kept(id) => Kept(id)'
    BY <1>1, <2>1, ClustersStay
  <2> QED
    BY <1>1, <1>2, <2>2, AllKeptNext DEF FitFacts
<1> QED
  BY <1>1, <1>5, <1>6, <1>7, <1>8, <1>9, <1>10 DEF FitFacts

\* A cluster is finalized; no frame moves.
LEMMA FitCloseCluster ==
  ASSUME IInv, IInv', FitInv, CloseCluster
  PROVE  FitInv'
<1> USE DEF IInv
<1> SUFFICES ASSUME FeedFits' PROVE FitFacts'
  BY DEF FitInv
<1>1. /\ pc = "close" /\ clusters # << >> /\ clusters' # << >>
      /\ UNCHANGED << queue, accepted, call, calls, lastTs >>
      /\ \A t \in TrackSet : Waiting(t) = << >> /\ Waiting(t)' = << >>
      /\ SameBlocks
      /\ \A i \in DOMAIN clusters : clusters'[i].timecode = clusters[i].timecode
      /\ LastCluster'.timecode = LastCluster.timecode
  BY CloseClusterEffect
<1>2. \/ Measure /\ HeaderWritten(LastCluster)
      \/ Fail /\ UNCHANGED clusters
  BY CloseClusterEffect
<1>3. FitFacts
  <2>1. frame \in Frame /\ clusters \in Seq(Cluster)
    BY DEF TypeOK
  <2>2. 1 \in DOMAIN clusters
    BY <1>1, <2>1
  <2> QED
    BY <1>1, <2>1, <2>2, FeedFitsBefore DEF FitInv
<1>4. FrameBehind'
  <2> SUFFICES ASSUME call = "frame", pc' \in {"test", "close", "offset", "flushOlder", "hold"}
               PROVE  Timecode(frame'.ts) >= LastCluster.timecode
    BY <1>1 DEF FrameBehind, At, Timecode
  <2>1. Measure /\ HeaderWritten(LastCluster) /\ UNCHANGED frame
    BY <1>2 DEF Fail, Return, Measure, Goto
  <2> QED
    BY <1>1, <1>3, <2>1 DEF FitFacts, FrameBehind, Anchored
<1>5. LastBehind'
  <2> SUFFICES ASSUME pc' # "offset", Anchored'
               PROVE  Timecode(lastTs) >= LastCluster.timecode
    BY <1>1 DEF LastBehind, Timecode
  <2>1. UNCHANGED clusters
    BY <1>2 DEF Measure, Goto
  <2>2. Anchored
    BY <2>1 DEF Anchored, LastCluster, HeaderWritten, HasStored
  <2> QED
    BY <1>1, <1>3, <2>2 DEF FitFacts, LastBehind
<1>6. pc' \in {"offset", "idle", "done"}
  BY <1>2 DEF Measure, Goto, Fail, Return
<1>7. FrameFits' /\ FlushFits'
  BY <1>6 DEF FrameFits, FlushFits, At
<1>8. WaitFits'
  BY <1>1 DEF WaitFits
<1>9. AllKept'
  <2>1. \A id : InBlocks(id) => InBlocks(id)'
    BY <1>1, SameBlocksPlaces, BlocksStay
  <2>2. \A id : InWaiting(id) => InWaiting(id)'
    BY <1>1, WaitingStays
  <2>3. \A id : InQueue(id) => InQueue(id)'
    BY <1>1 DEF InQueue
  <2> QED
    BY <1>1, <1>3, <2>1, <2>2, <2>3, AllKeptNext DEF FitFacts, Kept
<1> QED
  BY <1>4, <1>5, <1>6, <1>7, <1>8, <1>9 DEF FitFacts

\* The new cluster takes the queue and the frame, unless the feed ends to fit:
\* it starts no earlier than the one before, and what is left of the queue is
\* either one frame close to the new one or, before the first cluster, all
\* that was fed.
LEMMA FitOpenCluster ==
  ASSUME IInv, IInv', OpenInv, ClustersChained, TakenInv, FitInv, OpenCluster
  PROVE  FitInv'
<1> USE DEF IInv
<1> SUFFICES ASSUME FeedFits' PROVE FitFacts'
  BY DEF FitInv
<1>1. /\ pc = "offset" /\ call = "frame" /\ pc' = "flushAll"
      /\ UNCHANGED << queue, accepted, call, calls, frame, lastTs >>
      /\ \A t \in TrackSet : Waiting(t) = << >> /\ Waiting(t)' = << >>
      /\ PlacesGrow({})
      /\ clusters' # << >> /\ ~HeaderWritten(LastCluster')
      /\ \A i \in DOMAIN clusters : i \in DOMAIN clusters' /\ clusters'[i] = clusters[i]
      /\ clusters = << >> => clusters'[1] = LastCluster'
  BY OpenClusterEffect
<1>2. LastCluster'.timecode =
        IF queue = << >> THEN Timecode(frame.ts)
        ELSE IF Timecode(Head(queue).ts) < Timecode(frame.ts)
             THEN Timecode(Head(queue).ts) ELSE Timecode(frame.ts)
  BY OpenClusterEffect
<1>3. FitFacts
  <2>1. frame \in Frame /\ clusters \in Seq(Cluster)
    BY DEF TypeOK
  <2>2. clusters # << >> => 1 \in DOMAIN clusters
    BY <2>1
  <2> QED
    BY <1>1, <2>1, <2>2, FeedFitsBefore DEF FitInv
<1>4. PICK T : T = LastCluster'.timecode
  OBVIOUS
<1>5. PICK F : F = Timecode(frame.ts)
  OBVIOUS
<1>6. F \in Nat /\ frame.ts \in Nat /\ MaxBlockTimecode \in Nat
  <2>1. frame.ts \in Nat
    BY FrameFields DEF TypeOK
  <2> QED
    BY <1>5, <2>1, TimecodeType, ClusterAssumption
<1>7. /\ queue \in Seq(Frame) /\ accepted \in Seq(Frame)
      /\ \A i \in DOMAIN queue : queue[i].ts \in Nat /\ Timecode(queue[i].ts) \in Nat
      /\ \A i, j \in DOMAIN queue : i < j => queue[i].ts <= queue[j].ts
      /\ queue # << >> => 1 \in DOMAIN queue /\ Head(queue) = queue[1]
      /\ \A i \in DOMAIN queue : i = 1 \/ 1 < i
  <2>1. queue \in Seq(Frame) /\ accepted \in Seq(Frame) /\ QueueTaken
    BY DEF TypeOK, TakenInv
  <2>2. FeedFits
    <3>1. frame \in Frame /\ clusters \in Seq(Cluster)
      BY DEF TypeOK
    <3>2. clusters # << >> => 1 \in DOMAIN clusters
      BY <3>1
    <3> QED
      BY <1>1, <3>1, <3>2, FeedFitsBefore
  <2>3. /\ \A i \in DOMAIN queue : queue[i].ts \in Nat
        /\ \A i, j \in DOMAIN queue : i < j => queue[i].ts <= queue[j].ts
    BY <2>1, <2>2, QueueFed
  <2>4. \A i \in DOMAIN queue : Timecode(queue[i].ts) \in Nat
    BY <2>3, TimecodeType
  <2>5. /\ queue # << >> => 1 \in DOMAIN queue /\ Head(queue) = queue[1]
        /\ \A i \in DOMAIN queue : i = 1 \/ 1 < i
    BY <2>1
  <2> QED
    BY <2>1, <2>3, <2>4, <2>5
<1>8. \A i \in DOMAIN queue : Timecode(queue[1].ts) <= Timecode(queue[i].ts)
  BY <1>7, TimecodeMonotone, SMTT(30)
<1>9. /\ T \in Nat /\ T <= F
      /\ queue = << >> => T = F
      /\ queue # << >> => T <= Timecode(queue[1].ts) /\ T \in {F, Timecode(queue[1].ts)}
  BY <1>2, <1>4, <1>5, <1>6, <1>7
<1>10. \A f : InRange(LastCluster, f)' <=> Timecode(f.ts) >= T /\ Timecode(f.ts) - T <= MaxBlockTimecode
  BY <1>4 DEF InRange, Timecode
<1>11. QueueFits'
  <2> SUFFICES ASSUME NEW i \in DOMAIN queue
               PROVE  Timecode(queue[i].ts) >= T /\ Timecode(queue[i].ts) - T <= MaxBlockTimecode
    BY <1>1, <1>10 DEF QueueFits
  <2>1. queue # << >> /\ Timecode(queue[i].ts) \in Nat /\ Timecode(queue[1].ts) \in Nat
    BY <1>7
  <2>2. Timecode(queue[i].ts) >= T
    BY <1>8, <1>9, <2>1
  <2>3. CASE clusters # << >>
    <3>1. PICK S : S = LastCluster.timecode
      OBVIOUS
    <3>2. LastCluster \in Cluster /\ Len(clusters) \in DOMAIN clusters
      BY <2>3, LastOfDomain, ElementOfSeq DEF LastCluster
    <3>3. S \in Nat
      BY <3>1, <3>2, ClusterFields
    <3>4. Timecode(queue[i].ts) - S <= MaxBlockTimecode /\ Timecode(queue[1].ts) >= S
      <4>1. QueueFits
        BY <1>1, <2>3 DEF TakenInv, OlderGone
      <4> QED
        BY <1>7, <2>1, <2>3, <3>1, <4>1 DEF QueueFits, InRange
    <3>5. F >= S
      <4>1. HeaderWritten(LastCluster)
        BY <1>1, <2>3, <3>2 DEF OpenInv, ClustersChained, LastCluster
      <4> QED
        BY <1>1, <1>3, <1>5, <2>3, <3>1, <4>1 DEF FitFacts, FrameBehind, Anchored
    <3>6. T >= S
      BY <1>9, <2>1, <3>4, <3>5
    <3> QED
      BY <1>6, <1>9, <2>1, <2>2, <3>3, <3>4, <3>6
  <2>4. CASE clusters = << >>
    <3>1. i \in DOMAIN accepted /\ queue[i] = accepted[i] /\ DOMAIN accepted = 1 .. Len(accepted)
      <4>1. Len(accepted) = Len(queue) /\ Len(queue) \in Nat /\ i \in Nat
        BY <1>7, <2>4 DEF TakenInv, FirstQueued
      <4>2. Len(accepted) - Len(queue) + i = i
        BY <4>1
      <4> QED
        BY <1>7, <4>2 DEF TakenInv, QueueTaken
    <3>2. \A j \in 1 .. i - 1 : accepted[j].track \in Audio
      <4>1. \A j \in 1 .. i - 1 : j \in DOMAIN accepted
        BY <3>1
      <4> QED
        BY <2>4, <4>1 DEF TakenInv, FirstQueued
    <3>3. Timecode(accepted[i].ts) - clusters'[1].timecode <= MaxBlockTimecode
      BY <1>1, <3>1, <3>2 DEF FeedFits, LeadFits, Timecode
    <3> QED
      BY <1>1, <1>4, <2>2, <2>4, <3>1, <3>3
  <2> QED
    BY <2>3, <2>4
<1>12. ASSUME Joins(frame)' PROVE F - T <= MaxBlockTimecode
  <2>1. CASE T = F
    BY <1>6, <2>1
  <2>2. CASE queue # << >> /\ T = Timecode(queue[1].ts) /\ clusters # << >>
    <3>1. \A k \in DOMAIN accepted : accepted[k].ts <= frame.ts
      BY <1>1, <1>12 DEF Joins
    <3>2. Len(queue) = 1
      <4>1. ASSUME Len(queue) >= 2 PROVE FALSE
        <5>1. 2 \in DOMAIN queue
          BY <1>7, <4>1
        <5>2. queue[2].ts <= frame.ts
          BY <3>1, <5>1 DEF TakenInv, QueueTaken
        <5>3. queue[2].ts > frame.ts
          BY <1>1, <2>2, <4>1 DEF TakenInv, OlderGone
        <5> QED
          BY <1>6, <1>7, <5>1, <5>2, <5>3
      <4>2. PICK n : n = Len(queue)
        OBVIOUS
      <4>3. n \in Nat /\ n # 0
        BY <1>7, <2>2, <4>2
      <4>4. ~(n >= 2)
        BY <4>1, <4>2
      <4>5. n = 1
        BY <4>3, <4>4
      <4> QED
        BY <4>2, <4>5
    <3>3. accepted # << >> /\ queue[1] = accepted[Len(accepted)]
      <4>1. Len(accepted) - Len(queue) + 1 = Len(accepted)
        BY <1>7, <3>2
      <4> QED
        BY <1>7, <2>2, <4>1 DEF TakenInv, QueueTaken
    <3>4. F - Timecode(accepted[Len(accepted)].ts) <= MaxBlockTimecode
      BY <1>1, <1>5, <1>12, <3>3 DEF Joins, Timecode
    <3> QED
      BY <2>2, <3>3, <3>4
  <2>3. CASE clusters = << >>
    <3>1. \A k \in DOMAIN accepted : accepted[k].track \in Audio
      BY <2>3 DEF TakenInv, FirstQueued
    <3> QED
      BY <1>1, <1>4, <1>5, <1>12, <2>3, <3>1 DEF Joins, Timecode
  <2> QED
    BY <1>9, <2>1, <2>2, <2>3
<1>13. FrameFits'
  <2>1. PICK f : f = frame
    OBVIOUS
  <2>2. InRange(LastCluster, f)' <=> F >= T /\ F - T <= MaxBlockTimecode
    BY <1>5, <1>10, <2>1
  <2>3. InRange(LastCluster, frame)' <=> InRange(LastCluster, f)'
    BY <1>1, <2>1 DEF InRange, Timecode
  <2>4. /\ F >= T
        /\ Joins(frame)' => InRange(LastCluster, frame)'
        /\ InRange(LastCluster, frame)' \/ queue' # << >>
    BY <1>1, <1>6, <1>9, <1>12, <2>2, <2>3
  <2>5. Timecode(frame.ts)' = F
    BY <1>1, <1>5 DEF Timecode
  <2> QED
    BY <1>4, <2>4, <2>5 DEF FrameFits
<1>14. ~Anchored'
  <2>1. \A t \in TrackSet : LastCluster'.stored[t] = << >>
    BY <1>1 DEF Waiting
  <2> QED
    BY <1>1, <2>1 DEF Anchored, HasStored, HeaderWritten
<1>15. LastBehind' /\ FrameBehind' /\ FlushFits'
  BY <1>1, <1>11, <1>14 DEF LastBehind, FrameBehind, FlushFits, At
<1>16. WaitFits'
  BY <1>1 DEF WaitFits
<1>17. AllKept'
  <2>1. \A id : InBlocks(id) => InBlocks(id)'
    BY <1>1, BlocksStay
  <2>2. \A id : InWaiting(id) => InWaiting(id)'
    BY <1>1, WaitingStays
  <2>3. \A id : InQueue(id) => InQueue(id)'
    BY <1>1 DEF InQueue
  <2> QED
    BY <1>1, <1>3, <2>1, <2>2, <2>3, AllKeptNext DEF FitFacts, Kept
<1> QED
  BY <1>1, <1>13, <1>15, <1>16, <1>17 DEF FitFacts

-----------------------------------------------------------------------------
(* The steps that add a frame to the last cluster.                           *)

\* A feed that fits after a write did before, and fits with the new frame.
LEMMA FitBefore ==
  ASSUME IInv, IInv', Steady, NEW g \in Frame,
         UNCHANGED accepted \/ accepted' = Append(accepted, g), FitInv, FeedFits'
  PROVE  FeedFits /\ FitFacts /\ (accepted' # accepted => Joins(g))
<1>1. FeedFits /\ (accepted' # accepted => Joins(g))
  BY FeedFitsBefore DEF IInv, Steady
<1> QED
  BY <1>1 DEF FitInv

\* A frame at the front of the queue is valid and in range of the cluster.
LEMMA QueueHeadFits ==
  ASSUME IInv, QueueInv, TakenInv, FeedFits, FitFacts, queue # << >>, clusters # << >>,
         \/ At("flushOlder") /\ OlderFrameQueued
         \/ At("flushAll")
  PROVE  /\ Head(queue) \in Frame /\ Head(queue).track \in TrackSet
         /\ Head(queue).ts \in Nat /\ Head(queue) = queue[1] /\ 1 \in DOMAIN queue
         /\ IsValid(Head(queue)) /\ InRange(LastCluster, Head(queue))
         /\ At("flushOlder") => Head(queue).ts <= frame.ts
<1> USE DEF IInv
<1>1. queue \in Seq(Frame) /\ 1 \in DOMAIN queue /\ Head(queue) = queue[1]
  BY DEF TypeOK
<1>2. Head(queue) \in Frame /\ Head(queue).track \in TrackSet
  BY QueueHeadType
<1>3. IsValid(Head(queue)) /\ Head(queue).ts \in Nat
  BY <1>1, QueueFed DEF TakenInv
<1>4. QueueFits
  BY DEF FitFacts, FlushFits, QueueInv, InFlushOlder, At
<1>5. InRange(LastCluster, Head(queue))
  BY <1>1, <1>4 DEF QueueFits
<1>6. ASSUME At("flushOlder") PROVE Head(queue).ts <= frame.ts
  <2>1. OlderFrameQueued
    BY <1>6 DEF At
  <2>2. 2 \in DOMAIN queue /\ queue[2].ts <= frame.ts
    BY <1>1, <2>1 DEF OlderFrameQueued
  <2>3. queue[1].ts <= queue[2].ts /\ queue[1].ts \in Nat /\ queue[2].ts \in Nat
    BY <1>1, <2>2, QueueFed DEF TakenInv
  <2>4. frame.ts \in Nat
    BY FrameFields DEF TypeOK
  <2> QED
    BY <1>1, <2>2, <2>3, <2>4
<1> QED
  BY <1>1, <1>2, <1>3, <1>5, <1>6

\* A valid frame in range is not refused.
LEMMA NotRefused ==
  ASSUME NEW f, NEW p, IsValid(f), InRange(LastCluster, f), ~LastCluster.finalized,
         AddFrameFails(f, p)
  PROVE  FALSE
BY DEF AddFrameFails, CanWrite

\* A frame that was added is in the file or held back, like all before it.
LEMMA AddFrameKeeps ==
  ASSUME IInv, CuesInv, TakenInv, clusters # << >>, NEW f \in Frame, f.track \in TrackSet,
         NEW p, p # "hold", AddFrameDone(f, p), pc = "hold" => Adding(origin) = f
  PROVE  /\ \A id : InBlocks(id) => InBlocks(id)'
         /\ \A id : InWaiting(id) => InWaiting(id)'
         /\ InBlocks(f.id)' \/ InWaiting(f.id)'
<1> USE DEF IInv
<1>1. CASE /\ pc = p /\ PlacesGrow({f}) /\ pc # "hold"
           /\ \A t \in TrackSet : Waiting(t) = << >> /\ Waiting(t)' = << >>
  <2>1. CanWrite(LastCluster, f) /\ SetLastCluster(DoWriteFrame(LastCluster, f, written))
    BY <1>1 DEF AddFrameDone
  <2>2. InBlocks(f.id)'
    BY <2>1, WriteGains, GainsKept
  <2>3. \A id : InWaiting(id) => InWaiting(id)'
    BY <1>1, WaitingStays
  <2> QED
    BY <1>1, <2>2, <2>3, BlocksStay
<1>2. CASE pc = "hold" /\ UNCHANGED clusters
  <2>1. InWaiting(f.id)
    BY <1>2, HeldWaits DEF TakenInv
  <2>2. \A id : InWaiting(id) => InWaiting(id)'
    BY <1>2, WaitingSame, WaitingStays
  <2>3. \A id : InBlocks(id) => InBlocks(id)'
    BY <1>2, SamePlaces, BlocksStay
  <2> QED
    BY <2>1, <2>2, <2>3
<1>3. \/ pc = p /\ PlacesGrow({f}) /\ \A t \in TrackSet : Waiting(t) = << >> /\ Waiting(t)' = << >>
      \/ pc = "hold" /\ origin = p /\ UNCHANGED clusters
  BY DonePlaces
<1> QED
  BY <1>1, <1>2, <1>3

\* What is held back stays in range, or is gone.
LEMMA AddFrameWaits ==
  ASSUME IInv, CuesInv, Steady, clusters # << >>, NEW f \in Frame, NEW p, AddFrameDone(f, p),
         \A t \in TrackSet : \A i \in DOMAIN Waiting(t) : InRange(LastCluster, Waiting(t)[i])
  PROVE  WaitFits'
<1>1. CASE \A t \in TrackSet : Waiting(t)' = << >>
  BY <1>1 DEF WaitFits
<1>2. CASE UNCHANGED clusters
  <2> SUFFICES ASSUME NEW t \in TrackSet, NEW i \in DOMAIN Waiting(t)'
               PROVE  InRange(LastCluster, Waiting(t)[i])'
    BY DEF WaitFits
  <2>1. PICK x : x = Waiting(t)'[i]
    OBVIOUS
  <2>2. i \in DOMAIN Waiting(t) /\ x = Waiting(t)[i]
    BY <1>2, <2>1, WaitingSame
  <2>3. InRange(LastCluster, x)'
    BY <2>2 DEF Steady
  <2> QED
    BY <2>1, <2>3 DEF InRange, Timecode
<1> QED
  BY <1>1, <1>2, DonePlaces DEF IInv

\* A frame that was written brings lastTs behind the start of its cluster.
LEMMA RaisedBehind ==
  ASSUME IInv, Steady, NEW f \in Frame, InRange(LastCluster, f), RaiseLastTs(f)
  PROVE  Timecode(lastTs)' >= LastCluster'.timecode
<1>1. f.ts \in Nat /\ lastTs \in Nat /\ lastTs' \in Nat /\ f.ts <= lastTs'
  BY FrameFields DEF RaiseLastTs, IInv, TypeOK
<1>2. LastCluster \in Cluster
  BY LastOfDomain, ElementOfSeq DEF IInv, Steady, LastCluster
<1>3. Timecode(lastTs') >= LastCluster.timecode
  BY <1>1, <1>2, InRangeLater
<1> QED
  BY <1>3 DEF Steady, Timecode

\* A queued frame is written or held back: it is never refused.
LEMMA FitFlush ==
  ASSUME IInv, IInv', OpenInv, QueueInv, CuesInv, TakenInv, FitInv, FlushOlder \/ FlushAll
  PROVE  FitInv'
<1> USE DEF IInv
<1> SUFFICES ASSUME FeedFits' PROVE FitFacts'
  BY DEF FitInv
<1>1. PICK f : f = Head(queue)
  OBVIOUS
<1>2. PICK p : /\ p \in {"flushOlder", "flushAll"} /\ pc' = p
               /\ (AddFrameDone(f, p) /\ RaiseLastTs(f)) \/ AddFrameFails(f, p)
               /\ p = "flushOlder" => OlderFrameQueued
  BY <1>1 DEF FlushOlder, FlushAll
<1>3. /\ queue # << >> /\ clusters # << >> /\ queue' = Tail(queue)
      /\ UNCHANGED << accepted, calls, call, frame, origin >>
  BY OlderQueued DEF FlushOlder, FlushAll
<1>4. At(p)
  BY <1>2 DEF AddFrameDone, AddFrameFails, At
<1>5. Steady
  BY WritesSteady DEF WritesToLast
<1>6. FeedFits /\ FitFacts
  <2>1. frame \in Frame
    BY DEF TypeOK
  <2> QED
    BY <1>3, <1>5, <2>1, FitBefore
<1>7. /\ f \in Frame /\ f.track \in TrackSet /\ f.ts \in Nat /\ IsValid(f)
      /\ InRange(LastCluster, f) /\ (At("flushOlder") => f.ts <= frame.ts)
  BY <1>1, <1>2, <1>3, <1>4, <1>6, QueueHeadFits
<1>8. AddFrameDone(f, p) /\ RaiseLastTs(f)
  BY <1>2, <1>5, <1>7, NotRefused DEF Steady
<1>9. Timecode(lastTs)' >= LastCluster'.timecode
  BY <1>5, <1>7, <1>8, RaisedBehind
<1>10. FrameBehind'
  <2> SUFFICES ASSUME p = "flushOlder"
               PROVE  Timecode(frame.ts) >= LastCluster.timecode
    BY <1>2, <1>3, <1>5 DEF FrameBehind, At, Steady, Timecode
  <2>1. frame.ts \in Nat /\ LastCluster \in Cluster /\ f.ts <= frame.ts
    <3>1. LastCluster \in Cluster
      BY <1>3, LastOfDomain, ElementOfSeq DEF LastCluster
    <3> QED
      BY <1>4, <1>7, <3>1, FrameFields DEF TypeOK
  <2> QED
    BY <1>7, <2>1, InRangeLater
<1>11. LastBehind'
  BY <1>9 DEF LastBehind
<1>12. FrameFits'
  <2> SUFFICES ASSUME call = "frame", p = "flushAll"
               PROVE  /\ Timecode(frame.ts) >= LastCluster.timecode
                      /\ Joins(frame)' => InRange(LastCluster, frame)'
    BY <1>2, <1>3, <1>5, <1>9 DEF FrameFits, At, Steady, Timecode
  <2>1. /\ Timecode(frame.ts) >= LastCluster.timecode
        /\ Joins(frame) => InRange(LastCluster, frame)
    BY <1>4, <1>6 DEF FitFacts, FrameFits
  <2>2. PICK g : g = frame
    OBVIOUS
  <2>3. Joins(g)' => Joins(g)
    BY <1>3, <1>5, JoinsSame DEF Steady
  <2>4. InRange(LastCluster, g)' <=> InRange(LastCluster, g)
    BY <1>5 DEF Steady
  <2> QED
    BY <1>3, <2>1, <2>2, <2>3, <2>4 DEF Joins, InRange, Timecode
<1>13. FlushFits'
  <2> SUFFICES ASSUME p = "flushAll" PROVE QueueFits'
    BY <1>2 DEF FlushFits, At
  <2>1. QueueFits
    BY <1>4, <1>6 DEF FitFacts, FlushFits
  <2>2. \A i \in DOMAIN queue' : i + 1 \in DOMAIN queue /\ queue'[i] = queue[i + 1]
    <3>1. queue \in Seq(Frame)
      BY DEF TypeOK
    <3> QED
      BY <1>3, <3>1
  <2>3. ASSUME NEW i \in DOMAIN queue' PROVE InRange(LastCluster, queue[i])'
    <3>1. PICK x : x = queue'[i]
      OBVIOUS
    <3>2. InRange(LastCluster, x)
      BY <1>3, <2>1, <2>2, <3>1 DEF QueueFits
    <3>3. InRange(LastCluster, x)'
      BY <1>5, <3>2 DEF Steady
    <3> QED
      BY <3>1, <3>3 DEF InRange, Timecode
  <2> QED
    BY <2>3 DEF QueueFits
<1>14. WaitFits'
  <2>1. ~Pending
    BY <1>2, <1>4 DEF At, Pending
  <2> QED
    BY <1>3, <1>5, <1>6, <1>7, <1>8, <2>1, AddFrameWaits DEF FitFacts, WaitFits
<1>15. AllKept'
  <2>1. pc = "hold" => Adding(origin) = f
    BY <1>1, <1>2, <1>4 DEF At, Adding
  <2>2. /\ \A id : InBlocks(id) => InBlocks(id)'
        /\ \A id : InWaiting(id) => InWaiting(id)'
        /\ InBlocks(f.id)' \/ InWaiting(f.id)'
    <3>1. p # "hold"
      BY <1>2
    <3> QED
      BY <1>3, <1>7, <1>8, <2>1, <3>1, AddFrameKeeps
  <2>3. \A id : InQueue(id) => InQueue(id)' \/ id = f.id
    BY <1>1, <1>3, HeadLeaves
  <2>4. \A id : Kept(id) => Kept(id)'
    BY <2>2, <2>3 DEF Kept
  <2> QED
    BY <1>3, <1>6, <2>4, AllKeptNext DEF FitFacts
<1> QED
  BY <1>2, <1>10, <1>11, <1>12, <1>13, <1>14, <1>15 DEF FitFacts

\* So WriteFramesLessThan never fails on a feed that fits.
LEMMA FitFlushOlderFails ==
  ASSUME IInv, IInv', OpenInv, QueueInv, TakenInv, FitInv, FlushOlderFails
  PROVE  FitInv'
<1> SUFFICES ASSUME FeedFits' PROVE FALSE
  BY DEF FitInv
<1>1. PICK f : f = Head(queue)
  OBVIOUS
<1>2. OlderFrameQueued /\ AddFrameFails(f, "flushOlder") /\ UNCHANGED accepted
  BY <1>1 DEF FlushOlderFails
<1>3. Steady /\ frame \in Frame
  BY WritesSteady DEF WritesToLast, IInv, TypeOK
<1>4. FeedFits /\ FitFacts
  BY <1>2, <1>3, FitBefore
<1>5. At("flushOlder")
  BY <1>2 DEF AddFrameFails, At
<1>6. IsValid(f) /\ InRange(LastCluster, f)
  BY <1>1, <1>2, <1>4, <1>5, OlderQueued, QueueHeadFits
<1> QED
  BY <1>2, <1>3, <1>6, NotRefused DEF Steady

\* A frame that is refused leaves no mark on a cluster that fits it.
LEMMA RefusedAnchored ==
  ASSUME TypeOK, clusters # << >>, NEW f, NEW p, AddFrameFails(f, p),
         InRange(LastCluster, f), ~LastCluster.finalized
  PROVE  LastCluster' = LastCluster
<1>1. CASE UNCHANGED clusters
  BY <1>1 DEF LastCluster
<1>2. CASE ~CanWrite(LastCluster, f) /\ SetLastCluster(DoWriteFrame(LastCluster, f, written))
  <2>1. DoWriteFrame(LastCluster, f, written) = LastCluster
    BY <1>2 DEF CanWrite, DoWriteFrame
  <2>2. clusters' = [clusters EXCEPT ![Len(clusters)] = LastCluster]
    BY <1>2, <2>1 DEF SetLastCluster
  <2>3. clusters \in Seq(Cluster) /\ Len(clusters) \in DOMAIN clusters
    BY LastOfDomain
  <2>4. Len(clusters') = Len(clusters) /\ clusters'[Len(clusters)] = LastCluster
    BY <2>2, <2>3
  <2> QED
    BY <2>4 DEF LastCluster
<1> QED
  BY <1>1, <1>2 DEF AddFrameFails

\* The call's frame may be refused: then it was not accepted, and the feed that
\* fits is the one without it.
LEMMA FitWriteFails ==
  ASSUME IInv, IInv', OpenInv, QueueInv, TakenInv, FitInv, WriteFrame,
         AddFrameFails(WithReference(frame), "write"),
         Return(FALSE), UNCHANGED << cueVars, timeVars, countVars, accepted >>
  PROVE  FitInv'
<1> USE DEF IInv
<1> SUFFICES ASSUME FeedFits' PROVE FitFacts'
  BY DEF FitInv
<1>1. PICK f : f = WithReference(frame)
  OBVIOUS
<1>2. /\ pc = "write" /\ pc' = "idle" /\ UNCHANGED << queue, accepted, lastTs, call, calls >>
  BY DEF WriteFrame, AddFrameFails, Return
<1>3. Steady /\ frame \in Frame
  BY WritesSteady DEF WritesToLast, TypeOK
<1>4. FeedFits /\ FitFacts
  BY <1>2, <1>3, FitBefore
<1>5. call = "frame" /\ frame.track \in TrackSet /\ clusters # << >> /\ queue = << >>
  BY <1>2 DEF CallState, QueueInv, InWrite
<1>6. f \in Frame /\ f.ts = frame.ts
  BY <1>1, <1>3, <1>5, WithReferenceType, WithReferenceSame
<1>7. SameBlocks
  BY <1>1, <1>5, <1>6, RefusedSame
<1>8. LastBehind'
  <2> SUFFICES ASSUME Anchored' PROVE Timecode(lastTs) >= LastCluster.timecode
    BY <1>2, <1>3 DEF LastBehind, Steady, Timecode
  <2>1. CASE InRange(LastCluster, frame)
    <3>1. InRange(LastCluster, f)
      BY <1>6, <2>1 DEF InRange
    <3>2. LastCluster' = LastCluster
      BY <1>1, <1>3, <1>5, <3>1, RefusedAnchored DEF Steady
    <3>3. Anchored
      BY <3>2 DEF Anchored, HeaderWritten, HasStored
    <3> QED
      BY <1>2, <1>4, <1>5, <3>3 DEF FitFacts, LastBehind
  <2>2. CASE ~InRange(LastCluster, frame)
    BY <1>2, <1>4, <1>5, <2>2 DEF FitFacts, FrameFits, At, Pending
  <2> QED
    BY <2>1, <2>2
<1>9. \A t \in TrackSet : Waiting(t)' = Waiting(t)
  <2>1. clusters' # << >> /\ Len(clusters) \in DOMAIN clusters /\ Len(clusters') = Len(clusters)
        /\ clusters'[Len(clusters)].stored = clusters[Len(clusters)].stored
    BY <1>3, <1>5, <1>7, LastOfDomain DEF SameBlocks, Steady
  <2> QED
    BY <1>5, <2>1 DEF Waiting, LastCluster
<1>10. WaitFits'
  <2>1. \A t \in TrackSet : \A i \in DOMAIN Waiting(t) : InRange(LastCluster, Waiting(t)[i])
    BY <1>2, <1>4 DEF FitFacts, WaitFits, Pending
  <2> SUFFICES ASSUME NEW t \in TrackSet, NEW i \in DOMAIN Waiting(t)'
               PROVE  InRange(LastCluster, Waiting(t)[i])'
    BY DEF WaitFits
  <2>2. PICK x : x = Waiting(t)'[i]
    OBVIOUS
  <2>3. InRange(LastCluster, x)'
    BY <1>3, <1>9, <2>1, <2>2 DEF Steady
  <2> QED
    BY <2>2, <2>3 DEF InRange, Timecode
<1>11. AllKept'
  <2>1. \A id : InBlocks(id) => InBlocks(id)'
    BY <1>7, SameBlocksPlaces, BlocksStay
  <2>2. \A id : InWaiting(id) => InWaiting(id)'
    BY <1>9, WaitingStays
  <2>3. \A id : InQueue(id) => InQueue(id)'
    BY <1>2 DEF InQueue
  <2> QED
    BY <1>2, <1>4, <2>1, <2>2, <2>3, AllKeptNext DEF FitFacts, Kept
<1>12. FrameBehind' /\ FrameFits' /\ FlushFits'
  BY <1>2 DEF FrameBehind, FrameFits, FlushFits, At
<1> QED
  BY <1>2, <1>8, <1>10, <1>11, <1>12 DEF FitFacts

\* The call's frame is accepted, with a feed that fits: it was in range.
LEMMA FitWriteDone ==
  ASSUME IInv, IInv', OpenInv, QueueInv, CuesInv, TakenInv, FitInv, WriteFrame,
         AddFrameDone(WithReference(frame), "write"),
         lastTs' = frame.ts, accepted' = Append(accepted, WithReference(frame)), Return(TRUE)
  PROVE  FitInv'
<1> USE DEF IInv
<1> SUFFICES ASSUME FeedFits' PROVE FitFacts'
  BY DEF FitInv
<1>1. PICK f : f = WithReference(frame)
  OBVIOUS
<1>2. At("write") /\ pc' = "idle" /\ UNCHANGED << queue, call, calls >>
  BY DEF WriteFrame, AddFrameDone, Return, At
<1>3. Steady
  BY WritesSteady DEF WritesToLast
<1>4. call = "frame" /\ frame.track \in TrackSet /\ clusters # << >> /\ frame \in Frame
  BY <1>2 DEF CallState, At, TypeOK
<1>5. f \in Frame /\ f.ts = frame.ts /\ f.track = frame.track /\ f.track \in TrackSet
  BY <1>1, <1>4, WithReferenceType, WithReferenceSame
<1>6. FeedFits /\ FitFacts /\ Joins(f)
  <2>1. accepted' # accepted
    <3>1. PICK a : a = accepted
      OBVIOUS
    <3>2. a \in Seq(Frame) /\ accepted' = Append(a, f)
      BY <1>1, <3>1 DEF TypeOK
    <3>3. Len(Append(a, f)) = Len(a) + 1 /\ Len(a) \in Nat
      BY <1>5, <3>2, AppendFrame
    <3>4. Append(a, f) # a
      BY <3>3
    <3> QED
      BY <3>1, <3>2, <3>4
  <2> QED
    BY <1>1, <1>3, <1>5, <2>1, FitBefore
<1>7. Timecode(frame.ts) >= LastCluster.timecode /\ InRange(LastCluster, frame)
  <2>1. Joins(frame)
    BY <1>5, <1>6 DEF Joins
  <2> QED
    BY <1>2, <1>4, <1>6, <2>1 DEF FitFacts, FrameFits
<1>8. LastBehind'
  BY <1>3, <1>7 DEF LastBehind, Steady, Timecode
<1>9. \A t \in TrackSet : \A i \in DOMAIN Waiting(t) : InRange(LastCluster, Waiting(t)[i])
  BY <1>6, <1>7 DEF FitFacts, WaitFits, InRange
<1>10. WaitFits'
  BY <1>1, <1>3, <1>4, <1>5, <1>9, AddFrameWaits
<1>11. AllKept'
  <2>1. pc = "hold" => Adding(origin) = f
    BY <1>1, <1>2 DEF At, Adding
  <2>2. /\ \A id : InBlocks(id) => InBlocks(id)'
        /\ \A id : InWaiting(id) => InWaiting(id)'
        /\ InBlocks(f.id)' \/ InWaiting(f.id)'
    BY <1>1, <1>4, <1>5, <2>1, AddFrameKeeps
  <2>3. \A id : InQueue(id) => InQueue(id)'
    BY <1>2 DEF InQueue
  <2>4. Kept(f.id)' /\ \A id : Kept(id) => Kept(id)'
    BY <2>2, <2>3 DEF Kept
  <2> QED
    BY <1>1, <1>5, <1>6, <2>4, AllKeptNext DEF FitFacts
<1>12. FrameBehind' /\ FrameFits' /\ FlushFits'
  BY <1>2 DEF FrameBehind, FrameFits, FlushFits, At
<1> QED
  BY <1>2, <1>8, <1>10, <1>11, <1>12 DEF FitFacts

\* The call's own frame, either way.
LEMMA FitWriteFrame ==
  ASSUME IInv, IInv', OpenInv, QueueInv, CuesInv, TakenInv, FitInv, WriteFrame
  PROVE  FitInv'
<1>1. CASE /\ AddFrameFails(WithReference(frame), "write") /\ Return(FALSE)
           /\ UNCHANGED << cueVars, timeVars, countVars, accepted >>
  BY <1>1, FitWriteFails
<1>2. CASE /\ AddFrameDone(WithReference(frame), "write") /\ Return(TRUE)
           /\ lastTs' = frame.ts /\ accepted' = Append(accepted, WithReference(frame))
  BY <1>2, FitWriteDone
<1> QED
  BY <1>1, <1>2 DEF WriteFrame

\* A frame is held back: in range, or the call's own.
LEMMA FitHold ==
  ASSUME IInv, IInv', OpenInv, QueueInv, CuesInv, TakenInv, FitInv, Hold
  PROVE  FitInv'
<1> USE DEF IInv
<1> SUFFICES ASSUME FeedFits' PROVE FitFacts'
  BY DEF FitInv
<1>1. /\ pc \in {"flushOlder", "flushAll", "write"} /\ clusters # << >>
      /\ pc # "write" => queue # << >>
      /\ UNCHANGED << queue, accepted, calls, call, frame, lastTs, lastTrackTs >>
      /\ pc' = "hold" /\ origin' = pc /\ PlacesGrow({})
  BY HoldEffect
<1>2. PICK f \in Frame :
        /\ f = Adding(pc) /\ f.track \in TrackSet /\ IsValid(f)
        /\ Waiting(f.track) \in Seq(Frame)
        /\ \A t \in TrackSet :
             Waiting(t)' = IF t = f.track THEN Append(Waiting(t), f) ELSE Waiting(t)
  BY HoldEffect
<1>3. Steady /\ frame \in Frame
  BY WritesSteady DEF WritesToLast, TypeOK
<1>4. FeedFits /\ FitFacts
  BY <1>1, <1>3, FitBefore
<1>5. /\ pc # "write" => InRange(LastCluster, f)
      /\ pc = "flushOlder" => f.ts <= frame.ts /\ f.ts \in Nat
  <2> SUFFICES ASSUME pc # "write"
               PROVE  InRange(LastCluster, f) /\ (pc = "flushOlder" => f.ts <= frame.ts /\ f.ts \in Nat)
    OBVIOUS
  <2>1. f = Head(queue)
    BY <1>2 DEF Adding
  <2>2. (At("flushOlder") /\ OlderFrameQueued) \/ At("flushAll")
    BY <1>1 DEF At, Hold, AddsFrame
  <2>3. InRange(LastCluster, f) /\ f.ts \in Nat /\ (At("flushOlder") => f.ts <= frame.ts)
    BY <1>1, <1>4, <2>1, <2>2, QueueHeadFits
  <2> QED
    BY <2>3 DEF At
<1>6. pc = "write" => f.ts = frame.ts /\ f.track = frame.track
  BY <1>1, <1>2, <1>3, WithReferenceSame DEF Adding
<1>7. FrameBehind'
  <2> SUFFICES ASSUME pc = "flushOlder"
               PROVE  Timecode(frame.ts) >= LastCluster.timecode
    BY <1>1, <1>3 DEF FrameBehind, At, Steady, Timecode
  <2>1. LastCluster \in Cluster
    BY <1>1, LastOfDomain, ElementOfSeq DEF LastCluster
  <2>2. frame.ts \in Nat
    BY <1>3, FrameFields
  <2> QED
    BY <1>5, <2>1, <2>2, InRangeLater
<1>8. FrameFits'
  <2> SUFFICES ASSUME call = "frame", pc \in {"flushAll", "write"}
               PROVE  /\ Timecode(frame.ts) >= LastCluster.timecode
                      /\ Joins(frame)' => InRange(LastCluster, frame)'
                      /\ pc = "flushAll" => \/ InRange(LastCluster, frame)' \/ queue # << >>
                                            \/ Timecode(lastTs) >= LastCluster.timecode
    BY <1>1, <1>3 DEF FrameFits, At, Pending, Steady, Timecode
  <2>1. /\ Timecode(frame.ts) >= LastCluster.timecode
        /\ Joins(frame) => InRange(LastCluster, frame)
    BY <1>1, <1>4 DEF FitFacts, FrameFits, At
  <2>2. PICK g : g = frame
    OBVIOUS
  <2>3. Joins(g)' => Joins(g)
    BY <1>1, <1>3, JoinsSame DEF Steady
  <2>4. InRange(LastCluster, g)' <=> InRange(LastCluster, g)
    BY <1>3 DEF Steady
  <2> QED
    BY <1>1, <2>1, <2>2, <2>3, <2>4 DEF Joins, InRange, Timecode
<1>9. FlushFits'
  <2> SUFFICES ASSUME pc = "flushAll" PROVE QueueFits'
    BY <1>1 DEF FlushFits, At
  <2>1. QueueFits
    BY <1>4 DEF FitFacts, FlushFits, At
  <2>2. ASSUME NEW i \in DOMAIN queue' PROVE InRange(LastCluster, queue[i])'
    <3>1. PICK x : x = queue'[i]
      OBVIOUS
    <3>2. InRange(LastCluster, x)'
      BY <1>1, <1>3, <2>1, <3>1 DEF QueueFits, Steady
    <3> QED
      BY <3>1, <3>2 DEF InRange, Timecode
  <2> QED
    BY <2>2 DEF QueueFits
<1>10. /\ \A t \in TrackSet : t # f.track => Waiting(t)' = Waiting(t)
       /\ \A i \in DOMAIN Waiting(f.track)' :
            \/ i \in DOMAIN Waiting(f.track) /\ Waiting(f.track)'[i] = Waiting(f.track)[i]
            \/ i = Len(Waiting(f.track)') /\ Waiting(f.track)'[i] = f
       /\ \A i \in DOMAIN Waiting(f.track) :
            i \in DOMAIN Waiting(f.track)' /\ Waiting(f.track)'[i] = Waiting(f.track)[i]
  <2>1. PICK r : r = Waiting(f.track)
    OBVIOUS
  <2>2. PICK w : w = Waiting(f.track)'
    OBVIOUS
  <2>3. r \in Seq(Frame) /\ w = Append(r, f)
    BY <1>2, <2>1, <2>2
  <2>4. /\ Len(r) \in Nat /\ Len(w) = Len(r) + 1 /\ w[Len(r) + 1] = f
        /\ DOMAIN r = 1 .. Len(r) /\ DOMAIN w = 1 .. Len(r) + 1
        /\ \A j \in 1 .. Len(r) : w[j] = r[j]
    BY <2>3, AppendFrame
  <2>5. \A i \in DOMAIN w : i \in 1 .. Len(r) \/ i = Len(r) + 1
    BY <2>4
  <2>6. \A i \in DOMAIN w : \/ i \in DOMAIN r /\ w[i] = r[i]
                            \/ i = Len(w) /\ w[i] = f
    BY <2>4, <2>5
  <2>7. \A i \in DOMAIN r : i \in DOMAIN w /\ w[i] = r[i]
    BY <2>4
  <2> QED
    BY <1>2, <2>1, <2>2, <2>6, <2>7
<1>11. WaitFits'
  <2> SUFFICES ASSUME NEW t \in TrackSet, NEW i \in DOMAIN Waiting(t)'
               PROVE  \/ InRange(LastCluster, Waiting(t)[i])'
                      \/ /\ pc = "write" /\ t = frame.track /\ i = Len(Waiting(t)')
                         /\ Waiting(t)'[i].ts = frame.ts
    BY <1>1 DEF WaitFits, Pending
  <2>1. PICK x : x = Waiting(t)'[i]
    OBVIOUS
  <2>2. CASE i \in DOMAIN Waiting(t) /\ x = Waiting(t)[i]
    <3>1. InRange(LastCluster, x)
      BY <1>1, <1>4, <2>2 DEF FitFacts, WaitFits, Pending
    <3>2. InRange(LastCluster, x)'
      BY <1>3, <3>1 DEF Steady
    <3> QED
      BY <2>1, <3>2 DEF InRange, Timecode
  <2>3. CASE t = f.track /\ i = Len(Waiting(t)') /\ x = f
    <3>1. CASE pc = "write"
      BY <1>6, <2>1, <2>3, <3>1
    <3>2. CASE pc # "write"
      <4>1. InRange(LastCluster, x)'
        BY <1>3, <1>5, <2>3, <3>2 DEF Steady
      <4> QED
        BY <2>1, <4>1 DEF InRange, Timecode
    <3> QED
      BY <3>1, <3>2
  <2> QED
    BY <1>10, <2>1, <2>2, <2>3
<1>12. AllKept'
  <2>1. \A id : InBlocks(id) => InBlocks(id)'
    BY <1>1, BlocksStay
  <2>2. \A t \in TrackSet : \A i \in DOMAIN Waiting(t) :
          i \in DOMAIN Waiting(t)' /\ Waiting(t)'[i] = Waiting(t)[i]
    BY <1>10
  <2>3. \A id : InWaiting(id) => InWaiting(id)'
    BY <2>2 DEF InWaiting
  <2>4. \A id : InQueue(id) => InQueue(id)'
    BY <1>1 DEF InQueue
  <2> QED
    BY <1>1, <1>4, <2>1, <2>3, <2>4, AllKeptNext DEF FitFacts, Kept
<1> QED
  BY <1>1, <1>7, <1>8, <1>9, <1>11, <1>12 DEF FitFacts, LastBehind

\* What is said of the frames of the call carries over a step that writes to
\* the last cluster and leaves the call where it is.
LEMMA FitStays ==
  ASSUME IInv, IInv', Steady, FitFacts, UNCHANGED << pc, queue, accepted, call, frame, origin, lastTs >>
  PROVE  FrameFits' /\ FlushFits'
<1>1. ASSUME call = "frame", At("flushAll") \/ At("write")
      PROVE  /\ Timecode(frame.ts) >= LastCluster'.timecode
             /\ Joins(frame)' => InRange(LastCluster, frame)'
             /\ ~Pending => \/ InRange(LastCluster, frame)' \/ queue # << >>
                            \/ Timecode(lastTs) >= LastCluster'.timecode
  <2>1. /\ Timecode(frame.ts) >= LastCluster.timecode
        /\ Joins(frame) => InRange(LastCluster, frame)
        /\ ~Pending => \/ InRange(LastCluster, frame) \/ queue # << >>
                       \/ Timecode(lastTs) >= LastCluster.timecode
    BY <1>1 DEF FitFacts, FrameFits
  <2>2. PICK g : g = frame
    OBVIOUS
  <2>3. Joins(g)' => Joins(g)
    BY JoinsSame DEF Steady
  <2>4. InRange(LastCluster, g)' <=> InRange(LastCluster, g)
    BY DEF Steady
  <2>5. /\ InRange(LastCluster, g)' <=> InRange(LastCluster, frame)'
        /\ Joins(g)' <=> Joins(frame)'
    BY <2>2 DEF InRange, Joins, Timecode
  <2> QED
    BY <2>1, <2>2, <2>3, <2>4, <2>5 DEF Steady
<1>2. FrameFits'
  BY <1>1 DEF FrameFits, At, Pending, Timecode
<1>3. ASSUME NEW i \in DOMAIN queue', QueueFits PROVE InRange(LastCluster, queue[i])'
  <2>1. PICK x : x = queue'[i]
    OBVIOUS
  <2>2. InRange(LastCluster, x)'
    BY <1>3, <2>1 DEF QueueFits, Steady
  <2> QED
    BY <2>1, <2>2 DEF InRange, Timecode
<1>4. FlushFits'
  BY <1>3 DEF FitFacts, FlushFits, QueueFits, At
<1> QED
  BY <1>2, <1>4

\* What is released is in range and valid, so it can be written.
LEMMA FitRelease ==
  ASSUME IInv, IInv', OpenInv, TakenInv, FitInv, Release
  PROVE  FitInv'
<1> USE DEF IInv
<1> SUFFICES ASSUME FeedFits' PROVE FitFacts'
  BY DEF FitInv
<1>1. /\ pc = "hold" /\ clusters # << >>
      /\ UNCHANGED << queue, accepted, call, calls, frame, origin, lastTs, lastTrackTs >>
  BY ReleaseEffect
<1>2. PICK t \in TrackSet, f \in Frame :
        /\ Waiting(t) \in Seq(Frame) /\ Len(Waiting(t)) >= 2 /\ f = Head(Waiting(t))
        /\ CanWrite(LastCluster, f) =>
             /\ PlacesGrow({f}) /\ Gains(f) /\ pc' = "hold"
             /\ \A u \in TrackSet : Waiting(u)' = IF u = t THEN Tail(Waiting(u)) ELSE Waiting(u)
  BY ReleaseEffect
<1>3. Steady /\ frame \in Frame
  BY WritesSteady DEF WritesToLast, TypeOK
<1>4. FeedFits /\ FitFacts
  BY <1>1, <1>3, FitBefore
<1>5. PICK r : r = Waiting(t)
  OBVIOUS
<1>6. PICK w : w = Tail(r)
  OBVIOUS
<1>7. /\ r \in Seq(Frame) /\ Len(r) >= 2 /\ 1 \in DOMAIN r /\ f = r[1] /\ r # << >>
      /\ 1 # Len(r)
      /\ \A i \in DOMAIN w : i + 1 \in DOMAIN r /\ w[i] = r[i + 1]
                             /\ (i + 1 = Len(r) => i = Len(w))
  BY <1>2, <1>5, <1>6
<1>8. CanWrite(LastCluster, f)
  <2>1. IsValid(f)
    BY <1>5, <1>7 DEF TakenInv, StoredValid
  <2>2. InRange(LastCluster, f)
    BY <1>4, <1>5, <1>7 DEF FitFacts, WaitFits
  <2> QED
    BY <1>3, <2>1, <2>2 DEF CanWrite, Steady
<1>9. /\ PlacesGrow({f}) /\ Gains(f) /\ pc' = "hold"
      /\ \A u \in TrackSet : Waiting(u)' = IF u = t THEN Tail(Waiting(u)) ELSE Waiting(u)
  BY <1>2, <1>8
<1>10. FrameFits' /\ FlushFits'
  BY <1>1, <1>3, <1>4, <1>9, FitStays
<1>11. FrameBehind'
  <2>1. Anchored
    BY <1>1, <1>5, <1>7 DEF Anchored, HasStored, Waiting
  <2> QED
    BY <1>1, <1>3, <1>4, <1>9, <2>1 DEF FitFacts, FrameBehind, At, Steady, Timecode
<1>12. WaitFits'
  <2> SUFFICES ASSUME NEW u \in TrackSet, NEW i \in DOMAIN Waiting(u)'
               PROVE  \/ InRange(LastCluster, Waiting(u)[i])'
                      \/ /\ Pending /\ u = frame.track /\ i = Len(Waiting(u)')
                         /\ Waiting(u)'[i].ts = frame.ts
    BY <1>1, <1>9 DEF WaitFits, Pending
  <2>1. PICK x : x = Waiting(u)'[i]
    OBVIOUS
  <2>2. \/ InRange(LastCluster, x)
        \/ Pending /\ u = frame.track /\ i = Len(Waiting(u)') /\ x.ts = frame.ts
    <3>1. CASE u # t
      <4>1. Waiting(u)' = Waiting(u)
        BY <1>9, <3>1
      <4> QED
        BY <1>4, <2>1, <4>1 DEF FitFacts, WaitFits
    <3>2. CASE u = t
      <4>1. Waiting(u)' = w
        BY <1>5, <1>6, <1>9, <3>2
      <4>2. /\ i + 1 \in DOMAIN r /\ x = r[i + 1] /\ (i + 1 = Len(r) => i = Len(w))
        BY <1>7, <2>1, <4>1
      <4>3. \/ InRange(LastCluster, x)
            \/ Pending /\ u = frame.track /\ i + 1 = Len(r) /\ x.ts = frame.ts
        BY <1>4, <1>5, <3>2, <4>2 DEF FitFacts, WaitFits
      <4> QED
        BY <4>1, <4>2, <4>3
    <3> QED
      BY <3>1, <3>2
  <2>3. InRange(LastCluster, x) => InRange(LastCluster, x)'
    BY <1>3 DEF Steady
  <2>4. InRange(LastCluster, x)' => InRange(LastCluster, Waiting(u)[i])'
    BY <2>1 DEF InRange, Timecode
  <2> QED
    BY <2>1, <2>2, <2>3, <2>4
<1>13. AllKept'
  <2>1. \A id : InBlocks(id) => InBlocks(id)'
    BY <1>9, BlocksStay
  <2>2. \A id : InWaiting(id) => InBlocks(id)' \/ InWaiting(id)'
    BY <1>2, <1>5, <1>7, <1>9, FirstLeaves
  <2>3. \A id : InQueue(id) => InQueue(id)'
    BY <1>1 DEF InQueue
  <2> QED
    BY <1>1, <1>4, <2>1, <2>2, <2>3, AllKeptNext DEF FitFacts, Kept
<1> QED
  BY <1>9, <1>10, <1>11, <1>12, <1>13 DEF FitFacts, LastBehind

\* So is what Cluster::Finalize writes.
LEMMA FitCloseStored ==
  ASSUME IInv, IInv', OpenInv, TakenInv, FitInv, CloseStored
  PROVE  FitInv'
<1> USE DEF IInv
<1> SUFFICES ASSUME FeedFits' PROVE FitFacts'
  BY DEF FitInv
<1>1. /\ pc = "close" /\ clusters # << >> /\ UNCHANGED << queue, accepted, call, lastTs >>
  BY CloseStoredEffect
<1>2. PICK t \in TrackSet, f \in Frame :
        /\ Waiting(t) \in Seq(Frame) /\ Waiting(t) # << >>
        /\ f = WithLastDuration(LastCluster, Head(Waiting(t)), call = "frame", frame.ts)
        /\ f.id = Head(Waiting(t)).id /\ f.ts = Head(Waiting(t)).ts /\ f.track = t
        /\ CanWrite(LastCluster, f) => PlacesGrow({f}) /\ Gains(f) /\ Goto("close")
        /\ \A u \in TrackSet : Waiting(u)' = IF u = t THEN Tail(Waiting(u)) ELSE Waiting(u)
  BY CloseStoredEffect
<1>3. Steady /\ frame \in Frame
  BY WritesSteady DEF WritesToLast, TypeOK
<1>4. FeedFits /\ FitFacts
  BY <1>1, <1>3, FitBefore
<1>5. PICK r : r = Waiting(t)
  OBVIOUS
<1>6. PICK w : w = Tail(r)
  OBVIOUS
<1>7. /\ r \in Seq(Frame) /\ 1 \in DOMAIN r /\ Head(r) = r[1] /\ r # << >> /\ r[1] \in Frame
      /\ \A i \in DOMAIN w : i + 1 \in DOMAIN r /\ w[i] = r[i + 1]
  BY <1>2, <1>5, <1>6
<1>8. \A u \in TrackSet : \A i \in DOMAIN Waiting(u) : InRange(LastCluster, Waiting(u)[i])
  BY <1>1, <1>4 DEF FitFacts, WaitFits, Pending
<1>9. CanWrite(LastCluster, f)
  <2>1. LastCluster \in Cluster
    BY <1>1, LastOfDomain, ElementOfSeq DEF LastCluster
  <2>2. IsValid(r[1]) /\ InRange(LastCluster, r[1])
    BY <1>5, <1>7, <1>8 DEF TakenInv, StoredValid
  <2>3. r[1].track \in TrackSet /\ frame.ts \in Nat
    <3>1. Len(clusters) \in DOMAIN clusters /\ ByTrack(LastCluster)
      BY <1>1, LastOfDomain DEF WaitingByTrack, LastCluster
    <3>2. LastCluster.stored[t] = r
      BY <1>1, <1>5 DEF Waiting
    <3>3. r[1].track = t
      BY <1>7, <2>1, <3>1, <3>2, DropStoredByTrack
    <3> QED
      BY <1>3, <3>3, FrameFields
  <2>4. IsValid(f)
    BY <1>2, <1>5, <1>7, <2>1, <2>2, <2>3, LastDurationValid
  <2>5. InRange(LastCluster, f)
    BY <1>2, <1>5, <1>7, <2>2 DEF InRange
  <2> QED
    BY <1>3, <2>4, <2>5 DEF CanWrite, Steady
<1>10. /\ PlacesGrow({f}) /\ Gains(f) /\ pc' = "close" /\ UNCHANGED frame
       /\ \A u \in TrackSet : Waiting(u)' = IF u = t THEN Tail(Waiting(u)) ELSE Waiting(u)
  BY <1>2, <1>9 DEF Goto
<1>11. Anchored
  BY <1>1, <1>5, <1>7 DEF Anchored, HasStored, Waiting
<1>12. FrameBehind' /\ LastBehind'
  BY <1>1, <1>3, <1>4, <1>10, <1>11 DEF FitFacts, FrameBehind, LastBehind, At, Steady, Timecode
<1>13. WaitFits'
  <2> SUFFICES ASSUME NEW u \in TrackSet, NEW i \in DOMAIN Waiting(u)'
               PROVE  InRange(LastCluster, Waiting(u)[i])'
    BY DEF WaitFits
  <2>1. PICK x : x = Waiting(u)'[i]
    OBVIOUS
  <2>2. InRange(LastCluster, x)
    <3>1. CASE u # t
      BY <1>8, <1>10, <2>1, <3>1
    <3>2. CASE u = t
      <4>1. Waiting(u)' = w
        BY <1>5, <1>6, <1>10, <3>2
      <4> QED
        BY <1>5, <1>7, <1>8, <2>1, <3>2, <4>1
    <3> QED
      BY <3>1, <3>2
  <2>3. InRange(LastCluster, x)'
    BY <1>3, <2>2 DEF Steady
  <2> QED
    BY <2>1, <2>3 DEF InRange, Timecode
<1>14. AllKept'
  <2>1. \A id : InBlocks(id) => InBlocks(id)'
    BY <1>10, BlocksStay
  <2>2. \A id : InWaiting(id) => InBlocks(id)' \/ InWaiting(id)'
    BY <1>2, <1>10, FirstLeaves
  <2>3. \A id : InQueue(id) => InQueue(id)'
    BY <1>1 DEF InQueue
  <2> QED
    BY <1>1, <1>4, <2>1, <2>2, <2>3, AllKeptNext DEF FitFacts, Kept
<1> QED
  BY <1>10, <1>12, <1>13, <1>14 DEF FitFacts, FrameFits, FlushFits, At

-----------------------------------------------------------------------------
(* The whole of it.                                                          *)

\* FitInv is kept by every step.
LEMMA FitNext ==
  ASSUME IInv, IInv', OpenInv, ClustersChained, QueueInv, CuesInv, TakenInv, FitInv,
         [Next]_vars
  PROVE  FitInv'
<1>1. CASE UNCHANGED vars
  <2> SUFFICES ASSUME FeedFits' PROVE FitFacts'
    BY DEF FitInv
  <2>1. FeedFits
    BY <1>1 DEF vars, FeedFits, FeedInOrder, FeedValid, FeedDense, LeadFits, IsValid,
                CanBeSimpleBlock, Duration, Timecode
  <2>2. FitFacts
    BY <2>1 DEF FitInv
  <2>3. \A t : Waiting(t)' = Waiting(t)
    BY <1>1, WaitingSame DEF vars
  <2>4. Places' = Places /\ \A s : Block(s)' = Block(s)
    BY <1>1 DEF vars, Places, Block
  <2>5. FrameBehind' /\ LastBehind' /\ FlushFits'
    BY <1>1, <2>2 DEF vars, FitFacts, FrameBehind, LastBehind, FlushFits, QueueFits, At, Anchored,
                      HeaderWritten, HasStored, LastCluster, InRange, Timecode
  <2>6. FrameFits'
    BY <1>1, <2>2 DEF vars, FitFacts, FrameFits, At, Pending, Joins, LastCluster, InRange, Timecode
  <2>7. WaitFits'
    BY <1>1, <2>2, <2>3 DEF vars, FitFacts, WaitFits, Pending, LastCluster, InRange, Timecode
  <2>8. \A id : Kept(id) => Kept(id)'
    BY <1>1, <2>3, <2>4 DEF vars, Kept, InBlocks, InWaiting, InQueue
  <2>9. AllKept'
    BY <1>1, <2>2, <2>8, AllKeptNext DEF vars, FitFacts, IInv
  <2> QED
    BY <1>1, <2>2, <2>5, <2>6, <2>7, <2>9 DEF vars, FitFacts
<1> QED
  BY <1>1, FitCaller, FitInner, FitFlush, FitFlushOlderFails, FitWriteFrame, FitHold, FitRelease,
     FitCloseStored, FitCloseCluster, FitOpenCluster DEF Next, Step, Terminated

\* It holds at the start, where nothing was accepted.
LEMMA InitFit == Init => FitInv
<1> SUFFICES ASSUME Init PROVE FitFacts
  BY DEF FitInv
<1>1. clusters = << >> /\ queue = << >> /\ accepted = << >> /\ pc = "idle"
  BY DEF Init
<1>2. DOMAIN queue = {} /\ DOMAIN accepted = {} /\ \A t : DOMAIN Waiting(t) = {}
  BY <1>1 DEF Waiting
<1> QED
  BY <1>1, <1>2 DEF FitFacts, FrameBehind, LastBehind, FrameFits, FlushFits, QueueFits, WaitFits,
                    AllKept, At

\* The inductive invariant of the theorems.
FedInv == PlacedInv /\ TakenInv /\ FitInv

\* The invariant of the order and of the feed, together.
LEMMA FedInductive ==
  /\ Init => FedInv
  /\ FedInv /\ [Next]_vars => FedInv'
<1>1. Init => FedInv
  BY PlacedInductive, InitTaken, InitFit DEF FedInv
<1>2. ASSUME FedInv, [Next]_vars PROVE FedInv'
  <2>1. PlacedInv /\ PlacedInv' /\ TakenInv /\ FitInv
    BY <1>2, PlacedInductive DEF FedInv
  <2>2. IInv /\ IInv' /\ OpenInv /\ ClustersChained /\ QueueInv /\ CuesInv
    BY <2>1 DEF PlacedInv, BaseInv, PlaceInv
  <2>3. TakenInv'
    BY <1>2, <2>1, <2>2, TakenNext
  <2>4. FitInv'
    BY <1>2, <2>1, <2>2, FitNext
  <2> QED
    BY <2>1, <2>3, <2>4 DEF FedInv
<1> QED
  BY <1>1, <1>2

\* Of the lists of held back frames only the last cluster's hold any.
LEMMA OnlyLastWaits ==
  ASSUME TypeOK, OpenInv, FinalizedEmpty
  PROVE  \A id : id \in StoredIds <=> InWaiting(id)
<1>1. clusters \in Seq(Cluster)
  BY DEF TypeOK
<1>2. ASSUME NEW id, InWaiting(id) PROVE id \in StoredIds
  <2>1. PICK t \in TrackSet : \E j \in DOMAIN Waiting(t) : Waiting(t)[j].id = id
    BY <1>2 DEF InWaiting
  <2>2. clusters # << >>
    <3>1. ASSUME clusters = << >> PROVE DOMAIN Waiting(t) = {}
      BY <3>1 DEF Waiting
    <3> QED
      BY <2>1, <3>1
  <2>3. PICK n : n = Len(clusters)
    OBVIOUS
  <2>4. n \in DOMAIN clusters /\ Waiting(t) = clusters[n].stored[t]
    BY <2>2, <2>3, LastOfDomain DEF Waiting, LastCluster
  <2> DEFINE ids(k, u) == { clusters[k].stored[u][i].id : i \in DOMAIN clusters[k].stored[u] }
  <2>5. id \in ids(n, t)
    BY <2>1, <2>4
  <2>6. StoredIds = UNION { ids(k, u) : k \in DOMAIN clusters, u \in TrackSet }
    BY DEF StoredIds
  <2> HIDE DEF ids
  <2>7. ids(n, t) \in { ids(k, u) : k \in DOMAIN clusters, u \in TrackSet }
    BY <2>4
  <2> QED
    BY <2>5, <2>6, <2>7
<1>3. ASSUME NEW id, id \in StoredIds PROVE InWaiting(id)
  <2>1. PICK k \in DOMAIN clusters, t \in TrackSet :
          \E i \in DOMAIN clusters[k].stored[t] : clusters[k].stored[t][i].id = id
    BY <1>3 DEF StoredIds
  <2>2. PICK i \in DOMAIN clusters[k].stored[t] : clusters[k].stored[t][i].id = id
    BY <2>1
  <2>3. PICK n : n = Len(clusters)
    OBVIOUS
  <2>4. n \in Nat /\ k \in 1 .. n /\ clusters # << >>
    BY <1>1, <2>3
  <2>5. k = n
    <3>1. ASSUME k # n PROVE FALSE
      <4>1. k \in 1 .. n - 1
        BY <2>4, <3>1
      <4>2. clusters[k].finalized
        BY <2>3, <4>1 DEF OpenInv
      <4>3. clusters[k].stored[t] = << >>
        BY <4>2 DEF FinalizedEmpty
      <4> QED
        BY <2>2, <4>3
    <3> QED
      BY <3>1
  <2>6. Waiting(t) = clusters[k].stored[t]
    BY <2>3, <2>4, <2>5 DEF Waiting, LastCluster
  <2> QED
    BY <2>2, <2>6 DEF InWaiting
<1> QED
  BY <1>2, <1>3

\* A feed of valid frames in time order, no two in a row further apart than a
\* block can be from its cluster and no audio further ahead of the first
\* cluster: the muxer never reads a frame it has deleted, however it is set up.
THEOREM UndefinedOnlyUnfit == Spec => []UndefinedOnlyIfUnfit
<1>1. FedInv => UndefinedOnlyIfUnfit
  BY DEF FedInv, FitInv, FitFacts, UndefinedOnlyIfUnfit
<1> QED
  BY <1>1, FedInductive, PTL DEF Spec

\* With such a feed, between two calls the frames that AddFrame returned true
\* for are those in the file, held back and queued; after a successful Finalize
\* none is held back or queued, so they are all in the file.
THEOREM NothingIsLost == Spec => []NothingLost
<1>1. ASSUME FedInv, Resting, FeedFits
      PROVE  /\ AcceptedIds = BlockIds \cup StoredIds \cup QueuedIds
             /\ pc = "done" /\ ret => StoredIds \cup QueuedIds = {}
  <2>1. /\ TypeOK /\ OpenInv /\ FinalizedEmpty /\ FitFacts /\ Ending
        /\ BlocksKnown /\ StoredKnown /\ QueueKnown
    BY <1>1 DEF FedInv, FitInv, FitFacts, PlacedInv, BaseInv, IInv, TakenInv, OrderInv, WaitingOrder
  <2>2. ~Pending
    BY <1>1 DEF Resting, Pending
  <2>3. \A id : id \in StoredIds <=> InWaiting(id)
    BY <2>1, OnlyLastWaits
  <2>4. /\ \A id : id \in BlockIds <=> InBlocks(id)
        /\ \A id : id \in QueuedIds <=> InQueue(id)
    BY <2>1, SlotsArePlaces DEF BlockIds, InBlocks, QueuedIds, InQueue
  <2>5. ASSUME NEW id \in AcceptedIds PROVE id \in BlockIds \cup StoredIds \cup QueuedIds
    BY <2>1, <2>3, <2>4 DEF AcceptedIds, FitFacts, AllKept, Kept
  <2>6. \A x : Known(x) => x.id \in AcceptedIds
    BY DEF Known, AcceptedIds
  <2>7. ASSUME NEW id \in BlockIds \cup StoredIds \cup QueuedIds PROVE id \in AcceptedIds
    <3>1. CASE id \in BlockIds
      BY <2>1, <2>4, <2>6, <3>1 DEF InBlocks, BlocksKnown
    <3>2. CASE id \in StoredIds
      BY <2>1, <2>2, <2>3, <2>6, <3>2 DEF InWaiting, StoredKnown
    <3>3. CASE id \in QueuedIds
      BY <2>1, <2>4, <2>6, <3>3 DEF InQueue, QueueKnown
    <3> QED
      BY <3>1, <3>2, <3>3
  <2>8. ASSUME pc = "done", ret PROVE StoredIds \cup QueuedIds = {}
    <3>1. queue = << >> /\ \A t \in TrackSet : Waiting(t) = << >>
      BY <2>1, <2>8 DEF Ending
    <3>2. \A id : ~InWaiting(id) /\ ~InQueue(id)
      BY <3>1 DEF InWaiting, InQueue
    <3> QED
      BY <2>3, <2>4, <3>2
  <2> QED
    BY <2>5, <2>7, <2>8
<1>2. FedInv => NothingLost
  BY <1>1 DEF NothingLost
<1> QED
  BY <1>2, FedInductive, PTL DEF Spec
=============================================================================
