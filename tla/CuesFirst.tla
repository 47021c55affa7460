----------------------------- MODULE CuesFirst -----------------------------
(* CopyAndMoveCuesBeforeClusters of mkvmuxer: a second file is written with    *)
(* the Cues before the first cluster.  All clusters move by the size of the    *)
(* Cues, which may grow as the positions in it do: MoveCuesBeforeClustersHelper *)
(* calls itself for all cue points whenever one has grown.  calls is its stack, *)
(* each with how far it moves the points and which of them is next.            *)
EXTENDS Elements

CONSTANT Files   \* what a muxer has finalized

\* Finalize leaves numbers and a seek head with the first cluster and the Cues.
CuePoints == [ track : Nat, time : Nat, cluster_pos : Nat, block_number : Nat ]
ASSUME FinalizedAssumption ==
  \A f \in Files :
    /\ f.points \in Seq(CuePoints)
    /\ \A c \in 1 .. Len(f.clusters) : f.clusters[c].pos \in Nat
    /\ {"Cluster", "Cues"} \subseteq DOMAIN f.seek_head
    /\ f.seek_head = [ id \in DOMAIN f.seek_head |-> f.seek_head[id] ]
    /\ Len(f.clusters) \in Nat \ {0} /\ f.seek_head["Cluster"] = f.clusters[1].pos

VARIABLES file,
          stage,       \* of the second file: "finalized", "moving", "moved"
          cues,        \* cues_: the points as they are now
          seek_head,   \* seek_head_: a position by element
          cues_size,   \* the sum of the points' sizes that the calls share
          calls,
          shift        \* how far the clusters are behind their old places
cuesVars == << file, stage, cues, seek_head, cues_size, calls, shift >>

-----------------------------------------------------------------------------
CuePointSize(p) ==
  LET positions == EbmlElementSize("CueClusterPosition", p.cluster_pos)
                   + EbmlElementSize("CueTrack", p.track)
                   + (IF p.block_number > 1 THEN EbmlElementSize("CueBlockNumber", p.block_number) ELSE 0)
  IN  Whole("CuePoint", EbmlElementSize("CueTime", p.time) + Whole("CueTrackPositions", positions))

\* The sum of a sequence of numbers.
SumOf(v) ==
  LET upTo[n \in 0 .. Len(v)] == IF n = 0 THEN 0 ELSE upTo[n - 1] + v[n]
  IN  upTo[Len(v)]

PointsSize(points) == SumOf([ i \in DOMAIN points |-> CuePointSize(points[i]) ])

\* Cues::Size: the element with its header.
CuesSize(points) == Whole("Cues", PointsSize(points))

\* What Segment keeps once a file is finalized.
CuesInit ==
  /\ file \in Files /\ stage = "finalized"
  /\ cues = file.points /\ seek_head = file.seek_head
  /\ cues_size = 0 /\ calls = << >> /\ shift = 0

MoveCuesBeforeClusters ==
  /\ stage = "finalized" /\ stage' = "moving"
  /\ cues_size' = PointsSize(cues)
  /\ calls' = << [ diff |-> CuesSize(cues), next |-> 1 ] >>
  /\ UNCHANGED << file, cues, seek_head, shift >>

\* Mutant: the Cues' own header is taken to keep its length.
GrowthOfPoints(old, new) == new - old

\* How much longer the Cues are with the points' sizes at new rather than old.
Growth(old, new) == new - old + GetCodedUIntSize(new) - GetCodedUIntSize(old)

MoveCuesBeforeClustersHelper ==
  /\ stage = "moving" /\ calls # << >> /\ Last(calls).next <= Len(cues)
  /\ LET call  == Last(calls)
         moved == [cues[call.next] EXCEPT !.cluster_pos = @ + call.diff]
         diff  == Growth(cues_size, cues_size')
     IN  /\ cues' = [cues EXCEPT ![call.next] = moved]
         /\ cues_size' = cues_size + CuePointSize(moved) - CuePointSize(cues[call.next])
         /\ calls' = Append(Front(calls), [call EXCEPT !.next = @ + 1])
                       \o IF diff > 0 THEN << [ diff |-> diff, next |-> 1 ] >> ELSE << >>
  /\ UNCHANGED << file, stage, seek_head, shift >>

HelperReturns ==
  /\ stage = "moving" /\ calls # << >> /\ Last(calls).next > Len(cues)
  /\ calls' = Front(calls)
  /\ UNCHANGED << file, stage, cues, seek_head, cues_size, shift >>

\* The Cues are where the first cluster was.  The rest of the file is copied.
WriteCuesFirst ==
  /\ stage = "moving" /\ calls = << >> /\ stage' = "moved"
  /\ shift' = CuesSize(cues)
  /\ seek_head' = [ seek_head EXCEPT !["Cues"] = seek_head["Cluster"],
                                     !["Cluster"] = seek_head["Cluster"] + shift' ]
  /\ UNCHANGED << file, cues, cues_size, calls >>

CuesNext ==
  MoveCuesBeforeClusters \/ MoveCuesBeforeClustersHelper \/ HelperReturns \/ WriteCuesFirst

ClusterPos(c) == file.clusters[c].pos + shift
=============================================================================
