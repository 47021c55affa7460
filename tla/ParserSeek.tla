----------------------------- MODULE ParserSeek -----------------------------
(* Seeking and walking in a file with mkvparser: Cues loads its points one at  *)
(* a time and finds one by time, Segment::GetBlock finds the block a point     *)
(* names, Track::Seek searches the clusters that are loaded, and Track::GetNext *)
(* walks over a track's blocks.  The file is the muxer's, with its Cues where   *)
(* it put them.  Clusters have known sizes, and their blocks are parsed on      *)
(* demand as ParserClusters says.                                             *)
EXTENDS CuesFirst

CONSTANTS kMaxWalk,        \* 100: how many clusters a walk looks through
          Tracks, Types,   \* the tracks, and their types by track: 1 video, 2 audio
          Times,
          MaxPreloaded     \* bounds the clusters that points lead to before they are loaded

BlockRecords == [ track : Tracks, time : Nat, key : BOOLEAN ]
ClusterRecords == [ pos : Nat, time : Nat, blocks : Seq(BlockRecords) ]

\* From a feed in time order the muxer writes clusters one behind the other, each
\* from the time of its first block on, the blocks of a track in the order of
\* their times, and no point that counts more blocks than its cluster has; a
\* count of 0 is left out of the file and read as 1.
ASSUME ClustersAssumption ==
  \A f \in Files :
    /\ f.clusters \in Seq(ClusterRecords)
    /\ \A c \in DOMAIN f.clusters, d \in DOMAIN f.clusters :
         LET b == f.clusters[c].blocks
             e == f.clusters[d].blocks
         IN  /\ c < d => f.clusters[c].pos < f.clusters[d].pos /\ f.clusters[c].time <= f.clusters[d].time
             /\ \A i \in DOMAIN b : f.clusters[c].time <= b[i].time
             /\ \A i \in DOMAIN b, j \in DOMAIN e :
                  (c < d \/ (c = d /\ i < j)) /\ b[i].track = e[j].track => b[i].time <= e[j].time
    /\ \A i \in DOMAIN f.points, c \in DOMAIN f.clusters :
         f.points[i].cluster_pos = f.clusters[c].pos
           => f.points[i].block_number \in DOMAIN f.clusters[c].blocks

\* The Cues have all points, among other children.
ASSUME KidsAssumption ==
  \A f \in Files : /\ f.kids \in Seq(STRING)
                    /\ Cardinality({ k \in DOMAIN f.kids : f.kids[k] = "CuePoint" }) = Len(f.points)

ASSUME WalkAssumption == kMaxWalk \in Nat
ASSUME TypesAssumption == Types \in [ Tracks -> {1, 2} ] /\ Times \subseteq Nat

VARIABLES m_pos,             \* of Cues: the next of its children
          m_count, m_preload_count,
          m_clusterCount,    \* of Segment
          preloaded,         \* clusters that a point led to before they were loaded
          done,              \* DoneParsing
          entry              \* the block the caller holds: << cluster, index >>
loadVars == << m_pos, m_count, m_preload_count >>
clusterVars == << m_clusterCount, preloaded, done >>
vars == << cuesVars, loadVars, clusterVars, entry >>

EOS == << 0, 0 >>          \* or NULL
NotFull == << -1, 0 >>     \* E_BUFFER_NOT_FULL
IsBlock(e) == e[1] > 0

N == Len(file.clusters)
Blocks(c) == file.clusters[c].blocks
BlockOf(e) == Blocks(e[1])[e[2]]

-----------------------------------------------------------------------------
(* Cues.  Its children are cue points and others; from file.cut on one reaches *)
(* beyond the Cues' end, and the points in file.bad do not parse.              *)
ReaderInit ==
  /\ m_pos = 1 /\ m_count = 0 /\ m_preload_count = 0
  /\ m_clusterCount = 0 /\ preloaded = {} /\ done = FALSE
  /\ entry = EOS

IsPoint(k) == file.kids[k] = "CuePoint"
PointsUpTo(k) == Cardinality({ i \in 1 .. k : IsPoint(i) })
Stop == Len(file.kids) + 1

\* Cues::Init: every point is preloaded on the first call.
InitPreloads == IF m_count + m_preload_count > 0 THEN m_preload_count ELSE PointsUpTo(file.cut - 1)

\* Mutant: an error leaves m_pos where it is.
StopAtPoint(k) == k

\* An error leaves nothing to load.
StopAt(k) == Stop

LoadCuePoint ==
  /\ m_pos < Stop
  /\ LET ahead == { k \in m_pos .. Len(file.kids) : IsPoint(k) }
         k     == Min(ahead)
     IN  IF file.cut < Stop \/ ahead = {}
         THEN /\ m_pos' = Stop /\ m_preload_count' = InitPreloads /\ UNCHANGED m_count
         ELSE IF m_count + 1 \in file.bad
         THEN /\ m_pos' = StopAt(k) /\ m_preload_count' = InitPreloads /\ UNCHANGED m_count
         ELSE /\ m_pos' = k + 1 /\ m_count' = m_count + 1 /\ m_preload_count' = InitPreloads - 1
  /\ UNCHANGED << cuesVars, clusterVars, entry >>

\* Mutant: the first point that is not before the time.
FindPointBehind(time) ==
  IF time > cues[m_count].time THEN m_count
  ELSE Min({ i \in 1 .. m_count : cues[i].time >= time })

\* Cues::Find: the last loaded point up to the time, or the first of all.
FindPoint(time) ==
  IF time <= cues[1].time THEN 1
  ELSE Max({ i \in 1 .. m_count : cues[i].time <= time })

FindInCues(time, track) ==
  m_count > 0 /\ cues[FindPoint(time)].track = track

-----------------------------------------------------------------------------
(* Clusters and their blocks.                                               *)
LoadCluster ==
  /\ ~done
  /\ IF m_clusterCount < N
     THEN /\ m_clusterCount' = m_clusterCount + 1
          /\ preloaded' = preloaded \ {m_clusterCount'}
          /\ done' = (m_clusterCount' = N /\ stage = "moved")
     ELSE done' = TRUE /\ UNCHANGED << m_clusterCount, preloaded >>
  /\ UNCHANGED << cuesVars, loadVars, entry >>

\* The rest of a cluster that belongs to a track.
OfTrack(c, i, track) == { j \in i .. Len(Blocks(c)) : Blocks(c)[j].track = track }

VetEntry(b) == Types[b.track] = 1 => b.key

\* Mutant: the block with the number must be the one.
EntryByNumber(c, p) ==
  LET named == p.block_number
  IN  IF named <= Len(Blocks(c)) /\ Blocks(c)[named].track = p.track /\ Blocks(c)[named].time = p.time
      THEN << c, named >> ELSE EOS

\* Cluster::GetEntry(cp, tp): the block with the number if it is the one, else
\* the first of the track that is not before the time.
EntryOfPoint(c, p) ==
  LET named  == p.block_number
      isNamed == named <= Len(Blocks(c)) /\ Blocks(c)[named].track = p.track /\ Blocks(c)[named].time = p.time
      behind == { j \in OfTrack(c, 1, p.track) : Blocks(c)[j].time >= p.time }
      b      == Blocks(c)[Min(behind)]
  IN  IF named > Len(Blocks(c)) THEN EOS
      ELSE IF isNamed THEN << c, named >>
      ELSE IF behind # {} /\ b.time = p.time /\ Types[b.track] \in {1, 2} /\ VetEntry(b)
      THEN << c, Min(behind) >> ELSE EOS

\* Segment::GetBlock: a cluster that is not in the array is preloaded.
At(pos) == { c \in 1 .. N : ClusterPos(c) = pos }
GetBlock(p) == IF At(p.cluster_pos) = {} THEN EOS
               ELSE EntryOfPoint(CHOOSE c \in At(p.cluster_pos) : TRUE, p)

SeekByCues ==
  /\ Cardinality(preloaded) < MaxPreloaded
  /\ \E time \in Times, track \in Tracks :
       /\ FindInCues(time, track)
       /\ LET p == cues[FindPoint(time)]
          IN  /\ entry' = GetBlock(p)
              /\ preloaded' = preloaded \cup (At(p.cluster_pos) \ 1 .. m_clusterCount)
  /\ UNCHANGED << cuesVars, loadVars, m_clusterCount, done >>

AtEndOfLoaded == IF done THEN EOS ELSE NotFull

\* Track::GetFirst: the first block of the track, a key frame of a video, in
\* the first clusters that have blocks.
Candidates(c, track) == { j \in OfTrack(c, 1, track) : VetEntry(Blocks(c)[j]) }
WithBlocks == { c \in 1 .. N : Blocks(c) # << >> }
GetFirst(track) ==
  LET found   == { c \in 1 .. m_clusterCount : Candidates(c, track) # {} }
      looked(c) == Cardinality(WithBlocks \cap 1 .. c)
  IN  IF found # {} /\ looked(Min(found)) <= kMaxWalk
      THEN << Min(found), Min(Candidates(Min(found), track)) >>
      ELSE IF looked(m_clusterCount) >= kMaxWalk THEN EOS ELSE AtEndOfLoaded

\* Mutant: the last frame up to the time, of whatever kind.
EntryAtAny(c, track, time) ==
  LET upto == { j \in OfTrack(c, 1, track) : Blocks(c)[j].time <= time }
  IN  IF upto = {} THEN EOS ELSE << c, Max(upto) >>

\* Cluster::GetEntry(pTrack, time_ns): the last candidate before the track's
\* first block behind the time.
EntryAt(c, track, time) ==
  LET behind == { j \in OfTrack(c, 1, track) : Blocks(c)[j].time > time }
      upto   == { j \in Candidates(c, track) : \A k \in behind : j < k }
  IN  IF upto = {} THEN EOS ELSE << c, Max(upto) >>

\* Cluster::GetEntry(pTrack): without a time, the first candidate.
EntryOf(c, track) ==
  IF Candidates(c, track) = {} THEN EOS ELSE << c, Min(Candidates(c, track)) >>

\* Track::Seek and VideoTrack::Seek: back from the last loaded cluster that does
\* not begin behind the time.
Seek(track, time) ==
  LET first   == GetFirst(track)
      upto    == { c \in first[1] .. m_clusterCount : file.clusters[c].time <= time }
      found(c) == IF Types[track] = 1 THEN EntryAt(c, track, time) ELSE EntryOf(c, track)
      hits    == { c \in upto : IsBlock(found(c)) }
  IN  IF ~IsBlock(first) \/ time <= BlockOf(first).time THEN first
      ELSE IF hits = {} THEN EOS ELSE found(Max(hits))

SeekTrack ==
  /\ \E time \in Times, track \in Tracks : entry' = Seek(track, time)
  /\ UNCHANGED << cuesVars, loadVars, clusterVars >>

\* Track::GetNext: the next block of the track in the cluster, else in one of
\* the next clusters that have blocks.  Behind a loaded cluster they are those
\* that are loaded, behind another they are looked up in the file.  The last
\* cluster a walk comes to is not looked into.
InFile(c) == c > m_clusterCount
Later(e) ==
  LET track == BlockOf(e).track
      ahead == WithBlocks \cap (e[1] + 1 .. IF InFile(e[1]) THEN N ELSE m_clusterCount)
      here  == OfTrack(e[1], e[2] + 1, track)
      found == { c \in ahead : OfTrack(c, 1, track) # {} }
  IN  [ here   |-> here, found |-> found,
        walked |-> IF here # {} THEN {}
                   ELSE { c \in ahead : \A f \in found : c <= f } ]

\* Mutant: the rest of the cluster is left out.
GetNextCluster(e) ==
  LET later == Later(e)
      next  == Min(later.found)
  IN  IF later.found = {} THEN EOS ELSE << next, Min(OfTrack(next, 1, BlockOf(e).track)) >>

GetNext(e) ==
  LET later == Later(e)
      next  == Min(later.found)
  IN  IF later.here # {} THEN << e[1], Min(later.here) >>
      ELSE IF Cardinality(later.walked) >= kMaxWalk THEN EOS
      ELSE IF later.found # {} THEN << next, Min(OfTrack(next, 1, BlockOf(e).track)) >>
      ELSE IF InFile(e[1]) THEN EOS ELSE AtEndOfLoaded

\* A walk behind the loaded clusters preloads those it comes to.
GetNextEntry ==
  /\ IsBlock(entry) /\ entry' = GetNext(entry)
  /\ preloaded' = preloaded \cup
       { c \in Later(entry).walked \ 1 .. m_clusterCount :
           Cardinality({ w \in Later(entry).walked : w < c }) < kMaxWalk }
  /\ UNCHANGED << cuesVars, loadVars, m_clusterCount, done >>

-----------------------------------------------------------------------------
Init == CuesInit /\ ReaderInit

\* The caller opens the file that it finalized, or the one with the Cues first.
Opens  == stage \in {"finalized", "moved"}
Unread == m_pos = 1 /\ m_clusterCount = 0 /\ preloaded = {} /\ ~done

MovesCues  == Unread /\ CuesNext /\ UNCHANGED << loadVars, clusterVars, entry >>
LoadsPoint == Opens /\ LoadCuePoint
Next ==
  \/ MovesCues \/ LoadsPoint
  \/ Opens /\ (LoadCluster \/ SeekByCues \/ SeekTrack \/ GetNextEntry)

\* A caller loads cue points until there are no more.
Spec == Init /\ [][Next]_vars /\ WF_vars(LoadsPoint)
=============================================================================
