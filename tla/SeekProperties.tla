--------------------------- MODULE SeekProperties ---------------------------
(* What a caller may expect of seeking, whatever has been loaded so far and    *)
(* wherever the Cues are.                                                   *)
EXTENDS ParserSeek

\* The blocks of a track in the clusters up to n, and the order of a file.
BlocksOf(track, n) == UNION { {c} \X OfTrack(c, 1, track) : c \in 1 .. n }
Before(d, e) == d[1] < e[1] \/ (d[1] = e[1] /\ d[2] < e[2])
Time(e) == BlockOf(e).time

\* When the Cues have moved, each point names the cluster that it named before
\* and so does the seek head, with every growth of the Cues taken into account.
CuesMoved ==
  stage = "moved" =>
    /\ \A i \in DOMAIN cues : \A c \in 1 .. N :
         file.points[i].cluster_pos = file.clusters[c].pos => cues[i].cluster_pos = ClusterPos(c)
    /\ seek_head["Cluster"] = ClusterPos(1) /\ seek_head["Cues"] = file.clusters[1].pos

\* A point that is loaded leads to a block of its track at its time, if its
\* cluster has one and each may be sought, even if it counts the blocks wrongly.
PointsFindBlocks ==
  \A i \in 1 .. m_count :
    LET p      == cues[i]
        meant  == { e \in BlocksOf(p.track, N) : ClusterPos(e[1]) = p.cluster_pos /\ Time(e) = p.time }
    IN  meant # {} /\ (\A e \in meant : VetEntry(BlockOf(e))) => GetBlock(p) \in meant

\* Seeking in a video finds the last key frame up to the time among the clusters
\* that are loaded, or one at its time, or the first of all.
SeekExact ==
  \A track \in { t \in Tracks : Types[t] = 1 }, time \in Times :
    LET keys == { e \in BlocksOf(track, m_clusterCount) : BlockOf(e).key }
        upto == { e \in keys : Time(e) <= time }
        r    == Seek(track, time)
    IN  keys # {} /\ IsBlock(GetFirst(track)) =>
          IF upto = {} THEN r \in keys /\ \A e \in keys : ~Before(e, r)
          ELSE r \in upto /\ \A e \in upto : Before(r, e) => Time(e) = Time(r)

\* Both ways to seek agree: the point that is found for a time leads to the time
\* that seeking in the track finds, or to an earlier one if that has no point.
SeeksAgree ==
  m_pos = Stop /\ file.bad = {} /\ m_clusterCount = N =>
    \A track \in { t \in Tracks : Types[t] = 1 }, time \in Times :
      FindInCues(time, track) =>
        LET b == GetBlock(cues[FindPoint(time)])
            s == Seek(track, time)
        IN  IsBlock(b) /\ IsBlock(s) =>
              \/ Time(b) = Time(s)
              \/ Before(b, s) /\ \A i \in DOMAIN cues : cues[i].track = track => Time(s) # cues[i].time

\* A walk comes to a track's blocks in the order of the file, from loaded
\* clusters and beyond them.  It stops short only where too many clusters in a
\* row have none, or what follows is not loaded.
WalkFollows ==
  [][ GetNextEntry =>
        LET behind == { e \in BlocksOf(BlockOf(entry).track, N) : Before(entry, e) }
        IN  IF IsBlock(entry')
            THEN entry' \in behind /\ \A e \in behind : ~Before(e, entry')
            ELSE \A e \in behind :
                   \/ Cardinality(WithBlocks \cap (entry[1] + 1 .. e[1])) >= kMaxWalk
                   \/ e[1] > m_clusterCount /\ ~done ]_vars

\* Loading cue points comes to an end, with all of them loaded unless one of
\* the Cues' children is at fault.
PointsLoad ==
  [](Opens => <>(m_pos = Stop \/ ~Opens))
    /\ [](m_pos = Stop /\ file.bad = {} /\ file.cut = Stop => m_count = Len(cues))
=============================================================================
