--------------------------- MODULE ParserClusters ---------------------------
(***************************************************************************)
(* mkvparser::Segment and mkvparser::Cluster: how the clusters and blocks  *)
(* of a file that may still grow are found.                                *)
(*                                                                         *)
(* m_clusters holds the loaded clusters, in file order and each with its   *)
(* index, and behind them the preloaded ones, which were reached through a *)
(* cue or from another preloaded cluster.  One caller, one thread: a call  *)
(* starts when the parser is idle; its loops are steps.                    *)
(***************************************************************************)
EXTENDS ParserFile, SequencesExt

VARIABLES
  pc,         \* where the running call stands
  api,        \* the running call, or the last one
  ret,        \* what the last call returned, or "running"
  result,     \* the cluster it returned, as its position
  curr,       \* pCurr of ParseNext and GetNext, as its position
  pos,        \* the local pos of DoParseNext, 0 when it does not run
  mPos,       \* m_pos: what has been consumed so far
  mUnknown,   \* m_pUnknownSize, as its place in the array, 0 for none
  clusters,   \* m_clusters
  count,      \* m_clusterCount
  mInfo, mTracks, mCues   \* m_pInfo, m_pTracks and m_pCues: found

calls  == << api, ret, result, curr, pos >>
array  == << clusters, count >>
found  == << mInfo, mTracks, mCues >>
source == << file, avail >>
vars   == << pc, calls, mPos, mUnknown, array, found, source >>

Preloaded == Len(clusters) - count   \* m_clusterPreloadCount

\* Cluster::Create.
NewCluster(p, index) ==
  [ start |-> p, index |-> index, pos |-> p, size |-> Unknown,
    loaded |-> FALSE, entries |-> << >> ]

Init ==
  /\ file \in Files /\ avail = file.start   \* CreateInstance has read the Segment's header
  /\ pc = "idle" /\ api = "none" /\ ret = "more" /\ result = 0 /\ curr = 0
  /\ pos = 0 /\ mPos = file.start /\ mUnknown = 0
  /\ clusters = << >> /\ count = 0
  /\ mInfo = FALSE /\ mTracks = FALSE /\ mCues = FALSE

Call(name, p) == api' = name /\ ret' = "running" /\ result' = 0 /\ curr' = p

Return(status, p) == pc' = "idle" /\ ret' = status /\ result' = p

\* A call that runs to its end in one step.
CallReturns(name, p, status, q) == /\ pc' = "idle" /\ api' = name /\ curr' = p
                                   /\ ret' = status /\ result' = q

\* The reader gets more of the file between two calls.
Grow == /\ pc = "idle"
        /\ avail' \in { a \in file.arrivals : a > avail }
        /\ UNCHANGED << pc, calls, mPos, mUnknown, array, found, file >>

-----------------------------------------------------------------------------
(* Segment::ParseHeaders, up to the first cluster.                          *)

ParseHeaders ==
  /\ pc = "idle" /\ api \in {"none", "headers"} /\ ret = "more"
  /\ pc' = "headers" /\ Call("headers", 0)
  /\ UNCHANGED << pos, mPos, mUnknown, array, found, source >>

\* The other calls follow once it has succeeded.
Ready == pc = "idle" /\ api # "none" /\ (api = "headers" => ret = "ok")

HeadersEnd == AtEnd(mPos) \/ (CanRead(mPos) /\ Id(mPos) = "Cluster")

AgainFound(p) == (Id(p) = "Info" /\ mInfo) \/ (Id(p) = "Tracks" /\ mTracks)

ReturnFromHeaders ==
  /\ pc = "headers"
  /\ \/ HeadersEnd /\ Return(IF mInfo /\ mTracks THEN "ok" ELSE "invalid", 0)
     \/ ~HeadersEnd /\ ~CanRead(mPos) /\ Return("more", 0)
     \/ /\ ~HeadersEnd /\ CanRead(mPos)
        /\ \/ ~InSegment(mPos) /\ Return("invalid", 0)
           \/ InSegment(mPos) /\ Stop(mPos) > avail /\ Return("more", 0)
           \/ /\ InSegment(mPos) /\ Stop(mPos) <= avail /\ AgainFound(mPos)
              /\ Return("invalid", 0)
  /\ UNCHANGED << api, curr, pos, mPos, mUnknown, array, found, source >>

ParseHeader ==
  /\ pc = "headers" /\ ~HeadersEnd
  /\ CanRead(mPos) /\ InSegment(mPos) /\ Stop(mPos) <= avail /\ ~AgainFound(mPos)
  /\ mInfo'   = (mInfo \/ Id(mPos) = "Info")
  /\ mTracks' = (mTracks \/ Id(mPos) = "Tracks")
  /\ mCues'   = (mCues \/ Id(mPos) = "Cues")
  /\ mPos'    = Stop(mPos)
  /\ UNCHANGED << pc, calls, mUnknown, array, source >>

-----------------------------------------------------------------------------
(* Cluster::Load and Cluster::Parse: from a cluster to what the call        *)
(* returns and the cluster after it.                                        *)

LoadStatus(c) == IF c.loaded THEN "some"
                 ELSE IF file.hdr[c.start].size = 0 THEN "none"
                 ELSE FirstEntry(c.start)

TimecodeEnd(p) == Stop(CHOOSE q \in Children(p) : Id(q) = "Timecode")

Loaded(c) == IF c.loaded THEN c
             ELSE [c EXCEPT !.loaded = TRUE, !.pos = TimecodeEnd(c.start),
                            !.size = IF Sized(c.start) THEN Stop(c.start) - c.start
                                     ELSE Unknown]

End(c) == c.start + c.size   \* of a cluster whose size is known

\* Mutant: the size is counted from the payload.
EndedFromPayload(c, stop) ==
  [ status |-> "end", cluster |-> [c EXCEPT !.pos = stop, !.size = stop - c.start - 1] ]

Ended(c, stop) == [ status |-> "end",
                    cluster |-> [c EXCEPT !.pos = stop, !.size = stop - c.start] ]

Same(c, status) == [ status |-> status, cluster |-> c ]

\* Mutant: the position does not move past the block.
ParseBlockInPlace(c, q) ==
  IF c.size = Unknown /\ Total # Unknown /\ Stop(q) > Total THEN Ended(c, Total)
  ELSE IF ~BlockReadable(q, c.size # Unknown) THEN Same(c, "more")
  ELSE [ status |-> "block", cluster |-> [c EXCEPT !.entries = Append(@, q)] ]

\* The next block.  In a cluster of unknown size one that the end of the file
\* cuts off ends the cluster.
ParseBlock(c, q) ==
  IF c.size = Unknown /\ Total # Unknown /\ Stop(q) > Total THEN Ended(c, Total)
  ELSE IF ~BlockReadable(q, c.size # Unknown) THEN Same(c, "more")
  ELSE [ status |-> "block",
         cluster |-> [c EXCEPT !.entries = Append(@, q), !.pos = Stop(q)] ]

\* No more blocks: the end of a cluster of unknown size is found here.
ParseEnd(c) ==
  IF c.size # Unknown
  THEN IF SeesEnd(c.start) THEN Ended(c, End(c)) ELSE Same(c, "more")
  ELSE IF SeesEnd(c.start) THEN Ended(c, ClusterStop(c.start))
  ELSE IF Terminators(c.start) = {} /\ Total # Unknown /\ avail = Total
  THEN Ended(c, Total)
  ELSE Same(c, "more")

ParseFrom(c, rest) ==
  IF c.size # Unknown /\ c.pos >= End(c) THEN Same(c, "end")
  ELSE IF rest = {} THEN ParseEnd(c)
  ELSE IF ~CanRead(Min(rest)) THEN Same(c, "more")
  ELSE ParseBlock(c, Min(rest))

Rest(c) == { q \in Entries(c.start) : q >= c.pos }

\* What Parse may come to: one outcome, as a set.
Parse(c) ==
  IF LoadStatus(c) = "some"
  THEN { ParseFrom(d, Rest(d)) : d \in { Loaded(c) } }
  ELSE { Same(c, IF LoadStatus(c) = "more" THEN "more" ELSE "invalid") }

\* The caller's way to them: Cluster::GetFirst, GetNext, GetLast and GetEntry
\* parse one block after another of a cluster it has.
ParseCluster(i) ==
  /\ Ready /\ i \in DOMAIN clusters
  /\ \E r \in Parse(clusters[i]) :
         /\ clusters' = [clusters EXCEPT ![i] = r.cluster]
         /\ CallReturns("parse", 0, r.status, 0)
  /\ UNCHANGED << pos, mPos, mUnknown, count, found, source >>

-----------------------------------------------------------------------------
(* Segment::LoadCluster: DoLoadCluster until it returns at most 1.          *)

\* The next to load, if it is preloaded, is the first of the preloaded.
First == clusters[count + 1]

LoadCluster ==
  /\ Ready
  /\ pc' = "load" /\ Call("load", 0)
  /\ UNCHANGED << pos, mPos, mUnknown, array, found, source >>

\* DoLoadClusterUnknownSize.
LoadUnknownSize ==
  /\ pc = "load" /\ mPos < 0
  /\ \E r \in Parse(clusters[mUnknown]) :
         /\ clusters' = [clusters EXCEPT ![mUnknown] = r.cluster]
         /\ \/ /\ r.status \in {"more", "invalid"}
               /\ Return(r.status, 0) /\ UNCHANGED << mPos, mUnknown >>
            \/ /\ r.status = "block"
               /\ UNCHANGED << pc, ret, result, mPos, mUnknown >>
            \/ /\ r.status = "end"
               /\ mPos' = End(r.cluster) /\ mUnknown' = 0
               /\ UNCHANGED << pc, ret, result >>
  /\ UNCHANGED << api, curr, pos, count, found, source >>

ReturnFromLoad ==
  /\ pc = "load" /\ mPos >= 0
  /\ \/ AtEnd(mPos) /\ Return("none", 0)
     \/ ~AtEnd(mPos) /\ ~CanRead(mPos) /\ Return("more", 0)
     \/ ~AtEnd(mPos) /\ CanRead(mPos) /\ ~InSegment(mPos) /\ Return("invalid", 0)
  /\ UNCHANGED << api, curr, pos, mPos, mUnknown, array, found, source >>

AtLoadable == /\ pc = "load" /\ mPos >= 0
              /\ ~AtEnd(mPos) /\ CanRead(mPos) /\ InSegment(mPos)

AtCluster(p) == Id(p) = "Cluster" /\ file.hdr[p].size # 0

LoadSkipsElement ==
  /\ AtLoadable /\ ~AtCluster(mPos)
  /\ mPos'  = Stop(mPos)
  /\ mCues' = (mCues \/ (Id(mPos) = "Cues" /\ file.hdr[mPos].size # 0))
  /\ UNCHANGED << pc, calls, mUnknown, array, mInfo, mTracks, source >>

\* The cluster has been preloaded: it becomes a loaded one.
AdoptPreloaded ==
  /\ AtLoadable /\ AtCluster(mPos) /\ HasBlockEntries(mPos) # "more"
  /\ Preloaded > 0 /\ First.start = mPos
  /\ IF HasBlockEntries(mPos) = "none" \/ (~Sized(mPos) /\ First.size = Unknown)
     THEN Return("invalid", 0) /\ UNCHANGED << mPos, array >>
     ELSE /\ mPos' = IF Sized(mPos) THEN Stop(mPos) ELSE End(First)
          /\ clusters' = [clusters EXCEPT ![count + 1].index = count]
          /\ count' = count + 1
          /\ Return("ok", mPos)
  /\ UNCHANGED << api, curr, pos, mUnknown, found, source >>

ClusterUnderflows ==
  /\ AtLoadable /\ AtCluster(mPos) /\ HasBlockEntries(mPos) = "more"
  /\ Return("more", 0)
  /\ UNCHANGED << api, curr, pos, mPos, mUnknown, array, found, source >>

IsNew == Preloaded > 0 => First.start # mPos

\* Mutants: the payload is counted from the header; nothing is consumed.
PassedFromHeader(p) == IF Sized(p) THEN Stop(p) - 1 ELSE p + 1
PassedInPlace(p)    == IF Sized(p) THEN Stop(p) ELSE p

\* A cluster without blocks is passed over; of one of unknown size only the
\* header is, what is in it comes next.
Passed(p) == IF Sized(p) THEN Stop(p) ELSE p + 1

LoadSkipsCluster ==
  /\ AtLoadable /\ AtCluster(mPos) /\ IsNew /\ HasBlockEntries(mPos) = "none"
  /\ LET next == Passed(mPos)
     IN  \/ AtTotal(next) /\ mPos' = Total /\ Return("none", 0)
         \/ /\ ~AtTotal(next) /\ AtSegmentStop(next)
            /\ mPos' = SegmentStop /\ Return("none", 0)
         \/ ~AtEnd(next) /\ mPos' = next /\ UNCHANGED << pc, ret, result >>
  /\ UNCHANGED << api, curr, pos, mUnknown, array, found, source >>

\* Mutants: the new cluster goes behind the preloaded ones; it takes the place
\* of the first of them.
AppendAtEnd(c) == Append(clusters, c)
AppendOver(c)  == IF Preloaded > 0 THEN [clusters EXCEPT ![count + 1] = c]
                  ELSE Append(clusters, c)

\* AppendCluster: the preloaded clusters move up.
AppendCluster(c) == InsertAt(clusters, count + 1, c)

LoadNewCluster ==
  /\ AtLoadable /\ AtCluster(mPos) /\ IsNew /\ HasBlockEntries(mPos) = "some"
  /\ clusters' = AppendCluster(NewCluster(mPos, count))
  /\ count' = count + 1
  /\ IF Sized(mPos) THEN mPos' = Stop(mPos) /\ UNCHANGED mUnknown
     ELSE mPos' = -(mPos + 1) /\ mUnknown' = count + 1
  /\ Return("ok", mPos)
  /\ UNCHANGED << api, curr, pos, found, source >>

-----------------------------------------------------------------------------
(* Clusters by position: the binary searches of the array.                  *)

\* The place of the cluster at p among the places i to j - 1, or else the place
\* to put it.  "probe" is the last cluster that was looked at and is not p.
Search(first, last, p) ==
  LET s[window \in (first .. last) \X (first .. last)] ==
        LET i == window[1]
            j == window[2]
            k == i + (j - i) \div 2
        IN  IF i >= j THEN [ hit |-> FALSE, at |-> i, probe |-> 0 ]
            ELSE IF clusters[k].start = p THEN [ hit |-> TRUE, at |-> k, probe |-> 0 ]
            ELSE LET r == IF clusters[k].start < p THEN s[<< k + 1, j >>] ELSE s[<< i, k >>]
                 IN  IF r.probe = 0 THEN [r EXCEPT !.probe = clusters[k].start] ELSE r
  IN  s[<< first, last >>]

SearchPreloaded(p) == Search(count + 1, Len(clusters) + 1, p)
SearchAll(p)       == Search(1, Len(clusters) + 1, p)

\* PreloadCluster refuses a place among the loaded clusters.
PreloadCluster(p, place) ==
  place > count /\ clusters' = InsertAt(clusters, place, NewCluster(p, -1))

\* The caller has read the cue points.
CuesReadable == mCues /\ \A p \in Headers : Id(p) = "Cues" => Stop(p) <= avail

\* FindOrPreloadCluster, for a cue point of the file.
FindOrPreloadCluster(off) ==
  /\ Ready /\ CuesReadable
  /\ LET p == file.start + off
         s == SearchAll(p)
     IN  \/ s.hit /\ UNCHANGED clusters /\ CallReturns("find", 0, "ok", p)
         \/ ~s.hit /\ PreloadCluster(p, s.at) /\ CallReturns("find", 0, "ok", p)
         \/ ~s.hit /\ s.at <= count /\ UNCHANGED clusters /\ CallReturns("find", 0, "none", 0)
  /\ UNCHANGED << pos, mPos, mUnknown, count, found, source >>

\* Segment::ParseCues, for the Cues at p that the seek head names.
CuesStatus(p) ==
  IF mCues THEN "ok"
  ELSE IF Total = Unknown THEN "none"
  ELSE IF ~CanRead(p) THEN "more"
  ELSE IF file.hdr[p].size = 0 THEN "none"
  ELSE IF ~InSegment(p) THEN "invalid"
  ELSE IF Stop(p) > Total THEN "none"
  ELSE IF Stop(p) > avail THEN "more" ELSE "ok"

ParseCues(p) ==
  /\ Ready /\ Id(p) = "Cues"
  /\ CallReturns("cues", 0, CuesStatus(p), 0)
  /\ mCues' = (mCues \/ ret' = "ok")
  /\ UNCHANGED << pos, mPos, mUnknown, array, mInfo, mTracks,
                  source >>

-----------------------------------------------------------------------------
(* Segment::ParseNext: the cluster behind one the caller has, loaded or not.*)

\* Mutant: the cluster's size is not added.
BehindNothing(c) == c.start

\* DoParseNext starts here, behind a preloaded cluster whose size is known.
Behind(c) == IF c.size # Unknown THEN End(c) ELSE Unknown

\* Of another one the code would read the size.  It reads the ID first, without the
\* bit that marks its length, and compares it with the ID that has the bit, so that
\* every cluster is refused.
ParseNext(i) ==
  /\ Ready /\ i \in DOMAIN clusters
  /\ LET c == clusters[i]
     IN  \/ /\ i < count /\ UNCHANGED pos
            /\ CallReturns("next", c.start, "ok", clusters[i + 1].start)
         \/ i = count /\ pc' = "load" /\ Call("next", c.start) /\ UNCHANGED pos
         \/ /\ i > count /\ Behind(c) # Unknown
            /\ pos' = Behind(c) /\ pc' = "next" /\ Call("next", c.start)
         \/ /\ i > count /\ Behind(c) = Unknown /\ UNCHANGED pos
            /\ CallReturns("next", c.start,
                           IF CanRead(c.start) THEN "failed" ELSE "more", 0)
  /\ UNCHANGED << mPos, mUnknown, array, found, source >>

ReturnFromNext ==
  /\ pc = "next"
  /\ \/ AtEnd(pos) /\ Return("none", 0)
     \/ ~AtEnd(pos) /\ ~CanRead(pos) /\ Return("more", 0)
     \/ /\ ~AtEnd(pos) /\ CanRead(pos) /\ pos \in Headers /\ ~InSegment(pos)
        /\ Return("invalid", 0)
  /\ pos' = 0
  /\ UNCHANGED << api, curr, mPos, mUnknown, array, found, source >>

AtNext == /\ pc = "next" /\ ~AtEnd(pos) /\ CanRead(pos)
          /\ pos \in Headers /\ InSegment(pos)

NextSkipsElement ==
  /\ AtNext /\ ~AtCluster(pos)
  /\ pos'   = Stop(pos)
  /\ mCues' = (mCues \/ (Id(pos) = "Cues" /\ file.hdr[pos].size # 0))
  /\ UNCHANGED << pc, api, ret, result, curr, mPos, mUnknown, array, mInfo,
                  mTracks, source >>

\* What DoParseNext does at the cluster at pos.  To look for it among the
\* preloaded clusters (there is the one ParseNext was given) it puts their offsets
\* into pos, so that a cluster without blocks is not skipped from where it is.
NextCluster ==
  /\ AtNext /\ AtCluster(pos)
  /\ LET s   == SearchPreloaded(pos)
         has == HasBlockEntries(pos)
     IN  \/ s.hit /\ Return("ok", pos) /\ pos' = 0 /\ UNCHANGED clusters
         \/ ~s.hit /\ has = "more" /\ Return("more", 0) /\ pos' = 0 /\ UNCHANGED clusters
         \/ /\ ~s.hit /\ has = "some"
            /\ PreloadCluster(pos, s.at) /\ Return("ok", pos) /\ pos' = 0
         \/ /\ ~s.hit /\ has = "none" /\ Sized(pos)
            /\ LET next == s.probe - file.start + file.hdr[pos].size
               IN  IF SegmentStop # Unknown /\ next > SegmentStop
                   THEN Return("invalid", 0) /\ pos' = 0
                   ELSE pos' = next /\ UNCHANGED << pc, ret, result >>
            /\ UNCHANGED clusters
         \/ /\ ~s.hit /\ has = "none" /\ ~Sized(pos)
            /\ pc' = "garbage" /\ UNCHANGED << ret, result, clusters, pos >>
  /\ UNCHANGED << api, curr, mPos, mUnknown, count, found, source >>

\* What is read where no element begins may be anything.
NextReadsGarbage ==
  /\ pc = "next" /\ ~AtEnd(pos) /\ CanRead(pos) /\ pos \notin Headers
  /\ pc' = "garbage"
  /\ UNCHANGED << calls, mPos, mUnknown, array, found, source >>

-----------------------------------------------------------------------------
(* Segment::GetNext, for a file that is there in full (asserted in the code)*)

NextWithBlocks(p) == { q \in Headers : /\ q > p /\ AtCluster(q)
                                       /\ HasBlockEntries(q) = "some" }

GetNext(i) ==
  /\ Ready /\ i \in DOMAIN clusters
  /\ i > count => /\ avail = file.length /\ SegmentStop # Unknown
                  /\ \A p \in Headers : Sized(p)
  /\ LET p     == clusters[i].start
         later == NextWithBlocks(p)
         s     == SearchPreloaded(Min(later))
         Returns(status, q) == CallReturns("getNext", p, status, q)
     IN  \/ i < count /\ Returns("ok", clusters[i + 1].start) /\ UNCHANGED clusters
         \/ i = count /\ Returns("eos", 0) /\ UNCHANGED clusters
         \/ i > count /\ later = {} /\ Returns("none", 0) /\ UNCHANGED clusters
         \/ /\ i > count /\ later # {} /\ Returns("ok", Min(later))
            /\ IF s.hit THEN UNCHANGED clusters ELSE PreloadCluster(Min(later), s.at)
  /\ UNCHANGED << pos, mPos, mUnknown, count, found, source >>

\* After garbage was read nothing more is claimed; a Segment whose headers are
\* at fault is given up.
Terminated == /\ pc = "garbage" \/ (pc = "idle" /\ api = "headers" /\ ret = "invalid")
              /\ UNCHANGED vars

-----------------------------------------------------------------------------
Caller == \/ ParseHeaders \/ LoadCluster
          \/ \E i \in DOMAIN clusters : ParseCluster(i) \/ ParseNext(i) \/ GetNext(i)
          \/ \E off \in file.cues : FindOrPreloadCluster(off)
          \/ \E p \in Headers : ParseCues(p)

Step == \/ ReturnFromHeaders \/ ParseHeader
        \/ LoadUnknownSize \/ ReturnFromLoad \/ LoadSkipsElement \/ AdoptPreloaded
        \/ ClusterUnderflows \/ LoadSkipsCluster \/ LoadNewCluster
        \/ ReturnFromNext \/ NextSkipsElement \/ NextCluster \/ NextReadsGarbage

Next == Grow \/ Caller \/ Step \/ Terminated

\* A call that has begun keeps running.
Spec == Init /\ [][Next]_vars /\ WF_vars(Step)
=============================================================================
