-------------------------- MODULE ParserProperties --------------------------
(***************************************************************************)
(* What mkvparser must guarantee about clusters and blocks, however the    *)
(* file grows and in whatever order its calls are made.                    *)
(***************************************************************************)
EXTENDS ParserClusters

\* The clusters of the file that have blocks, and their blocks, as a reader of
\* the whole file sees them.  What the end of the file cuts off is not there.
RealClusters == { p \in Headers : Id(p) = "Cluster" /\ Entries(p) # {} /\ ~CutOff(p) }

WholeEntries(p) == { q \in Entries(p) : Stop(q) <= file.length }

\* Where the Segment ends, or the file if the Segment's size is not known.
LastStop == IF file.size = Unknown THEN file.length ELSE file.start + file.size

ClusterRecord == [ start : Headers, index : Nat \cup {-1}, pos : Nat,
                   size : Nat \cup {Unknown}, loaded : BOOLEAN, entries : Seq(Headers) ]

\* The type of every variable.
TypeOK ==
  /\ file \in Files /\ avail \in 0 .. file.length
  /\ pc \in {"idle", "headers", "load", "next", "garbage"}
  /\ api \in {"none", "headers", "load", "parse", "find", "cues", "next", "getNext"}
  /\ ret \in {"ok", "more", "none", "invalid", "failed", "block", "end", "eos",
              "running"}
  /\ result \in {0} \cup Headers /\ curr \in {0} \cup Headers
  /\ pos \in Nat /\ mPos \in Int
  /\ clusters \in Seq(ClusterRecord)
  /\ mUnknown \in 0 .. count /\ count \in 0 .. Len(clusters)
  /\ mInfo \in BOOLEAN /\ mTracks \in BOOLEAN /\ mCues \in BOOLEAN

\* The one element of its kind, in front of the clusters.
OneInFront(p) ==
  \A q \in Headers : (Id(q) = Id(p) => q = p) /\ (Id(q) = "Cluster" => p < q)

\* A file without fault, in which no cluster that a cue point names is of unknown
\* size, and none without blocks, or cut off, is behind one: DoParseNext loses its
\* position there (mkvparser.cc:3012).
Faultless ==
  /\ \A p \in Headers : InSegment(p)
  /\ \A id \in {"Info", "Tracks"} : \E p \in Headers : Id(p) = id /\ OneInFront(p)

Ordinary ==
  /\ Faultless
  /\ \A c \in file.cues : \A p \in Headers :
       Id(p) = "Cluster" /\ p >= c + file.start => Sized(p) /\ p \in RealClusters

\* The array that all binary searches work on: sorted by position with no
\* cluster twice, the loaded ones in front, each with its index, whatever was
\* loaded, looked up and parsed ahead before.
ArrayInOrder == Ordinary =>
  /\ \A i, j \in DOMAIN clusters : i < j => clusters[i].start < clusters[j].start
  /\ \A i \in DOMAIN clusters :
       clusters[i].index = IF i <= count THEN i - 1 ELSE -1

\* The caller keeps pointers to clusters and blocks: none that is known is lost
\* or made again, and blocks are only added behind those of their cluster.
KeptClusters ==
  [][ \A i \in DOMAIN clusters : \E j \in DOMAIN clusters' :
        /\ clusters'[j].start = clusters[i].start
        /\ IsPrefix(clusters[i].entries, clusters'[j].entries) ]_vars

\* In every well-typed state m_pos is where an element begins or at the end, behind
\* it if the last element is cut off, or else it stands for the one cluster of
\* unknown size that is being parsed, the last that was loaded.
CursorOnElement ==
  /\ TypeOK
  /\ mPos >= 0 => mUnknown = 0 /\ (mPos \in Headers \/ mPos >= LastStop)
  /\ mPos < 0  => mUnknown = count /\ count > 0
                    /\ clusters[count].start = -mPos - 1

\* A cluster's blocks are found in order and none before the position reached is
\* left out: at its end all that are in the file are known.  A size that was not
\* written is found to be what it is.  (Of a cluster that the end of the file cuts
\* off more is in the entries than in the file.)
EntriesExact ==
  \A i \in DOMAIN clusters :
    LET c   == clusters[i]
        all == WholeEntries(c.start)
    IN  (Sized(c.start) => Stop(c.start) <= file.length) =>
          /\ \A j, k \in DOMAIN c.entries : j < k => c.entries[j] < c.entries[k]
          /\ Range(c.entries) = { q \in all : q < c.pos }
          /\ c.size # Unknown => End(c) = ClusterStop(c.start)
          /\ c.size # Unknown /\ c.pos >= End(c) => Range(c.entries) = all

\* ParseNext and GetNext name the cluster that follows the caller's in the file,
\* loaded, preloaded or neither, and say that there is none only if so.
Successors(p) == { q \in RealClusters : q > p }

NextFollows ==
  pc = "idle" /\ api \in {"next", "getNext"} =>
    /\ ret = "ok"   => Successors(curr) # {} /\ result = Min(Successors(curr))
    /\ ret = "none" => Successors(curr) = {}

\* No call finds fault with a file that has none either, at whatever state of its
\* growth: but for ParseNext, which fails on a preloaded cluster of which nothing has
\* been parsed.
FailsUnparsed == ret = "failed" =>
  /\ api = "next"
  /\ \E i \in count + 1 .. Len(clusters) : /\ clusters[i].start = curr
                                           /\ ~clusters[i].loaded

NextIsSuccessor == Ordinary => NextFollows /\ ret # "invalid" /\ FailsUnparsed

\* What ClusterList says of loading, for a file the caller keeps loading from.
List == INSTANCE ClusterList WITH
          inFile <- RealClusters,
          known  <- { clusters[i].start : i \in 1 .. count },
          ended  <- mPos >= 0 /\ AtEnd(mPos)

\* Loading implements that list: the file's clusters with blocks in their order,
\* and all of them in the end, if the file has an end.
LoadsAll == List!SafeSpec /\ (Ordinary /\ file.finite => List!Progress)

\* A file that arrives in full, and a caller who goes on calling LoadCluster
\* among whatever else it calls.
LoadingSpec == Spec /\ SF_vars(Grow) /\ SF_vars(ParseHeaders) /\ SF_vars(LoadCluster)

\* Every call returns, the loops over elements and blocks included.
CallsReturn == Ordinary => (pc # "idle" ~> pc \in {"idle", "garbage"})
=============================================================================
