--------------------------- MODULE MuxProperties ---------------------------
(***************************************************************************)
(* What the muxer must guarantee, stated over MuxSegment's states.         *)
(***************************************************************************)
EXTENDS MuxSegment

Resting == pc \in {"idle", "done"}

\* Blocks in file order: the j-th block of the i-th cluster.
Slots == UNION { {i} \X DOMAIN clusters[i].blocks : i \in DOMAIN clusters }

Block(s) == clusters[s[1]].blocks[s[2]]

Before(s, r) == s[1] < r[1] \/ (s[1] = r[1] /\ s[2] < r[2])

AcceptedIds == { accepted[i].id : i \in DOMAIN accepted }
BlockIds    == { Block(s).id : s \in Slots }
QueuedIds   == { queue[i].id : i \in DOMAIN queue }
StoredIds   == UNION { { clusters[k].stored[t][i].id : i \in DOMAIN clusters[k].stored[t] }
                         : k \in DOMAIN clusters, t \in TrackSet }

\* The caller's frames were valid and came in time order, no two in a row
\* further apart than a block can be from its cluster.
FeedInOrder == \A i, j \in DOMAIN accepted : i < j => accepted[i].ts <= accepted[j].ts
FeedValid   == \A i \in DOMAIN accepted : IsValid(accepted[i])
FeedDense   == \A i \in 1 .. Len(accepted) - 1 :
                 Timecode(accepted[i + 1].ts) - Timecode(accepted[i].ts)
                   <= MaxBlockTimecode
\* No audio ran further ahead of the frame that opened the first cluster.
LeadFits    == clusters # << >> => \A i \in DOMAIN accepted :
                 (\A j \in 1 .. i - 1 : accepted[j].track \in Audio)
                   => Timecode(accepted[i].ts) - clusters[1].timecode
                        <= MaxBlockTimecode

FeedFits == FeedInOrder /\ FeedValid /\ FeedDense /\ LeadFits

\* The type of every variable.
TypeOK ==
  /\ conf \in Configs
  /\ pc \in {"idle", "test", "flushOlder", "close", "offset", "flushAll", "write",
             "hold", "done", "undefined"}
  /\ call \in {"frame", "finalize"} /\ ret \in BOOLEAN /\ test \in {0, 1, 2}
  /\ frame \in Frame /\ origin \in {"flushOlder", "flushAll", "write"}
  /\ offset \in Int /\ index \in Nat \ {0}
  /\ queue \in Seq(Frame) /\ clusters \in Seq(Cluster)
  /\ forceNew \in BOOLEAN /\ newCue \in BOOLEAN
  /\ cues \in Seq([time : Nat, track : TrackSet, pos : Int, block : Nat])
  /\ cuesTrack \in Nat
  /\ lastTs \in Nat /\ lastTrackTs \in [TrackSet -> Nat]
  /\ lastDur \in Nat /\ framesWritten \in [TrackSet -> Nat]
  /\ headerWritten \in BOOLEAN /\ hdrPos \in Int /\ written \in Nat
  /\ seek \in Seq([id : ElementNames, pos : Int])
  /\ duration \in Nat \cup {Unset} /\ segSize \in Int
  /\ cuesAt \in Nat \cup {Unset}
  /\ calls \in 0 .. MaxCalls /\ accepted \in Seq(Frame)

\* Every audio frame that waits in frames_ fits the cluster that is open, so
\* that WriteFramesLessThan, which cannot handle a refused frame, never meets
\* one for its time.
QueueFitsCluster ==
  pc \in {"idle", "test", "flushOlder"} /\ clusters # << >> =>
    \A i \in DOMAIN queue : InRange(LastCluster, queue[i])

\* The muxer reads a deleted frame only when a frame failed that is invalid or
\* that ran too far ahead of the first cluster or behind a gap.
UndefinedOnlyIfUnfit ==
  pc = "undefined" => ~FeedFits

\* Queueing, holding back and merging keep the order of each track: its blocks
\* are in the file in the order they were added, none of them twice.
TrackOrderKept ==
  \A s, r \in Slots : Before(s, r) /\ Block(s).track = Block(r).track
                        => Block(s).id < Block(r).id

\* A feed in time order gives a file in time order, whatever was queued, held
\* back and merged in between.
FileInTimeOrder ==
  FeedInOrder => \A s, r \in Slots : Before(s, r) => Block(s).ts <= Block(r).ts

\* Every frame AddFrame returned true for is in the file, held back by the open
\* cluster or queued, and after a successful Finalize it is in the file.
NothingLost ==
  Resting /\ FeedFits =>
    /\ AcceptedIds = BlockIds \cup StoredIds \cup QueuedIds
    /\ pc = "done" /\ ret => StoredIds \cup QueuedIds = {}

\* Every cue names the place of a cluster that is in the file and the number in
\* it of the first block of the cues' track; and every cluster with a block of
\* that track has exactly one cue.
CuesExact ==
  Resting /\ ~conf.accurate /\ ~(conf.chunking /\ conf.mode = "live") =>
    /\ \A k \in DOMAIN cues : \E i \in DOMAIN clusters :
         /\ cues[k].pos = clusters[i].at
         /\ cues[k].block \in DOMAIN clusters[i].blocks
         /\ LET b == clusters[i].blocks[cues[k].block]
            IN  b.track = cues[k].track /\ Timecode(b.ts) = cues[k].time
         /\ \A j \in 1 .. cues[k].block - 1 :
              clusters[i].blocks[j].track # cues[k].track
    /\ conf.outputCues => \A i \in DOMAIN clusters :
         (\E j \in DOMAIN clusters[i].blocks :
            clusters[i].blocks[j].track = cuesTrack)
         => Cardinality({ k \in DOMAIN cues : cues[k].pos = clusters[i].at }) = 1

\* After Finalize the seek head gives the offsets at which the first cluster and
\* the Cues really are, and the Segment's size is the number of bytes written.
SeekHeadExact ==
  pc = "done" /\ ret /\ conf.mode = "file" =>
    /\ segSize = written
    /\ \A i \in DOMAIN seek :
         /\ seek[i].id = "Cluster" /\ clusters # << >> => seek[i].pos = clusters[1].at
         /\ seek[i].id = "Cues" => seek[i].pos = cuesAt

\* Finalize succeeds for a feed that fits, but for the sixth entry that a seek head
\* with chapters, tags and cues has no room for, or when the frame that opened the
\* last cluster was refused before the cluster had a header.
SeekHeadFull == conf.mode = "file" /\ conf.outputCues /\ conf.chapters /\ conf.tags

FinalizeSucceeds ==
  pc = "done" /\ clusters # << >> /\ FeedFits
    /\ (Len(accepted) = calls \/ HeaderWritten(LastCluster)) => ret = ~SeekHeadFull

\* With accurate cluster durations a cue is made while its frame is held back.  Of a
\* feed that fits it still names the cluster the frame gets into, and a number not
\* behind the block, the first of the cues' track there, once that is written.
CuesLead ==
  Resting /\ FeedFits /\ conf.accurate /\ ~(conf.chunking /\ conf.mode = "live") =>
    \A k \in DOMAIN cues : \E i \in DOMAIN clusters :
      LET c == clusters[i]
      IN  /\ cues[k].pos = c.pos /\ (HeaderWritten(c) => c.at = c.pos)
          /\ c.finalized => \E j \in DOMAIN c.blocks :
               /\ cues[k].block <= j /\ c.blocks[j].track = cues[k].track
               /\ Timecode(c.blocks[j].ts) = cues[k].time
               /\ \A m \in 1 .. j - 1 : c.blocks[m].track # cues[k].track

\* With accurate cluster durations, when a frame opens a cluster the last block of
\* each track in the one before lasts until that frame, unless its caller gave it a
\* duration: an unsigned difference, which wraps for a frame of an earlier time.
LastAdded(b) == \A i \in DOMAIN accepted :
  accepted[i].track = b.track /\ accepted[i].id > b.id => accepted[i].id \in QueuedIds

GivenDuration(b) == \E i \in DOMAIN accepted : /\ accepted[i].id = b.id
                                               /\ accepted[i].dur = b.dur

NoneRefused == calls = Len(accepted) + 1

LastBlocksHaveDuration ==
  [][ conf.accurate /\ clusters # << >> /\ Len(clusters') > Len(clusters)
        /\ (FeedInOrder \/ NoneRefused) =>
        \A j \in DOMAIN LastCluster.blocks :
          LET b == LastCluster.blocks[j]
          IN  LastAdded(b) => /\ b.dur # Unset
                              /\ b.dur = (frame.ts - b.ts) % WordSize \/ GivenDuration(b) ]_vars

\* A finalized cluster never changes again, and only the last cluster is open:
\* cue positions and chunk sizes rest on it.
ClosedClustersStay ==
  [][ /\ \A i \in DOMAIN clusters : clusters[i].finalized =>
           i \in DOMAIN clusters' /\ clusters'[i] = clusters[i]
      /\ \A i \in 1 .. Len(clusters') - 1 : clusters'[i].finalized ]_vars

\* Every public call returns: no test of DoNewClusterProcessing's endless loop
\* repeats for ever.  Finalize returns that it succeeded where it can.
CallsReturn ==
  /\ pc \notin {"idle", "done", "undefined"} ~> pc \in {"idle", "done", "undefined"}
  /\ []FinalizeSucceeds

-----------------------------------------------------------------------------
(* What the header and the comments say of the program, and the code does   *)
(* not always do.                                                           *)

\* mkvmuxer.h on Finalize: "Writes out any frames that have not been written
\* out. [...] Returns true on success."  Every frame AddFrame returned true for
\* would be in the file, for valid frames added in time order.
FinalizeWritesAll ==
  pc = "done" /\ ret /\ FeedInOrder /\ FeedValid => AcceptedIds = BlockIds
=============================================================================
