----------------------------- MODULE MuxSegment -----------------------------
(***************************************************************************)
(* mkvmuxer::Segment: how the frames a caller adds are queued, spread over *)
(* clusters and written, and how the cues, the seek head and the sizes are *)
(* computed along the way.  One caller, one thread: a public call starts   *)
(* when the segment is idle and runs to its return.  Its loops are steps,  *)
(* told apart by pc, so that every point between two writes is a state.    *)
(*                                                                         *)
(* The writers always succeed and memory never runs out.  In chunking mode *)
(* "written" counts the bytes of all the files laid end to end.            *)
(***************************************************************************)
EXTENDS MuxCluster

CONSTANTS
  Inputs,    \* the frames a caller may add (their id is given by the call)
  Configs,   \* the settings a caller may choose before the first frame
  MaxCalls   \* bound: number of AddFrame calls

Config == [ mode : {"file", "live"}, accurate : BOOLEAN, chunking : BOOLEAN,
            outputCues : BOOLEAN, estimate : BOOLEAN, cuesTrack : Nat,
            maxDuration : Nat, maxSize : Nat,
            chapters : BOOLEAN, tags : BOOLEAN ]

ASSUME SegmentAssumption ==
  /\ Tracks # << >>
  /\ Inputs \subseteq Frame
  /\ Configs \subseteq Config
  /\ MaxCalls \in Nat

VARIABLES
  conf,           \* the settings
  pc,             \* where the running call stands; idle, done or undefined
  call,           \* the running call: "frame" or "finalize"
  frame,          \* the frame it adds
  test,           \* what TestFrame returned
  origin,         \* the pc at which Cluster::AddFrame was called
  offset, index,  \* sum and index of the loop of MaxOffset
  ret,            \* what the last call returned
  queue,          \* frames_: the audio frames held for the next cluster
  clusters,       \* cluster_list_
  forceNew,       \* force_new_cluster_
  newCue,         \* new_cuepoint_
  cues,           \* the entries of cues_
  cuesTrack,      \* cues_track_
  lastTs,         \* last_timestamp_
  lastTrackTs,    \* last_track_timestamp_, by track number
  lastDur,        \* last_block_duration_
  framesWritten,  \* track_frames_written_, by track number
  headerWritten,  \* header_written_
  hdrPos,         \* writer_header_->Position() - payload_pos_, when chunking
  written,        \* payload bytes in the file
  seek,           \* the entries of seek_head_
  duration,       \* the Duration that Finalize sets, in nanoseconds
  segSize,        \* the Segment size that Finalize writes
  cuesAt,         \* payload offset of the Cues element
  calls,          \* number of AddFrame calls so far
  accepted        \* the frames whose AddFrame returned true, in order

localVars  == << call, frame, test, origin, ret >>
loopVars   == << offset, index >>
placeVars  == << queue, clusters, written >>
cueVars    == << newCue, cues >>
timeVars   == << lastTs, lastTrackTs >>
countVars  == << lastDur, framesWritten >>
headerVars == << headerWritten, hdrPos, seek, cuesTrack >>
endVars    == << duration, segSize, cuesAt >>
history    == << calls, accepted >>

\* What only the first AddFrame and Finalize change.
outerVars  == << conf, headerVars, endVars >>

vars == << pc, localVars, loopVars, placeVars, forceNew, cueVars, timeVars,
           countVars, outerVars, history >>

-----------------------------------------------------------------------------
NoFrame == [ id |-> 0, track |-> 0, ts |-> 0, key |-> FALSE, len |-> 0,
             extra |-> "none", dur |-> Unset, ref |-> Unset ]

kSeekEntryCount == 5

ElementNames == {"SeekHead", "Info", "Tracks", "Chapters", "Tags", "Cluster", "Cues"}

PayloadPos == 1   \* payload_pos_: where the Segment's payload starts

HasVideo == Video # {}

LastCluster == clusters[Len(clusters)]

Init ==
  /\ conf \in Configs
  /\ pc = "idle" /\ call = "frame" /\ frame = NoFrame /\ test = 0
  /\ origin = "write" /\ ret = TRUE /\ offset = 0 /\ index = 1
  /\ queue = << >> /\ clusters = << >> /\ written = 0
  /\ forceNew = FALSE /\ newCue = FALSE /\ cues = << >>
  /\ cuesTrack = conf.cuesTrack
  /\ lastTs = 0 /\ lastTrackTs = [t \in TrackSet |-> 0]
  /\ lastDur = 0 /\ framesWritten = [t \in TrackSet |-> 0]
  /\ headerWritten = FALSE /\ hdrPos = 0 /\ seek = << >>
  /\ duration = Unset /\ segSize = Unset /\ cuesAt = Unset
  /\ calls = 0 /\ accepted = << >>

\* AddFrame returns; its frame and its test result were local to the call.
Return(value) ==
  pc' = "idle" /\ ret' = value /\ frame' = NoFrame /\ test' = 0

\* The running call, either one, returns false.
Fail == IF call = "frame" THEN Return(FALSE)
        ELSE pc' = "done" /\ ret' = FALSE /\ UNCHANGED << frame, test >>

\* The running call goes on at p.
Goto(p) == pc' = p /\ UNCHANGED << ret, frame, test >>

-----------------------------------------------------------------------------
(* The header, written by the first AddFrame.                               *)

\* The elements before the first cluster, each one unit long.
HeaderElements ==
  (IF conf.mode = "file" THEN << "SeekHead" >> ELSE << >>)
    \o << "Info", "Tracks" >>
    \o (IF conf.chapters THEN << "Chapters" >> ELSE << >>)
    \o (IF conf.tags THEN << "Tags" >> ELSE << >>)

HeaderEntries ==
  LET first == IF conf.mode = "file" THEN 2 ELSE 1
  IN  [ i \in 1 .. Len(HeaderElements) - first + 1 |->
          [ id |-> HeaderElements[first + i - 1], pos |-> first + i - 2 ] ]

\* A closed writer is at position 0.
HeaderEnd ==
  IF conf.chunking /\ conf.mode = "live" THEN -PayloadPos
                                         ELSE Len(HeaderElements)

DefaultCuesTrack ==
  LET videos == { i \in DOMAIN Tracks : Tracks[i] \in Video }
  IN  IF videos = {} THEN Tracks[1]
      ELSE Tracks[CHOOSE i \in videos : \A j \in videos : i <= j]

CheckHeaderInfo ==
  IF headerWritten THEN UNCHANGED << headerVars, written >>
  ELSE /\ headerWritten' = TRUE
       /\ hdrPos' = HeaderEnd
       /\ written' = Len(HeaderElements)
       /\ seek' = Append(HeaderEntries, [id |-> "Cluster", pos |-> HeaderEnd])
       /\ cuesTrack' = IF conf.outputCues /\ cuesTrack = 0
                       THEN DefaultCuesTrack ELSE cuesTrack

-----------------------------------------------------------------------------
(* AddGenericFrame, up to the point where it writes something.              *)

Accepts(f) == f.ts >= lastTs /\ f.track \in TrackSet

\* Mutant: the distance is taken from the last timestamp, not from the cluster.
FarFromLastFrame(f) ==
  clusters # << >> /\ Timecode(f.ts) - Timecode(lastTs) > MaxBlockTimecode

\* rel_timecode > kMaxBlockTimecode, for an unsigned rel_timecode.
FarFromCluster(f) == clusters # << >> /\ ~InRange(LastCluster, f)

HoldsBack(f) == HasVideo /\ f.track \in Audio /\ ~forceNew /\ ~FarFromCluster(f)

NextFrame(in) == [in EXCEPT !.id = calls + 1]

BeginCall == /\ pc = "idle" /\ calls < MaxCalls
             /\ calls' = calls + 1
             /\ CheckHeaderInfo
             /\ UNCHANGED << conf, call, origin, loopVars, clusters, cueVars,
                             timeVars, lastDur, endVars >>

RejectFrame(in) ==
  /\ BeginCall /\ ~Accepts(in)
  /\ Return(FALSE)
  /\ UNCHANGED << queue, forceNew, framesWritten, accepted >>

QueueFrame(in) ==
  /\ BeginCall /\ Accepts(in) /\ HoldsBack(in)
  /\ queue' = Append(queue, NextFrame(in))
  /\ framesWritten' = [framesWritten EXCEPT ![in.track] = @ + 1]
  /\ accepted' = Append(accepted, NextFrame(in))
  /\ Return(TRUE)
  /\ UNCHANGED forceNew

BeginFrame(in) ==
  /\ BeginCall /\ Accepts(in) /\ ~HoldsBack(in)
  /\ forceNew' = (forceNew \/ FarFromCluster(in))
  /\ frame' = NextFrame(in)
  /\ pc' = "test"
  /\ UNCHANGED << test, ret, queue, framesWritten, accepted >>

ForceNewClusterOnNextFrame ==
  /\ pc = "idle" /\ ~forceNew
  /\ forceNew' = TRUE
  /\ UNCHANGED << pc, localVars, loopVars, placeVars, cueVars, timeVars,
                  countVars, outerVars, history >>

-----------------------------------------------------------------------------
(* Cluster::AddFrame on the last cluster.                                   *)

SetLastCluster(c) ==
  /\ clusters' = [clusters EXCEPT ![Len(clusters)] = c]
  /\ written' = written + ClusterBytes(c) - ClusterBytes(LastCluster)

\* Called at p it returns true in this step: at once, or after holding the
\* frame back and releasing what may go.
AddFrameDone(f, p) ==
  \/ /\ pc = p /\ ~conf.accurate /\ CanWrite(LastCluster, f)
     /\ SetLastCluster(DoWriteFrame(LastCluster, f, written))
  \/ /\ pc = "hold" /\ origin = p /\ ~MayRelease(LastCluster, f.track)
     /\ UNCHANGED << clusters, written >>

\* It returns false, at once.
AddFrameFails(f, p) ==
  /\ pc = p
  /\ IF conf.accurate
     THEN ~IsValid(f) /\ UNCHANGED << clusters, written >>
     ELSE /\ ~CanWrite(LastCluster, f)
          /\ SetLastCluster(DoWriteFrame(LastCluster, f, written))

\* Mutant: the cue names where the cluster's header is, which a held back frame's
\* cluster may not have yet.
AddCuePointAtHeader(f) ==
  IF newCue /\ cuesTrack = f.track
  THEN /\ newCue' = FALSE
       /\ cues' = Append(cues, [ time  |-> Timecode(f.ts), track |-> f.track,
                                 pos   |-> clusters'[Len(clusters)].at,
                                 block |-> Len(clusters'[Len(clusters)].blocks) ])
  ELSE UNCHANGED cueVars

\* AddCuePoint, for the first frame of the cues' track in a cluster.
AddCuePoint(f) ==
  IF newCue /\ cuesTrack = f.track
  THEN /\ newCue' = FALSE
       /\ cues' = Append(cues, [ time  |-> Timecode(f.ts), track |-> f.track,
                                 pos   |-> LastCluster.pos,
                                 block |-> Len(clusters'[Len(clusters)].blocks) ])
  ELSE UNCHANGED cueVars

\* The bookkeeping of WriteFramesAll and WriteFramesLessThan.
RaiseLastTs(f) ==
  IF f.ts > lastTs
  THEN lastTs' = f.ts /\ lastTrackTs' = [lastTrackTs EXCEPT ![f.track] = f.ts]
  ELSE UNCHANGED timeVars

\* AddGenericFrame's own frame gets the reference a BlockGroup needs.
WithReference(f) ==
  IF ~CanBeSimpleBlock(f) /\ ~f.key /\ f.ref = Unset
  THEN [f EXCEPT !.ref = lastTrackTs[f.track]] ELSE f

\* WriteFramesLessThan writes the oldest queued frame while the one behind it
\* is not later than the new frame.
OlderFrameQueued ==
  clusters # << >> /\ Len(queue) >= 2 /\ queue[2].ts <= frame.ts

\* The frame that is added where the call stands, if there is one.
AddsFrame == CASE pc = "flushOlder" -> OlderFrameQueued
               [] pc = "flushAll"   -> queue # << >> /\ clusters # << >>
               [] pc = "write"      -> TRUE

Adding(p) == IF p = "write" THEN WithReference(frame) ELSE Head(queue)

\* QueueOrWriteFrame, with accurate cluster durations.
Hold ==
  /\ conf.accurate /\ pc \in {"flushOlder", "flushAll", "write"}
  /\ AddsFrame /\ IsValid(Adding(pc))
  /\ SetLastCluster(HoldFrame(LastCluster, Adding(pc)))
  /\ pc' = "hold" /\ origin' = pc
  /\ UNCHANGED << call, frame, test, ret, loopVars, queue, forceNew, cueVars,
                  timeVars, countVars, outerVars, history >>

\* When a held back frame cannot be written the loop returns with deleted
\* frames on the list, which the next call, Finalize or the destructor reads.
Release ==
  /\ pc = "hold"
  /\ LET c == LastCluster
         t == Adding(origin).track
         f == Head(c.stored[t])
     IN  /\ MayRelease(c, t)
         /\ IF CanWrite(c, f)
            THEN /\ SetLastCluster(DropStored(DoWriteFrame(c, f, written), t))
                 /\ UNCHANGED pc
            ELSE pc' = "undefined" /\ UNCHANGED << clusters, written >>
  /\ UNCHANGED << localVars, loopVars, queue, forceNew, cueVars, timeVars,
                  countVars, outerVars, history >>

-----------------------------------------------------------------------------
(* MaxOffset: when chunking, the header's length and every cluster's size.  *)

Measure ==
  /\ Goto("offset")
  /\ offset' = IF conf.chunking THEN hdrPos ELSE written
  /\ index' = 1

Measured == pc = "offset" /\ (conf.chunking => index > Len(clusters))

\* Mutant: the clusters' own headers are not counted.
AddPayloadSize ==
  /\ pc = "offset" /\ ~Measured
  /\ offset' = offset + clusters[index].payload
  /\ index' = index + 1
  /\ UNCHANGED << pc, localVars, placeVars, forceNew, cueVars, timeVars,
                  countVars, outerVars, history >>

AddClusterSize ==
  /\ pc = "offset" /\ ~Measured
  /\ offset' = offset + ClusterSize(clusters[index])
  /\ index' = index + 1
  /\ UNCHANGED << pc, localVars, placeVars, forceNew, cueVars, timeVars,
                  countVars, outerVars, history >>

-----------------------------------------------------------------------------
(* DoNewClusterProcessing and MakeNewCluster.                               *)

TestFrame(f) ==
  IF forceNew \/ clusters = << >> THEN 1
  ELSE LET delta == Timecode(f.ts) - LastCluster.timecode
       IN  IF delta < 0 THEN -1
           ELSE IF delta > MaxBlockTimecode THEN 2
           ELSE IF \/ f.key /\ f.track \in Video
                   \/ conf.maxDuration > 0 /\ delta * Scale >= conf.maxDuration
                   \/ conf.maxSize > 0 /\ LastCluster.payload >= conf.maxSize
                THEN 1
           ELSE 0

TestForNewCluster ==
  /\ pc = "test"
  /\ IF TestFrame(frame) < 0 THEN Return(FALSE) /\ UNCHANGED forceNew
     ELSE /\ test' = TestFrame(frame)
          /\ forceNew' = FALSE
          /\ pc' = IF TestFrame(frame) > 0 THEN "flushOlder" ELSE "flushAll"
          /\ UNCHANGED << ret, frame >>
  /\ UNCHANGED << call, origin, loopVars, placeVars, cueVars, timeVars,
                  countVars, outerVars, history >>

FlushOlder ==
  /\ OlderFrameQueued /\ AddFrameDone(Head(queue), "flushOlder")
  /\ AddCuePoint(Head(queue)) /\ RaiseLastTs(Head(queue))
  /\ queue' = Tail(queue)
  /\ pc' = "flushOlder"
  /\ UNCHANGED << localVars, loopVars, forceNew, countVars, outerVars, history >>

\* When it fails the deleted frame keeps its place at the front of the queue,
\* which MakeNewCluster reads next.
FlushOlderFails ==
  /\ OlderFrameQueued /\ AddFrameFails(Head(queue), "flushOlder")
  /\ pc' = "undefined"
  /\ UNCHANGED << localVars, loopVars, queue, forceNew, cueVars, timeVars,
                  countVars, outerVars, history >>

\* Mutant: the old cluster is not finalized.
FlushOlderEndNoClose ==
  /\ pc = "flushOlder" /\ ~OlderFrameQueued
  /\ Measure
  /\ UNCHANGED << call, origin, placeVars, forceNew, cueVars, timeVars,
                  countVars, outerVars, history >>

FlushOlderEnd ==
  /\ pc = "flushOlder" /\ ~OlderFrameQueued
  /\ IF clusters = << >> THEN Measure ELSE Goto("close") /\ UNCHANGED loopVars
  /\ UNCHANGED << call, origin, placeVars, forceNew, cueVars, timeVars,
                  countVars, outerVars, history >>

\* Cluster::Finalize, one held back frame at a time.  Only MakeNewCluster asks
\* for a duration of the last frames.
CloseStored ==
  /\ pc = "close" /\ HasStored(LastCluster)
  /\ LET c == LastCluster
         t == NextStored(c)
         f == WithLastDuration(c, Head(c.stored[t]), call = "frame", frame.ts)
     IN  /\ SetLastCluster(DropStored(DoWriteFrame(c, f, written), t))
         /\ IF CanWrite(c, f) THEN Goto("close") ELSE Fail
  /\ UNCHANGED << call, origin, loopVars, queue, forceNew, cueVars, timeVars,
                  countVars, outerVars, history >>

CloseCluster ==
  /\ pc = "close" /\ ~HasStored(LastCluster)
  /\ IF HeaderWritten(LastCluster) /\ ~LastCluster.finalized
     THEN SetLastCluster([LastCluster EXCEPT !.finalized = TRUE]) /\ Measure
     ELSE Fail /\ UNCHANGED << clusters, written, loopVars >>
  /\ UNCHANGED << call, origin, queue, forceNew, cueVars, timeVars, countVars,
                  outerVars, history >>

\* Mutant: the cluster starts at its first frame, not at the oldest in frames_.
OpenClusterAtFrame ==
  /\ Measured /\ call = "frame"
  /\ newCue' = (newCue \/ conf.outputCues)
  /\ clusters' = Append(clusters, NewCluster(Timecode(frame.ts), offset))
  /\ pc' = "flushAll"
  /\ UNCHANGED << localVars, loopVars, queue, written, forceNew, cues, timeVars,
                  countVars, outerVars, history >>

OpenCluster ==
  /\ Measured /\ call = "frame"
  /\ newCue' = (newCue \/ conf.outputCues)
  /\ LET tc     == Timecode(frame.ts)
         oldest == IF queue = << >> THEN tc ELSE Timecode(Head(queue).ts)
     IN  clusters' = Append(clusters, NewCluster(IF oldest < tc THEN oldest
                                                 ELSE tc, offset))
  /\ pc' = "flushAll"
  /\ UNCHANGED << localVars, loopVars, queue, written, forceNew, cues, timeVars,
                  countVars, outerVars, history >>

\* WriteFramesAll: a frame the cluster refuses is deleted and passed over.
FlushAll ==
  /\ queue # << >> /\ clusters # << >>
  /\ \/ /\ AddFrameDone(Head(queue), "flushAll")
        /\ AddCuePoint(Head(queue)) /\ RaiseLastTs(Head(queue))
     \/ /\ AddFrameFails(Head(queue), "flushAll")
        /\ UNCHANGED << cueVars, timeVars >>
  /\ queue' = Tail(queue)
  /\ pc' = "flushAll"
  /\ UNCHANGED << localVars, loopVars, forceNew, countVars, outerVars, history >>

\* Mutant: the test is repeated when it returned 0.
FlushAllEndRetest ==
  /\ pc = "flushAll" /\ queue = << >> /\ call = "frame"
  /\ Goto(IF test # 1 THEN "test" ELSE "write")
  /\ UNCHANGED << call, origin, loopVars, placeVars, forceNew, cueVars,
                  timeVars, countVars, outerVars, history >>

\* In live mode Finalize leaves the last cluster's size unknown, unless frames
\* are held back.
FlushAllEnd ==
  /\ pc = "flushAll" /\ queue = << >>
  /\ IF call = "frame"
     THEN Goto(IF test = 2 THEN "test" ELSE "write") /\ UNCHANGED loopVars
     ELSE IF clusters # << >> /\ (conf.mode = "live" => conf.accurate)
     THEN Goto("close") /\ UNCHANGED loopVars
     ELSE Measure
  /\ UNCHANGED << call, origin, placeVars, forceNew, cueVars, timeVars,
                  countVars, outerVars, history >>

\* Finalize before any cluster was made: WriteFramesAll has nowhere to write.
FlushAllFails ==
  /\ pc = "flushAll" /\ queue # << >> /\ clusters = << >>
  /\ Fail
  /\ UNCHANGED << call, origin, loopVars, placeVars, forceNew, cueVars,
                  timeVars, countVars, outerVars, history >>

\* The rest of AddGenericFrame: the frame itself.
WriteFrame ==
  /\ \/ /\ AddFrameDone(WithReference(frame), "write")
        /\ AddCuePoint(frame)
        /\ lastTs' = frame.ts
        /\ lastTrackTs' = [lastTrackTs EXCEPT ![frame.track] = frame.ts]
        /\ lastDur' = Duration(frame)
        /\ framesWritten' = [framesWritten EXCEPT ![frame.track] = @ + 1]
        /\ accepted' = Append(accepted, WithReference(frame))
        /\ Return(TRUE)
     \/ /\ AddFrameFails(WithReference(frame), "write")
        /\ Return(FALSE)
        /\ UNCHANGED << cueVars, timeVars, countVars, accepted >>
  /\ UNCHANGED << call, origin, loopVars, queue, forceNew, outerVars, calls >>

-----------------------------------------------------------------------------
(* Finalize.                                                                *)

Finalize ==
  /\ pc = "idle"
  /\ call' = "finalize" /\ pc' = "flushAll"
  /\ UNCHANGED << frame, test, origin, ret, loopVars, placeVars, forceNew,
                  cueVars, timeVars, countVars, outerVars, history >>

\* duration_ when the caller gave none.  The estimate walks the per-track
\* arrays, indexed by track number less one, with a track's index.
FileDuration ==
  LET counted == { n \in 1 .. Len(Tracks) :
                     n \in TrackSet /\ framesWritten[n] >= 2 }
      ends    == { lastTrackTs[n] + (lastTrackTs[n] \div (framesWritten[n] - 1))
                     : n \in counted } \cup { lastTs + lastDur }
  IN  IF lastDur = 0 /\ conf.estimate
      THEN CHOOSE d \in ends : \A e \in ends : e <= d
      ELSE lastTs + lastDur

CuesSize == 5 + 12 * Len(cues)   \* the Cues element, its points one size

\* The rest of Finalize.  The seek head has no room for a sixth entry.
FinishFile ==
  /\ Measured /\ call = "finalize"
  /\ pc' = "done"
  /\ LET entryFits == conf.outputCues => Len(seek) < kSeekEntryCount
     IN  IF conf.mode = "file" /\ headerWritten /\ entryFits
         THEN /\ duration' = FileDuration
              /\ IF conf.outputCues
                 THEN /\ seek' = Append(seek, [id |-> "Cues", pos |-> offset])
                      /\ cuesAt' = written
                      /\ written' = written + CuesSize
                      /\ segSize' = offset + CuesSize
                 ELSE segSize' = offset /\ UNCHANGED << seek, cuesAt, written >>
              /\ ret' = TRUE
         ELSE /\ ret' = (conf.mode = "live")
              /\ UNCHANGED << seek, written, endVars >>
  /\ UNCHANGED << conf, call, frame, test, origin, loopVars, queue, clusters,
                  forceNew, cueVars, timeVars, countVars, headerWritten, hdrPos,
                  cuesTrack, history >>

\* After Finalize, and after undefined behaviour, nothing more is claimed.
Terminated == pc \in {"done", "undefined"} /\ UNCHANGED vars

-----------------------------------------------------------------------------
Caller == \/ \E in \in Inputs : RejectFrame(in) \/ QueueFrame(in) \/ BeginFrame(in)
          \/ ForceNewClusterOnNextFrame
          \/ Finalize

Step == \/ Hold \/ Release \/ AddClusterSize
        \/ TestForNewCluster
        \/ FlushOlder \/ FlushOlderFails \/ FlushOlderEnd
        \/ CloseStored \/ CloseCluster \/ OpenCluster
        \/ FlushAll \/ FlushAllEnd \/ FlushAllFails
        \/ WriteFrame
        \/ FinishFile

Next == Caller \/ Step \/ Terminated

\* A call that has begun keeps running: there is nothing it waits for.
Spec == Init /\ [][Next]_vars /\ WF_vars(Step)
=============================================================================
