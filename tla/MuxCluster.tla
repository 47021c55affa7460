----------------------------- MODULE MuxCluster -----------------------------
(***************************************************************************)
(* Frames and clusters of the WebM muxer (mkvmuxer::Frame and              *)
(* mkvmuxer::Cluster).  A cluster is a record; the operations of the class *)
(* are operators from a cluster to a cluster, the conditions it tests are  *)
(* predicates.                                                             *)
(*                                                                         *)
(* Data is abstracted to what placement depends on: a payload is its       *)
(* length, times are small naturals in nanosecond units, and the size of a *)
(* written element counts EBML bytes for values that need one byte.        *)
(***************************************************************************)
EXTENDS Integers, Sequences, FiniteSets

CONSTANTS
  Tracks,            \* the track numbers, in the order the tracks were added
  Video, Audio,      \* the numbers of the video and of the audio tracks
  MaxTrackNumber,    \* kMaxTrackNumber, the size of the arrays kept per track
  Scale,             \* SegmentInfo::timecode_scale_, nanoseconds per timecode
  MaxBlockTimecode,  \* kMaxBlockTimecode: a block's largest relative timecode
  WordSize           \* number of values of the code's uint64_t

TrackSet == { Tracks[i] : i \in DOMAIN Tracks }

ASSUME ClusterAssumption ==
  /\ Tracks \in Seq(1 .. MaxTrackNumber)
  /\ \A i, j \in DOMAIN Tracks : Tracks[i] = Tracks[j] => i = j
  /\ Video \subseteq TrackSet /\ Audio \subseteq TrackSet
  /\ Video \cap Audio = {}
  /\ MaxTrackNumber \in Nat
  /\ Scale \in Nat \ {0}
  /\ MaxBlockTimecode \in Nat
  /\ WordSize \in Nat \ {0}

Unset == -1   \* a field whose "_set_" flag is false, a position not taken yet

Timecode(ts) == ts \div Scale

-----------------------------------------------------------------------------
(* Frames.  "extra" stands for the parts that rule a SimpleBlock out:      *)
(* BlockAdditional data or DiscardPadding.                                  *)

Extras == {"none", "additional", "padding"}

Frame == [ id : Nat, track : Nat, ts : Nat, key : BOOLEAN, len : Nat,
           extra : Extras, dur : Nat \cup {Unset}, ref : Nat \cup {Unset} ]

Duration(f) == IF f.dur = Unset THEN 0 ELSE f.dur

CanBeSimpleBlock(f) == f.extra = "none" /\ Duration(f) = 0

IsValid(f) == /\ f.len > 0
              /\ f.track \in 1 .. MaxTrackNumber
              /\ CanBeSimpleBlock(f) \/ f.key \/ f.ref # Unset

SimpleBlockSize(f) == 6 + f.len

ExtraSize == [none |-> 0, additional |-> 9, padding |-> 4]

BlockGroupSize(f) == 8 + f.len + ExtraSize[f.extra]
                       + (IF Timecode(Duration(f)) > 0 THEN 3 ELSE 0)
                       + (IF f.key THEN 0 ELSE 3)

BlockSize(f) == IF CanBeSimpleBlock(f) THEN SimpleBlockSize(f)
                                       ELSE BlockGroupSize(f)

-----------------------------------------------------------------------------
(* Clusters.  "at" is the payload offset at which the Cluster ID was        *)
(* written, Unset until the header is (header_written_, size_position_);    *)
(* "pos" is position_for_cues_; Len(blocks) is blocks_added_.               *)

ClusterHeaderSize == 12   \* Cluster ID and an 8 byte size
TimecodeSize      == 3

FrameList   == Seq(Frame)
PerTrack(S) == [TrackSet -> S]

Cluster == [ timecode : Nat, pos : Int, at : Int, finalized : BOOLEAN,
             payload : Nat, blocks : FrameList,
             stored : PerTrack(FrameList), lastTs : PerTrack(Nat) ]

NewCluster(timecode, pos) ==
  [ timecode |-> timecode, pos |-> pos, at |-> Unset, finalized |-> FALSE,
    payload |-> 0, blocks |-> << >>,
    stored |-> [t \in TrackSet |-> << >>], lastTs |-> [t \in TrackSet |-> 0] ]

HeaderWritten(c) == c.at # Unset

\* Cluster::Size: counts the header whether it has been written or not.
ClusterSize(c) == ClusterHeaderSize + c.payload

\* The bytes of c that are in the file.
ClusterBytes(c) == IF HeaderWritten(c) THEN ClusterSize(c) ELSE 0

\* Mutant: the largest relative timecode is taken for too large.
InRangeStrict(c, f) == /\ Timecode(f.ts) >= c.timecode
                       /\ Timecode(f.ts) - c.timecode < MaxBlockTimecode

InRange(c, f) == /\ Timecode(f.ts) >= c.timecode
                 /\ Timecode(f.ts) - c.timecode <= MaxBlockTimecode

\* PreWriteBlock, with WriteClusterHeader: offset is where the writer stands.
PreWriteBlock(c, offset) ==
  IF HeaderWritten(c) THEN c
  ELSE [c EXCEPT !.at = offset, !.payload = @ + TimecodeSize]

\* DoWriteFrame returns true.
CanWrite(c, f) == IsValid(f) /\ ~c.finalized /\ InRange(c, f)

\* A frame that is out of range fails in WriteFrame, after PreWriteBlock.
DoWriteFrame(c, f, offset) ==
  IF ~IsValid(f) \/ c.finalized THEN c
  ELSE LET open == PreWriteBlock(c, offset)
       IN  IF ~InRange(c, f) THEN open
           ELSE [open EXCEPT !.payload = @ + BlockSize(f),
                             !.blocks = Append(@, f),
                             !.lastTs[f.track] = f.ts]

-----------------------------------------------------------------------------
(* Holding frames back (write_last_frame_with_duration_).                   *)

\* Mutant: frames held back by other tracks are not looked at.
OkayToWriteAlone(c, f) == TRUE

OkayToWrite(c, f) ==
  \A t \in TrackSet \ {f.track} :
    c.stored[t] # << >> => Head(c.stored[t]).ts >= f.ts

\* QueueOrWriteFrame puts the frame on its track's list ...
HoldFrame(c, f) == [c EXCEPT !.stored[f.track] = Append(@, f)]

\* ... and then writes the list from the front.  It spares the last frame and
\* stops at the first that an older frame of another track holds back.
MayRelease(c, t) == /\ Len(c.stored[t]) >= 2
                    /\ OkayToWrite(c, Head(c.stored[t]))

\* The track whose front frame Cluster::Finalize writes next: the least
\* timestamp, ties to the lowest track number.
NextStored(c) ==
  CHOOSE t \in TrackSet :
    /\ c.stored[t] # << >>
    /\ \A u \in TrackSet : c.stored[u] # << >> =>
         \/ Head(c.stored[t]).ts < Head(c.stored[u]).ts
         \/ (Head(c.stored[t]).ts = Head(c.stored[u]).ts /\ t <= u)

HasStored(c) == \E t \in TrackSet : c.stored[t] # << >>

\* Mutant: signed arithmetic.
WithSignedDuration(c, f, setDuration, end) ==
  IF setDuration /\ Len(c.stored[f.track]) = 1 /\ f.dur = Unset
  THEN [f EXCEPT !.dur = end - f.ts] ELSE f

\* Mutant: the time left is taken since the track's last block, not since the frame.
WithDurationFromLast(c, f, setDuration, end) ==
  IF setDuration /\ Len(c.stored[f.track]) = 1 /\ f.dur = Unset
  THEN [f EXCEPT !.dur = (end - c.lastTs[f.track]) % WordSize,
                 !.ref = IF ~f.key /\ @ = Unset THEN c.lastTs[f.track] ELSE @]
  ELSE f

\* Cluster::Finalize(set_last_frame_duration, end) on that frame: the last one
\* of its track gets the time left as its duration, in unsigned arithmetic.
WithLastDuration(c, f, setDuration, end) ==
  IF setDuration /\ Len(c.stored[f.track]) = 1 /\ f.dur = Unset
  THEN [f EXCEPT !.dur = (end - f.ts) % WordSize,
                 !.ref = IF ~f.key /\ @ = Unset THEN c.lastTs[f.track] ELSE @]
  ELSE f

\* Mutant: the frame that was written stays and the last one is dropped.
DropLastStored(c, t) ==
  [c EXCEPT !.stored[t] = SubSeq(@, 1, Len(@) - 1)]

DropStored(c, t) == [c EXCEPT !.stored[t] = Tail(@)]
=============================================================================
