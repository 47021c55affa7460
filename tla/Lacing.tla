------------------------------- MODULE Lacing -------------------------------
(* The frames in a Block or SimpleBlock.  BasicBlockParser of webm_parser      *)
(* reads them in calls of Feed that return wherever the reader or the callback *)
(* stop; Block::Parse of mkvparser reads the same bytes at once.  A byte of    *)
(* the block is chosen when it is read.  The values of the header before the   *)
(* lacing (track, timecode, flags) are left out, its bytes are counted.        *)
EXTENDS Integers, Sequences, FiniteSetsExt

CONSTANTS kByteBits,       \* 8: a byte has this many bits
          kWordBits,       \* 64: the sizes of frames are unsigned words
          Bytes, Counts,   \* what a byte of a size, and the lace count, may be
          Sizes,           \* sizes of blocks
          kHeader,         \* bytes of the block before the lacing: 4 and more
          Position, HeaderSize,   \* where the block's element starts, and its header's size
          MaxLaceBytes     \* bounds the bytes that are read as lacing

\* 2 to the power of n.
TwoTo(n) ==
  LET power[i \in 0 .. n] == IF i = 0 THEN 1 ELSE 2 * power[i - 1]
  IN  power[n]

\* The bits of a number that has this many bytes.
DataBits(length) == (kByteBits - 1) * length

ASSUME LacingAssumption ==
  /\ kByteBits \in Nat /\ kByteBits > 1
  /\ Bytes \cup Counts \subseteq 0 .. TwoTo(kByteBits) - 1
  /\ kHeader \in Nat /\ Position \in Nat /\ HeaderSize \in Nat
  /\ Sizes \subseteq Nat /\ \A n \in Sizes : n > kHeader

\* The block's size is itself a number of no more than 8 bytes, 56 bits of a word
\* of 64, and no reader has as many bytes as that.
ASSUME WordAssumption ==
  /\ kWordBits \in Nat /\ DataBits(kByteBits) + kByteBits <= kWordBits
  /\ \A n \in Sizes : n < TwoTo(DataBits(kByteBits))
  /\ MaxLaceBytes \in Nat /\ kHeader + MaxLaceBytes < TwoTo(DataBits(kByteBits))

VARIABLES state, lacing, size, num_frames,
          header_bytes_read_, xiph_lace_size_, lace_sizes_,
          uint_parser_,      \* the bytes of the number that is being read
          current_lace_, frame_metadata_,
          status,            \* what Feed does or has returned
          num_bytes_read,    \* the sum of what the calls of Feed have returned
          payload,           \* the bytes read behind the header
          frames             \* the metadata of the frames that were read
headerVars == << lacing, size, num_frames >>
frameVars == << current_lace_, frame_metadata_, frames >>
vars == << state, headerVars, header_bytes_read_, xiph_lace_size_, lace_sizes_, uint_parser_,
           frameVars, status, num_bytes_read, payload >>

-----------------------------------------------------------------------------
(* VarIntParser: zeros before the first bit that is set tell how many bytes     *)
(* follow the first; the bits behind it are the number.                        *)
LeadingZeros(b) ==
  CHOOSE n \in 0 .. kByteBits - 1 : b \in TwoTo(kByteBits - 1 - n) .. TwoTo(kByteBits - n) - 1
Number(bs) ==
  LET upTo[i \in 0 .. Len(bs)] == IF i = 0 THEN 0 ELSE upTo[i - 1] * TwoTo(kByteBits) + bs[i]
  IN  upTo[Len(bs)]
VarInt(bs) == Number(bs) % TwoTo(DataBits(Len(bs)))
Bias(length) == TwoTo(DataBits(length) - 1) - 1

Word(n) == n % TwoTo(kWordBits)
Sum(ns) ==
  LET upTo[i \in 0 .. Len(ns)] == IF i = 0 THEN 0 ELSE upTo[i - 1] + ns[i]
  IN  upTo[Len(ns)]

-----------------------------------------------------------------------------
Init ==
  /\ state = "ReadingHeader" /\ lacing \in {"none", "xiph", "fixed", "ebml"}
  /\ size \in Sizes /\ num_frames = 0
  /\ header_bytes_read_ = 0 /\ xiph_lace_size_ = 0 /\ lace_sizes_ = << >> /\ uint_parser_ = << >>
  /\ current_lace_ = 1 /\ frame_metadata_ = [ position |-> 0, size |-> 0 ] /\ frames = << >>
  /\ status = "feeding" /\ num_bytes_read = 0 /\ payload = << >>

Running(s) == status = "feeding" /\ state = s

\* Mutant: the sum of a size's first bytes is lost between two calls.
FeedAnew ==
  /\ status = "partial" /\ status' = "feeding" /\ xiph_lace_size_' = 0
  /\ UNCHANGED << state, headerVars, header_bytes_read_, lace_sizes_, uint_parser_,
                  frameVars, num_bytes_read, payload >>

\* A call of Feed goes on where the one before it returned.
Feed ==
  /\ status = "partial" /\ status' = "feeding"
  /\ UNCHANGED << state, headerVars, header_bytes_read_, xiph_lace_size_, lace_sizes_, uint_parser_,
                  frameVars, num_bytes_read, payload >>

Reads == { "ReadingHeader", "ReadingLaceCount", "ReadingXiphLaceSizes", "ReadingFirstEbmlLaceSize",
           "ReadingEbmlLaceSizes" }
\* The reader has no byte, or the callback asks to be called again.
Interrupted ==
  /\ status = "feeding" /\ state \in Reads \cup {"GettingAction"} /\ status' = "partial"
  /\ UNCHANGED << state, headerVars, header_bytes_read_, xiph_lace_size_, lace_sizes_, uint_parser_,
                  frameVars, num_bytes_read, payload >>

ReadHeader ==
  /\ Running("ReadingHeader")
  /\ \E n \in 1 .. kHeader - header_bytes_read_ :
       /\ header_bytes_read_' = header_bytes_read_ + n
       /\ num_bytes_read' = num_bytes_read + n
  /\ IF header_bytes_read_' < kHeader THEN status' = "partial" /\ UNCHANGED << state, num_frames >>
     ELSE /\ UNCHANGED status
          /\ IF lacing = "none" THEN state' = "GettingAction" /\ num_frames' = 1
             ELSE state' = "ReadingLaceCount" /\ UNCHANGED num_frames
  /\ UNCHANGED << lacing, size, xiph_lace_size_, lace_sizes_, uint_parser_, frameVars, payload >>

ReadByte(byte) ==
  /\ Len(payload) < MaxLaceBytes
  /\ payload' = Append(payload, byte)
  /\ header_bytes_read_' = header_bytes_read_ + 1 /\ num_bytes_read' = num_bytes_read + 1

ReadLaceCount ==
  /\ Running("ReadingLaceCount")
  /\ \E lace_count \in Counts : ReadByte(lace_count) /\ num_frames' = lace_count + 1
  /\ state' = "GettingAction"
  /\ UNCHANGED << lacing, size, xiph_lace_size_, lace_sizes_, uint_parser_, frameVars, status >>

\* What OnBlockBegin or OnSimpleBlockBegin asks for.
GetAction ==
  /\ Running("GettingAction")
  /\ state' \in { "Skipping",
                  IF num_frames = 1 THEN "ValidatingSize"
                  ELSE CASE lacing = "xiph" -> "ReadingXiphLaceSizes"
                         [] lacing = "ebml" -> "ReadingFirstEbmlLaceSize"
                         [] OTHER -> "CalculatingFixedLaceSizes" }
  /\ UNCHANGED << headerVars, header_bytes_read_, xiph_lace_size_, lace_sizes_, uint_parser_,
                  frameVars, status, num_bytes_read, payload >>

SizesRead(sizes) == Len(sizes) >= num_frames - 1

ReadXiphLaceSize ==
  /\ Running("ReadingXiphLaceSizes")
  /\ \E byte \in Bytes :
       /\ ReadByte(byte)
       /\ IF byte = TwoTo(kByteBits) - 1
          THEN xiph_lace_size_' = xiph_lace_size_ + byte /\ UNCHANGED lace_sizes_
          ELSE xiph_lace_size_' = 0 /\ lace_sizes_' = Append(lace_sizes_, xiph_lace_size_ + byte)
  /\ state' = IF SizesRead(lace_sizes_') THEN "ValidatingSize" ELSE state
  /\ UNCHANGED << headerVars, uint_parser_, frameVars, status >>

\* A size after the first is coded as the difference to the one before it.
NextSize(sizes, bytes) == Word(sizes[Len(sizes)] + VarInt(bytes) - Bias(Len(bytes)))

ReadEbmlLaceSize ==
  /\ Running("ReadingFirstEbmlLaceSize") \/ Running("ReadingEbmlLaceSizes")
  /\ \E byte \in Bytes : \E bytes \in { Append(uint_parser_, byte) } :
       /\ ReadByte(byte)
       /\ IF bytes[1] = 0
          THEN status' = "invalid" /\ UNCHANGED << state, lace_sizes_, uint_parser_ >>
          ELSE /\ UNCHANGED status
               /\ IF Len(bytes) <= LeadingZeros(bytes[1])
                  THEN uint_parser_' = bytes /\ UNCHANGED << state, lace_sizes_ >>
                  ELSE /\ uint_parser_' = << >>
                       /\ lace_sizes_' = Append(lace_sizes_,
                            IF lace_sizes_ = << >> THEN VarInt(bytes) ELSE NextSize(lace_sizes_, bytes))
                       /\ state' = IF SizesRead(lace_sizes_') THEN "ValidatingSize" ELSE "ReadingEbmlLaceSizes"
  /\ UNCHANGED << headerVars, xiph_lace_size_, frameVars >>

Divides(n) == n > 0 /\ n % num_frames = 0
CalculateFixedLaceSizes ==
  /\ Running("CalculatingFixedLaceSizes")
  /\ LET data == size - header_bytes_read_
     IN  IF Divides(data)
         THEN /\ lace_sizes_' = [ i \in 1 .. num_frames |-> data \div num_frames ]
              /\ frame_metadata_' = [ position |-> Position + header_bytes_read_, size |-> data \div num_frames ]
              /\ state' = "ReadingFrames" /\ UNCHANGED status
         ELSE status' = "invalid" /\ UNCHANGED << state, lace_sizes_, frame_metadata_ >>
  /\ UNCHANGED << headerVars, header_bytes_read_, xiph_lace_size_, uint_parser_, current_lace_, frames,
                  num_bytes_read, payload >>

\* The last frame has what the others leave, which must be something.
ValidateSize ==
  /\ Running("ValidatingSize")
  /\ LET sum == Word(header_bytes_read_ + Sum(lace_sizes_))
     IN  IF sum < size
         THEN /\ lace_sizes_' = Append(lace_sizes_, size - sum)
              /\ frame_metadata_' =
                   [ position |-> Position + HeaderSize + header_bytes_read_, size |-> lace_sizes_'[1] ]
              /\ state' = "ReadingFrames" /\ UNCHANGED status
         ELSE status' = "invalid" /\ UNCHANGED << state, lace_sizes_, frame_metadata_ >>
  /\ UNCHANGED << headerVars, header_bytes_read_, xiph_lace_size_, uint_parser_, current_lace_, frames,
                  num_bytes_read, payload >>

\* Mutant: the whole block is skipped behind what was read of it.
LeftWhole == size

\* The header that was read is not skipped again.
LeftToSkip == size - header_bytes_read_
Skip ==
  /\ Running("Skipping")
  /\ \E n \in 0 .. Max({0, LeftToSkip}) :
       /\ header_bytes_read_' = header_bytes_read_ + n /\ num_bytes_read' = num_bytes_read + n
       /\ status' = IF n = LeftToSkip THEN "skipped" ELSE "partial"
  /\ UNCHANGED << state, headerVars, xiph_lace_size_, lace_sizes_, uint_parser_, frameVars, payload >>

\* OnFrame reads some or all of what is left of a frame; it is called again for the rest.
ReadFrame ==
  /\ Running("ReadingFrames") /\ current_lace_ <= Len(lace_sizes_)
  /\ lace_sizes_[current_lace_] <= size
  /\ \E n \in 0 .. lace_sizes_[current_lace_] :
       /\ num_bytes_read' = num_bytes_read + n
       /\ lace_sizes_' = [ lace_sizes_ EXCEPT ![current_lace_] = @ - n ]
  /\ IF lace_sizes_'[current_lace_] > 0
     THEN status' = "partial" /\ UNCHANGED frameVars
     ELSE /\ UNCHANGED status
          /\ frames' = Append(frames, frame_metadata_) /\ current_lace_' = current_lace_ + 1
          /\ frame_metadata_' =
               IF current_lace_ = Len(lace_sizes_) THEN frame_metadata_
               ELSE [ position |-> frame_metadata_.position + frame_metadata_.size,
                      size |-> lace_sizes_[current_lace_ + 1] ]
  /\ UNCHANGED << state, headerVars, header_bytes_read_, xiph_lace_size_, uint_parser_, payload >>

\* A size that wrapped below zero passed ValidateSize: OnFrame is asked for more
\* than the block has.  What it reads then is not followed.
FrameBeyondBlock ==
  /\ Running("ReadingFrames") /\ current_lace_ <= Len(lace_sizes_)
  /\ lace_sizes_[current_lace_] > size /\ status' = "beyond"
  /\ UNCHANGED << state, headerVars, header_bytes_read_, xiph_lace_size_, lace_sizes_, uint_parser_,
                  frameVars, num_bytes_read, payload >>

FramesRead ==
  /\ Running("ReadingFrames") /\ current_lace_ > Len(lace_sizes_)
  /\ state' = "Done" /\ status' = "completed"
  /\ UNCHANGED << headerVars, header_bytes_read_, xiph_lace_size_, lace_sizes_, uint_parser_,
                  frameVars, num_bytes_read, payload >>

Next ==
  \/ Feed \/ Interrupted \/ ReadHeader \/ ReadLaceCount \/ GetAction
  \/ ReadXiphLaceSize \/ ReadEbmlLaceSize \/ CalculateFixedLaceSizes \/ ValidateSize
  \/ Skip \/ ReadFrame \/ FrameBeyondBlock \/ FramesRead
Spec == Init /\ [][Next]_vars

-----------------------------------------------------------------------------
(* Block::Parse of mkvparser, on the bytes b behind the header: the lengths of  *)
(* the frames, none if the block is refused.                                   *)
Refused == << >>

\* The size at the front of what is left, a row of bytes of which the last is less
\* than 255, and the bytes behind it.
NextXiph(laced) ==
  LET ends == { i \in DOMAIN laced.rest : laced.rest[i] < TwoTo(kByteBits) - 1 }
  IN  IF ends = {} THEN [ sizes |-> Append(laced.sizes, 0), rest |-> << >> ]
      ELSE [ sizes |-> Append(laced.sizes, Sum(SubSeq(laced.rest, 1, Min(ends)))),
             rest  |-> SubSeq(laced.rest, Min(ends) + 1, Len(laced.rest)) ]

\* The sizes of n frames at the front of b.
XiphSizes(b, n) ==
  LET laced[k \in 0 .. n] ==
        IF k = 0 THEN [ sizes |-> << >>, rest |-> b ] ELSE NextXiph(laced[k - 1])
  IN  laced[n]

\* A number at the front of b and the bytes behind it; -1 is no number.
ReadUInt(b) ==
  IF b = << >> \/ Head(b) = 0 THEN [ value |-> -1, length |-> 1, rest |-> << >> ]
  ELSE LET length == LeadingZeros(Head(b)) + 1
       IN  IF length > Len(b) THEN [ value |-> -1, length |-> length, rest |-> << >> ]
           ELSE [ value |-> VarInt(SubSeq(b, 1, length)), length |-> length, rest |-> SubSeq(b, length + 1, Len(b)) ]

NextEbml(laced) ==
  LET delta == ReadUInt(laced.rest)
  IN  IF delta.value < 0 THEN [ sizes |-> Append(laced.sizes, 0), rest |-> << >> ]
      ELSE [ sizes |-> Append(laced.sizes,
                         laced.sizes[Len(laced.sizes)] + delta.value - Bias(delta.length)),
             rest  |-> delta.rest ]

\* The sizes of n frames more behind the first.
EbmlSizes(size1, b, n) ==
  LET laced[k \in 0 .. n] ==
        IF k = 0 THEN [ sizes |-> << size1 >>, rest |-> b ] ELSE NextEbml(laced[k - 1])
  IN  laced[n]

\* The last frame has what the others leave; no frame is empty.
WithLast(laced) ==
  LET last == Len(laced.rest) - Sum(laced.sizes)
  IN  IF last > 0 /\ \A i \in DOMAIN laced.sizes : laced.sizes[i] > 0 THEN Append(laced.sizes, last) ELSE Refused

FixedLens(b, n) == IF b # << >> /\ Len(b) % n = 0 THEN [ i \in 1 .. n |-> Len(b) \div n ] ELSE Refused

EbmlLens(b, n) ==
  LET first == ReadUInt(b)
      left == Len(first.rest) - first.value
  IN  IF first.value <= 0 \/ left < 0 THEN Refused
      ELSE IF n = 1 THEN IF left = 0 THEN << first.value >> ELSE Refused
      ELSE WithLast(EbmlSizes(first.value, first.rest, n - 2))

Parse(b) ==
  CASE b = << >>        -> Refused
    [] lacing = "none"  -> << Len(b) >>
    [] lacing = "xiph"  -> WithLast(XiphSizes(Tail(b), Head(b)))
    [] lacing = "fixed" -> FixedLens(Tail(b), Head(b) + 1)
    [] OTHER            -> EbmlLens(Tail(b), Head(b) + 1)

-----------------------------------------------------------------------------
Lens == [ i \in DOMAIN frames |-> frames[i].size ]

\* The bytes of the block behind its header; those of frames do not matter.
WholePayload == [ i \in 1 .. size - kHeader |-> IF i \in DOMAIN payload THEN payload[i] ELSE 0 ]

\* With a single frame mkvparser expects its size before it if the lacing is
\* EBML's, and webm_parser does not: the formats have none.
SingleEbml == lacing = "ebml" /\ num_frames = 1

\* However the block is fed, webm_parser delivers the frames that mkvparser
\* finds.  It takes blocks that mkvparser refuses only if a frame is empty or
\* its size wrapped.
ParsersAgree ==
  status \in {"completed", "invalid", "beyond"} /\ ~SingleEbml =>
    \E lens \in { Parse(WholePayload) } :
      /\ lens # Refused => status = "completed" /\ Lens = lens
      /\ status = "completed" /\ (\A i \in DOMAIN Lens : Lens[i] > 0) => Lens = lens

\* The frames of a block follow each other up to its end, one for each that was
\* announced, and the calls of Feed say that they have read the block, no less
\* and no more, also if it is skipped from whatever was read of it on.
FramesFillBlock ==
  /\ status = "completed" =>
       /\ Len(frames) = num_frames
       /\ \A i \in 1 .. num_frames - 1 : frames[i + 1].position = frames[i].position + frames[i].size
       /\ header_bytes_read_ + Sum(Lens) = size
  /\ status \in {"completed", "skipped"} => num_bytes_read = size
=============================================================================
