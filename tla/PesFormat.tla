------------------------------ MODULE PesFormat ------------------------------
(***************************************************************************)
(* The bytes of a packetized elementary stream as m2ts/webm2pes.cc writes   *)
(* them.  A byte is a number, a presentation time in ticks of the 90 kHz    *)
(* clock the set of its bits that are 1: the code shifts and joins bits.    *)
(* Conversion between nanoseconds and ticks is left out.                    *)
(***************************************************************************)
EXTENDS Integers, Sequences, FiniteSets, SequencesExt, FiniteSetsExt

CONSTANT kMaxPayloadSize      \* 32768 in the code

\* A packet length is stored in 16 bits.
ASSUME PayloadSizeAssumption == kMaxPayloadSize \in Nat \ {0} /\ kMaxPayloadSize <= 65516

\* The sequences ss one behind the other.
Concat(ss) ==
  LET upTo[i \in 0 .. Len(ss)] == IF i = 0 THEN << >> ELSE upTo[i - 1] \o ss[i]
  IN  upTo[Len(ss)]

\* The number with these digits, the highest first.  In base 1 it is their sum.
Number(base, digits) ==
  LET upTo[i \in 0 .. Len(digits)] == IF i = 0 THEN 0 ELSE base * upTo[i - 1] + digits[i]
  IN  upTo[Len(digits)]

kOptionalHeaderSize == 9
kBcmvHeaderSize == 10

-----------------------------------------------------------------------------
\* Numbers as sets of bits.

Shifted(bits, n) == { b + n : b \in bits } \cap (0 .. 63)
Field(bits, low, width) == Shifted(bits, -low) \cap (0 .. width - 1)
ByteOf(bits, i) ==
  Number(2, [ k \in 1 .. 8 |-> IF 8 - k \in Field(bits, 8 * i, 8) THEN 1 ELSE 0 ])
BitsOf(byte) == { b \in 0 .. 7 : (byte \div 2 ^ b) % 2 = 1 }

\* The five bytes of a time: the lowest is written first.  The second of the two
\* middle bytes is not masked when it is put in.
SetPtsBits(pts) ==
  LET pts1 == Field(pts, 30, 3)
      pts2 == Field(pts, 15, 15)
      pts3 == Field(pts, 0, 15)
      low  == (Shifted(pts3, 1) \cap (0 .. 7)) \cup {0}
      low2 == Shifted(low, 8) \cup Field(pts3, 7, 8)
      mid  == Shifted(low2, 8) \cup Shifted(pts2, 1) \cup {0}
      mid2 == Shifted(mid, 8) \cup Field(pts2, 7, 8)
  IN  Shifted(mid2, 8) \cup {5} \cup Shifted(pts1, 1) \cup {0}

\* What VpxPesParser makes of them: 32 bits of an int, its sign extended.
PtsOfBytes(b) ==
  LET word == Shifted(BitsOf(b[1]) \cap {1, 2, 3}, 29)
                \cup Shifted((Shifted(BitsOf(b[2]), 8) \cup BitsOf(b[3])) \ {0}, 14)
                \cup Shifted(Shifted(BitsOf(b[4]), 8) \cup BitsOf(b[5]), -1)
  IN  IF 31 \in word THEN (word \cap (0 .. 31)) \cup (32 .. 63)
                     ELSE word \cap (0 .. 31)

-----------------------------------------------------------------------------
\* CopyAndEscapeStartCodes: a 3 goes before a 1 or a 3 that follows two zeros.
Escaped(bytes) ==
  Concat([ i \in 1 .. Len(bytes) |->
             IF /\ i > 2 /\ bytes[i - 1] = 0 /\ bytes[i - 2] = 0
                /\ bytes[i] \in {1, 3}
             THEN << 3, bytes[i] >> ELSE << bytes[i] >> ])

OptionalHeader(writePts, pts) ==
  << 128, IF writePts THEN 128 ELSE 0, 6 >>
    \o (IF writePts THEN [ i \in 1 .. 5 |-> ByteOf(SetPtsBits(pts), i - 1) ]
                    ELSE << 255, 255, 255, 255, 255 >>)
    \o << 255 >>

\* length: what follows the optional header, before it is escaped.
PesHeader(length, writePts, pts) ==
  LET n == length + kOptionalHeaderSize
  IN  << 0, 0, 1, 224, n \div 256, n % 256 >> \o Escaped(OptionalHeader(writePts, pts))

BcmvHeader(length) ==
  LET n == length + kBcmvHeaderSize
  IN  << 66, 67, 77, 86 >>
        \o Escaped(<< n \div 16777216, (n \div 65536) % 256, (n \div 256) % 256,
                      n % 256, 0, 0 >>)

-----------------------------------------------------------------------------
\* ParseVP9SuperFrameIndex: where the frames lie in a superframe, whose index is
\* at its end.
SuperFrameIndex(data) ==
  LET length == Len(data)
      marker == data[length]
      isIndex == marker \div 32 = 6
      count  == (marker % 8) + 1
      width  == ((marker \div 8) % 4) + 1
      index  == 2 + width * count
      rest   == length - index
      size(i) == Number(256, [ k \in 1 .. width |-> data[rest + 2 + i * width - k] ])
      offset(i) == Number(1, [ j \in 1 .. i - 1 |-> size(j) ])
      valid  == /\ rest >= index
                /\ data[rest + 1] = marker
                /\ \A i \in 1 .. count : offset(i) + size(i) <= rest
  IN  [ found |-> isIndex, error |-> isIndex /\ ~ valid,
        ranges |-> IF isIndex /\ valid
                   THEN [ i \in 1 .. count |-> [ offset |-> offset(i), length |-> size(i) ] ]
                   ELSE << >> ]

\* The ranges of a frame that become packets of their own.
Ranges(frame) ==
  LET whole == << [ offset |-> 0, length |-> Len(frame.data) ] >>
  IN  IF frame.codec = "VP9" /\ SuperFrameIndex(frame.data).found
      THEN SuperFrameIndex(frame.data).ranges
      ELSE whole

RangeData(frame, r) == SubSeq(frame.data, r.offset + 1, r.offset + r.length)

Pieces(data) ==
  [ k \in 1 .. 1 + (Len(data) - 1) \div kMaxPayloadSize |->
      SubSeq(data, (k - 1) * kMaxPayloadSize + 1,
             IF k * kMaxPayloadSize < Len(data) THEN k * kMaxPayloadSize ELSE Len(data)) ]

\* The packets of one range: the first one has the time and the BCMV header.
RangePackets(data, pts) ==
  Concat([ k \in 1 .. Len(Pieces(data)) |->
    LET piece == Pieces(data)[k]
    IN  IF k = 1
        THEN PesHeader(Len(piece) + kBcmvHeaderSize, TRUE, pts)
               \o BcmvHeader(Len(data)) \o Escaped(piece)
        ELSE PesHeader(Len(piece), FALSE, pts) \o Escaped(piece) ])

\* WritePesPacket fails on an empty frame, a bad index and an empty range, which
\* it cannot copy.
CanWrite(frame) ==
  /\ frame.data # << >>
  /\ frame.codec = "VP9" => ~ SuperFrameIndex(frame.data).error
  /\ \A i \in 1 .. Len(Ranges(frame)) : Ranges(frame)[i].length > 0

WritePesPacket(frame) ==
  Concat([ i \in 1 .. Len(Ranges(frame)) |->
                 RangePackets(RangeData(frame, Ranges(frame)[i]), frame.pts) ])
=============================================================================
