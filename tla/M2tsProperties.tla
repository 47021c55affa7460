--------------------------- MODULE M2tsProperties ---------------------------
(* What must hold of m2ts, and what does not.                                *)
EXTENDS M2ts

TsPayload(p) ==
  IF p.adapts THEN SubSeq(p.bytes, p.bytes[1] + 2, Len(p.bytes)) ELSE p.bytes

\* Every transport packet is full, and what a demultiplexer takes out of them,
\* adaptation fields left out, is the stream of PES packets so far
\* (VpxPes2Ts::ReceivePacket).
TsCarriesPes ==
  /\ \A i \in 1 .. Len(ts) : Len(ts[i].bytes) = kTsPayloadSize
  /\ Concat([ i \in 1 .. Len(ts) |-> TsPayload(ts[i]) ])
       = SubSeq(file, 1, Len(file) - bytesToPacketize)

\* Frames the stream carries: no time that SetPtsBits mixes up or the parser's int
\* cannot hold, no three zeros before a 1 or a 3, and no escape in the first of
\* several fragments.
Plain(s) ==
  /\ Field(s.pts, 22, 8) \subseteq Field(s.pts, 7, 8) /\ {31, 32} \cap s.pts = {}
  /\ \A k \in 1 .. Len(Pieces(s.data)) :
       LET p == Pieces(s.data)[k]
       IN  \A i \in 1 .. Len(p) - 3 : ~ (SubSeq(p, i, i + 2) = << 0, 0, 0 >> /\ p[i + 3] \in {1, 3})
  /\ Len(Pieces(s.data)) > 1 => Escaped(Pieces(s.data)[1]) = Pieces(s.data)[1]

AllRead == pc \in {"open", "refused"} /\ (readPos >= end \/ StartCodes(readPos) = {})

\* The frames that VpxPesParser delivers are those that Webm2Pes was given, one
\* for one; a frame the stream cannot carry damages no other; a file that ends
\* early gives no frame of which more than a byte is missing.
FramesComeBack ==
  /\ \A i \in DOMAIN got :
       /\ i <= Len(sent) /\ ends[i] <= end + 1
       /\ Plain(sent[i]) /\ ends[i] <= end => got[i] = sent[i]
  /\ AllRead /\ end = Len(file) => Len(got) = Len(sent)

\* webm2pes.cc:38 shows the 33 bits of a presentation time one after the other in
\* the five bytes, which the parser reads accordingly.  They are not kept apart.
TimesComeBack == \A i \in DOMAIN got : got[i].pts = sent[i].pts
=============================================================================
