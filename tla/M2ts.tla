-------------------------------- MODULE M2ts --------------------------------
(***************************************************************************)
(* The m2ts directory: Webm2Pes turns the frames of a WebM file into a       *)
(* packetized elementary stream, VpxPes2Ts cuts that stream into transport   *)
(* packets, VpxPesParser reads frames back from it.                          *)
(*                                                                           *)
(*   file, end, beyond   pes_file_data_, how much of it there is, and the    *)
(*                       value found in the byte behind it                   *)
(*   readPos, parseState, payload   members of VpxPesParser                  *)
(*   header              the PesHeader of the packet being parsed            *)
(*   bytesToPacketize, continuityCounter, packet   locals of ReceivePacket   *)
(*   ts                  the transport packets written                       *)
(*   sent, got           what was put into packets, what came out of them    *)
(*   ends                where in the file the packets of each sent one end  *)
(***************************************************************************)
EXTENDS PesFormat

CONSTANTS Frames,             \* the frames a file may have
          MaxFrames,          \* bound: frames converted
          Cuts,               \* how many bytes may be missing at the end of a file
          Beyond,             \* values of the byte behind the end
          kTsPayloadSize      \* 184 in the code

ASSUME TsPayloadAssumption == kTsPayloadSize \in Nat /\ kTsPayloadSize > 2

ASSUME FramesAssumption ==
  \A f \in Frames : f.data \in Seq(0 .. 255) /\ f.pts \subseteq 0 .. 63

VARIABLES pc, file, end, beyond, readPos, parseState, payload, header,
          packet, bytesToPacketize, continuityCounter, ts, sent, ends, got

parserVars == << readPos, parseState, payload, header, got >>
writerVars == << file, sent, ends >>
tsVars == << packet, bytesToPacketize, continuityCounter, ts >>
fileVars == << end, beyond >>
vars == << pc, writerVars, fileVars, parserVars, tsVars >>

NoHeader == [ length |-> 0, pts |-> {}, bcmv |-> 0 ]

Init ==
  /\ pc = "convert" /\ file = << >> /\ sent = << >> /\ ends = << >>
  /\ end = 0 /\ beyond \in Beyond
  /\ readPos = 0 /\ parseState = "FindStartCode" /\ payload = << >>
  /\ header = NoHeader /\ got = << >>
  /\ packet = << >> /\ bytesToPacketize = 0 /\ continuityCounter = 0 /\ ts = << >>

-----------------------------------------------------------------------------
(* Webm2Pes and VpxPes2Ts.                                                   *)

PacketEnds(f) ==
  [ i \in 1 .. Len(Ranges(f)) |->
      Len(file) + Len(Concat([ j \in 1 .. i |->
                        RangePackets(RangeData(f, Ranges(f)[j]), f.pts) ])) ]

\* A frame of the video track.  The same packets go to a file and to the
\* receiver (ConvertToFile, ConvertToPacketReceiver).
ConvertFrame(f) ==
  /\ pc = "convert" /\ Len(sent) < MaxFrames
  /\ IF CanWrite(f)
     THEN /\ packet' = WritePesPacket(f)
          /\ file' = file \o packet'
          /\ ends' = ends \o PacketEnds(f)
          /\ sent' = sent \o [ i \in 1 .. Len(Ranges(f)) |->
                                 [ pts |-> f.pts, data |-> RangeData(f, Ranges(f)[i]) ] ]
          /\ bytesToPacketize' = Len(packet')
          /\ continuityCounter' = 0
          /\ pc' = "packetize"
          /\ UNCHANGED ts
     ELSE /\ pc' = "converted"
          /\ UNCHANGED << writerVars, tsVars >>
  /\ UNCHANGED << fileVars, parserVars >>

\* Mutant of PayloadSize: without the case of a remainder that leaves no room for the second byte.
PayloadSizeAsLeft(left) == IF left >= kTsPayloadSize THEN kTsPayloadSize ELSE left

PayloadSize(left) ==
  IF left >= kTsPayloadSize THEN kTsPayloadSize
  ELSE IF left = kTsPayloadSize - 1 THEN left - 1
  ELSE left

\* One round of ReceivePacket's loop.  A payload that is too short follows an
\* adaptation field, which takes two bytes at least.
PacketizeOne ==
  /\ pc = "packetize" /\ bytesToPacketize > 0
  /\ LET size    == PayloadSize(bytesToPacketize)
         readAt  == Len(packet) - bytesToPacketize
         adapts  == bytesToPacketize < kTsPayloadSize
         padSize == kTsPayloadSize - size - 1 - 1
         counter == IF continuityCounter > 15 THEN 0 ELSE continuityCounter
     IN  /\ ts' = Append(ts,
                    [ start   |-> readAt = 0,
                      adapts  |-> adapts,
                      counter |-> counter,
                      bytes   |-> (IF adapts
                                   THEN << padSize + 1, 0 >> \o [ i \in 1 .. padSize |-> 255 ]
                                   ELSE << >>)
                                    \o SubSeq(packet, readAt + 1, readAt + size) ])
         /\ bytesToPacketize' = bytesToPacketize - size
         /\ continuityCounter' = counter + 1
  /\ UNCHANGED << pc, writerVars, fileVars, parserVars, packet >>

Packetized ==
  /\ pc = "packetize" /\ bytesToPacketize = 0
  /\ pc' = "convert"
  /\ UNCHANGED << writerVars, fileVars, parserVars, tsVars >>

\* The file is at its end.  VpxPesParser::Open reads all of what arrived of it.
Open(cut) ==
  /\ pc \in {"convert", "converted"} /\ cut < Len(file)
  /\ end' = Len(file) - cut
  /\ readPos' = 0 /\ parseState' = "FindStartCode"
  /\ pc' = "open"
  /\ UNCHANGED << writerVars, tsVars, beyond, payload, header, got >>

-----------------------------------------------------------------------------
(* VpxPesParser.                                                             *)

ByteAt(pos) == IF pos < end THEN file[pos + 1] ELSE beyond

\* FindStartCode: the last place looked at is three bytes before the end.
StartCodes(origin) ==
  IF end - origin < 3 \/ origin + 2 >= end THEN {}
  ELSE { p \in origin .. end - 4 : ByteAt(p) = 0 /\ ByteAt(p + 1) = 0 /\ ByteAt(p + 2) = 1 }

\* RemoveStartCodeEmulationPreventionBytes.  The byte behind the end may be read.
Unescaped(pos, required) ==
  LET r == FoldLeft(LAMBDA s, p :
             IF Len(s.out) = required THEN s
             ELSE [ consumed |-> s.consumed + 1,
                    zeros |-> IF ByteAt(p) = 0 THEN s.zeros + 1 ELSE 0,
                    out |-> IF ByteAt(p) = 3 /\ s.zeros = 2 THEN s.out
                            ELSE Append(s.out, ByteAt(p)) ],
             [ consumed |-> 0, zeros |-> 0, out |-> << >> ],
             \* no more than every third byte is left out
             [ i \in 1 .. Min({end - pos + 1, 2 * required}) |-> pos + i - 1 ])
  IN  [ ok |-> required > 0 /\ Len(r.out) = required, out |-> r.out,
        next |-> pos + r.consumed ]

\* ParsePesHeader and ParsePesOptionalHeader.  failed: the state in which the
\* parser is left by what it did not accept.
Headers(pos) ==
  LET opt  == Unescaped(pos + 6, kOptionalHeaderSize)
      o    == opt.out
      has  == o[2] >= 128
      fixed == /\ end - pos >= 6 /\ ByteAt(pos + 3) \in 224 .. 239
      rest == IF has THEN {9} ELSE 4 .. 9
      optional == /\ pos + 6 < end /\ opt.ok /\ o[3] = 6
                  /\ has => \A i \in {4, 6, 8} : o[i] % 2 = 1
                  /\ \A i \in rest : o[i] = 255
  IN  IF ~ fixed THEN [ failed |-> "ParsePesHeader", next |-> pos ]
      ELSE IF ~ optional THEN [ failed |-> "ParsePesOptionalHeader", next |-> pos + 6 ]
      ELSE [ failed |-> "no", next |-> opt.next,
             length |-> ByteAt(pos + 4) * 256 + ByteAt(pos + 5),
             pts |-> IF has THEN PtsOfBytes(SubSeq(o, 4, 8)) ELSE {} ]

\* ParseBcmvHeader.
Bcmv(pos) ==
  LET b == Unescaped(pos, kBcmvHeaderSize)
      length == ((b.out[5] * 256 + b.out[6]) * 256 + b.out[7]) * 256 + b.out[8]
  IN  [ ok |-> b.ok /\ b.out[9] = 0 /\ b.out[10] = 0 /\ length > 0
                 /\ SubSeq(b.out, 1, 4) = << 66, 67, 77, 86 >>,
        length |-> IF b.ok THEN length ELSE 0, next |-> b.next ]

\* The call gives up where it stands.
GiveUp(pos, state) ==
  /\ readPos' = pos /\ parseState' = state
  /\ pc' = "refused"
  /\ UNCHANGED << header, payload, got >>

\* Mutant of Deliver: what was gathered stays.
DeliverKeeping(h, gathered) ==
  /\ got' = Append(got, [ pts |-> h.pts, data |-> gathered ])
  /\ payload' = gathered
  /\ parseState' = "FindStartCode"

\* The end of ParseNextPacket: the frame takes what was gathered.
Deliver(h, gathered) ==
  /\ got' = Append(got, [ pts |-> h.pts, data |-> gathered ])
  /\ payload' = << >>
  /\ parseState' = "FindStartCode"

\* ParseNextPacket up to the payload, and the payload when it is in one packet.
ParseNextPacket ==
  /\ pc = "open" /\ parseState = "FindStartCode" /\ readPos # end
  /\ IF StartCodes(readPos) = {} THEN GiveUp(readPos, parseState)
     ELSE LET start == Min(StartCodes(readPos))
              h     == Headers(start)
              b     == Bcmv(h.next)
              length == b.length - kBcmvHeaderSize
              whole == Unescaped(b.next, length)
          IN  IF h.failed # "no" THEN GiveUp(h.next, h.failed)
              ELSE IF ~ b.ok THEN GiveUp(h.next, "ParseBcmvHeader")
              \* Need more data.
              ELSE IF b.next + length > end THEN GiveUp(start, "FindStartCode")
              ELSE /\ header' = [ length |-> h.length, pts |-> h.pts, bcmv |-> b.length ]
                   /\ IF h.length # 0 /\ h.length - kOptionalHeaderSize # b.length
                      THEN \* The first fragment is copied as it is.
                           LET first == h.length - kOptionalHeaderSize - kBcmvHeaderSize
                           IN  /\ payload' = payload \o SubSeq(file, b.next + 1, b.next + first)
                               /\ readPos' = b.next + first
                               /\ parseState' = "FindStartCode"
                               /\ pc' = "fragments"
                               /\ UNCHANGED got
                      ELSE IF whole.ok
                      THEN /\ Deliver(header', payload \o whole.out)
                           /\ readPos' = whole.next
                           /\ UNCHANGED pc
                      ELSE /\ payload' = payload \o whole.out
                           /\ readPos' = b.next /\ parseState' = "FindStartCode"
                           /\ pc' = "refused"
                           /\ UNCHANGED got
  /\ UNCHANGED << writerVars, fileVars, tsVars >>

\* One round of AccumulateFragmentedPayload's loop.
AccumulateFragment ==
  /\ pc = "fragments" /\ Len(payload) < header.bcmv - kBcmvHeaderSize
  /\ IF StartCodes(readPos) = {} THEN GiveUp(readPos, parseState)
     ELSE LET start == Min(StartCodes(readPos))
              h     == Headers(start)
              piece == Unescaped(h.next, h.length - kOptionalHeaderSize)
          IN  IF h.failed # "no" THEN GiveUp(h.next, h.failed)
              ELSE /\ parseState' = "ParseBcmvHeader"
                   /\ payload' = payload \o piece.out
                   /\ readPos' = IF piece.ok THEN piece.next ELSE h.next
                   /\ pc' = IF piece.ok THEN pc ELSE "refused"
                   /\ UNCHANGED << header, got >>
  /\ UNCHANGED << writerVars, fileVars, tsVars >>

FragmentsGathered ==
  /\ pc = "fragments" /\ Len(payload) >= header.bcmv - kBcmvHeaderSize
  /\ Deliver(header, payload)
  /\ pc' = "open"
  /\ UNCHANGED << readPos, header, writerVars, fileVars, tsVars >>

\* A caller may call again after a call failed.
CallAgain ==
  /\ pc = "refused" /\ parseState = "FindStartCode"
  /\ pc' = "open"
  /\ UNCHANGED << writerVars, fileVars, parserVars, tsVars >>

Next ==
  \/ \E f \in Frames : ConvertFrame(f)
  \/ PacketizeOne
  \/ Packetized
  \/ \E cut \in Cuts : Open(cut)
  \/ ParseNextPacket
  \/ AccumulateFragment
  \/ FragmentsGathered
  \/ CallAgain

Spec == Init /\ [][Next]_vars
=============================================================================
