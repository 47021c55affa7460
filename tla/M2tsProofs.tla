----------------------------- MODULE M2tsProofs -----------------------------
(* That the transport packets carry the stream of PES packets, for any frames. *)
EXTENDS M2tsProperties, TLAPS, WellFoundedInduction, SequenceTheorems

-----------------------------------------------------------------------------
(* Sequences one behind the other, and numbers.                             *)

\* Induction over the naturals, for a property given as a set.
LEMMA NatSetInduction ==
  ASSUME NEW S, 0 \in S, \A n \in Nat : n \in S => n + 1 \in S
  PROVE  Nat \subseteq S
<1> DEFINE T == Nat \ S
<1> SUFFICES ASSUME T # {} PROVE FALSE
  OBVIOUS
<1>1. IsWellFoundedOn(OpToRel(<, Nat), Nat)
  BY NatLessThanWellFounded
<1>2. PICK x \in T : \A y \in T : ~ (<<y, x>> \in OpToRel(<, Nat))
  BY <1>1, WFMin
<1>3. \A y \in T : ~ (y < x)
  BY <1>2 DEF OpToRel
<1>4. x # 0 /\ x - 1 \in Nat /\ x - 1 \notin T
  BY <1>3
<1> QED
  BY <1>4

\* Products and quotients of naturals are naturals.
LEMMA ProductNat ==
  ASSUME NEW a \in Nat, NEW b \in Nat, NEW c \in Nat
  PROVE  a * b \in Nat /\ a * b + c \in Nat
OBVIOUS

LEMMA QuotientNat ==
  ASSUME NEW a \in Nat, NEW b \in Nat, b > 0
  PROVE  a \div b \in Nat
OBVIOUS

\* Two sequences begin with the same n elements.
Agree(ss, ps, n) == \A k \in 1 .. n : ss[k] = ps[k]

\* Kept folded, since only its type and its elements matter.
Behind(s, t) == s \o t

LEMMA BehindType ==
  ASSUME NEW S, NEW s \in Seq(S), NEW t \in Seq(S)
  PROVE  Behind(s, t) \in Seq(S)
BY DEF Behind

\* f joins the first n sequences of ss.
Joins(f, ss, n) == f[0] = << >> /\ \A k \in 1 .. n : f[k] = Behind(f[k - 1], ss[k])

LEMMA JoinsExist ==
  ASSUME NEW S, NEW ss \in Seq(Seq(S)), NEW n \in Nat, n <= Len(ss)
  PROVE  \E f \in [0 .. n -> Seq(S)] : Joins(f, ss, n)
<1> DEFINE T == { m \in Nat : m <= Len(ss) => \E f \in [0 .. m -> Seq(S)] : Joins(f, ss, m) }
<1>1. 0 \in T
  <2> DEFINE f == [ k \in 0 .. 0 |-> << >> ]
  <2>1. f \in [0 .. 0 -> Seq(S)] /\ Joins(f, ss, 0)
    BY DEF Joins
  <2> QED
    BY <2>1
<1>2. ASSUME NEW m \in Nat, m \in T PROVE m + 1 \in T
  <2> SUFFICES ASSUME m + 1 <= Len(ss)
               PROVE  \E f \in [0 .. m + 1 -> Seq(S)] : Joins(f, ss, m + 1)
    BY <1>2
  <2>1. PICK f \in [0 .. m -> Seq(S)] : Joins(f, ss, m)
    BY <1>2
  <2>2. ss[m + 1] \in Seq(S) /\ f[m] \in Seq(S)
    BY <2>1
  <2> DEFINE joined == Behind(f[m], ss[m + 1])
             g == [ k \in 0 .. m + 1 |-> IF k = m + 1 THEN joined ELSE f[k] ]
  <2>3. joined \in Seq(S)
    BY <2>2, BehindType
  <2>4. g[m + 1] = Behind(f[m], ss[m + 1])
    OBVIOUS
  <2> HIDE DEF joined
  <2>5. g \in [0 .. m + 1 -> Seq(S)]
    BY <2>1, <2>3
  <2>6. g[0] = << >>
    BY <2>1 DEF Joins
  <2>7. \A k \in 0 .. m : g[k] = f[k]
    OBVIOUS
  <2> HIDE DEF g
  <2>8. ASSUME NEW k \in 1 .. m + 1 PROVE g[k] = Behind(g[k - 1], ss[k])
    <3>1. CASE k = m + 1
      BY <3>1, <2>4, <2>7
    <3>2. CASE k # m + 1
      <4>1. k \in 1 .. m /\ k - 1 \in 0 .. m /\ k \in 0 .. m
        BY <3>2
      <4> QED
        BY <4>1, <2>1, <2>7 DEF Joins
    <3> QED
      BY <3>1, <3>2
  <2>9. Joins(g, ss, m + 1)
    BY <2>6, <2>8 DEF Joins
  <2> QED
    BY <2>5, <2>9
<1>3. n \in T
  <2> HIDE DEF T
  <2> QED
    BY <1>1, <1>2, NatSetInduction
<1> QED
  BY <1>3

\* What joins the sequences of ss is one function, and Concat its last value.
LEMMA JoinsAgree ==
  ASSUME NEW ss, NEW ps, NEW f, NEW g, NEW n \in Nat,
         Joins(f, ss, n), Joins(g, ps, n), Agree(ss, ps, n)
  PROVE  f[n] = g[n]
<1> DEFINE T == { m \in Nat : m <= n => f[m] = g[m] }
<1>1. 0 \in T
  BY DEF Joins
<1>2. ASSUME NEW m \in Nat, m \in T PROVE m + 1 \in T
  <2> SUFFICES ASSUME m + 1 <= n PROVE f[m + 1] = g[m + 1]
    OBVIOUS
  <2>1. f[m] = g[m] /\ m + 1 \in 1 .. n /\ m + 1 - 1 = m
    BY <1>2
  <2>2. f[m + 1] = Behind(f[m], ss[m + 1]) /\ g[m + 1] = Behind(g[m], ps[m + 1])
    BY <2>1 DEF Joins
  <2> QED
    BY <2>1, <2>2 DEF Agree
<1>3. n \in T
  <2> HIDE DEF T
  <2> QED
    BY <1>1, <1>2, NatSetInduction
<1> QED
  BY <1>3

LEMMA ConcatJoins ==
  ASSUME NEW S, NEW ss \in Seq(Seq(S))
  PROVE  /\ Concat(ss) \in Seq(S)
         /\ \E f : Joins(f, ss, Len(ss)) /\ Concat(ss) = f[Len(ss)]
<1> DEFINE Def(f) == [ i \in 0 .. Len(ss) |-> IF i = 0 THEN << >> ELSE Behind(f[i - 1], ss[i]) ]
           g == CHOOSE f : f = Def(f)
<1>1. PICK h \in [0 .. Len(ss) -> Seq(S)] : Joins(h, ss, Len(ss))
  BY JoinsExist
<1>2. h = Def(h)
  <2>1. \A i \in 0 .. Len(ss) : h[i] = IF i = 0 THEN << >> ELSE Behind(h[i - 1], ss[i])
    BY <1>1 DEF Joins
  <2> QED
    BY <2>1
<1>3. g = Def(g)
  BY <1>2
<1>4. \A i \in 0 .. Len(ss) : g[i] = IF i = 0 THEN << >> ELSE Behind(g[i - 1], ss[i])
  BY <1>3
<1>5. Concat(ss) = g[Len(ss)]
  BY DEF Concat, Behind
<1> HIDE DEF g
<1>6. Joins(g, ss, Len(ss))
  BY <1>4 DEF Joins
<1>7. g[Len(ss)] = h[Len(ss)]
  BY <1>1, <1>6, JoinsAgree DEF Agree
<1>8. h[Len(ss)] \in Seq(S)
  BY <1>1
<1> QED
  BY <1>5, <1>6, <1>7, <1>8

LEMMA ConcatEmpty ==
  ASSUME NEW ss, ss = << >>
  PROVE  Concat(ss) = << >>
<1>1. ss \in Seq(Seq({})) /\ Len(ss) = 0
  OBVIOUS
<1>2. \E f : Joins(f, ss, Len(ss)) /\ Concat(ss) = f[Len(ss)]
  BY <1>1, ConcatJoins
<1> QED
  BY <1>1, <1>2 DEF Joins

LEMMA JoinsMore ==
  ASSUME NEW ss, NEW more, NEW f, NEW g, NEW n \in Nat,
         Joins(f, ss, n), Joins(g, more, n + 1), Agree(ss, more, n)
  PROVE  g[n + 1] = Behind(f[n], more[n + 1])
<1>1. Joins(g, more, n)
  BY DEF Joins
<1>2. f[n] = g[n]
  BY <1>1, JoinsAgree
<1>3. g[n + 1] = Behind(g[n + 1 - 1], more[n + 1])
  BY DEF Joins
<1> QED
  BY <1>2, <1>3

\* Another sequence goes to the end of what is joined.
LEMMA ConcatAppend ==
  ASSUME NEW S, NEW ss \in Seq(Seq(S)), NEW s \in Seq(S), NEW more \in Seq(Seq(S)),
         Len(more) = Len(ss) + 1, Agree(ss, more, Len(ss)),
         more[Len(ss) + 1] = s
  PROVE  Concat(more) = Concat(ss) \o s
<1>1. PICK f : Joins(f, ss, Len(ss)) /\ Concat(ss) = f[Len(ss)]
  BY ConcatJoins
<1>2. PICK g : Joins(g, more, Len(more)) /\ Concat(more) = g[Len(more)]
  BY ConcatJoins
<1>3. Len(ss) \in Nat
  OBVIOUS
<1>4. PICK n \in Nat : n = Len(ss)
  BY <1>3
<1>5. Joins(f, ss, n) /\ Joins(g, more, n + 1) /\ Agree(ss, more, n)
  BY <1>1, <1>2, <1>4, Zenon
<1>6. g[n + 1] = Behind(f[n], more[n + 1])
  BY <1>5, JoinsMore
<1>7. Concat(more) = Behind(Concat(ss), s)
  BY <1>1, <1>2, <1>4, <1>6, Zenon
<1> QED
  BY <1>7 DEF Behind


LEMMA ConcatType ==
  ASSUME NEW S, NEW ss \in Seq(Seq(S))
  PROVE  Concat(ss) \in Seq(S)
BY ConcatJoins

\* f has the numbers that the first n digits make.
Counts(f, base, digits, n) ==
  f[0] = 0 /\ \A k \in 1 .. n : f[k] = base * f[k - 1] + digits[k]

LEMMA CountsExist ==
  ASSUME NEW base \in Nat, NEW digits \in Seq(Nat), NEW n \in Nat, n <= Len(digits)
  PROVE  \E f \in [0 .. n -> Nat] : Counts(f, base, digits, n)
<1> DEFINE Some(m) == \E f \in [0 .. m -> Nat] : Counts(f, base, digits, m)
           T == { m \in Nat : m <= Len(digits) => Some(m) }
<1>1. 0 \in T
  <2> DEFINE f == [ k \in 0 .. 0 |-> 0 ]
  <2>1. f \in [0 .. 0 -> Nat] /\ Counts(f, base, digits, 0)
    BY DEF Counts
  <2> QED
    BY <2>1
<1>2. ASSUME NEW m \in Nat, m \in T PROVE m + 1 \in T
  <2> HIDE DEF Some
  <2> SUFFICES ASSUME m + 1 <= Len(digits) PROVE Some(m + 1)
    OBVIOUS
  <2>0. Some(m)
    BY <1>2
  <2>1. PICK f \in [0 .. m -> Nat] : Counts(f, base, digits, m)
    BY <2>0 DEF Some
  <2>2. digits[m + 1] \in Nat /\ f[m] \in Nat
    BY <2>1
  <2> DEFINE sum == base * f[m] + digits[m + 1]
             g == [ k \in 0 .. m + 1 |-> IF k = m + 1 THEN sum ELSE f[k] ]
  <2>3. sum \in Nat
    <3> QED
      BY <2>2, ProductNat
  <2>4. g[m + 1] = base * f[m] + digits[m + 1]
    OBVIOUS
  <2> HIDE DEF sum
  <2>5. g \in [0 .. m + 1 -> Nat]
    BY <2>1, <2>3
  <2>6. g[0] = 0
    BY <2>1 DEF Counts
  <2>7. \A k \in 0 .. m : g[k] = f[k]
    OBVIOUS
  <2> HIDE DEF g
  <2>8. ASSUME NEW k \in 1 .. m + 1 PROVE g[k] = base * g[k - 1] + digits[k]
    <3>1. CASE k = m + 1
      BY <3>1, <2>4, <2>7
    <3>2. CASE k # m + 1
      <4>1. k \in 1 .. m /\ k - 1 \in 0 .. m /\ k \in 0 .. m
        BY <3>2
      <4> QED
        BY <4>1, <2>1, <2>7 DEF Counts
    <3> QED
      BY <3>1, <3>2
  <2>9. Counts(g, base, digits, m + 1)
    BY <2>6, <2>8 DEF Counts
  <2> QED
    BY <2>5, <2>9 DEF Some
<1> HIDE DEF Some
<1>3. n \in T
  <2> HIDE DEF T
  <2> QED
    BY <1>1, <1>2, NatSetInduction
<1>4. Some(n)
  BY <1>3
<1> QED
  BY <1>4 DEF Some

\* A number is a natural.
LEMMA NumberNat ==
  ASSUME NEW base \in Nat, NEW digits \in Seq(Nat)
  PROVE  Number(base, digits) \in Nat
<1> DEFINE Def(f) == [ i \in 0 .. Len(digits) |->
                         IF i = 0 THEN 0 ELSE base * f[i - 1] + digits[i] ]
           g == CHOOSE f : f = Def(f)
<1>0. Len(digits) \in Nat /\ Len(digits) <= Len(digits)
  OBVIOUS
<1>1. PICK h \in [0 .. Len(digits) -> Nat] : Counts(h, base, digits, Len(digits))
  BY <1>0, CountsExist, Zenon
<1>2. h = Def(h)
  <2>1. \A i \in 0 .. Len(digits) :
          h[i] = IF i = 0 THEN 0 ELSE base * h[i - 1] + digits[i]
    BY <1>1 DEF Counts
  <2> QED
    BY <2>1
<1>3. g = Def(g)
  BY <1>2
<1>4. \A i \in 0 .. Len(digits) : g[i] = IF i = 0 THEN 0 ELSE base * g[i - 1] + digits[i]
  BY <1>3
<1>5. Number(base, digits) = g[Len(digits)]
  BY DEF Number
<1> HIDE DEF g
<1> DEFINE T == { n \in Nat : n <= Len(digits) => g[n] \in Nat }
<1>6. 0 \in T
  BY <1>4
<1>7. ASSUME NEW n \in Nat, n \in T PROVE n + 1 \in T
  <2> SUFFICES ASSUME n + 1 <= Len(digits) PROVE g[n + 1] \in Nat
    OBVIOUS
  <2>1. g[n] \in Nat /\ digits[n + 1] \in Nat
    BY <1>7
  <2>2. n + 1 \in 0 .. Len(digits) /\ n + 1 # 0 /\ n + 1 - 1 = n
    OBVIOUS
  <2>3. g[n + 1] = base * g[n] + digits[n + 1]
    BY <1>4, <2>2
  <2>5. base * g[n] + digits[n + 1] \in Nat
    BY <2>1, ProductNat, Zenon
  <2> QED
    BY <2>3, <2>5, Zenon
<1>8. Nat \subseteq T
  <2> HIDE DEF T
  <2> QED
    BY <1>6, <1>7, NatSetInduction
<1>9. g[Len(digits)] \in Nat
  BY <1>8
<1> QED
  BY <1>5, <1>9

-----------------------------------------------------------------------------
(* The packets are sequences of bytes.                                      *)

LEMMA ByteNat ==
  ASSUME NEW bits, NEW i
  PROVE  ByteOf(bits, i) \in Nat
<1> DEFINE digits == [ k \in 1 .. 8 |-> IF 8 - k \in Field(bits, 8 * i, 8) THEN 1 ELSE 0 ]
<1>1. digits \in Seq(Nat)
  OBVIOUS
<1> HIDE DEF digits
<1>2. Number(2, digits) \in Nat
  BY <1>1, NumberNat
<1> QED
  BY <1>2 DEF ByteOf, digits

LEMMA EscapedType ==
  ASSUME NEW bytes \in Seq(Nat)
  PROVE  Escaped(bytes) \in Seq(Nat)
<1> DEFINE out(i) == IF /\ i > 2 /\ bytes[i - 1] = 0 /\ bytes[i - 2] = 0
                        /\ bytes[i] \in {1, 3}
                     THEN << 3, bytes[i] >> ELSE << bytes[i] >>
           outs == [ i \in 1 .. Len(bytes) |-> out(i) ]
<1>1. ASSUME NEW i \in 1 .. Len(bytes) PROVE out(i) \in Seq(Nat)
  <2>1. bytes[i] \in Nat
    OBVIOUS
  <2>2. << 3, bytes[i] >> \in Seq(Nat) /\ << bytes[i] >> \in Seq(Nat)
    BY <2>1
  <2> QED
    BY <2>2
<1> HIDE DEF out
<1>2. outs \in Seq(Seq(Nat))
  BY <1>1
<1>3. Escaped(bytes) = Concat(outs)
  BY DEF Escaped, out
<1> HIDE DEF outs
<1> QED
  BY <1>2, <1>3, ConcatType

LEMMA CatType ==
  ASSUME NEW s \in Seq(Nat), NEW t \in Seq(Nat)
  PROVE  s \o t \in Seq(Nat)
OBVIOUS

LEMMA OptionalHeaderType ==
  ASSUME NEW pts, NEW writePts \in BOOLEAN
  PROVE  OptionalHeader(writePts, pts) \in Seq(Nat)
<1> DEFINE time  == [ i \in 1 .. 5 |-> ByteOf(SetPtsBits(pts), i - 1) ]
           first == << 128, IF writePts THEN 128 ELSE 0, 6 >>
           none  == << 255, 255, 255, 255, 255 >>
           mid   == IF writePts THEN time ELSE none
<1>1. time \in Seq(Nat)
  BY ByteNat
<1>2. first \in Seq(Nat) /\ none \in Seq(Nat) /\ << 255 >> \in Seq(Nat)
  OBVIOUS
<1>3. OptionalHeader(writePts, pts) = first \o mid \o << 255 >>
  BY DEF OptionalHeader
<1> HIDE DEF time, first, none
<1>4. mid \in Seq(Nat)
  BY <1>1, <1>2
<1> HIDE DEF mid
<1>5. first \o mid \in Seq(Nat)
  BY <1>2, <1>4, CatType
<1>6. first \o mid \o << 255 >> \in Seq(Nat)
  BY <1>2, <1>5, CatType
<1> QED
  BY <1>3, <1>6

LEMMA PesHeaderType ==
  ASSUME NEW pts, NEW writePts \in BOOLEAN, NEW length \in Nat
  PROVE  PesHeader(length, writePts, pts) \in Seq(Nat)
<1> DEFINE n == length + kOptionalHeaderSize
           first == << 0, 0, 1, 224, n \div 256, n % 256 >>
           rest  == Escaped(OptionalHeader(writePts, pts))
<1>1. n \in Nat
  BY DEF kOptionalHeaderSize
<1>2. PesHeader(length, writePts, pts) = first \o rest
  BY DEF PesHeader
<1> HIDE DEF n
<1>3. n \div 256 \in Nat /\ n % 256 \in Nat
  BY <1>1
<1>4. first \in Seq(Nat)
  BY <1>3
<1>5. rest \in Seq(Nat)
  BY OptionalHeaderType, EscapedType
<1> HIDE DEF first, rest
<1> QED
  BY <1>2, <1>4, <1>5, CatType

LEMMA BcmvHeaderType ==
  ASSUME NEW length \in Nat
  PROVE  BcmvHeader(length) \in Seq(Nat)
<1> DEFINE n == length + kBcmvHeaderSize
           first == << 66, 67, 77, 86 >>
           rest  == << n \div 16777216, (n \div 65536) % 256, (n \div 256) % 256,
                       n % 256, 0, 0 >>
<1>1. n \in Nat
  BY DEF kBcmvHeaderSize
<1>2. BcmvHeader(length) = first \o Escaped(rest)
  BY DEF BcmvHeader
<1> HIDE DEF n
<1>3. /\ n \div 16777216 \in Nat /\ (n \div 65536) % 256 \in Nat
      /\ (n \div 256) % 256 \in Nat /\ n % 256 \in Nat
  BY <1>1
<1>4. first \in Seq(Nat) /\ rest \in Seq(Nat)
  BY <1>3
<1> HIDE DEF first, rest
<1>5. Escaped(rest) \in Seq(Nat)
  BY <1>4, EscapedType
<1> QED
  BY <1>2, <1>4, <1>5, CatType

LEMMA MaxPayloadSizeNat == kMaxPayloadSize \in Nat \ {0}
BY PayloadSizeAssumption

\* Data is cut into pieces, none of which is beyond its end.
LEMMA PiecesType ==
  ASSUME NEW data \in Seq(Nat), data # << >>
  PROVE  /\ Pieces(data) \in Seq(Seq(Nat))
         /\ \A k \in 1 .. Len(Pieces(data)) : Pieces(data)[k] \in Seq(Nat)
<1> DEFINE max == kMaxPayloadSize
           n == 1 + (Len(data) - 1) \div max
           stop(k) == IF k * max < Len(data) THEN k * max ELSE Len(data)
           piece(k) == SubSeq(data, (k - 1) * max + 1, stop(k))
<1>1. max \in Nat \ {0} /\ Len(data) \in Nat \ {0}
  <2>1. max \in Nat \ {0}
    BY MaxPayloadSizeNat, Zenon
  <2>2. Len(data) \in Nat \ {0}
    BY EmptySeq
  <2> QED
    BY <2>1, <2>2
<1>2. n \in Nat
  <2>1. Len(data) - 1 \in Nat /\ max \in Nat /\ max > 0
    BY <1>1
  <2>2. (Len(data) - 1) \div max \in Nat
    BY <2>1, QuotientNat, Zenon
  <2> QED
    BY <2>2
<1>3. ASSUME NEW k \in 1 .. n PROVE piece(k) \in Seq(Nat)
  <2>2. k - 1 \in Nat /\ k \in Nat /\ max \in Nat
    BY <1>1, <1>2
  <2>3. (k - 1) * max \in Nat /\ k * max \in Nat
    BY <2>2, ProductNat
  <2>4. stop(k) \in Nat /\ stop(k) <= Len(data)
    BY <1>1, <2>3
  <2> HIDE DEF stop, max
  <2>5. PICK a \in Nat, b \in Nat : a = (k - 1) * max /\ b = stop(k)
    BY <2>3, <2>4
  <2>6. \A i \in a + 1 .. b : data[i] \in Nat
    BY <2>4, <2>5
  <2>7. SubSeq(data, a + 1, b) \in Seq(Nat)
    BY <2>6, SubSeqProperties
  <2> QED
    BY <2>5, <2>7
<1>4. Pieces(data) = [ k \in 1 .. n |-> piece(k) ]
  BY DEF Pieces
<1> HIDE DEF n, piece, max
<1>5. Pieces(data) \in Seq(Seq(Nat))
  BY <1>2, <1>3, <1>4
<1> QED
  BY <1>5

LEMMA RangePacketsType ==
  ASSUME NEW data \in Seq(Nat), data # << >>, NEW pts
  PROVE  RangePackets(data, pts) \in Seq(Nat)
<1> DEFINE pieces == Pieces(data)
           out(k) == IF k = 1
                     THEN PesHeader(Len(pieces[k]) + kBcmvHeaderSize, TRUE, pts)
                            \o BcmvHeader(Len(data)) \o Escaped(pieces[k])
                     ELSE PesHeader(Len(pieces[k]), FALSE, pts) \o Escaped(pieces[k])
           outs == [ k \in 1 .. Len(pieces) |-> out(k) ]
<1>1. pieces \in Seq(Seq(Nat)) /\ \A k \in 1 .. Len(pieces) : pieces[k] \in Seq(Nat)
  BY PiecesType
<1>2. RangePackets(data, pts) = Concat(outs)
  BY DEF RangePackets
<1> HIDE DEF pieces
<1>3. ASSUME NEW k \in 1 .. Len(pieces) PROVE out(k) \in Seq(Nat)
  <2>1. PICK piece \in Seq(Nat) : piece = pieces[k]
    BY <1>1
  <2>2. Len(piece) \in Nat /\ Len(piece) + kBcmvHeaderSize \in Nat /\ Len(data) \in Nat
    BY DEF kBcmvHeaderSize
  <2>3. /\ PesHeader(Len(piece) + kBcmvHeaderSize, TRUE, pts) \in Seq(Nat)
        /\ PesHeader(Len(piece), FALSE, pts) \in Seq(Nat)
        /\ BcmvHeader(Len(data)) \in Seq(Nat) /\ Escaped(piece) \in Seq(Nat)
    BY <2>2, PesHeaderType, BcmvHeaderType, EscapedType
  <2>4. /\ PesHeader(Len(piece) + kBcmvHeaderSize, TRUE, pts) \o BcmvHeader(Len(data))
             \in Seq(Nat)
        /\ PesHeader(Len(piece), FALSE, pts) \o Escaped(piece) \in Seq(Nat)
    BY <2>3, CatType
  <2>5. PesHeader(Len(piece) + kBcmvHeaderSize, TRUE, pts) \o BcmvHeader(Len(data))
          \o Escaped(piece) \in Seq(Nat)
    BY <2>3, <2>4, CatType
  <2> QED
    BY <2>1, <2>4, <2>5
<1> HIDE DEF out
<1>4. outs \in Seq(Seq(Nat))
  BY <1>1, <1>3
<1> HIDE DEF outs
<1> QED
  BY <1>2, <1>4, ConcatType


LEMMA ByteSeq ==
  ASSUME NEW s \in Seq(0 .. 255)
  PROVE  /\ s \in Seq(Nat)
         /\ Len(s) \in Nat
         /\ s # << >> => Len(s) > 0
         /\ \A i \in 1 .. Len(s) : s[i] \in 0 .. 255
<1>1. Len(s) \in Nat /\ \A i \in 1 .. Len(s) : s[i] \in 0 .. 255
  BY ElementOfSeq, LenProperties
<1>2. s # << >> => Len(s) # 0
  BY EmptySeq
<1>3. s = [ i \in 1 .. Len(s) |-> s[i] ]
  BY LenProperties
<1>6. \A x \in 0 .. 255 : x \in Nat
  OBVIOUS
<1>4. \A i \in 1 .. Len(s) : s[i] \in Nat
  BY <1>1, <1>6, Zenon
<1>5. s \in Seq(Nat)
  BY <1>1, <1>3, <1>4
<1> QED
  BY <1>1, <1>2, <1>5

\* A part of the data of which the end is not beyond the data's.
LEMMA PartType ==
  ASSUME NEW S, NEW data \in Seq(S), NEW a \in Nat, NEW n \in Nat, a + n <= Len(data)
  PROVE  /\ SubSeq(data, a + 1, a + n) \in Seq(S)
         /\ n > 0 => SubSeq(data, a + 1, a + n) # << >>
         /\ Len(SubSeq(data, a + 1, a + n)) = n
<1>1. \A i \in a + 1 .. a + n : data[i] \in S
  OBVIOUS
<1>2. SubSeq(data, a + 1, a + n) \in Seq(S)
  BY <1>1, SubSeqProperties
<1>3. Len(SubSeq(data, a + 1, a + n)) = IF a + 1 <= a + n THEN (a + n) - (a + 1) + 1 ELSE 0
  BY <1>1, SubSeqProperties
<1>4. Len(SubSeq(data, a + 1, a + n)) = n
  BY <1>3
<1>5. n > 0 => SubSeq(data, a + 1, a + n) # << >>
  <2>1. Len(<< >>) = 0
    OBVIOUS
  <2>2. n > 0 => n # 0
    OBVIOUS
  <2> QED
    BY <1>4, <2>1, <2>2, Zenon
<1> QED
  BY <1>2, <1>4, <1>5

\* An index that was accepted tells where frames lie that are all in the data.
LEMMA IndexType ==
  ASSUME NEW data \in Seq(0 .. 255), data # << >>,
         SuperFrameIndex(data).found, ~ SuperFrameIndex(data).error
  PROVE  \E count \in Nat : \E at \in [1 .. count -> Nat], size \in [1 .. count -> Nat] :
           /\ SuperFrameIndex(data).ranges
                = [ i \in 1 .. count |-> [ offset |-> at[i], length |-> size[i] ] ]
           /\ \A i \in 1 .. count : at[i] + size[i] <= Len(data)
<1> DEFINE length == Len(data)
           marker == data[length]
           isIndex == marker \div 32 = 6
           count  == (marker % 8) + 1
           width  == ((marker \div 8) % 4) + 1
           index  == 2 + width * count
           rest   == length - index
           digits(i) == [ k \in 1 .. width |-> data[rest + 2 + i * width - k] ]
           size(i) == Number(256, digits(i))
           sizes(i) == [ j \in 1 .. i - 1 |-> size(j) ]
           offset(i) == Number(1, sizes(i))
           valid  == /\ rest >= index
                     /\ data[rest + 1] = marker
                     /\ \A i \in 1 .. count : offset(i) + size(i) <= rest
           ranges == [ i \in 1 .. count |-> [ offset |-> offset(i), length |-> size(i) ] ]
<1>1. SuperFrameIndex(data) =
        [ found |-> isIndex, error |-> isIndex /\ ~ valid,
          ranges |-> IF isIndex /\ valid THEN ranges ELSE << >> ]
  BY DEF SuperFrameIndex
<1>2. marker \in 0 .. 255 /\ length \in Nat
  BY ByteSeq
<1> HIDE DEF valid, ranges, isIndex
<1>3. valid /\ SuperFrameIndex(data).ranges = ranges
  <2>1. /\ SuperFrameIndex(data).found = isIndex
        /\ SuperFrameIndex(data).error = (isIndex /\ ~ valid)
        /\ SuperFrameIndex(data).ranges = IF isIndex /\ valid THEN ranges ELSE << >>
    <3>1. PICK a, b, c : /\ a = isIndex /\ b = (isIndex /\ ~ valid)
                         /\ c = IF isIndex /\ valid THEN ranges ELSE << >>
      OBVIOUS
    <3>2. SuperFrameIndex(data) = [ found |-> a, error |-> b, ranges |-> c ]
      BY <1>1, <3>1, Zenon
    <3>3. /\ SuperFrameIndex(data).found = a /\ SuperFrameIndex(data).error = b
          /\ SuperFrameIndex(data).ranges = c
      BY <3>2
    <3> QED
      BY <3>1, <3>3, Zenon
  <2> QED
    BY <2>1, Zenon
<1>4. count \in Nat /\ width \in {1, 2, 3, 4}
  <2>1. PICK m \in 0 .. 255 : m = marker
    BY <1>2
  <2>2. (m % 8) + 1 \in Nat /\ ((m \div 8) % 4) + 1 \in {1, 2, 3, 4}
    OBVIOUS
  <2> QED
    BY <2>1, <2>2
<1> HIDE DEF marker, count, width
<1>5. index \in Nat /\ index = 2 + width * count
  BY <1>4
<1> HIDE DEF index
<1>6. rest \in Nat /\ rest < length /\ rest + index = length
  <2>1. rest >= index
    BY <1>3 DEF valid
  <2> QED
    BY <2>1, <1>2, <1>4, <1>5
<1> HIDE DEF rest
<1>7. ASSUME NEW i \in 1 .. count PROVE size(i) \in Nat
  <2>1. ASSUME NEW k \in 1 .. width PROVE data[rest + 2 + i * width - k] \in Nat
    <3>1. /\ rest + 2 + i * width - k \in 1 .. length
      <4>1. i * width <= count * width /\ i * width >= width /\ i * width \in Nat
        BY <1>4
      <4> QED
        BY <4>1, <1>4, <1>5, <1>6
    <3>2. PICK p \in 1 .. length : p = rest + 2 + i * width - k
      BY <3>1
    <3>3. data[p] \in 0 .. 255
      BY ByteSeq
    <3>4. \A x \in 0 .. 255 : x \in Nat
      OBVIOUS
    <3> QED
      BY <3>2, <3>3, <3>4, Zenon
  <2>2. digits(i) \in Seq(Nat)
    BY <2>1, <1>4
  <2> HIDE DEF digits
  <2> QED
    BY <2>2, NumberNat
<1> HIDE DEF size
<1>8. ASSUME NEW i \in 1 .. count PROVE offset(i) \in Nat
  <2>1. i - 1 \in Nat /\ \A j \in 1 .. i - 1 : j \in 1 .. count
    BY <1>4
  <2>2. sizes(i) \in Seq(Nat)
    BY <2>1, <1>7
  <2> HIDE DEF sizes
  <2> QED
    BY <2>2, NumberNat
<1> HIDE DEF offset
<1>9. \A i \in 1 .. count : offset(i) + size(i) <= rest
  BY <1>3 DEF valid
<1> DEFINE at == [ i \in 1 .. count |-> offset(i) ]
           long == [ i \in 1 .. count |-> size(i) ]
<1>10. at \in [1 .. count -> Nat] /\ long \in [1 .. count -> Nat]
  BY <1>7, <1>8
<1>11. \A i \in 1 .. count : at[i] = offset(i) /\ long[i] = size(i)
  OBVIOUS
<1>12. ranges = [ i \in 1 .. count |-> [ offset |-> at[i], length |-> long[i] ] ]
  BY DEF ranges
<1> HIDE DEF at, long
<1>13. \A i \in 1 .. count : at[i] + long[i] <= Len(data)
  BY <1>2, <1>6, <1>7, <1>8, <1>9, <1>11
<1> QED
  BY <1>3, <1>4, <1>10, <1>12, <1>13

\* The ranges of a frame that can be written are parts of its data, none of them empty.
LEMMA RangesType ==
  ASSUME NEW f \in Frames, CanWrite(f)
  PROVE  /\ Len(Ranges(f)) \in Nat
         /\ \A i \in 1 .. Len(Ranges(f)) :
              /\ RangeData(f, Ranges(f)[i]) \in Seq(0 .. 255)
              /\ RangeData(f, Ranges(f)[i]) # << >>
<1>1. f.data \in Seq(0 .. 255) /\ f.data # << >>
  BY FramesAssumption DEF CanWrite
<1>2. ASSUME NEW r, NEW a \in Nat, NEW n \in Nat,
             r = [ offset |-> a, length |-> n ], n > 0, a + n <= Len(f.data)
      PROVE  RangeData(f, r) \in Seq(0 .. 255) /\ RangeData(f, r) # << >>
  <2>1. RangeData(f, r) = SubSeq(f.data, a + 1, a + n)
    BY <1>2 DEF RangeData
  <2>2. /\ SubSeq(f.data, a + 1, a + n) \in Seq(0 .. 255)
        /\ n > 0 => SubSeq(f.data, a + 1, a + n) # << >>
    <3>1. PICK data \in Seq(0 .. 255) : data = f.data
      BY <1>1, Zenon
    <3>2. a + n <= Len(data)
      BY <1>2, <3>1, Zenon
    <3>3. /\ SubSeq(data, a + 1, a + n) \in Seq(0 .. 255)
          /\ n > 0 => SubSeq(data, a + 1, a + n) # << >>
      <4>1. PICK S : S = 0 .. 255
        OBVIOUS
      <4>2. data \in Seq(S)
        BY <4>1, Zenon
      <4>3. SubSeq(data, a + 1, a + n) \in Seq(S)
        BY <3>2, <4>2, PartType
      <4>4. n > 0 => SubSeq(data, a + 1, a + n) # << >>
        BY <3>2, <4>2, PartType
      <4> QED
        BY <4>1, <4>3, <4>4, Zenon
    <3> QED
      BY <3>1, <3>3, Zenon
  <2> QED
    BY <2>1, <2>2, <1>2, Zenon
<1>3. CASE f.codec = "VP9" /\ SuperFrameIndex(f.data).found
  <2>1. Ranges(f) = SuperFrameIndex(f.data).ranges
    BY <1>3 DEF Ranges
  <2>2. ~ SuperFrameIndex(f.data).error
    BY <1>3 DEF CanWrite
  <2>3. PICK count \in Nat : \E at \in [1 .. count -> Nat], size \in [1 .. count -> Nat] :
          /\ SuperFrameIndex(f.data).ranges
               = [ i \in 1 .. count |-> [ offset |-> at[i], length |-> size[i] ] ]
          /\ \A i \in 1 .. count : at[i] + size[i] <= Len(f.data)
    BY <1>1, <1>3, <2>2, IndexType
  <2>7. PICK at \in [1 .. count -> Nat], size \in [1 .. count -> Nat] :
          /\ SuperFrameIndex(f.data).ranges
               = [ i \in 1 .. count |-> [ offset |-> at[i], length |-> size[i] ] ]
          /\ \A i \in 1 .. count : at[i] + size[i] <= Len(f.data)
    BY <2>3
  <2>4. Ranges(f) = [ i \in 1 .. count |-> [ offset |-> at[i], length |-> size[i] ] ]
    BY <2>1, <2>7
  <2>5. Len(Ranges(f)) = count
    BY <2>4
  <2>6. ASSUME NEW i \in 1 .. count
        PROVE  /\ RangeData(f, Ranges(f)[i]) \in Seq(0 .. 255)
               /\ RangeData(f, Ranges(f)[i]) # << >>
    <3>1. Ranges(f)[i] = [ offset |-> at[i], length |-> size[i] ]
      BY <2>4
    <3>2. size[i] > 0
      BY <3>1, <2>5 DEF CanWrite
    <3>3. at[i] \in Nat /\ size[i] \in Nat /\ at[i] + size[i] <= Len(f.data)
      BY <2>7
    <3> QED
      BY <3>1, <3>2, <3>3, <1>2
  <2> QED
    BY <2>5, <2>6
<1>4. CASE ~ (f.codec = "VP9" /\ SuperFrameIndex(f.data).found)
  <2>1. Ranges(f) = << [ offset |-> 0, length |-> Len(f.data) ] >>
    BY <1>4 DEF Ranges
  <2>2. Len(Ranges(f)) = 1 /\ Ranges(f)[1] = [ offset |-> 0, length |-> Len(f.data) ]
    BY <2>1
  <2>3. Len(f.data) \in Nat /\ Len(f.data) > 0 /\ 0 + Len(f.data) <= Len(f.data)
    BY <1>1
  <2>4. RangeData(f, Ranges(f)[1]) \in Seq(0 .. 255) /\ RangeData(f, Ranges(f)[1]) # << >>
    BY <2>2, <2>3, <1>2
  <2> QED
    BY <2>2, <2>4
<1> QED
  BY <1>3, <1>4

LEMMA WritePesPacketType ==
  ASSUME NEW f \in Frames, CanWrite(f)
  PROVE  WritePesPacket(f) \in Seq(Nat)
<1> DEFINE out(i) == RangePackets(RangeData(f, Ranges(f)[i]), f.pts)
           outs == [ i \in 1 .. Len(Ranges(f)) |-> out(i) ]
<1>1. Len(Ranges(f)) \in Nat
  BY RangesType
<1>2. ASSUME NEW i \in 1 .. Len(Ranges(f)) PROVE out(i) \in Seq(Nat)
  <2>1. PICK data : data = RangeData(f, Ranges(f)[i])
    OBVIOUS
  <2>2. data \in Seq(0 .. 255) /\ data # << >>
    BY <2>1, RangesType
  <2>3. data \in Seq(Nat)
    BY <2>2, ByteSeq
  <2> QED
    BY <2>1, <2>2, <2>3, RangePacketsType, Zenon
<1>3. WritePesPacket(f) = Concat(outs)
  BY DEF WritePesPacket
<1> HIDE DEF out
<1>4. outs \in Seq(Seq(Nat))
  BY <1>1, <1>2
<1> HIDE DEF outs
<1> QED
  BY <1>3, <1>4, ConcatType

LEMMA HeadOfCat ==
  ASSUME NEW S, NEW s \in Seq(S), NEW t \in Seq(S)
  PROVE  SubSeq(s \o t, 1, Len(s)) = s
<1>1. PICK u : u = s \o t
  OBVIOUS
<1>2. /\ u \in Seq(S) /\ Len(u) = Len(s) + Len(t) /\ Len(s) \in Nat /\ Len(t) \in Nat
      /\ \A i \in 1 .. Len(s) + Len(t) :
           u[i] = IF i <= Len(s) THEN s[i] ELSE t[i - Len(s)]
  BY <1>1, ConcatProperties, LenProperties
<1>3. \A i \in 1 .. Len(s) : u[i] \in S /\ u[i] = s[i]
  BY <1>2
<1>4. /\ SubSeq(u, 1, Len(s)) \in Seq(S) /\ Len(SubSeq(u, 1, Len(s))) = Len(s)
      /\ \A i \in 1 .. Len(s) : SubSeq(u, 1, Len(s))[i] = u[i]
  BY <1>2, <1>3, SubSeqProperties
<1>5. SubSeq(u, 1, Len(s)) = s
  BY <1>3, <1>4, SeqEqual
<1> QED
  BY <1>1, <1>5

LEMMA TailOfCat ==
  ASSUME NEW S, NEW s \in Seq(S), NEW t \in Seq(S)
  PROVE  SubSeq(s \o t, Len(s) + 1, Len(s) + Len(t)) = t
<1>1. PICK u : u = s \o t
  OBVIOUS
<1>2. /\ u \in Seq(S) /\ Len(u) = Len(s) + Len(t) /\ Len(s) \in Nat /\ Len(t) \in Nat
      /\ \A i \in 1 .. Len(s) + Len(t) :
           u[i] = IF i <= Len(s) THEN s[i] ELSE t[i - Len(s)]
  BY <1>1, ConcatProperties, LenProperties
<1>3. PICK n \in Nat, m \in Nat : n = Len(s) /\ m = Len(t)
  BY <1>2
<1>4. ASSUME NEW i \in 1 .. m PROVE u[n + i] = t[i]
  <2>1. n + i \in 1 .. n + m /\ ~ (n + i <= n) /\ n + i - n = i
    BY <1>3
  <2>2. \A j \in 1 .. n + m : u[j] = IF j <= n THEN s[j] ELSE t[j - n]
    BY <1>2, <1>3, Zenon
  <2>3. PICK j : j = n + i
    OBVIOUS
  <2>4. u[j] = t[j - n] /\ j - n = i
    BY <2>1, <2>2, <2>3
  <2> QED
    BY <2>3, <2>4, Zenon
<1>5. \A i \in n + 1 .. n + m : u[i] \in S
  BY <1>2, <1>3, ElementOfSeq
<1>6. PICK v : v = SubSeq(u, n + 1, n + m)
  OBVIOUS
<1>7. v \in Seq(S) /\ Len(v) = m /\ \A i \in 1 .. m : v[i] = u[n + 1 + i - 1]
  BY <1>3, <1>5, <1>6, SubSeqProperties
<1>8. ASSUME NEW i \in 1 .. m PROVE v[i] = t[i]
  <2>1. v[i] = u[n + 1 + i - 1] /\ n + 1 + i - 1 = n + i
    BY <1>7
  <2> QED
    BY <1>4, <2>1, Zenon
<1>9. v = t
  BY <1>3, <1>7, <1>8, SeqEqual
<1> QED
  BY <1>1, <1>3, <1>6, <1>9

\* Two parts that touch.
LEMMA PartsTouch ==
  ASSUME NEW S, NEW s \in Seq(S), NEW a \in Nat, NEW n \in Nat, a + n <= Len(s)
  PROVE  SubSeq(s, 1, a) \o SubSeq(s, a + 1, a + n) = SubSeq(s, 1, a + n)
<1>1. PICK p, q, r : /\ p = SubSeq(s, 1, a) /\ q = SubSeq(s, a + 1, a + n)
                     /\ r = SubSeq(s, 1, a + n)
  OBVIOUS
<1>2. \A i \in 1 .. a + n : s[i] \in S
  BY ElementOfSeq, LenProperties
<1>3. p \in Seq(S) /\ Len(p) = a /\ \A i \in 1 .. a : p[i] = s[i]
  BY <1>1, <1>2, SubSeqProperties
<1>4. q \in Seq(S) /\ Len(q) = n /\ \A i \in 1 .. n : q[i] = s[a + i]
  BY <1>1, <1>2, SubSeqProperties
<1>5. r \in Seq(S) /\ Len(r) = a + n /\ \A i \in 1 .. a + n : r[i] = s[i]
  BY <1>1, <1>2, SubSeqProperties
<1>6. PICK u : u = p \o q
  OBVIOUS
<1>7. /\ u \in Seq(S) /\ Len(u) = a + n
      /\ \A i \in 1 .. a + n : u[i] = IF i <= a THEN p[i] ELSE q[i - a]
  <2>1. /\ u \in Seq(S) /\ Len(u) = Len(p) + Len(q)
        /\ \A i \in 1 .. Len(p) + Len(q) : u[i] = IF i <= Len(p) THEN p[i] ELSE q[i - Len(p)]
    BY <1>3, <1>4, <1>6, ConcatProperties, Zenon
  <2> QED
    BY <2>1, <1>3, <1>4, Zenon
<1>8. ASSUME NEW i \in 1 .. a + n PROVE u[i] = r[i]
  <2>1. CASE i <= a
    <3>1. i \in 1 .. a /\ u[i] = p[i]
      BY <2>1, <1>7
    <3> QED
      BY <3>1, <1>3, <1>5, Zenon
  <2>2. CASE ~ (i <= a)
    <3>1. i - a \in 1 .. n /\ u[i] = q[i - a] /\ a + (i - a) = i
      BY <2>2, <1>7
    <3> QED
      BY <3>1, <1>4, <1>5, Zenon
  <2> QED
    BY <2>1, <2>2, Zenon
<1>9. u = r
  BY <1>5, <1>7, <1>8, SeqEqual
<1> QED
  BY <1>1, <1>6, <1>9

\* A part of what is behind a place.
LEMMA PartOfRest ==
  ASSUME NEW S, NEW s \in Seq(S), NEW rest, NEW a \in Nat, NEW n \in Nat, NEW at \in Nat,
         at + a + n <= Len(s), rest = SubSeq(s, at + 1, Len(s))
  PROVE  SubSeq(rest, a + 1, a + n) = SubSeq(s, at + a + 1, at + a + n)
<1>1. PICK l \in Nat : l = Len(s)
  BY LenProperties
<1>2. \A i \in 1 .. l : s[i] \in S
  BY <1>1, ElementOfSeq
<1>3. /\ rest \in Seq(S) /\ Len(rest) = l - at
      /\ \A i \in 1 .. l - at : rest[i] = s[at + i]
  BY <1>1, <1>2, SubSeqProperties
<1>4. PICK q, r : q = SubSeq(rest, a + 1, a + n) /\ r = SubSeq(s, at + a + 1, at + a + n)
  OBVIOUS
<1>5. \A i \in a + 1 .. a + n : rest[i] = s[at + i] /\ rest[i] \in S
  BY <1>1, <1>2, <1>3
<1>6. q \in Seq(S) /\ Len(q) = n /\ \A i \in 1 .. n : q[i] = rest[a + i]
  BY <1>4, <1>5, SubSeqProperties
<1>7. r \in Seq(S) /\ Len(r) = n /\ \A i \in 1 .. n : r[i] = s[at + a + i]
  <2>1. PICK b \in Nat : b = at + a
    OBVIOUS
  <2>2. r = SubSeq(s, b + 1, b + n)
    BY <1>4, <2>1, Zenon
  <2>3. \A i \in b + 1 .. b + n : s[i] \in S
    BY <1>1, <1>2, <2>1
  <2>4. r \in Seq(S) /\ Len(r) = n /\ \A i \in 1 .. n : r[i] = s[b + i]
    BY <2>2, <2>3, SubSeqProperties
  <2> QED
    BY <2>1, <2>4
<1>8. ASSUME NEW i \in 1 .. n
      PROVE  q[i] = r[i]
  <2>1. q[i] = rest[a + i] /\ r[i] = s[at + a + i]
    BY <1>6, <1>7, Zenon
  <2>2. a + i \in a + 1 .. a + n /\ at + (a + i) = at + a + i
    OBVIOUS
  <2>3. rest[a + i] = s[at + (a + i)]
    BY <2>2, <1>5, Zenon
  <2> QED
    BY <2>1, <2>2, <2>3, Zenon
<1> QED
  BY <1>4, <1>6, <1>7, <1>8, SeqEqual

-----------------------------------------------------------------------------
(* The transport packets.                                                   *)

TsPackets == [ start: BOOLEAN, adapts: BOOLEAN, counter: 0 .. 15, bytes: Seq(Nat) ]

\* What the packets carry.
Payloads(packets) == [ i \in 1 .. Len(packets) |-> TsPayload(packets[i]) ]

\* The invariant: the packet at hand is the end of the file, and what of it is
\* not yet in transport packets is the end of that.
TsInv ==
  /\ file \in Seq(Nat) /\ packet \in Seq(Nat) /\ Len(packet) <= Len(file)
  /\ packet = SubSeq(file, Len(file) - Len(packet) + 1, Len(file))
  /\ bytesToPacketize \in 0 .. Len(packet)
  /\ pc = "convert" => bytesToPacketize = 0
  /\ ts \in Seq(TsPackets)
  /\ continuityCounter \in 0 .. 16
  /\ TsCarriesPes

\* One transport packet carries what it is given, and is full.
LEMMA PayloadSizeFits ==
  ASSUME NEW b \in Nat \ {0}
  PROVE  /\ PayloadSize(b) \in Nat \ {0} /\ PayloadSize(b) <= b
         /\ b >= kTsPayloadSize => PayloadSize(b) = kTsPayloadSize
         /\ b < kTsPayloadSize => PayloadSize(b) + 2 <= kTsPayloadSize
<1>1. CASE b >= kTsPayloadSize
  BY <1>1, TsPayloadAssumption DEF PayloadSize
<1>2. CASE b = kTsPayloadSize - 1
  BY <1>2, TsPayloadAssumption DEF PayloadSize
<1>3. CASE b < kTsPayloadSize - 1
  BY <1>3, TsPayloadAssumption DEF PayloadSize
<1> QED
  BY <1>1, <1>2, <1>3, TsPayloadAssumption

\* What goes before the payload of a packet that is not full without it.
Adaptation(padSize) == << padSize + 1, 0 >> \o [ i \in 1 .. padSize |-> 255 ]

LEMMA AdaptationType ==
  ASSUME NEW n \in Nat
  PROVE  /\ Adaptation(n) \in Seq(Nat) /\ Len(Adaptation(n)) = n + 2
         /\ Adaptation(n)[1] = n + 1
<1>1. PICK s, t : s = << n + 1, 0 >> /\ t = [ i \in 1 .. n |-> 255 ]
  OBVIOUS
<1>2. s \in Seq(Nat) /\ Len(s) = 2 /\ s[1] = n + 1
  BY <1>1
<1>3. t \in Seq(Nat) /\ Len(t) = n
  BY <1>1
<1>4. Adaptation(n) = s \o t
  BY <1>1 DEF Adaptation
<1>5. /\ s \o t \in Seq(Nat) /\ Len(s \o t) = 2 + n
      /\ \A i \in 1 .. 2 + n : (s \o t)[i] = IF i <= 2 THEN s[i] ELSE t[i - 2]
  <2>1. /\ s \o t \in Seq(Nat) /\ Len(s \o t) = Len(s) + Len(t)
        /\ \A i \in 1 .. Len(s) + Len(t) :
             (s \o t)[i] = IF i <= Len(s) THEN s[i] ELSE t[i - Len(s)]
    BY <1>2, <1>3, ConcatProperties, Zenon
  <2> QED
    BY <2>1, <1>2, <1>3, Zenon
<1>6. (s \o t)[1] = n + 1
  BY <1>2, <1>5
<1> QED
  BY <1>4, <1>5, <1>6

\* A packet with an adaptation field gives back what is behind that.
LEMMA AdaptedGivesBack ==
  ASSUME NEW n \in Nat, NEW part \in Seq(Nat), NEW p, p.adapts,
         p.bytes = Adaptation(n) \o part
  PROVE  /\ p.bytes \in Seq(Nat) /\ Len(p.bytes) = n + 2 + Len(part)
         /\ TsPayload(p) = part
<1>1. PICK field \in Seq(Nat) : field = Adaptation(n)
  BY AdaptationType
<1>2. Len(field) = n + 2 /\ field[1] = n + 1
  BY <1>1, AdaptationType
<1>3. PICK u : u = field \o part
  OBVIOUS
<1>4. p.bytes = u
  BY <1>1, <1>3
<1>5. /\ u \in Seq(Nat) /\ Len(u) = n + 2 + Len(part) /\ Len(part) \in Nat
      /\ \A i \in 1 .. n + 2 + Len(part) :
           u[i] = IF i <= Len(field) THEN field[i] ELSE part[i - Len(field)]
  <2>1. /\ u \in Seq(Nat) /\ Len(u) = Len(field) + Len(part) /\ Len(part) \in Nat
        /\ \A i \in 1 .. Len(field) + Len(part) :
             u[i] = IF i <= Len(field) THEN field[i] ELSE part[i - Len(field)]
    BY <1>3, ConcatProperties, LenProperties, Zenon
  <2> QED
    BY <2>1, <1>2, Zenon
<1>6. u[1] = n + 1
  BY <1>2, <1>5
<1>7. SubSeq(u, Len(field) + 1, Len(field) + Len(part)) = part
  BY <1>3, TailOfCat
<1>8. TsPayload(p) = SubSeq(u, u[1] + 2, Len(u))
  BY <1>4 DEF TsPayload
<1>9. u[1] + 2 = Len(field) + 1 /\ Len(u) = Len(field) + Len(part)
  BY <1>2, <1>5, <1>6
<1> QED
  BY <1>4, <1>5, <1>7, <1>8, <1>9, Zenon

\* What a packet that is full carries is a sequence of bytes.
LEMMA TsPayloadType ==
  ASSUME NEW p \in TsPackets, Len(p.bytes) = kTsPayloadSize
  PROVE  TsPayload(p) \in Seq(Nat)
<1>1. PICK b \in Seq(Nat) : b = p.bytes
  BY DEF TsPackets
<1>2. Len(b) = kTsPayloadSize /\ Len(b) \in Nat /\ Len(b) > 2
  BY <1>1, TsPayloadAssumption
<1>3. b[1] \in Nat
  BY <1>2
<1>4. PICK first \in Nat : first = b[1] + 2 /\ first >= 1
  BY <1>3
<1>5. \A i \in first .. Len(b) : b[i] \in Nat
  BY <1>2, <1>4, ElementOfSeq
<1>6. SubSeq(b, first, Len(b)) \in Seq(Nat)
  BY <1>2, <1>5, SubSeqProperties
<1>7. CASE p.adapts
  BY <1>1, <1>4, <1>6, <1>7 DEF TsPayload
<1>8. CASE ~ p.adapts
  BY <1>1, <1>8 DEF TsPayload
<1> QED
  BY <1>7, <1>8

LEMMA PayloadsType ==
  ASSUME NEW packets \in Seq(TsPackets),
         \A i \in 1 .. Len(packets) : Len(packets[i].bytes) = kTsPayloadSize
  PROVE  Payloads(packets) \in Seq(Seq(Nat)) /\ Len(Payloads(packets)) = Len(packets)
<1>1. \A i \in 1 .. Len(packets) : TsPayload(packets[i]) \in Seq(Nat)
  BY TsPayloadType, ElementOfSeq
<1>2. Len(packets) \in Nat
  BY LenProperties
<1> QED
  BY <1>1, <1>2 DEF Payloads

\* One more packet.
LEMMA PayloadsAppend ==
  ASSUME NEW packets \in Seq(TsPackets), NEW p \in TsPackets,
         \A i \in 1 .. Len(packets) : Len(packets[i].bytes) = kTsPayloadSize,
         Len(p.bytes) = kTsPayloadSize
  PROVE  /\ Append(packets, p) \in Seq(TsPackets)
         /\ \A i \in 1 .. Len(Append(packets, p)) :
              Len(Append(packets, p)[i].bytes) = kTsPayloadSize
         /\ Concat(Payloads(Append(packets, p))) = Concat(Payloads(packets)) \o TsPayload(p)
<1>1. PICK more : more = Append(packets, p)
  OBVIOUS
<1>2. PICK n \in Nat : n = Len(packets)
  BY LenProperties
<1>3. /\ more \in Seq(TsPackets) /\ Len(more) = n + 1 /\ more[n + 1] = p
      /\ \A i \in 1 .. n : more[i] = packets[i]
  BY <1>1, <1>2
<1>4. \A i \in 1 .. n + 1 : i = n + 1 \/ i \in 1 .. n
  OBVIOUS
<1>5. \A i \in 1 .. Len(more) : Len(more[i].bytes) = kTsPayloadSize
  BY <1>2, <1>3, <1>4, Zenon
<1>6. /\ Payloads(packets) \in Seq(Seq(Nat)) /\ Len(Payloads(packets)) = n
      /\ Payloads(more) \in Seq(Seq(Nat)) /\ Len(Payloads(more)) = n + 1
  BY <1>2, <1>3, <1>5, PayloadsType, Zenon
<1>7. TsPayload(p) \in Seq(Nat)
  BY TsPayloadType
<1>8. Payloads(more)[n + 1] = TsPayload(p)
  BY <1>3 DEF Payloads
<1>9. Agree(Payloads(packets), Payloads(more), n)
  <2>1. ASSUME NEW k \in 1 .. n PROVE Payloads(packets)[k] = Payloads(more)[k]
    <3>1. Payloads(packets)[k] = TsPayload(packets[k])
      BY <1>2 DEF Payloads
    <3>2. Payloads(more)[k] = TsPayload(more[k])
      BY <1>3 DEF Payloads
    <3> QED
      BY <3>1, <3>2, <1>3, Zenon
  <2> QED
    BY <2>1 DEF Agree
<1>10. Concat(Payloads(more)) = Concat(Payloads(packets)) \o TsPayload(p)
  BY <1>6, <1>7, <1>8, <1>9, ConcatAppend, Zenon
<1> QED
  BY <1>1, <1>3, <1>5, <1>10, Zenon

-----------------------------------------------------------------------------
(* The invariant, step by step.                                             *)

LEMMA Carried ==
  TsCarriesPes <=>
    /\ \A i \in 1 .. Len(ts) : Len(ts[i].bytes) = kTsPayloadSize
    /\ Concat(Payloads(ts)) = SubSeq(file, 1, Len(file) - bytesToPacketize)
BY DEF TsCarriesPes, Payloads

LEMMA TsInvInit == Init => TsInv
<1> SUFFICES ASSUME Init PROVE TsInv
  OBVIOUS
<1> USE DEF Init
<1>1. /\ file \in Seq(Nat) /\ packet \in Seq(Nat) /\ Len(packet) = 0 /\ Len(file) = 0
      /\ bytesToPacketize = 0 /\ ts \in Seq(TsPackets) /\ Len(ts) = 0
  OBVIOUS
<1>2. SubSeq(file, 1, 0) = << >>
  BY SubSeqEmpty
<1>3. packet = SubSeq(file, Len(file) - Len(packet) + 1, Len(file))
  BY <1>1, <1>2
<1>4. Concat(Payloads(ts)) = << >>
  <2>1. Payloads(ts) = << >>
    BY <1>1 DEF Payloads
  <2> QED
    BY <2>1, ConcatEmpty
<1>5. TsCarriesPes
  <2>1. \A i \in 1 .. Len(ts) : Len(ts[i].bytes) = kTsPayloadSize
    BY <1>1
  <2>2. Len(file) - bytesToPacketize = 0
    BY <1>1
  <2> QED
    BY <2>1, <2>2, <1>2, <1>4, Carried, Zenon
<1> QED
  BY <1>1, <1>3, <1>5 DEF TsInv

LEMMA TsInvConvert ==
  ASSUME TsInv, NEW f \in Frames, ConvertFrame(f)
  PROVE  TsInv'
<1> USE DEF TsInv
<1>1. CASE CanWrite(f)
  <2>1. /\ pc = "convert" /\ packet' = WritePesPacket(f) /\ file' = file \o packet'
        /\ bytesToPacketize' = Len(packet') /\ continuityCounter' = 0
        /\ pc' = "packetize" /\ ts' = ts
    BY <1>1 DEF ConvertFrame
  <2>2. packet' \in Seq(Nat)
    BY <1>1, <2>1, WritePesPacketType
  <2>0. PICK old \in Seq(Nat), new \in Seq(Nat) : old = file /\ new = packet'
    BY <2>2
  <2>12. PICK all : all = old \o new
    OBVIOUS
  <2>3. old = file /\ new = packet' /\ all = old \o new
    BY <2>0, <2>12
  <2>4. /\ all \in Seq(Nat) /\ Len(all) = Len(old) + Len(new)
        /\ Len(old) \in Nat /\ Len(new) \in Nat
    BY <2>3, ConcatProperties, LenProperties
  <2>5. file' = all
    BY <2>1, <2>3
  <2>6. SubSeq(all, 1, Len(old)) = old /\ SubSeq(all, Len(old) + 1, Len(old) + Len(new)) = new
    BY <2>3, HeadOfCat, TailOfCat, Zenon
  <2>7. Len(all) - Len(new) + 1 = Len(old) + 1 /\ Len(all) - Len(new) = Len(old)
    BY <2>4
  <2>8. packet' = SubSeq(file', Len(file') - Len(packet') + 1, Len(file'))
    BY <2>3, <2>4, <2>5, <2>6, <2>7, Zenon
  <2>9. TsCarriesPes'
    <3>1. /\ \A i \in 1 .. Len(ts') : Len(ts'[i].bytes) = kTsPayloadSize
          /\ Payloads(ts)' = Payloads(ts)
      BY <2>1, Carried DEF Payloads
    <3>2. Concat(Payloads(ts)) = SubSeq(old, 1, Len(old) - 0)
      BY <2>1, <2>3, Carried, Zenon
    <3>3. SubSeq(old, 1, Len(old) - 0) = old
      BY <2>4, SubSeqFull
    <3>4. SubSeq(file, 1, Len(file) - bytesToPacketize)' = old
      BY <2>1, <2>3, <2>5, <2>6, <2>7
    <3> QED
      BY <3>1, <3>2, <3>3, <3>4 DEF TsCarriesPes, Payloads
  <2>10. file' \in Seq(Nat) /\ Len(packet') <= Len(file')
    BY <2>3, <2>4, <2>5
  <2>11. bytesToPacketize' \in 0 .. Len(packet')
    BY <2>1, <2>3, <2>4
  <2> QED
    BY <2>1, <2>2, <2>8, <2>9, <2>10, <2>11
<1>2. CASE ~ CanWrite(f)
  <2>1. /\ pc' = "converted"
        /\ UNCHANGED << file, packet, bytesToPacketize, continuityCounter, ts >>
    BY <1>2 DEF ConvertFrame, writerVars, tsVars
  <2>2. TsCarriesPes' = TsCarriesPes
    BY <2>1 DEF TsCarriesPes
  <2> QED
    BY <2>1, <2>2
<1> QED
  BY <1>1, <1>2

LEMMA TsInvPacketize ==
  ASSUME TsInv, PacketizeOne
  PROVE  TsInv'
<1> USE DEF TsInv
<1> DEFINE size    == PayloadSize(bytesToPacketize)
           readAt  == Len(packet) - bytesToPacketize
           adapts  == bytesToPacketize < kTsPayloadSize
           padSize == kTsPayloadSize - size - 1 - 1
           counter == IF continuityCounter > 15 THEN 0 ELSE continuityCounter
           part    == SubSeq(packet, readAt + 1, readAt + size)
           field   == IF adapts THEN Adaptation(padSize) ELSE << >>
           new     == [ start |-> readAt = 0, adapts |-> adapts, counter |-> counter,
                        bytes |-> field \o part ]
           whole   == Len(file)
           done    == whole - bytesToPacketize
<1>1. /\ ts' = Append(ts, new) /\ bytesToPacketize' = bytesToPacketize - size
      /\ continuityCounter' = counter + 1 /\ bytesToPacketize > 0
      /\ UNCHANGED << pc, file, packet >>
  BY DEF PacketizeOne, Adaptation, writerVars
<1>2. /\ bytesToPacketize \in Nat \ {0} /\ Len(packet) \in Nat /\ whole \in Nat
      /\ readAt \in Nat /\ done \in Nat /\ readAt + bytesToPacketize = Len(packet)
  <2>1. PICK l \in Nat, w \in Nat : l = Len(packet) /\ w = whole
    BY LenProperties, Zenon
  <2>2. bytesToPacketize \in 0 .. l /\ bytesToPacketize > 0 /\ l <= w
    BY <1>1, <2>1
  <2>3. readAt = l - bytesToPacketize /\ done = w - bytesToPacketize
    BY <2>1, Zenon
  <2> HIDE DEF readAt, done
  <2> QED
    BY <2>1, <2>2, <2>3
<1>3. /\ size \in Nat \ {0} /\ size <= bytesToPacketize
      /\ ~ adapts => size = kTsPayloadSize
      /\ adapts => padSize \in Nat /\ padSize + 2 + size = kTsPayloadSize
  <2>1. PICK n : n = size
    OBVIOUS
  <2>2. /\ n \in Nat \ {0} /\ n <= bytesToPacketize
        /\ bytesToPacketize >= kTsPayloadSize => n = kTsPayloadSize
        /\ bytesToPacketize < kTsPayloadSize => n + 2 <= kTsPayloadSize
    BY <1>2, <2>1, PayloadSizeFits, Zenon
  <2> HIDE DEF size
  <2> QED
    BY <2>1, <2>2, <1>2, TsPayloadAssumption
<1>4. counter \in 0 .. 15
  OBVIOUS
<1> HIDE DEF counter, size
<1>5. part \in Seq(Nat) /\ Len(part) = size
  <2>1. readAt + size <= Len(packet)
    BY <1>2, <1>3
  <2>2. packet \in Seq(Nat) /\ size \in Nat /\ readAt \in Nat
    BY <1>2, <1>3
  <2> HIDE DEF readAt
  <2>3. PICK a \in Nat, n \in Nat, p \in Seq(Nat) : a = readAt /\ n = size /\ p = packet
    BY <2>2, Zenon
  <2>4. a + n <= Len(p)
    BY <2>1, <2>3, Zenon
  <2>5. SubSeq(p, a + 1, a + n) \in Seq(Nat) /\ Len(SubSeq(p, a + 1, a + n)) = n
    BY <2>4, PartType, SMTT(30)
  <2> QED
    BY <2>3, <2>5, Zenon
<1>6. part = SubSeq(file, done + 1, done + size)
  <2>0. whole - Len(packet) \in Nat
    BY <1>2
  <2>1. PICK at \in Nat, a \in Nat : at = whole - Len(packet) /\ a = readAt
    BY <2>0, <1>2, Zenon
  <2>2. at + a = done /\ at + a + size <= whole
    BY <1>2, <1>3, <2>1
  <2>3. packet = SubSeq(file, at + 1, Len(file))
    BY <2>1
  <2>4. SubSeq(packet, a + 1, a + size) = SubSeq(file, at + a + 1, at + a + size)
    BY <1>3, <2>2, <2>3, PartOfRest
  <2> QED
    BY <2>1, <2>2, <2>4, Zenon
<1> HIDE DEF readAt, padSize, part
<1>7. /\ new \in TsPackets /\ Len(new.bytes) = kTsPayloadSize /\ TsPayload(new) = part
  <2>1. new.bytes = field \o part /\ new.adapts = adapts
    OBVIOUS
  <2>2. CASE adapts
    <3>1. new.adapts /\ new.bytes = Adaptation(padSize) \o part
      BY <2>1, <2>2
    <3>2. /\ new.bytes \in Seq(Nat) /\ Len(new.bytes) = padSize + 2 + Len(part)
          /\ TsPayload(new) = part
      <4>1. padSize \in Nat
        BY <1>3, <2>2
      <4> HIDE DEF new, field
      <4> QED
        BY <3>1, <4>1, <1>5, AdaptedGivesBack, Zenon
    <3>3. Len(new.bytes) = kTsPayloadSize
      BY <3>2, <1>3, <1>5, <2>2
    <3>4. field \o part \in Seq(Nat)
      BY <2>1, <3>2
    <3> QED
      BY <3>2, <3>3, <3>4, <1>4 DEF TsPackets
  <2>3. CASE ~ adapts
    <3>1. field \o part = part
      BY <2>3, <1>5, ConcatEmptySeq
    <3>2. TsPayload(new) = part
      BY <2>1, <2>3, <3>1 DEF TsPayload
    <3> QED
      BY <2>1, <2>3, <3>1, <3>2, <1>3, <1>4, <1>5 DEF TsPackets
  <2> QED
    BY <2>2, <2>3
<1>8. /\ \A i \in 1 .. Len(ts) : Len(ts[i].bytes) = kTsPayloadSize
      /\ Concat(Payloads(ts)) = SubSeq(file, 1, done)
  BY Carried
<1> HIDE DEF new, adapts, field
<1>9. /\ Append(ts, new) \in Seq(TsPackets)
      /\ \A i \in 1 .. Len(Append(ts, new)) : Len(Append(ts, new)[i].bytes) = kTsPayloadSize
      /\ Concat(Payloads(Append(ts, new))) = Concat(Payloads(ts)) \o TsPayload(new)
  BY <1>7, <1>8, PayloadsAppend, Zenon
<1>10. SubSeq(file, 1, done) \o SubSeq(file, done + 1, done + size) = SubSeq(file, 1, done + size)
  <2>1. done + size <= Len(file) /\ done \in Nat /\ size \in Nat
    BY <1>2, <1>3
  <2>2. file \in Seq(Nat)
    OBVIOUS
  <2> HIDE DEF done, TsInv
  <2> QED
    BY <2>1, <2>2, PartsTouch
<1>11. done + size = whole - (bytesToPacketize - size)
  BY <1>2, <1>3
<1>12. Concat(Payloads(Append(ts, new))) = SubSeq(file, 1, whole - (bytesToPacketize - size))
  BY <1>6, <1>7, <1>8, <1>9, <1>10, <1>11, Zenon
<1>13. TsCarriesPes'
  BY <1>1, <1>9, <1>12 DEF TsCarriesPes, Payloads
<1>14. bytesToPacketize' \in 0 .. Len(packet') /\ (pc' = "convert" => bytesToPacketize' = 0)
  <2>1. pc' # "convert"
    BY <1>1 DEF PacketizeOne
  <2>2. bytesToPacketize - size \in 0 .. Len(packet)
    BY <1>2, <1>3
  <2> QED
    BY <2>1, <2>2, <1>1
<1>15. ts' \in Seq(TsPackets) /\ continuityCounter' \in 0 .. 16
  BY <1>1, <1>4, <1>9
<1> QED
  BY <1>1, <1>13, <1>14, <1>15

LEMMA TsInvStep == TsInv /\ [Next]_vars => TsInv'
<1> SUFFICES ASSUME TsInv, [Next]_vars PROVE TsInv'
  OBVIOUS
<1>1. ASSUME UNCHANGED << file, packet, bytesToPacketize, continuityCounter, ts >>,
             pc' = "convert" => pc \in {"convert", "packetize"} /\ bytesToPacketize = 0
      PROVE  TsInv'
  BY <1>1 DEF TsInv, TsCarriesPes
<1>2. CASE \E f \in Frames : ConvertFrame(f)
  BY <1>2, TsInvConvert
<1>3. CASE PacketizeOne
  BY <1>3, TsInvPacketize
<1>4. CASE Packetized
  BY <1>1, <1>4 DEF Packetized, writerVars, tsVars
<1>5. CASE \E cut \in Cuts : Open(cut)
  BY <1>1, <1>5 DEF Open, writerVars, tsVars
<1>6. CASE ParseNextPacket
  BY <1>1, <1>6 DEF ParseNextPacket, GiveUp, writerVars, tsVars
<1>7. CASE AccumulateFragment
  BY <1>1, <1>7 DEF AccumulateFragment, GiveUp, writerVars, tsVars
<1>8. CASE FragmentsGathered
  BY <1>1, <1>8 DEF FragmentsGathered, writerVars, tsVars
<1>9. CASE CallAgain
  BY <1>1, <1>9 DEF CallAgain, writerVars, tsVars
<1>10. CASE UNCHANGED vars
  BY <1>1, <1>10 DEF vars, writerVars, tsVars, TsInv
<1> QED
  BY <1>2, <1>3, <1>4, <1>5, <1>6, <1>7, <1>8, <1>9, <1>10 DEF Next

\* For any frames, however they are cut: every transport packet is full, and what
\* they carry, adaptation fields left out, is the stream of PES packets up to the
\* bytes still to be put into packets (VpxPes2Ts::ReceivePacket).
THEOREM TsCarries == Spec => []TsCarriesPes
<1>1. TsInv => TsCarriesPes
  BY DEF TsInv
<1> QED
  BY <1>1, TsInvInit, TsInvStep, PTL DEF Spec
=============================================================================
