----------------------------- MODULE SeekProofs -----------------------------
(* That seeking finds the blocks it should, and that a walk comes to every     *)
(* block: for any file that a muxer leaves, at any state of loading it.  First *)
(* that the positions in the Cues and in the seek head are right once the Cues *)
(* are before the first cluster, whatever their points are.                   *)
EXTENDS SeekProperties, TLAPS, WellFoundedInduction, SequenceTheorems, FiniteSetTheorems

-----------------------------------------------------------------------------
(* Sums of sequences.                                                       *)

\* A set of naturals that is not empty has a least element.
LEMMA LeastNatural ==
  ASSUME NEW T, T \subseteq Nat, T # {}
  PROVE  \E x \in T : \A y \in T : x <= y
<1>1. IsWellFoundedOn(OpToRel(<, Nat), Nat)
  BY NatLessThanWellFounded
<1>2. PICK x \in T : \A y \in T : ~ (<<y, x>> \in OpToRel(<, Nat))
  BY <1>1, WFMin
<1>3. \A y \in T : ~ (y < x)
  BY <1>2 DEF OpToRel
<1> QED
  BY <1>3

\* Induction over the naturals, for a property given as a set.
LEMMA NatSetInduction ==
  ASSUME NEW S, 0 \in S, \A n \in Nat : n \in S => n + 1 \in S
  PROVE  Nat \subseteq S
<1> SUFFICES ASSUME ~ (Nat \subseteq S) PROVE FALSE
  OBVIOUS
<1> DEFINE T == Nat \ S
<1>1. PICK x \in T : \A y \in T : x <= y
  BY LeastNatural
<1>2. x # 0 /\ x - 1 \in Nat /\ x - 1 \notin T
  BY <1>1
<1> QED
  BY <1>1, <1>2

\* f is the sequence of partial sums of the first n numbers of v.
PartialSums(f, v, n) == f[0] = 0 /\ \A k \in 1 .. n : f[k] = f[k - 1] + v[k]

\* Every sequence of integers has partial sums.
LEMMA SumsExist ==
  ASSUME NEW v \in Seq(Int), NEW n \in Nat, n <= Len(v)
  PROVE  \E f \in [0 .. n -> Int] : PartialSums(f, v, n)
<1> DEFINE S == { m \in Nat : m <= Len(v) => \E f \in [0 .. m -> Int] : PartialSums(f, v, m) }
<1>1. 0 \in S
  <2> DEFINE f == [ k \in 0 .. 0 |-> 0 ]
  <2>1. f \in [0 .. 0 -> Int] /\ PartialSums(f, v, 0)
    BY DEF PartialSums
  <2> QED
    BY <2>1
<1>2. ASSUME NEW m \in Nat, m \in S PROVE m + 1 \in S
  <2> SUFFICES ASSUME m + 1 <= Len(v)
               PROVE  \E f \in [0 .. m + 1 -> Int] : PartialSums(f, v, m + 1)
    BY <1>2
  <2>1. PICK f \in [0 .. m -> Int] : PartialSums(f, v, m)
    BY <1>2
  <2>2. v[m + 1] \in Int
    OBVIOUS
  <2> DEFINE g == [ k \in 0 .. m + 1 |-> IF k = m + 1 THEN f[m] + v[m + 1] ELSE f[k] ]
  <2>3. g \in [0 .. m + 1 -> Int]
    BY <2>1, <2>2
  <2>4. g[0] = 0
    BY <2>1 DEF PartialSums
  <2>5. ASSUME NEW k \in 1 .. m + 1 PROVE g[k] = g[k - 1] + v[k]
    <3>1. CASE k = m + 1
      BY <3>1
    <3>2. CASE k # m + 1
      BY <3>2, <2>1 DEF PartialSums
    <3> QED
      BY <3>1, <3>2
  <2>6. PartialSums(g, v, m + 1)
    BY <2>4, <2>5 DEF PartialSums
  <2> QED
    BY <2>3, <2>6
<1>3. n \in S
  BY <1>1, <1>2, NatSetInduction
<1> QED
  BY <1>3

\* Any partial sums of a sequence end with its sum.
LEMMA SumIsLast ==
  ASSUME NEW v \in Seq(Int)
  PROVE  \E f \in [0 .. Len(v) -> Int] : PartialSums(f, v, Len(v)) /\ SumOf(v) = f[Len(v)]
<1> DEFINE Def(f) == [ n \in 0 .. Len(v) |-> IF n = 0 THEN 0 ELSE f[n - 1] + v[n] ]
           g == CHOOSE f : f = Def(f)
<1>1. PICK h \in [0 .. Len(v) -> Int] : PartialSums(h, v, Len(v))
  BY SumsExist
<1>2. h = Def(h)
  BY <1>1 DEF PartialSums
<1>3. g = Def(g)
  BY <1>2
<1>4. \A n \in 0 .. Len(v) : g[n] = IF n = 0 THEN 0 ELSE g[n - 1] + v[n]
  BY <1>3
<1>5. PartialSums(g, v, Len(v))
  <2> HIDE DEF g
  <2> QED
    BY <1>4 DEF PartialSums
<1>6. SumOf(v) = g[Len(v)]
  BY DEF SumOf
<1> DEFINE S == { n \in Nat : n <= Len(v) => g[n] = h[n] }
<1>7. 0 \in S
  BY <1>1, <1>5 DEF PartialSums
<1>8. ASSUME NEW n \in Nat, n \in S PROVE n + 1 \in S
  <2> SUFFICES ASSUME n + 1 <= Len(v) PROVE g[n + 1] = h[n + 1]
    OBVIOUS
  <2>1. g[n] = h[n]
    BY <1>8
  <2>2. h[n + 1] = h[n] + v[n + 1]
    BY <1>1 DEF PartialSums
  <2>3. g[n + 1] = g[n] + v[n + 1]
    <3> HIDE DEF g
    <3> QED
      BY <1>5 DEF PartialSums
  <2> QED
    BY <2>1, <2>2, <2>3
<1>9. Nat \subseteq S
  <2> HIDE DEF S
  <2> QED
    BY <1>7, <1>8, NatSetInduction
<1>10. g[Len(v)] = h[Len(v)]
  BY <1>9
<1> QED
  BY <1>1, <1>6, <1>10

LEMMA SumType ==
  ASSUME NEW v \in Seq(Int)
  PROVE  SumOf(v) \in Int
BY SumIsLast

\* The sum of naturals is a natural.
LEMMA SumNat ==
  ASSUME NEW v \in Seq(Nat)
  PROVE  SumOf(v) \in Nat
<1>1. v \in Seq(Int)
  OBVIOUS
<1>2. PICK f \in [0 .. Len(v) -> Int] : PartialSums(f, v, Len(v)) /\ SumOf(v) = f[Len(v)]
  BY <1>1, SumIsLast
<1> DEFINE S == { n \in Nat : n <= Len(v) => f[n] >= 0 }
<1>3. 0 \in S
  BY <1>2 DEF PartialSums
<1>4. ASSUME NEW n \in Nat, n \in S PROVE n + 1 \in S
  <2> SUFFICES ASSUME n + 1 <= Len(v) PROVE f[n + 1] >= 0
    OBVIOUS
  <2>1. f[n] >= 0 /\ f[n] \in Int /\ v[n + 1] \in Nat
    BY <1>4, <1>2
  <2> QED
    BY <2>1, <1>2 DEF PartialSums
<1>5. Nat \subseteq S
  <2> HIDE DEF S
  <2> QED
    BY <1>3, <1>4, NatSetInduction
<1> QED
  BY <1>2, <1>5

LEMMA SumEmpty == SumOf(<< >>) = 0
<1>1. << >> \in Seq(Int) /\ Len(<< >>) = 0
  OBVIOUS
<1>2. \E f \in [0 .. Len(<< >>) -> Int] :
        PartialSums(f, << >>, Len(<< >>)) /\ SumOf(<< >>) = f[Len(<< >>)]
  BY <1>1, SumIsLast
<1> QED
  BY <1>1, <1>2 DEF PartialSums

\* Partial sums of two sequences that agree up to n.
LEMMA SumsAgree ==
  ASSUME NEW v \in Seq(Int), NEW w \in Seq(Int), NEW f, NEW g, NEW n \in Nat,
         n <= Len(v), n <= Len(w), PartialSums(f, v, Len(v)), PartialSums(g, w, Len(w)),
         \A k \in 1 .. n : v[k] = w[k]
  PROVE  f[n] = g[n]
<1> DEFINE S == { m \in Nat : m <= n => f[m] = g[m] }
<1>1. 0 \in S
  BY DEF PartialSums
<1>2. ASSUME NEW m \in Nat, m \in S PROVE m + 1 \in S
  <2> SUFFICES ASSUME m + 1 <= n PROVE f[m + 1] = g[m + 1]
    OBVIOUS
  <2>1. f[m] = g[m]
    BY <1>2
  <2>2. f[m + 1] = f[m] + v[m + 1] /\ g[m + 1] = g[m] + w[m + 1]
    BY DEF PartialSums
  <2> QED
    BY <2>1, <2>2
<1>3. Nat \subseteq S
  <2> HIDE DEF S
  <2> QED
    BY <1>1, <1>2, NatSetInduction
<1> QED
  BY <1>3

LEMMA SumAppend ==
  ASSUME NEW v \in Seq(Int), NEW x \in Int
  PROVE  SumOf(Append(v, x)) = SumOf(v) + x
<1> DEFINE w == Append(v, x)
<1>1. w \in Seq(Int) /\ Len(w) = Len(v) + 1 /\ w[Len(v) + 1] = x /\ \A k \in 1 .. Len(v) : w[k] = v[k]
  OBVIOUS
<1> HIDE DEF w
<1>2. PICK f \in [0 .. Len(v) -> Int] : PartialSums(f, v, Len(v)) /\ SumOf(v) = f[Len(v)]
  BY SumIsLast
<1>3. PICK g \in [0 .. Len(w) -> Int] : PartialSums(g, w, Len(w)) /\ SumOf(w) = g[Len(w)]
  BY <1>1, SumIsLast
<1>4. f[Len(v)] = g[Len(v)]
  <2>1. Len(v) \in Nat /\ Len(v) <= Len(w) /\ Len(v) <= Len(v) /\ \A k \in 1 .. Len(v) : v[k] = w[k]
    BY <1>1
  <2>2. PartialSums(f, v, Len(v)) /\ PartialSums(g, w, Len(w)) /\ w \in Seq(Int)
    BY <1>1, <1>2, <1>3
  <2> QED
    BY ONLY <2>1, <2>2, SumsAgree, v \in Seq(Int)
<1>5. g[Len(w)] = g[Len(v)] + x
  <2>1. Len(w) \in 1 .. Len(w) /\ Len(w) - 1 = Len(v) /\ w[Len(w)] = x
    BY <1>1
  <2> QED
    BY <2>1, <1>3 DEF PartialSums
<1>6. SumOf(w) = SumOf(v) + x
  BY <1>2, <1>3, <1>4, <1>5
<1> QED
  BY <1>6 DEF w

\* A number that changes changes the sum by as much.
LEMMA SumChange ==
  ASSUME NEW v \in Seq(Int), NEW w \in Seq(Int), Len(w) = Len(v), NEW i \in 1 .. Len(v),
         \A k \in 1 .. Len(v) : k # i => w[k] = v[k]
  PROVE  SumOf(w) = SumOf(v) - v[i] + w[i]
<1>1. PICK f \in [0 .. Len(v) -> Int] : PartialSums(f, v, Len(v)) /\ SumOf(v) = f[Len(v)]
  BY SumIsLast
<1>2. PICK g \in [0 .. Len(w) -> Int] : PartialSums(g, w, Len(w)) /\ SumOf(w) = g[Len(w)]
  BY SumIsLast
<1>3. v[i] \in Int /\ w[i] \in Int
  OBVIOUS
<1> DEFINE d(n) == IF n >= i THEN w[i] - v[i] ELSE 0
           S == { n \in Nat : n <= Len(v) => g[n] = f[n] + d(n) }
<1>4. 0 \in S
  BY <1>1, <1>2 DEF PartialSums
<1>5. ASSUME NEW n \in Nat, n \in S PROVE n + 1 \in S
  <2> SUFFICES ASSUME n + 1 <= Len(v) PROVE g[n + 1] = f[n + 1] + d(n + 1)
    OBVIOUS
  <2>1. g[n] = f[n] + d(n)
    BY <1>5
  <2>0. n \in 0 .. Len(v)
    OBVIOUS
  <2>6. f[n] \in Int
    BY <2>0, <1>1
  <2>2. f[n + 1] = f[n] + v[n + 1] /\ g[n + 1] = g[n] + w[n + 1]
    BY <1>1, <1>2 DEF PartialSums
  <2>3. v[n + 1] \in Int /\ w[n + 1] \in Int
    OBVIOUS
  <2>4. CASE n + 1 = i
    BY <2>1, <2>2, <2>3, <2>4, <2>6, SMTT(30)
  <2>5. CASE n + 1 # i
    BY <2>1, <2>2, <2>3, <2>5, <2>6, <1>3, SMTT(30)
  <2> QED
    BY <2>4, <2>5
<1>6. Nat \subseteq S
  <2> HIDE DEF S
  <2> QED
    BY <1>4, <1>5, NatSetInduction
<1>7. g[Len(v)] = f[Len(v)] + d(Len(v)) /\ d(Len(v)) = w[i] - v[i] /\ f[Len(v)] \in Int
  BY <1>1, <1>6
<1> HIDE DEF d
<1> QED
  BY <1>1, <1>2, <1>3, <1>7

-----------------------------------------------------------------------------
(* Sizes.                                                                   *)

\* The length of a number, and of a size, is a natural and rises with it.
LEMMA SizesOfNumbers ==
  ASSUME NEW m \in Nat, NEW n \in Nat, m <= n
  PROVE  /\ GetUIntSize(m) \in Nat /\ GetUIntSize(n) \in Nat /\ GetUIntSize(m) <= GetUIntSize(n)
         /\ GetCodedUIntSize(m) \in Nat /\ GetCodedUIntSize(n) \in Nat
         /\ GetCodedUIntSize(m) <= GetCodedUIntSize(n)
BY DEF GetUIntSize, GetCodedUIntSize

\* An element is longer if its payload is.
LEMMA WholeRises ==
  ASSUME NEW id, NEW m \in Nat, NEW n \in Nat, m <= n
  PROVE  Whole(id, m) \in Nat /\ Whole(id, n) \in Nat /\ Whole(id, m) <= Whole(id, n)
<1>1. IdSize(id) \in Nat
  BY DEF IdSize
<1>2. /\ GetCodedUIntSize(m) \in Nat /\ GetCodedUIntSize(n) \in Nat
      /\ GetCodedUIntSize(m) <= GetCodedUIntSize(n)
  BY SizesOfNumbers
<1> QED
  BY <1>1, <1>2 DEF Whole, EbmlMasterElementSize

\* An element with a number is longer if the number is greater.
LEMMA ElementRises ==
  ASSUME NEW id, id \notin TextIds \cup FloatIds \cup {"DateUTC"}, NEW m \in Nat, NEW n \in Nat, m <= n
  PROVE  /\ EbmlElementSize(id, m) \in Nat /\ EbmlElementSize(id, n) \in Nat
         /\ EbmlElementSize(id, m) <= EbmlElementSize(id, n)
<1>1. m # NULL /\ n # NULL
  BY NullAssumption
<1>2. PayloadOf(id, m) = GetUIntSize(m) /\ PayloadOf(id, n) = GetUIntSize(n)
  BY DEF PayloadOf
<1>3. EbmlElementSize(id, m) = Whole(id, GetUIntSize(m)) /\ EbmlElementSize(id, n) = Whole(id, GetUIntSize(n))
  BY <1>1, <1>2 DEF EbmlElementSize
<1> QED
  BY <1>3, SizesOfNumbers, WholeRises

\* A point whose cluster moves back is at least as long as before.
LEMMA PointRises ==
  ASSUME NEW p \in CuePoints, NEW d \in Nat
  PROVE  LET q == [p EXCEPT !.cluster_pos = @ + d]
         IN  /\ q \in CuePoints /\ q.cluster_pos = p.cluster_pos + d
             /\ CuePointSize(p) \in Nat /\ CuePointSize(q) \in Nat /\ CuePointSize(p) <= CuePointSize(q)
<1> DEFINE q == [p EXCEPT !.cluster_pos = @ + d]
           rest(r) == EbmlElementSize("CueTrack", r.track)
                      + (IF r.block_number > 1 THEN EbmlElementSize("CueBlockNumber", r.block_number) ELSE 0)
           pos(r) == EbmlElementSize("CueClusterPosition", r.cluster_pos)
           time(r) == EbmlElementSize("CueTime", r.time)
           all(r) == EbmlElementSize("CueClusterPosition", r.cluster_pos)
                     + EbmlElementSize("CueTrack", r.track)
                     + (IF r.block_number > 1 THEN EbmlElementSize("CueBlockNumber", r.block_number) ELSE 0)
           inner(r) == time(r) + Whole("CueTrackPositions", all(r))
<1>1. /\ q \in CuePoints /\ q.cluster_pos = p.cluster_pos + d /\ q.track = p.track
      /\ q.time = p.time /\ q.block_number = p.block_number
  BY DEF CuePoints
<1>2. /\ p.track \in Nat /\ p.time \in Nat /\ p.block_number \in Nat /\ p.cluster_pos \in Nat
      /\ q.cluster_pos \in Nat /\ p.cluster_pos <= q.cluster_pos
  BY <1>1 DEF CuePoints
<1> HIDE DEF q
<1>3. \A id \in {"CueClusterPosition", "CueTrack", "CueBlockNumber", "CueTime"} :
        id \notin TextIds \cup FloatIds \cup {"DateUTC"}
  BY DEF TextIds, FloatIds
<1>4. pos(p) \in Nat /\ pos(q) \in Nat /\ pos(p) <= pos(q)
  BY <1>2, <1>3, ElementRises
<1>5. EbmlElementSize("CueTrack", p.track) \in Nat
  BY <1>2, <1>3, ElementRises
<1>6. EbmlElementSize("CueBlockNumber", p.block_number) \in Nat
  BY <1>2, <1>3, ElementRises
<1>7. time(p) \in Nat /\ time(q) = time(p)
  BY <1>1, <1>2, <1>3, ElementRises
<1>8. all(p) \in Nat /\ all(q) \in Nat /\ all(p) <= all(q)
  BY <1>1, <1>4, <1>5, <1>6
<1>9. inner(p) \in Nat /\ inner(q) \in Nat /\ inner(p) <= inner(q)
  <2> HIDE DEF all, time
  <2> QED
    BY <1>7, <1>8, WholeRises
<1>10. CuePointSize(p) = Whole("CuePoint", inner(p)) /\ CuePointSize(q) = Whole("CuePoint", inner(q))
  BY DEF CuePointSize
<1>11. CuePointSize(p) \in Nat /\ CuePointSize(q) \in Nat /\ CuePointSize(p) <= CuePointSize(q)
  <2> HIDE DEF inner
  <2> QED
    BY <1>9, <1>10, WholeRises
<1> QED
  BY <1>1, <1>11 DEF q

LEMMA PointSizeType ==
  ASSUME NEW p \in CuePoints
  PROVE  CuePointSize(p) \in Nat
BY PointRises, 0 \in Nat

LEMMA PointsSizeType ==
  ASSUME NEW points \in Seq(CuePoints)
  PROVE  PointsSize(points) \in Nat /\ CuesSize(points) \in Nat
<1> DEFINE v == [ i \in DOMAIN points |-> CuePointSize(points[i]) ]
<1>1. \A i \in DOMAIN points : CuePointSize(points[i]) \in Nat
  BY PointSizeType
<1>2. v \in Seq(Nat)
  BY <1>1
<1>3. PointsSize(points) \in Nat
  BY <1>2, SumNat DEF PointsSize
<1> QED
  BY <1>3, WholeRises DEF CuesSize

\* A point that changes changes the size of all points by as much.
LEMMA PointsSizeChanges ==
  ASSUME NEW points \in Seq(CuePoints), NEW i \in 1 .. Len(points), NEW p \in CuePoints
  PROVE  PointsSize([points EXCEPT ![i] = p]) = PointsSize(points) + CuePointSize(p) - CuePointSize(points[i])
<1> DEFINE new == [points EXCEPT ![i] = p]
           v == [ k \in DOMAIN points |-> CuePointSize(points[k]) ]
           w == [ k \in DOMAIN new |-> CuePointSize(new[k]) ]
<1>1. DOMAIN new = 1 .. Len(points) /\ new \in Seq(CuePoints) /\ new[i] = p
      /\ \A k \in 1 .. Len(points) : k # i => new[k] = points[k]
  OBVIOUS
<1> HIDE DEF new
<1>2. \A r \in CuePoints : CuePointSize(r) \in Int
  BY PointSizeType
<1>3. v \in Seq(Int) /\ Len(v) = Len(points)
  BY <1>2
<1>4. w \in Seq(Int) /\ Len(w) = Len(points)
  BY <1>1, <1>2
<1>5. v[i] = CuePointSize(points[i]) /\ w[i] = CuePointSize(p)
  BY <1>1
<1>6. \A k \in 1 .. Len(v) : k # i => w[k] = v[k]
  BY <1>1, <1>3
<1>7. SumOf(v) \in Int /\ v[i] \in Int /\ w[i] \in Int
  <2>1. v[i] \in Int /\ w[i] \in Int
    BY <1>2, <1>5, <1>1
  <2> HIDE DEF v
  <2> QED
    BY <2>1, <1>3, SumType
<1>8. PointsSize(points) = SumOf(v) /\ PointsSize(new) = SumOf(w)
  BY DEF PointsSize
<1> HIDE DEF v, w
<1>9. SumOf(w) = SumOf(v) - v[i] + w[i]
  BY <1>3, <1>4, <1>6, SumChange
<1>10. PointsSize(new) = PointsSize(points) + CuePointSize(p) - CuePointSize(points[i])
  BY <1>5, <1>7, <1>8, <1>9
<1> QED
  BY <1>10 DEF new

\* The Cues grow by Growth.
LEMMA CuesGrow ==
  ASSUME NEW points \in Seq(CuePoints), NEW new \in Seq(CuePoints), PointsSize(points) <= PointsSize(new)
  PROVE  /\ Growth(PointsSize(points), PointsSize(new)) \in Nat
         /\ CuesSize(new) = CuesSize(points) + Growth(PointsSize(points), PointsSize(new))
<1>1. PointsSize(points) \in Nat /\ PointsSize(new) \in Nat
  BY PointsSizeType
<1>2. IdSize("Cues") \in Nat
  BY DEF IdSize
<1> DEFINE m == PointsSize(points)
           n == PointsSize(new)
<1>3. /\ GetCodedUIntSize(m) \in Nat /\ GetCodedUIntSize(n) \in Nat
      /\ GetCodedUIntSize(m) <= GetCodedUIntSize(n)
  BY <1>1, SizesOfNumbers
<1>4. CuesSize(points) = IdSize("Cues") + GetCodedUIntSize(m) + m
      /\ CuesSize(new) = IdSize("Cues") + GetCodedUIntSize(n) + n
  BY DEF CuesSize, Whole, EbmlMasterElementSize
<1>5. Growth(m, n) = n - m + GetCodedUIntSize(n) - GetCodedUIntSize(m)
  BY DEF Growth
<1> HIDE DEF m, n
<1>6. Growth(m, n) \in Nat /\ CuesSize(new) = CuesSize(points) + Growth(m, n)
  <2>1. m \in Nat /\ n \in Nat /\ m <= n
    BY <1>1 DEF m, n
  <2> QED
    BY <2>1, <1>2, <1>3, <1>4, <1>5
<1> QED
  BY <1>6 DEF m, n

-----------------------------------------------------------------------------
(* The invariant.                                                           *)

\* What the calls on the stack still add to the position of point i.
Owed(cs, i) == SumOf([ k \in DOMAIN cs |-> IF cs[k].next <= i THEN cs[k].diff ELSE 0 ])

Calls(n) == [ diff : Nat, next : 1 .. n + 1 ]

\* The points are those of the file, but for the positions.
PointsKept ==
  /\ cues \in Seq(CuePoints) /\ Len(cues) = Len(file.points)
  /\ \A i \in 1 .. Len(cues) : /\ cues[i].track = file.points[i].track
                               /\ cues[i].time = file.points[i].time
                               /\ cues[i].block_number = file.points[i].block_number

\* A position and what it is owed are the old position and the size of the Cues.
Moving ==
  /\ seek_head = file.seek_head
  /\ cues_size = PointsSize(cues) /\ calls \in Seq(Calls(Len(cues)))
  /\ \A i \in 1 .. Len(cues) :
       cues[i].cluster_pos + Owed(calls, i) = file.points[i].cluster_pos + CuesSize(cues)

Moved ==
  /\ shift = CuesSize(cues)
  /\ seek_head["Cues"] = file.clusters[1].pos /\ seek_head["Cluster"] = file.clusters[1].pos + shift
  /\ \A i \in 1 .. Len(cues) : cues[i].cluster_pos = file.points[i].cluster_pos + shift

PointsInv ==
  /\ file \in Files /\ PointsKept /\ shift \in Nat
  /\ stage = "finalized" => cues = file.points /\ seek_head = file.seek_head /\ shift = 0
  /\ stage = "moving" => Moving
  /\ stage = "moved" => Moved

LEMMA PointsOfFile ==
  ASSUME NEW f \in Files
  PROVE  /\ f.points \in Seq(CuePoints) /\ Len(f.clusters) \in Nat \ {0}
         /\ \A c \in 1 .. Len(f.clusters) : f.clusters[c].pos \in Nat
         /\ {"Cluster", "Cues"} \subseteq DOMAIN f.seek_head
         /\ f.seek_head = [ id \in DOMAIN f.seek_head |-> f.seek_head[id] ]
         /\ f.seek_head["Cluster"] = f.clusters[1].pos
BY FinalizedAssumption

LEMMA CallType ==
  ASSUME NEW n \in Nat, NEW c \in Calls(n)
  PROVE  c.diff \in Nat /\ c.next \in Nat
<1>1. c.diff \in Nat /\ c.next \in 1 .. n + 1
  BY DEF Calls
<1> QED
  BY <1>1

LEMMA PointType ==
  ASSUME NEW p \in CuePoints
  PROVE  p.track \in Nat /\ p.time \in Nat /\ p.cluster_pos \in Nat /\ p.block_number \in Nat
BY DEF CuePoints

\* What is owed is a natural, and a new call adds to it what it will move.
LEMMA OwedType ==
  ASSUME NEW n \in Nat, NEW cs \in Seq(Calls(n)), NEW i \in 1 .. n
  PROVE  Owed(cs, i) \in Nat
<1> DEFINE v == [ k \in DOMAIN cs |-> IF cs[k].next <= i THEN cs[k].diff ELSE 0 ]
<1>1. \A k \in DOMAIN cs : cs[k] \in Calls(n)
  OBVIOUS
<1>2. \A k \in DOMAIN cs : cs[k].diff \in Nat /\ cs[k].next \in Nat
  BY <1>1, CallType
<1>3. v \in Seq(Nat)
  BY <1>2
<1> QED
  BY <1>3, SumNat DEF Owed

LEMMA OwedAppend ==
  ASSUME NEW n \in Nat, NEW cs \in Seq(Calls(n)), NEW c \in Calls(n), NEW i \in 1 .. n
  PROVE  Owed(Append(cs, c), i) = Owed(cs, i) + IF c.next <= i THEN c.diff ELSE 0
<1> DEFINE due(k) == IF k.next <= i THEN k.diff ELSE 0
           new == Append(cs, c)
           v == [ k \in DOMAIN cs |-> due(cs[k]) ]
           w == [ k \in DOMAIN new |-> due(new[k]) ]
<1>1. due(c) \in Int /\ \A k \in DOMAIN cs : due(cs[k]) \in Int
  <2>1. \A k \in DOMAIN cs : cs[k] \in Calls(n)
    OBVIOUS
  <2> QED
    BY <2>1, CallType
<1>2. new \in Seq(Calls(n)) /\ Len(new) = Len(cs) + 1 /\ new[Len(cs) + 1] = c
      /\ DOMAIN new = 1 .. Len(cs) + 1 /\ \A k \in 1 .. Len(cs) : new[k] = cs[k]
  OBVIOUS
<1>3. v \in Seq(Int) /\ Len(v) = Len(cs)
  BY <1>1
<1>4. w = Append(v, due(c))
  <2> HIDE DEF due, new
  <2>1. Append(v, due(c)) = [ k \in 1 .. Len(cs) + 1 |-> IF k = Len(cs) + 1 THEN due(c) ELSE due(cs[k]) ]
    BY <1>3
  <2> QED
    BY <2>1, <1>2
<1>5. SumOf(Append(v, due(c))) = SumOf(v) + due(c)
  <2> HIDE DEF v, due
  <2> QED
    BY <1>1, <1>3, SumAppend
<1> QED
  BY <1>4, <1>5 DEF Owed

LEMMA OwedNothing ==
  ASSUME NEW i
  PROVE  Owed(<< >>, i) = 0
<1>1. [ k \in DOMAIN << >> |-> IF << >>[k].next <= i THEN << >>[k].diff ELSE 0 ] = << >>
  OBVIOUS
<1> QED
  BY <1>1, SumEmpty DEF Owed

\* A sequence that is not empty is its front and its last element.
LEMMA FrontLast ==
  ASSUME NEW S, NEW s \in Seq(S), s # << >>
  PROVE  /\ Front(s) \in Seq(S) /\ Last(s) \in S /\ s = Append(Front(s), Last(s))
         /\ Len(Front(s)) = Len(s) - 1
<1>1. Len(s) \in Nat \ {0}
  OBVIOUS
<1>2. Front(s) \in Seq(S) /\ Len(Front(s)) = Len(s) - 1
      /\ \A k \in 1 .. Len(s) - 1 : Front(s)[k] = s[k]
  <2> DEFINE n == Len(s) - 1
  <2>1. n \in Nat /\ 1 \in Int /\ \A i \in 1 .. n : s[i] \in S
    BY <1>1
  <2>2. /\ SubSeq(s, 1, n) \in Seq(S) /\ Len(SubSeq(s, 1, n)) = (IF 1 <= n THEN n - 1 + 1 ELSE 0)
        /\ \A i \in 1 .. n - 1 + 1 : SubSeq(s, 1, n)[i] = s[1 + i - 1]
    <3> HIDE DEF n
    <3> QED
      BY <2>1, SubSeqProperties
  <2>3. Front(s) = SubSeq(s, 1, n)
    BY DEF Front
  <2>4. ASSUME NEW k \in 1 .. Len(s) - 1 PROVE SubSeq(s, 1, n)[k] = s[k]
    <3>1. k \in 1 .. n - 1 + 1 /\ 1 + k - 1 = k
      BY <1>1
    <3> HIDE DEF n
    <3> QED
      BY <3>1, <2>2
  <2>5. Len(SubSeq(s, 1, n)) = Len(s) - 1
    <3>1. (IF 1 <= n THEN n - 1 + 1 ELSE 0) = n
      <4> HIDE DEF n
      <4>1. n \in Nat
        BY <2>1
      <4> QED
        BY <4>1
    <3> QED
      BY <2>2, <3>1
  <2> HIDE DEF n
  <2> QED
    BY <2>2, <2>3, <2>4, <2>5
<1>3. Last(s) \in S
  BY <1>1 DEF Last
<1>4. s = Append(Front(s), Last(s))
  BY <1>1, <1>2 DEF Last
<1> QED
  BY <1>2, <1>3, <1>4

LEMMA InvInit == CuesInit => PointsInv
<1> SUFFICES ASSUME CuesInit PROVE PointsInv
  OBVIOUS
<1>1. file \in Files /\ file.points \in Seq(CuePoints)
  BY PointsOfFile DEF CuesInit
<1> QED
  BY <1>1 DEF CuesInit, PointsInv, PointsKept

LEMMA InvBegin == PointsInv /\ MoveCuesBeforeClusters => PointsInv'
<1> SUFFICES ASSUME PointsInv, MoveCuesBeforeClusters PROVE PointsInv'
  OBVIOUS
<1> DEFINE c == [ diff |-> CuesSize(cues), next |-> 1 ]
           n == Len(cues)
<1> USE DEF MoveCuesBeforeClusters
<1>1. PointsKept' /\ file' \in Files /\ shift' \in Nat
  BY DEF PointsInv, PointsKept
<1>2. cues = file.points /\ seek_head = file.seek_head /\ cues \in Seq(CuePoints) /\ n \in Nat
  BY DEF PointsInv, PointsKept
<1>3. CuesSize(cues) \in Nat
  BY <1>2, PointsSizeType
<1>4. c \in Calls(n) /\ calls' = Append(<< >>, c) /\ << >> \in Seq(Calls(n))
  BY <1>2, <1>3 DEF Calls
<1>5. ASSUME NEW i \in 1 .. n PROVE Owed(calls', i) = CuesSize(cues)
  <2>1. Owed(calls', i) = Owed(<< >>, i) + IF c.next <= i THEN c.diff ELSE 0
    <3> HIDE DEF c, n
    <3>1. Owed(Append(<< >>, c), i) = Owed(<< >>, i) + IF c.next <= i THEN c.diff ELSE 0
      BY <1>2, <1>4, OwedAppend
    <3> QED
      BY <3>1, <1>4
  <2> QED
    BY <2>1, <1>3, OwedNothing
<1>6. calls' \in Seq(Calls(Len(cues')))
  BY <1>2, <1>4
<1>7. ASSUME NEW i \in 1 .. Len(cues')
      PROVE  cues'[i].cluster_pos + Owed(calls', i) = file'.points[i].cluster_pos + CuesSize(cues')
  BY <1>2, <1>5
<1>8. Moving'
  BY <1>2, <1>6, <1>7 DEF Moving
<1> QED
  BY <1>1, <1>8 DEF PointsInv

LEMMA InvHelper == PointsInv /\ MoveCuesBeforeClustersHelper => PointsInv'
<1> SUFFICES ASSUME PointsInv, MoveCuesBeforeClustersHelper PROVE PointsInv'
  OBVIOUS
<1> DEFINE n     == Len(cues)
           call  == Last(calls)
           j     == call.next
           moved == [cues[j] EXCEPT !.cluster_pos = @ + call.diff]
           diff  == Growth(cues_size, cues_size')
           new   == [ diff |-> diff, next |-> 1 ]
           gone  == [call EXCEPT !.next = @ + 1]
           base  == Append(Front(calls), gone)
<1>1. /\ stage = "moving" /\ stage' = "moving" /\ calls # << >> /\ j <= n
      /\ file' = file /\ seek_head' = seek_head /\ shift' = shift /\ cues' = [cues EXCEPT ![j] = moved]
      /\ cues_size' = cues_size + CuePointSize(moved) - CuePointSize(cues[j])
      /\ calls' = base \o IF diff > 0 THEN << new >> ELSE << >>
  BY DEF MoveCuesBeforeClustersHelper
<1>2. /\ file \in Files /\ PointsKept /\ shift \in Nat /\ Moving /\ cues \in Seq(CuePoints) /\ n \in Nat
      /\ calls \in Seq(Calls(n)) /\ cues_size = PointsSize(cues)
  BY <1>1 DEF PointsInv, PointsKept, Moving
<1>3. /\ call \in Calls(n) /\ Front(calls) \in Seq(Calls(n)) /\ calls = Append(Front(calls), call)
  BY <1>1, <1>2, FrontLast
<1>4. j \in 1 .. n /\ call.diff \in Nat /\ cues[j] \in CuePoints
  BY <1>1, <1>2, <1>3 DEF Calls
<1>5. /\ moved \in CuePoints /\ moved.cluster_pos = cues[j].cluster_pos + call.diff
      /\ CuePointSize(cues[j]) \in Nat /\ CuePointSize(moved) \in Nat
      /\ CuePointSize(cues[j]) <= CuePointSize(moved)
  <2> HIDE DEF call, j
  <2> QED
    BY <1>4, PointRises
<1>6. moved.track = cues[j].track /\ moved.time = cues[j].time /\ moved.block_number = cues[j].block_number
  BY <1>4 DEF CuePoints
<1>7. cues' \in Seq(CuePoints) /\ Len(cues') = n /\ cues'[j] = moved
      /\ \A i \in 1 .. n : i # j => cues'[i] = cues[i]
  <2> HIDE DEF moved, j
  <2> QED
    BY <1>1, <1>2, <1>4, <1>5
<1>8. PointsKept'
  <2> HIDE DEF moved, j, n
  <2> QED
    BY <1>1, <1>2, <1>4, <1>6, <1>7 DEF PointsKept
<1>9. cues_size' = PointsSize(cues') /\ PointsSize(cues) \in Nat /\ PointsSize(cues') \in Nat
      /\ PointsSize(cues) <= PointsSize(cues')
  <2>1. PointsSize(cues') = PointsSize(cues) + CuePointSize(moved) - CuePointSize(cues[j])
    <3> HIDE DEF moved, j
    <3> QED
      BY <1>1, <1>2, <1>4, <1>5, PointsSizeChanges
  <2>2. PointsSize(cues) \in Nat /\ PointsSize(cues') \in Nat
    BY <1>2, <1>7, PointsSizeType
  <2> HIDE DEF moved, j
  <2> QED
    BY <2>1, <2>2, <1>1, <1>2, <1>5
<1>10. diff \in Nat /\ CuesSize(cues') = CuesSize(cues) + diff /\ CuesSize(cues) \in Nat
  BY <1>2, <1>7, <1>9, CuesGrow, PointsSizeType
<1>11. new \in Calls(n) /\ gone \in Calls(n) /\ gone.next = j + 1 /\ gone.diff = call.diff
  <2> HIDE DEF diff
  <2> QED
    BY <1>3, <1>4, <1>10 DEF Calls
<1>12. base \in Seq(Calls(n))
  <2> HIDE DEF gone
  <2> QED
    BY <1>3, <1>11
<1>13. calls' = (IF diff > 0 THEN Append(base, new) ELSE base)
  <2> HIDE DEF base, new, diff
  <2> QED
    BY <1>1, <1>12
<1>14. calls' \in Seq(Calls(Len(cues')))
  <2> HIDE DEF base, new, diff
  <2> QED
    BY <1>7, <1>11, <1>12, <1>13
<1>15. ASSUME NEW i \in 1 .. n
       PROVE  cues'[i].cluster_pos + Owed(calls', i) = file.points[i].cluster_pos + CuesSize(cues')
  <2> DEFINE rest == Owed(Front(calls), i)
  <2>1. cues[i].cluster_pos + Owed(calls, i) = file.points[i].cluster_pos + CuesSize(cues)
    BY <1>2 DEF Moving
  <2>2. Owed(calls, i) = rest + (IF j <= i THEN call.diff ELSE 0)
    <3> HIDE DEF call, n
    <3>1. Owed(Append(Front(calls), call), i) = rest + (IF j <= i THEN call.diff ELSE 0)
      BY <1>2, <1>3, OwedAppend
    <3> QED
      BY <3>1, <1>3
  <2>3. Owed(base, i) = rest + (IF j + 1 <= i THEN call.diff ELSE 0)
    <3>1. Owed(base, i) = rest + (IF gone.next <= i THEN gone.diff ELSE 0)
      <4> HIDE DEF gone
      <4> QED
        BY <1>2, <1>3, <1>11, OwedAppend
    <3> QED
      BY <3>1, <1>11
  <2>4. Owed(calls', i) = Owed(base, i) + diff
    <3>1. CASE diff > 0
      <4>1. Owed(Append(base, new), i) = Owed(base, i) + (IF new.next <= i THEN new.diff ELSE 0)
        <5> HIDE DEF base, new
        <5> QED
          BY <1>2, <1>11, <1>12, OwedAppend
      <4> QED
        BY <3>1, <4>1, <1>13
    <3>2. CASE ~ (diff > 0)
      <4>1. Owed(base, i) \in Nat
        <5> HIDE DEF base
        <5> QED
          BY <1>2, <1>12, OwedType
      <4> HIDE DEF base, diff
      <4> QED
        BY <3>2, <4>1, <1>10, <1>13
    <3> QED
      BY <3>1, <3>2
  <2>5. rest \in Nat /\ cues[i].cluster_pos \in Nat /\ file.points[i].cluster_pos \in Nat
    <3>1. rest \in Nat
      BY <1>2, <1>3, OwedType
    <3>2. file.points \in Seq(CuePoints) /\ Len(file.points) = n
      BY <1>2, PointsOfFile DEF PointsKept
    <3>3. cues[i] \in CuePoints /\ file.points[i] \in CuePoints
      BY <3>2, <1>2
    <3> QED
      BY <3>1, <3>3, PointType
  <2>6. cues'[i].cluster_pos = cues[i].cluster_pos + (IF i = j THEN call.diff ELSE 0)
    <3> HIDE DEF moved, j, call
    <3>1. CASE i = j
      BY <3>1, <1>5, <1>7
    <3>2. CASE i # j
      BY <3>2, <2>5, <1>7
    <3> QED
      BY <3>1, <3>2
  <2> DEFINE by == call.diff
  <2>7. by \in Nat /\ diff \in Nat /\ CuesSize(cues) \in Nat /\ j \in Int /\ i \in Int
        /\ CuesSize(cues') = CuesSize(cues) + diff
    BY <1>4, <1>10
  <2>8. /\ Owed(calls, i) = rest + (IF j <= i THEN by ELSE 0)
        /\ Owed(base, i) = rest + (IF j + 1 <= i THEN by ELSE 0)
        /\ cues'[i].cluster_pos = cues[i].cluster_pos + (IF i = j THEN by ELSE 0)
    BY <2>2, <2>3, <2>6
  <2> HIDE DEF rest, j, by, base, diff, n
  <2>9. CASE i = j
    <3>1. Owed(calls, i) = rest + by /\ Owed(calls', i) = rest + diff
          /\ cues'[i].cluster_pos = cues[i].cluster_pos + by
      BY <2>4, <2>5, <2>7, <2>8, <2>9
    <3>2. cues[i].cluster_pos + (rest + by) = file.points[i].cluster_pos + CuesSize(cues)
      BY <3>1, <2>1
    <3>3. (cues[i].cluster_pos + by) + (rest + diff) = file.points[i].cluster_pos + (CuesSize(cues) + diff)
      BY <3>2, <2>5, <2>7
    <3> QED
      BY <3>1, <3>3, <2>7
  <2>10. CASE i # j
    <3>1. Owed(base, i) = Owed(calls, i) /\ Owed(calls, i) \in Nat
          /\ cues'[i].cluster_pos = cues[i].cluster_pos
      BY <2>5, <2>7, <2>8, <2>10
    <3>2. Owed(calls', i) = Owed(calls, i) + diff
      BY <3>1, <2>4
    <3>3. cues[i].cluster_pos + (Owed(calls, i) + diff) = file.points[i].cluster_pos + (CuesSize(cues) + diff)
      BY <3>1, <2>1, <2>5, <2>7
    <3> QED
      BY <3>1, <3>2, <3>3, <2>7
  <2> QED
    BY <2>9, <2>10
<1>16. Moving'
  <2> HIDE DEF n
  <2>1. seek_head' = file'.seek_head
    BY <1>1, <1>2 DEF Moving
  <2> QED
    BY <2>1, <1>1, <1>7, <1>9, <1>14, <1>15 DEF Moving
<1> QED
  BY <1>1, <1>2, <1>8, <1>16 DEF PointsInv

LEMMA InvReturn == PointsInv /\ HelperReturns => PointsInv'
<1> SUFFICES ASSUME PointsInv, HelperReturns PROVE PointsInv'
  OBVIOUS
<1> DEFINE n == Len(cues)
<1>1. /\ stage = "moving" /\ stage' = "moving" /\ calls # << >> /\ Last(calls).next > n
      /\ calls' = Front(calls)
      /\ file' = file /\ seek_head' = seek_head /\ shift' = shift /\ cues' = cues
      /\ cues_size' = cues_size
  BY DEF HelperReturns
<1>2. file \in Files /\ PointsKept /\ shift \in Nat /\ Moving /\ n \in Nat /\ calls \in Seq(Calls(n))
  BY <1>1 DEF PointsInv, PointsKept, Moving
<1>3. Front(calls) \in Seq(Calls(n)) /\ Last(calls) \in Calls(n) /\ calls = Append(Front(calls), Last(calls))
  BY <1>1, <1>2, FrontLast
<1>4. ASSUME NEW i \in 1 .. n PROVE Owed(calls', i) = Owed(calls, i)
  <2> HIDE DEF n
  <2>1. Owed(Append(Front(calls), Last(calls)), i)
          = Owed(Front(calls), i) + IF Last(calls).next <= i THEN Last(calls).diff ELSE 0
    BY <1>2, <1>3, OwedAppend
  <2>2. Owed(Front(calls), i) \in Nat /\ Last(calls).next \in Nat
    BY <1>2, <1>3, OwedType, CallType
  <2>3. ~(Last(calls).next <= i)
    BY <1>1, <1>2, <2>2
  <2>4. Owed(Append(Front(calls), Last(calls)), i) = Owed(Front(calls), i)
    BY <2>1, <2>2, <2>3
  <2> QED
    BY <2>4, <1>1, <1>3
<1>5. PointsKept'
  BY <1>1, <1>2 DEF PointsKept
<1>6. Moving'
  BY <1>1, <1>2, <1>3, <1>4 DEF Moving
<1> QED
  BY <1>1, <1>2, <1>5, <1>6 DEF PointsInv

LEMMA InvWrite == PointsInv /\ WriteCuesFirst => PointsInv'
<1> SUFFICES ASSUME PointsInv, WriteCuesFirst PROVE PointsInv'
  OBVIOUS
<1>1. /\ stage = "moving" /\ stage' = "moved" /\ calls = << >> /\ shift' = CuesSize(cues)
      /\ seek_head' = [ seek_head EXCEPT !["Cues"] = seek_head["Cluster"],
                                         !["Cluster"] = seek_head["Cluster"] + shift' ]
      /\ file' = file /\ cues' = cues
  BY DEF WriteCuesFirst
<1>2. file \in Files /\ PointsKept /\ Moving /\ cues \in Seq(CuePoints)
  BY <1>1 DEF PointsInv, PointsKept
<1>3. /\ seek_head = file.seek_head /\ {"Cluster", "Cues"} \subseteq DOMAIN seek_head
      /\ seek_head = [ id \in DOMAIN seek_head |-> seek_head[id] ]
      /\ seek_head["Cluster"] = file.clusters[1].pos
  BY <1>2, PointsOfFile DEF Moving
<1>4. seek_head'["Cues"] = file.clusters[1].pos /\ seek_head'["Cluster"] = file.clusters[1].pos + shift'
  BY <1>1, <1>3
<1>5. ASSUME NEW i \in 1 .. Len(cues)
      PROVE  cues[i].cluster_pos = file.points[i].cluster_pos + shift'
  <2>1. cues[i].cluster_pos + Owed(calls, i) = file.points[i].cluster_pos + CuesSize(cues)
    BY <1>2 DEF Moving
  <2>2. Owed(calls, i) = 0 /\ cues[i].cluster_pos \in Nat
    BY <1>1, <1>2, OwedNothing, PointType
  <2> QED
    BY <2>1, <2>2, <1>1
<1>6. PointsKept'
  BY <1>1, <1>2 DEF PointsKept
<1>7. Moved' /\ shift' \in Nat
  BY <1>1, <1>2, <1>4, <1>5, PointsSizeType DEF Moved
<1> QED
  BY <1>1, <1>2, <1>6, <1>7 DEF PointsInv

LEMMA InvStutter == PointsInv /\ UNCHANGED cuesVars => PointsInv'
BY DEF PointsInv, cuesVars, PointsKept, Moving, Moved

LEMMA InvNext == PointsInv /\ [Next]_vars => PointsInv'
<1> SUFFICES ASSUME PointsInv, [Next]_vars PROVE PointsInv'
  OBVIOUS
<1>1. CASE CuesNext
  BY <1>1, InvBegin, InvHelper, InvReturn, InvWrite DEF CuesNext
<1>2. CASE UNCHANGED cuesVars
  BY <1>2, InvStutter
<1>3. CuesNext \/ UNCHANGED cuesVars
  BY DEF Next, MovesCues, LoadsPoint, LoadCuePoint, LoadCluster, SeekByCues, SeekTrack, GetNextEntry,
         vars
<1> QED
  BY <1>1, <1>2, <1>3

LEMMA PointsInvHolds == Spec => []PointsInv
<1>1. Init => PointsInv
  BY InvInit DEF Init
<1>2. PointsInv /\ [Next]_vars => PointsInv'
  BY InvNext
<1> QED
  BY <1>1, <1>2, PTL DEF Spec

-----------------------------------------------------------------------------
\* Whatever the points and the positions are, and however often the Cues grow
\* while MoveCuesBeforeClustersHelper calls itself: once it is done, every point
\* and the seek head name the place that the cluster has been moved to.
THEOREM CuesTrueWhenMoved == Spec => []CuesMoved
<1>1. PointsInv => CuesMoved
  <2> SUFFICES ASSUME PointsInv, stage = "moved" PROVE CuesMoved
    BY DEF CuesMoved
  <2>1. file \in Files /\ Moved /\ PointsKept
    BY DEF PointsInv
  <2>2. Len(file.clusters) \in Nat \ {0} /\ cues \in Seq(CuePoints)
    BY <2>1, PointsOfFile DEF PointsKept
  <2>3. ASSUME NEW i \in DOMAIN cues, NEW c \in 1 .. N, file.points[i].cluster_pos = file.clusters[c].pos
        PROVE  cues[i].cluster_pos = ClusterPos(c)
    BY <2>1, <2>2, <2>3 DEF Moved, ClusterPos
  <2>4. seek_head["Cluster"] = ClusterPos(1) /\ seek_head["Cues"] = file.clusters[1].pos
    BY <2>1 DEF Moved, ClusterPos
  <2> QED
    BY <2>3, <2>4 DEF CuesMoved
<1> QED
  BY <1>1, PointsInvHolds, PTL

-----------------------------------------------------------------------------
(* The invariant.                                                           *)

\* e is a block of the file.
IsSlot(e) == \E c \in 1 .. N : \E j \in 1 .. Len(Blocks(c)) : e = << c, j >>
IsEntry(e) == e = EOS \/ e = NotFull \/ IsSlot(e)

\* What is loaded is a part of the file, and the file is not read while it changes.
LoadedInv ==
  /\ ~Opens => Unread
  /\ m_clusterCount \in 0 .. N /\ (done => m_clusterCount = N)
  /\ m_pos \in 1 .. Stop /\ m_count \in 0 .. PointsUpTo(m_pos - 1)

SeekInv == PointsInv /\ LoadedInv /\ IsEntry(entry)

-----------------------------------------------------------------------------
(* Sets of numbers, and the file.                                           *)

LEMMA MinOf ==
  ASSUME NEW S, S \subseteq Nat, S # {}
  PROVE  Min(S) \in S /\ \A x \in S : Min(S) <= x
BY LeastNatural DEF Min

LEMMA MaxOf ==
  ASSUME NEW n \in Nat, NEW S, S \subseteq 0 .. n, S # {}
  PROVE  Max(S) \in S /\ \A x \in S : x <= Max(S)
<1> DEFINE T == { n - x : x \in S }
<1>1. T \subseteq Nat /\ T # {}
  <2>1. \A x \in S : x \in Nat /\ x <= n
    OBVIOUS
  <2>2. \A x \in S : n - x \in Nat
    BY <2>1
  <2> QED
    BY <2>2
<1>2. PICK t \in T : \A y \in T : t <= y
  BY <1>1, LeastNatural
<1>3. PICK m \in S : t = n - m
  BY <1>2
<1>4. ASSUME NEW x \in S PROVE m >= x
  <2>1. n - m <= n - x
    BY <1>2, <1>3
  <2> QED
    BY <2>1
<1>5. \E m_1 \in S : \A x \in S : m_1 >= x
  BY <1>4
<1>6. Max(S) \in S /\ \A x \in S : Max(S) >= x
  BY <1>5 DEF Max
<1> QED
  BY <1>6

\* What is assumed of a cluster and of a block, for the file that is open.
LEMMA ClusterFacts ==
  ASSUME file \in Files
  PROVE  /\ N \in Nat \ {0}
         /\ \A c \in 1 .. N : Blocks(c) \in Seq(BlockRecords) /\ file.clusters[c].pos \in Nat
                              /\ file.clusters[c].time \in Nat
         /\ \A c \in 1 .. N, d \in 1 .. N : c < d => file.clusters[c].pos < file.clusters[d].pos
<1>1. N \in Nat \ {0} /\ file.clusters \in Seq(ClusterRecords) /\ Len(file.clusters) = N
  BY PointsOfFile, ClustersAssumption DEF N
<1>2. DOMAIN file.clusters = 1 .. N /\ \A c \in 1 .. N : file.clusters[c] \in ClusterRecords
  BY <1>1
<1>3. \A c \in 1 .. N, d \in 1 .. N : c < d => file.clusters[c].pos < file.clusters[d].pos
  BY <1>2, ClustersAssumption
<1> QED
  BY <1>1, <1>2, <1>3 DEF Blocks, ClusterRecords

LEMMA BlockFacts ==
  ASSUME file \in Files, NEW c \in 1 .. N, NEW j \in 1 .. Len(Blocks(c))
  PROVE  /\ Blocks(c)[j].track \in Tracks /\ Blocks(c)[j].time \in Nat
         /\ Blocks(c)[j].key \in BOOLEAN /\ file.clusters[c].time <= Blocks(c)[j].time
         /\ j \in Nat \ {0} /\ c \in Nat \ {0}
<1>1. N \in Nat \ {0} /\ file.clusters \in Seq(ClusterRecords) /\ Len(file.clusters) = N
  BY PointsOfFile, ClustersAssumption DEF N
<1>2. DOMAIN file.clusters = 1 .. N /\ Blocks(c) \in Seq(BlockRecords)
  BY <1>1, ClusterFacts
<1>3. j \in DOMAIN Blocks(c) /\ Blocks(c)[j] \in BlockRecords
  BY <1>2
<1>4. file.clusters[c].time <= Blocks(c)[j].time
  BY <1>2, <1>3, ClustersAssumption DEF Blocks
<1>5. Blocks(c)[j].track \in Tracks /\ Blocks(c)[j].time \in Nat /\ Blocks(c)[j].key \in BOOLEAN
  BY <1>3 DEF BlockRecords
<1>6. j \in Nat \ {0} /\ c \in Nat \ {0}
  BY <1>1, <1>2
<1> QED
  BY <1>4, <1>5, <1>6

\* The blocks of a track are in the order of their times.
LEMMA TimesRise ==
  ASSUME file \in Files, NEW c \in 1 .. N, NEW i \in 1 .. Len(Blocks(c)),
         NEW d \in 1 .. N, NEW j \in 1 .. Len(Blocks(d)),
         c < d \/ (c = d /\ i < j), Blocks(c)[i].track = Blocks(d)[j].track
  PROVE  Blocks(c)[i].time <= Blocks(d)[j].time
<1>1. N \in Nat \ {0} /\ file.clusters \in Seq(ClusterRecords) /\ Len(file.clusters) = N
  BY PointsOfFile, ClustersAssumption DEF N
<1>2. c \in DOMAIN file.clusters /\ d \in DOMAIN file.clusters
  BY <1>1
<1>3. i \in DOMAIN file.clusters[c].blocks /\ j \in DOMAIN file.clusters[d].blocks
  BY ClusterFacts DEF Blocks
<1> QED
  BY <1>2, <1>3, ClustersAssumption DEF Blocks

LEMMA InTrack ==
  ASSUME file \in Files, NEW c \in 1 .. N, NEW i \in Nat \ {0}, NEW track
  PROVE  /\ OfTrack(c, i, track) \subseteq Nat
         /\ \A j : j \in OfTrack(c, i, track) <=>
                     j \in 1 .. Len(Blocks(c)) /\ i <= j /\ Blocks(c)[j].track = track
<1>1. Len(Blocks(c)) \in Nat
  BY ClusterFacts
<1> QED
  BY <1>1 DEF OfTrack

LEMMA InBlocksOf ==
  ASSUME file \in Files, NEW n \in 0 .. N, NEW track, NEW e
  PROVE  e \in BlocksOf(track, n) <=>
           \E c \in 1 .. n : \E j \in 1 .. Len(Blocks(c)) : e = << c, j >> /\ Blocks(c)[j].track = track
<1>1. N \in Nat
  BY ClusterFacts
<1>2. \A c \in 1 .. n : c \in 1 .. N
  BY <1>1
<1>3. \A c \in 1 .. n : \A j : j \in OfTrack(c, 1, track) <=> j \in 1 .. Len(Blocks(c)) /\ Blocks(c)[j].track = track
  <2> SUFFICES ASSUME NEW c \in 1 .. n, NEW j
               PROVE  j \in OfTrack(c, 1, track) <=> j \in 1 .. Len(Blocks(c)) /\ Blocks(c)[j].track = track
    OBVIOUS
  <2>1. Len(Blocks(c)) \in Nat
    BY <1>2, ClusterFacts
  <2> QED
    BY <1>2, <2>1, InTrack
<1>4. e \in BlocksOf(track, n) <=> \E c \in 1 .. n : e \in {c} \X OfTrack(c, 1, track)
  BY DEF BlocksOf
<1>5. \A c : e \in {c} \X OfTrack(c, 1, track) <=> \E j \in OfTrack(c, 1, track) : e = << c, j >>
  OBVIOUS
<1> QED
  BY <1>3, <1>4, <1>5

LEMMA InCandidates ==
  ASSUME file \in Files, NEW c \in 1 .. N, NEW track
  PROVE  /\ Candidates(c, track) \subseteq Nat
         /\ \A j : j \in Candidates(c, track) <=>
              j \in 1 .. Len(Blocks(c)) /\ Blocks(c)[j].track = track /\ VetEntry(Blocks(c)[j])
<1>1. Len(Blocks(c)) \in Nat
  BY ClusterFacts
<1> QED
  BY <1>1, InTrack DEF Candidates

\* A candidate of a video is a key frame.
LEMMA VideoCandidates ==
  ASSUME file \in Files, NEW c \in 1 .. N, NEW track \in Tracks, Types[track] = 1
  PROVE  \A j : j \in Candidates(c, track) <=>
                  j \in 1 .. Len(Blocks(c)) /\ Blocks(c)[j].track = track /\ Blocks(c)[j].key
BY InCandidates DEF VetEntry

-----------------------------------------------------------------------------
(* What the ways to a block return.                                         *)

LEMMA SlotIsBlock ==
  ASSUME file \in Files, NEW e, IsEntry(e)
  PROVE  IsBlock(e) <=> IsSlot(e)
<1>1. ASSUME NEW c \in 1 .. N, NEW j \in 1 .. Len(Blocks(c)), e = << c, j >> PROVE IsBlock(e)
  BY <1>1, BlockFacts DEF IsBlock
<1>2. ~ IsBlock(EOS) /\ ~ IsBlock(NotFull)
  BY DEF IsBlock, EOS, NotFull
<1> QED
  BY <1>1, <1>2 DEF IsEntry, IsSlot

\* GetFirst returns the first candidate of the clusters that are loaded.
LEMMA FirstIs ==
  ASSUME file \in Files, m_clusterCount \in 0 .. N, NEW track
  PROVE  /\ IsEntry(GetFirst(track))
         /\ IsBlock(GetFirst(track)) =>
              \E c \in 1 .. m_clusterCount : \E j \in Candidates(c, track) :
                /\ GetFirst(track) = << c, j >>
                /\ \A d \in 1 .. m_clusterCount : \A k \in Candidates(d, track) : c < d \/ (c = d /\ j <= k)
<1> DEFINE found == { c \in 1 .. m_clusterCount : Candidates(c, track) # {} }
           c == Min(found)
           j == Min(Candidates(c, track))
<1>1. N \in Nat /\ 1 .. m_clusterCount \subseteq 1 .. N
  BY ClusterFacts
<1>2. GetFirst(track) \in {EOS, NotFull} \/ (found # {} /\ GetFirst(track) = << c, j >>)
  BY DEF GetFirst, AtEndOfLoaded
<1>3. CASE GetFirst(track) \in {EOS, NotFull}
  BY <1>3 DEF IsEntry, IsBlock, EOS, NotFull
<1>4. CASE found # {} /\ GetFirst(track) = << c, j >>
  <2>1. found \subseteq Nat
    OBVIOUS
  <2>2. c \in found /\ \A d \in found : c <= d
    <3> HIDE DEF found
    <3> QED
      BY <1>4, <2>1, MinOf
  <2>3. c \in 1 .. m_clusterCount /\ c \in 1 .. N /\ Candidates(c, track) # {}
    BY <1>1, <2>2
  <2>4. Candidates(c, track) \subseteq Nat
    <3> HIDE DEF c
    <3> QED
      BY <2>3, InCandidates
  <2>5. j \in Candidates(c, track) /\ \A k \in Candidates(c, track) : j <= k
    <3> HIDE DEF c
    <3> QED
      BY <2>3, <2>4, MinOf
  <2>6. j \in 1 .. Len(Blocks(c))
    <3> HIDE DEF c, j
    <3> QED
      BY <2>3, <2>5, InCandidates
  <2>7. ASSUME NEW d \in 1 .. m_clusterCount, NEW k \in Candidates(d, track)
        PROVE  c < d \/ (c = d /\ j <= k)
    <3>1. d \in found
      OBVIOUS
    <3>2. c <= d
      BY <2>2, <3>1
    <3>3. c \in Nat /\ d \in Nat
      BY <2>2, <2>1
    <3> HIDE DEF c, j
    <3> QED
      BY <3>2, <3>3, <2>5
  <2>8. IsSlot(<< c, j >>)
    BY <2>3, <2>6 DEF IsSlot
  <2> HIDE DEF c, j
  <2>9. IsEntry(GetFirst(track))
    BY <1>4, <2>8 DEF IsEntry
  <2> QED
    BY <1>4, <2>3, <2>5, <2>7, <2>9
<1> QED
  BY <1>2, <1>3, <1>4

\* In a cluster, EntryAt finds the last candidate up to the time.
LEMMA EntryAtIs ==
  ASSUME file \in Files, NEW c \in 1 .. N, NEW track, NEW time \in Nat
  PROVE  LET upto == { j \in Candidates(c, track) : Blocks(c)[j].time <= time }
         IN  IF upto = {} THEN EntryAt(c, track, time) = EOS
             ELSE \E j \in upto : EntryAt(c, track, time) = << c, j >> /\ \A k \in upto : k <= j
<1> DEFINE good   == { j \in Candidates(c, track) : Blocks(c)[j].time <= time }
           behind == { j \in OfTrack(c, 1, track) : Blocks(c)[j].time > time }
           upto   == { j \in Candidates(c, track) : \A k \in behind : j < k }
<1>1. Len(Blocks(c)) \in Nat
  BY ClusterFacts
<1>2. ASSUME NEW j \in Candidates(c, track)
      PROVE  Blocks(c)[j].time <= time <=> \A k \in behind : j < k
  <2>1. j \in 1 .. Len(Blocks(c)) /\ Blocks(c)[j].track = track /\ Blocks(c)[j].time \in Nat /\ j \in Nat
    BY <1>2, InCandidates, BlockFacts
  <2>2. ASSUME Blocks(c)[j].time <= time, NEW k \in behind PROVE j < k
    <3>1. k \in 1 .. Len(Blocks(c)) /\ Blocks(c)[k].track = track /\ Blocks(c)[k].time > time
      BY InTrack
    <3>2. Blocks(c)[k].time \in Nat /\ k \in Nat
      BY <3>1, BlockFacts
    <3>3. k # j
      BY <2>1, <2>2, <3>1, <3>2
    <3>4. ~ (k < j)
      <4> SUFFICES ASSUME k < j PROVE FALSE
        OBVIOUS
      <4>1. Blocks(c)[k].time <= Blocks(c)[j].time
        BY <2>1, <3>1, TimesRise
      <4> QED
        BY <4>1, <2>1, <2>2, <3>1, <3>2
    <3> QED
      BY <2>1, <3>2, <3>3, <3>4
  <2>3. ASSUME ~ (Blocks(c)[j].time <= time) PROVE j \in behind
    <3>1. j \in OfTrack(c, 1, track)
      BY <2>1, InTrack
    <3> QED
      BY <2>1, <2>3, <3>1
  <2> QED
    BY <2>1, <2>2, <2>3
<1>3. upto = good
  BY <1>2
<1>4. EntryAt(c, track, time) = IF upto = {} THEN EOS ELSE << c, Max(upto) >>
  BY DEF EntryAt
<1>5. good \subseteq 0 .. Len(Blocks(c))
  <2>1. \A j \in Candidates(c, track) : j \in 1 .. Len(Blocks(c))
    BY InCandidates
  <2> QED
    BY <1>1, <2>1
<1> HIDE DEF upto
<1>6. ASSUME good # {}
      PROVE  Max(good) \in good /\ \A k \in good : k <= Max(good)
  <2> HIDE DEF good
  <2> QED
    BY <1>1, <1>5, <1>6, MaxOf
<1> QED
  BY <1>3, <1>4, <1>6

LEMMA EntryOfIs ==
  ASSUME file \in Files, NEW c \in 1 .. N, NEW track
  PROVE  EntryOf(c, track) = EOS \/ \E j \in 1 .. Len(Blocks(c)) : EntryOf(c, track) = << c, j >>
<1> DEFINE S == Candidates(c, track)
<1>1. S \subseteq Nat /\ \A j \in S : j \in 1 .. Len(Blocks(c))
  BY InCandidates
<1>2. CASE S = {}
  BY <1>2 DEF EntryOf
<1>3. CASE S # {}
  <2>1. Min(S) \in S
    <3> HIDE DEF S
    <3> QED
      BY <1>1, <1>3, MinOf
  <2>2. EntryOf(c, track) = << c, Min(S) >>
    BY <1>3 DEF EntryOf
  <2>3. Min(S) \in 1 .. Len(Blocks(c))
    BY <1>1, <2>1
  <2> QED
    BY <2>2, <2>3
<1> QED
  BY <1>2, <1>3

\* Track::Seek returns the first candidate, or what the last cluster that may
\* have it finds.
LEMMA SeekIs ==
  ASSUME file \in Files, m_clusterCount \in 0 .. N, NEW track, NEW time \in Nat
  PROVE  LET first    == GetFirst(track)
             upto     == { c \in first[1] .. m_clusterCount : file.clusters[c].time <= time }
             found(c) == IF Types[track] = 1 THEN EntryAt(c, track, time) ELSE EntryOf(c, track)
             hits     == { c \in upto : IsBlock(found(c)) }
             r        == Seek(track, time)
         IN  \/ (~ IsBlock(first) \/ time <= BlockOf(first).time) /\ r = first
             \/ IsBlock(first) /\ ~ (time <= BlockOf(first).time) /\ hits = {} /\ r = EOS
             \/ /\ IsBlock(first) /\ ~ (time <= BlockOf(first).time)
                /\ \E c \in 1 .. m_clusterCount :
                     c \in hits /\ r = found(c) /\ \A d \in hits : d <= c
<1> DEFINE first    == GetFirst(track)
           upto     == { c \in first[1] .. m_clusterCount : file.clusters[c].time <= time }
           found(c) == IF Types[track] = 1 THEN EntryAt(c, track, time) ELSE EntryOf(c, track)
           hits     == { c \in upto : IsBlock(found(c)) }
           r        == Seek(track, time)
           is       == \/ (~ IsBlock(first) \/ time <= BlockOf(first).time) /\ r = first
                       \/ IsBlock(first) /\ ~ (time <= BlockOf(first).time) /\ hits = {} /\ r = EOS
                       \/ /\ IsBlock(first) /\ ~ (time <= BlockOf(first).time)
                          /\ \E c \in 1 .. m_clusterCount :
                               c \in hits /\ r = found(c) /\ \A d \in hits : d <= c
<1>1. r = IF ~ IsBlock(first) \/ time <= BlockOf(first).time THEN first
          ELSE IF hits = {} THEN EOS ELSE found(Max(hits))
  BY DEF Seek
<1>2. ASSUME IsBlock(first), hits # {} PROVE is
  <2>1. first[1] \in 1 .. m_clusterCount
    <3>1. PICK c \in 1 .. m_clusterCount : \E j \in Candidates(c, track) : first = << c, j >>
      BY <1>2, FirstIs
    <3> QED
      BY <3>1
  <2>2. m_clusterCount \in Nat
    BY ClusterFacts
  <2>3. hits \subseteq 1 .. m_clusterCount
    <3> HIDE DEF found, first
    <3> QED
      BY <2>1, <2>2
  <2>4. Max(hits) \in hits /\ \A d \in hits : d <= Max(hits)
    <3>1. hits \subseteq 0 .. m_clusterCount
      BY <2>2, <2>3
    <3> HIDE DEF hits
    <3> QED
      BY <1>2, <2>2, <3>1, MaxOf
  <2>5. \E c \in 1 .. m_clusterCount : c \in hits /\ c = Max(hits) /\ \A d \in hits : d <= c
    <3> HIDE DEF hits
    <3> QED
      BY <2>3, <2>4
  <2> HIDE DEF first, hits, found, r
  <2> QED
    BY <1>1, <1>2, <2>5
<1>3. ASSUME ~ IsBlock(first) \/ hits = {} PROVE is
  <2> HIDE DEF first, hits, found, r
  <2> QED
    BY <1>1, <1>3
<1>4. is
  <2> HIDE DEF is
  <2> QED
    BY <1>2, <1>3
<1> QED
  BY <1>4

LEMMA SeekType ==
  ASSUME file \in Files, m_clusterCount \in 0 .. N, NEW track, NEW time \in Nat
  PROVE  IsEntry(Seek(track, time))
<1> DEFINE found(c) == IF Types[track] = 1 THEN EntryAt(c, track, time) ELSE EntryOf(c, track)
<1>1. \/ Seek(track, time) = GetFirst(track) \/ Seek(track, time) = EOS
      \/ \E c \in 1 .. m_clusterCount : IsBlock(found(c)) /\ Seek(track, time) = found(c)
  BY SeekIs
<1>2. \A c \in 1 .. m_clusterCount : c \in 1 .. N
  BY ClusterFacts
<1>3. ASSUME NEW c \in 1 .. m_clusterCount PROVE IsEntry(found(c))
  <2>1. c \in 1 .. N
    BY <1>2
  <2>2. EntryOf(c, track) = EOS \/ \E j \in 1 .. Len(Blocks(c)) : EntryOf(c, track) = << c, j >>
    BY <2>1, EntryOfIs
  <2>3. EntryAt(c, track, time) = EOS \/ \E j \in Candidates(c, track) : EntryAt(c, track, time) = << c, j >>
    BY <2>1, EntryAtIs
  <2>4. \A j \in Candidates(c, track) : j \in 1 .. Len(Blocks(c))
    BY <2>1, InCandidates
  <2> QED
    BY <2>1, <2>2, <2>3, <2>4 DEF IsEntry, IsSlot
<1> QED
  BY <1>1, <1>3, FirstIs DEF IsEntry

\* In a video, what seeking finds among the clusters that are loaded.
LEMMA SeekVideo ==
  ASSUME file \in Files, m_clusterCount \in 0 .. N, NEW track \in Tracks, Types[track] = 1, NEW time \in Nat,
         IsBlock(GetFirst(track))
  PROVE  LET keys == { e \in BlocksOf(track, m_clusterCount) : BlockOf(e).key }
             upto == { e \in keys : Time(e) <= time }
             r    == Seek(track, time)
         IN  IF upto = {} THEN r \in keys /\ \A e \in keys : ~Before(e, r)
             ELSE r \in upto /\ \A e \in upto : Before(r, e) => Time(e) = Time(r)
<1> DEFINE keys  == { e \in BlocksOf(track, m_clusterCount) : BlockOf(e).key }
           upto  == { e \in keys : Time(e) <= time }
           r     == Seek(track, time)
           first == GetFirst(track)
<1>1. N \in Nat /\ m_clusterCount \in Nat /\ \A c \in 1 .. m_clusterCount : c \in 1 .. N /\ c \in Nat
  BY ClusterFacts
<1>2. \A e : e \in keys <=> \E c \in 1 .. m_clusterCount : \E j \in Candidates(c, track) : e = << c, j >>
  <2>1. \A e : e \in BlocksOf(track, m_clusterCount) <=>
                 \E c \in 1 .. m_clusterCount : \E j \in 1 .. Len(Blocks(c)) :
                   e = << c, j >> /\ Blocks(c)[j].track = track
    BY InBlocksOf
  <2>2. \A c, j : BlockOf(<< c, j >>) = Blocks(c)[j]
    BY DEF BlockOf
  <2>3. \A c \in 1 .. m_clusterCount : \A j : j \in Candidates(c, track) <=>
          j \in 1 .. Len(Blocks(c)) /\ Blocks(c)[j].track = track /\ Blocks(c)[j].key
    BY <1>1, VideoCandidates
  <2> QED
    BY <2>1, <2>2, <2>3
<1>3. \A c \in 1 .. m_clusterCount : \A j \in Candidates(c, track) :
        /\ << c, j >> \in keys /\ Time(<< c, j >>) = Blocks(c)[j].time /\ Blocks(c)[j].time \in Nat
        /\ j \in 1 .. Len(Blocks(c)) /\ Blocks(c)[j].track = track /\ j \in Nat
        /\ file.clusters[c].time <= Blocks(c)[j].time
  <2> SUFFICES ASSUME NEW c \in 1 .. m_clusterCount, NEW j \in Candidates(c, track)
               PROVE  /\ << c, j >> \in keys /\ Time(<< c, j >>) = Blocks(c)[j].time /\ Blocks(c)[j].time \in Nat
                      /\ j \in 1 .. Len(Blocks(c)) /\ Blocks(c)[j].track = track /\ j \in Nat
                      /\ file.clusters[c].time <= Blocks(c)[j].time
    OBVIOUS
  <2>1. c \in 1 .. N
    BY <1>1
  <2>2. j \in 1 .. Len(Blocks(c)) /\ Blocks(c)[j].track = track
    BY <2>1, InCandidates
  <2>3. Blocks(c)[j].time \in Nat /\ j \in Nat /\ file.clusters[c].time <= Blocks(c)[j].time
    BY <2>1, <2>2, BlockFacts
  <2>4. << c, j >> \in keys
    BY <1>2
  <2>5. Time(<< c, j >>) = Blocks(c)[j].time
    BY DEF Time, BlockOf
  <2> QED
    BY <2>2, <2>3, <2>4, <2>5
<1>4. PICK f \in 1 .. m_clusterCount : \E j \in Candidates(f, track) :
        /\ first = << f, j >>
        /\ \A d \in 1 .. m_clusterCount : \A k \in Candidates(d, track) : f < d \/ (f = d /\ j <= k)
  BY FirstIs
<1>5. PICK i \in Candidates(f, track) :
        /\ first = << f, i >>
        /\ \A d \in 1 .. m_clusterCount : \A k \in Candidates(d, track) : f < d \/ (f = d /\ i <= k)
  BY <1>4
<1> HIDE DEF keys, first
<1>6. BlockOf(first).time = Time(first) /\ Time(first) \in Nat
  BY <1>3, <1>5 DEF Time
<1>7. CASE time <= BlockOf(first).time
  <2>1. r = first
    BY <1>7, SeekIs DEF first
  <2>2. first \in keys /\ \A e \in keys : ~Before(e, first)
    <3>1. ASSUME NEW d \in 1 .. m_clusterCount, NEW k \in Candidates(d, track) PROVE ~Before(<< d, k >>, first)
      <4>1. f < d \/ (f = d /\ i <= k)
        BY <1>5
      <4>2. f \in Nat /\ d \in Nat /\ i \in Nat /\ k \in Nat
        BY <1>1, <1>3
      <4> QED
        BY <4>1, <4>2, <1>5 DEF Before
    <3> QED
      BY <1>2, <1>3, <1>5, <3>1
  <2>3. ASSUME NEW e \in upto PROVE Time(e) = time /\ Time(first) = time
    <3>0. PICK d \in 1 .. m_clusterCount : \E k \in Candidates(d, track) : e = << d, k >>
      BY <1>2
    <3>1. PICK k \in Candidates(d, track) : e = << d, k >>
      BY <3>0
    <3>2. f < d \/ (f = d /\ i <= k)
      BY <1>5
    <3>3. Time(first) <= Time(e) /\ Time(e) \in Nat
      <4>1. CASE f = d /\ i = k
        BY <4>1, <1>3, <1>5, <3>1
      <4>2. CASE ~ (f = d /\ i = k)
        <5>1. f < d \/ (f = d /\ i < k)
          <6>1. i \in Nat /\ k \in Nat
            BY <1>3
          <6> QED
            BY <4>2, <3>2, <6>1
        <5>2. Blocks(f)[i].time <= Blocks(d)[k].time
          BY <5>1, <1>1, <1>3, TimesRise
        <5> QED
          BY <5>2, <1>3, <1>5, <3>1
      <4> QED
        BY <4>1, <4>2
    <3>4. Time(e) <= time /\ time <= Time(first)
      BY <1>6, <1>7
    <3> QED
      BY <3>3, <3>4, <1>6
  <2>4. CASE upto = {}
    BY <2>1, <2>2, <2>4 DEF keys
  <2>5. CASE upto # {}
    <3>1. Time(first) = time
      BY <2>3, <2>5
    <3>2. first \in upto
      BY <3>1, <2>2
    <3> QED
      BY <2>1, <2>3, <2>5, <3>1, <3>2 DEF keys
  <2> QED
    BY <2>4, <2>5
<1>8. CASE ~ (time <= BlockOf(first).time)
  <2> DEFINE near == { c \in first[1] .. m_clusterCount : file.clusters[c].time <= time }
             hits == { c \in near : IsBlock(EntryAt(c, track, time)) }
  <2>1. \/ hits = {}
        \/ \E c \in 1 .. m_clusterCount : c \in hits /\ r = EntryAt(c, track, time) /\ \A d \in hits : d <= c
    BY <1>8, SeekIs DEF first
  <2>2. ASSUME NEW d \in 1 .. m_clusterCount, NEW k \in Candidates(d, track), Blocks(d)[k].time <= time
        PROVE  d \in hits
    <3>1. file.clusters[d].time <= time
      <4>1. file.clusters[d].time \in Nat /\ file.clusters[d].time <= Blocks(d)[k].time /\ Blocks(d)[k].time \in Nat
        BY <1>1, <1>3, ClusterFacts
      <4> QED
        BY <4>1, <2>2
    <3>2. first[1] = f /\ f <= d
      BY <1>1, <1>5
    <3>3. d \in near
      BY <3>1, <3>2, <1>1
    <3>4. \E j \in Candidates(d, track) : EntryAt(d, track, time) = << d, j >>
      <4>1. k \in { j \in Candidates(d, track) : Blocks(d)[j].time <= time }
        BY <2>2
      <4>2. d \in 1 .. N
        BY <1>1
      <4> QED
        BY <4>1, <4>2, EntryAtIs
    <3>5. IsBlock(EntryAt(d, track, time))
      BY <3>4, <1>1 DEF IsBlock
    <3> QED
      BY <3>3, <3>5
  <2>3. f \in hits
    <3>1. Blocks(f)[i].time <= time
      BY <1>3, <1>5, <1>6, <1>8
    <3> QED
      BY <3>1, <2>2
  <2>4. PICK c \in 1 .. m_clusterCount : c \in hits /\ r = EntryAt(c, track, time) /\ \A d \in hits : d <= c
    BY <2>1, <2>3
  <2>5. c \in 1 .. N /\ IsBlock(EntryAt(c, track, time))
    BY <1>1, <2>4
  <2>6. PICK j \in Candidates(c, track) :
          /\ Blocks(c)[j].time <= time /\ r = << c, j >>
          /\ \A k \in Candidates(c, track) : Blocks(c)[k].time <= time => k <= j
    <3>1. ~ IsBlock(EOS)
      BY DEF IsBlock, EOS
    <3> QED
      BY <3>1, <2>4, <2>5, EntryAtIs
  <2>7. r \in upto
    BY <1>3, <2>6
  <2>8. ASSUME NEW e \in upto PROVE ~Before(r, e)
    <3>0. PICK d \in 1 .. m_clusterCount : \E k \in Candidates(d, track) : e = << d, k >>
      BY <1>2
    <3>1. PICK k \in Candidates(d, track) : e = << d, k >>
      BY <3>0
    <3>2. Blocks(d)[k].time <= time
      BY <1>3, <3>1
    <3>3. d <= c
      BY <2>2, <2>4, <3>2
    <3>4. d = c => k <= j
      BY <2>6, <3>2
    <3>5. c \in Nat /\ d \in Nat /\ j \in Nat /\ k \in Nat
      BY <1>1, <1>3
    <3> QED
      BY <2>6, <3>1, <3>3, <3>4, <3>5 DEF Before
  <2> QED
    BY <2>7, <2>8 DEF keys
<1> QED
  BY <1>7, <1>8

\* Cluster::GetEntry(cp, tp): if each block of the track at the time may be
\* sought, one of them is found.
LEMMA EntryOfPointIs ==
  ASSUME file \in Files, NEW c \in 1 .. N, NEW p, p.block_number \in 1 .. Len(Blocks(c)), p.time \in Nat
  PROVE  LET same == { j \in OfTrack(c, 1, p.track) : Blocks(c)[j].time = p.time }
         IN  /\ EntryOfPoint(c, p) = EOS \/ \E j \in 1 .. Len(Blocks(c)) : EntryOfPoint(c, p) = << c, j >>
             /\ same # {} /\ (\A j \in same : VetEntry(Blocks(c)[j]))
                  => \E j \in same : EntryOfPoint(c, p) = << c, j >>
<1> DEFINE named   == p.block_number
           isNamed == named <= Len(Blocks(c)) /\ Blocks(c)[named].track = p.track /\ Blocks(c)[named].time = p.time
           behind  == { j \in OfTrack(c, 1, p.track) : Blocks(c)[j].time >= p.time }
           b       == Blocks(c)[Min(behind)]
           same    == { j \in OfTrack(c, 1, p.track) : Blocks(c)[j].time = p.time }
           fits    == behind # {} /\ b.time = p.time /\ Types[b.track] \in {1, 2} /\ VetEntry(b)
<1>1. Len(Blocks(c)) \in Nat /\ named \in Nat /\ ~ (named > Len(Blocks(c)))
  <2>1. Len(Blocks(c)) \in Nat
    BY ClusterFacts
  <2> QED
    BY <2>1
<1>2. EntryOfPoint(c, p) = IF isNamed THEN << c, named >> ELSE IF fits THEN << c, Min(behind) >> ELSE EOS
  <2> HIDE DEF fits
  <2>1. EntryOfPoint(c, p) = IF named > Len(Blocks(c)) THEN EOS
                             ELSE IF isNamed THEN << c, named >> ELSE IF fits THEN << c, Min(behind) >> ELSE EOS
    BY DEF EntryOfPoint, fits
  <2> HIDE DEF isNamed, behind, named
  <2> QED
    BY <1>1, <2>1
<1>3. behind \subseteq Nat /\ same \subseteq behind
      /\ \A j : j \in OfTrack(c, 1, p.track) => j \in 1 .. Len(Blocks(c)) /\ Blocks(c)[j].track = p.track
  BY InTrack
<1>4. ASSUME behind # {} PROVE Min(behind) \in behind /\ \A j \in behind : Min(behind) <= j
  <2> HIDE DEF behind
  <2> QED
    BY <1>3, <1>4, MinOf
<1>5. EntryOfPoint(c, p) = EOS \/ \E j \in 1 .. Len(Blocks(c)) : EntryOfPoint(c, p) = << c, j >>
  <2>1. ASSUME behind # {} PROVE Min(behind) \in 1 .. Len(Blocks(c))
    BY <1>3, <1>4, <2>1
  <2> HIDE DEF behind, isNamed, b
  <2> QED
    BY <1>2, <2>1
<1>6. ASSUME same # {}, \A j \in same : VetEntry(Blocks(c)[j])
      PROVE  \E j \in same : EntryOfPoint(c, p) = << c, j >>
  <2>1. CASE isNamed
    <3>1. named \in same
      BY <2>1, InTrack, <1>1
    <3> QED
      BY <1>2, <2>1, <3>1
  <2>2. CASE ~ isNamed
    <3>1. PICK k \in same : TRUE
      BY <1>6
    <3>2. k \in behind /\ Min(behind) \in behind /\ Min(behind) <= k
      BY <1>3, <1>4, <3>1
    <3> DEFINE m == Min(behind)
    <3>3. /\ k \in 1 .. Len(Blocks(c)) /\ Blocks(c)[k].track = p.track /\ Blocks(c)[k].time = p.time
          /\ m \in 1 .. Len(Blocks(c)) /\ Blocks(c)[m].track = p.track /\ Blocks(c)[m].time >= p.time
          /\ m \in OfTrack(c, 1, p.track)
      BY <1>3, <3>1, <3>2
    <3>4. Blocks(c)[m].time <= p.time
      <4> HIDE DEF m
      <4>1. m \in Nat /\ k \in Nat /\ Blocks(c)[m].time \in Nat
        BY <3>3, BlockFacts
      <4>2. CASE m = k
        BY <4>2, <3>3
      <4>3. CASE m # k
        <5>1. m < k
          BY <4>1, <4>3, <3>2 DEF m
        <5> QED
          BY <5>1, <3>3, TimesRise
      <4> QED
        BY <4>2, <4>3
    <3>5. Blocks(c)[m].time = p.time /\ m \in same
      <4> HIDE DEF m
      <4>1. Blocks(c)[m].time \in Nat
        BY <3>3, BlockFacts
      <4> QED
        BY <4>1, <3>3, <3>4
    <3>6. Types[Blocks(c)[m].track] \in {1, 2}
      <4> HIDE DEF m
      <4> QED
        BY <3>3, BlockFacts, TypesAssumption
    <3>7. VetEntry(Blocks(c)[m])
      BY <1>6, <3>5
    <3>8. fits
      BY <3>2, <3>5, <3>6, <3>7
    <3> HIDE DEF fits, isNamed, same, behind
    <3> QED
      BY <1>2, <2>2, <3>5, <3>8
  <2> QED
    BY <2>1, <2>2
<1> QED
  BY <1>5, <1>6

\* The clusters are at different places.
LEMMA PlacesDiffer ==
  ASSUME file \in Files, shift \in Nat, NEW c \in 1 .. N, NEW d \in 1 .. N, ClusterPos(c) = ClusterPos(d)
  PROVE  c = d
<1>1. file.clusters[c].pos \in Nat /\ file.clusters[d].pos \in Nat /\ N \in Nat
  BY ClusterFacts
<1>2. file.clusters[c].pos = file.clusters[d].pos
  BY <1>1 DEF ClusterPos
<1>3. c < d => file.clusters[c].pos < file.clusters[d].pos
  BY ClusterFacts
<1>4. d < c => file.clusters[d].pos < file.clusters[c].pos
  BY ClusterFacts
<1> QED
  BY <1>1, <1>2, <1>3, <1>4

LEMMA GetBlockIs ==
  ASSUME file \in Files, shift \in Nat, NEW p
  PROVE  /\ At(p.cluster_pos) = {} => GetBlock(p) = EOS
         /\ \A c \in 1 .. N : ClusterPos(c) = p.cluster_pos => GetBlock(p) = EntryOfPoint(c, p)
<1>1. At(p.cluster_pos) = {} => GetBlock(p) = EOS
  BY DEF GetBlock
<1>2. ASSUME NEW c \in 1 .. N, ClusterPos(c) = p.cluster_pos PROVE GetBlock(p) = EntryOfPoint(c, p)
  <2>1. At(p.cluster_pos) = {c}
    BY <1>2, PlacesDiffer DEF At
  <2>2. (CHOOSE d \in At(p.cluster_pos) : TRUE) = c
    BY <2>1
  <2> QED
    BY <2>1, <2>2 DEF GetBlock
<1> QED
  BY <1>1, <1>2

\* GetNext comes to the next block of the track, if it is loaded or the walk is
\* through the file, and if it is near enough.
LEMMA NextIs ==
  ASSUME file \in Files, m_clusterCount \in 0 .. N, done => m_clusterCount = N, NEW a, IsSlot(a)
  PROVE  LET r      == GetNext(a)
             behind == { e \in BlocksOf(BlockOf(a).track, N) : Before(a, e) }
         IN  /\ IsEntry(r)
             /\ IF IsBlock(r) THEN r \in behind /\ \A e \in behind : ~Before(e, r)
                ELSE \A e \in behind :
                       \/ Cardinality(WithBlocks \cap (a[1] + 1 .. e[1])) >= kMaxWalk
                       \/ e[1] > m_clusterCount /\ ~done
<1>1. PICK c \in 1 .. N : \E i \in 1 .. Len(Blocks(c)) : a = << c, i >>
  BY DEF IsSlot
<1>2. PICK i \in 1 .. Len(Blocks(c)) : a = << c, i >>
  BY <1>1
<1> DEFINE track  == Blocks(c)[i].track
           r      == GetNext(a)
           behind == { e \in BlocksOf(track, N) : Before(a, e) }
           last   == IF InFile(c) THEN N ELSE m_clusterCount
           ahead  == WithBlocks \cap (c + 1 .. last)
           here   == OfTrack(c, i + 1, track)
           found  == { d \in ahead : OfTrack(d, 1, track) # {} }
           walked == IF here # {} THEN {} ELSE { d \in ahead : \A f \in found : d <= f }
           next   == Min(found)
           first  == Min(OfTrack(next, 1, track))
<1>3. N \in Nat \ {0} /\ c \in Nat \ {0} /\ i \in Nat \ {0} /\ last \in 0 .. N /\ m_clusterCount \in Nat
      /\ BlockOf(a) = Blocks(c)[i] /\ a[1] = c /\ a[2] = i
  BY <1>2, ClusterFacts, BlockFacts DEF BlockOf
<1>4. r = IF here # {} THEN << c, Min(here) >>
          ELSE IF Cardinality(walked) >= kMaxWalk THEN EOS
          ELSE IF found # {} THEN << next, first >>
          ELSE IF InFile(c) THEN EOS ELSE AtEndOfLoaded
  BY <1>3 DEF GetNext, Later
<1>5. \A e : e \in behind <=>
         \E d \in 1 .. N : \E j \in 1 .. Len(Blocks(d)) :
           e = << d, j >> /\ Blocks(d)[j].track = track /\ (c < d \/ (c = d /\ i < j))
  <2>1. \A e : e \in BlocksOf(track, N) <=>
           \E d \in 1 .. N : \E j \in 1 .. Len(Blocks(d)) : e = << d, j >> /\ Blocks(d)[j].track = track
    BY <1>3, InBlocksOf
  <2>2. \A d, j : Before(a, << d, j >>) <=> (c < d \/ (c = d /\ i < j))
    BY <1>2 DEF Before
  <2> HIDE DEF track
  <2> QED
    BY <2>1, <2>2
<1>6. \A j : j \in here <=> j \in 1 .. Len(Blocks(c)) /\ i < j /\ Blocks(c)[j].track = track
  <2>1. i + 1 \in Nat \ {0} /\ Len(Blocks(c)) \in Nat
    BY <1>3, ClusterFacts
  <2>2. \A j : j \in here <=> j \in 1 .. Len(Blocks(c)) /\ i + 1 <= j /\ Blocks(c)[j].track = track
    BY <2>1, InTrack
  <2> HIDE DEF here, track
  <2> QED
    BY <1>3, <2>1, <2>2
<1>7. \A d : d \in found <=>
         d \in c + 1 .. last /\ \E j \in 1 .. Len(Blocks(d)) : Blocks(d)[j].track = track
  <2> SUFFICES ASSUME NEW d \in c + 1 .. last
               PROVE  d \in found <=> \E j \in 1 .. Len(Blocks(d)) : Blocks(d)[j].track = track
    OBVIOUS
  <2>1. d \in 1 .. N
    BY <1>3
  <2>2. Len(Blocks(d)) \in Nat /\ (Blocks(d) # << >> <=> Len(Blocks(d)) # 0)
    <3>1. Blocks(d) \in Seq(BlockRecords)
      BY <2>1, ClusterFacts
    <3> QED
      BY <3>1
  <2>3. \A j : j \in OfTrack(d, 1, track) <=> j \in 1 .. Len(Blocks(d)) /\ Blocks(d)[j].track = track
    <3> HIDE DEF track
    <3>1. \A j : j \in OfTrack(d, 1, track) <=> j \in 1 .. Len(Blocks(d)) /\ 1 <= j /\ Blocks(d)[j].track = track
      BY <2>1, InTrack
    <3> QED
      BY <3>1, <2>2
  <2>4. d \in WithBlocks <=> Blocks(d) # << >>
    BY <2>1 DEF WithBlocks
  <2> QED
    BY <2>2, <2>3, <2>4
<1> HIDE DEF track, behind, ahead, last, here, found, next, first, walked
<1>8. CASE here # {}
  <2> DEFINE m == Min(here)
  <2>1. m \in here /\ \A j \in here : m <= j
    <3>1. here \subseteq Nat
      BY <1>6
    <3> QED
      BY <1>8, <3>1, MinOf
  <2>2. r = << c, m >> /\ m \in 1 .. Len(Blocks(c)) /\ i < m /\ Blocks(c)[m].track = track /\ m \in Nat
    BY <1>4, <1>6, <1>8, <2>1
  <2> HIDE DEF m, r
  <2>3. IsSlot(r)
    BY <2>2 DEF IsSlot
  <2>4. r \in behind
    BY <1>5, <2>2
  <2>5. ASSUME NEW e \in behind PROVE ~Before(e, r)
    <3>1. PICK d \in 1 .. N : \E j \in 1 .. Len(Blocks(d)) :
             e = << d, j >> /\ Blocks(d)[j].track = track /\ (c < d \/ (c = d /\ i < j))
      BY <1>5
    <3>2. PICK j \in 1 .. Len(Blocks(d)) :
             e = << d, j >> /\ Blocks(d)[j].track = track /\ (c < d \/ (c = d /\ i < j))
      BY <3>1
    <3>3. d \in Nat /\ j \in Nat
      BY <1>3, BlockFacts
    <3>4. c = d => m <= j
      BY <3>2, <1>6, <2>1
    <3> QED
      BY <1>3, <2>2, <3>2, <3>3, <3>4 DEF Before
  <2>6. IsBlock(r)
    BY <1>3, <2>2 DEF IsBlock
  <2> QED
    BY <1>3, <2>3, <2>4, <2>5, <2>6 DEF IsEntry, r, behind, track
<1>9. CASE here = {}
  <2>1. walked = { d \in ahead : \A f \in found : d <= f }
    BY <1>9 DEF walked
  <2>2. ASSUME NEW e \in behind
        PROVE  /\ e[1] \in 1 .. N /\ c < e[1] /\ (e[1] <= last => e[1] \in found)
               /\ \E j \in 1 .. Len(Blocks(e[1])) : e = << e[1], j >> /\ Blocks(e[1])[j].track = track
    <3>1. PICK d \in 1 .. N : \E j \in 1 .. Len(Blocks(d)) :
             e = << d, j >> /\ Blocks(d)[j].track = track /\ (c < d \/ (c = d /\ i < j))
      BY <1>5
    <3>2. PICK j \in 1 .. Len(Blocks(d)) :
             e = << d, j >> /\ Blocks(d)[j].track = track /\ (c < d \/ (c = d /\ i < j))
      BY <3>1
    <3>3. c < d
      BY <1>6, <1>9, <3>2
    <3>4. e[1] = d
      BY <3>2
    <3>5. d <= last => d \in found
      BY <1>3, <1>7, <3>2, <3>3
    <3> QED
      BY <3>2, <3>3, <3>4, <3>5
  <2>3. ASSUME Cardinality(walked) >= kMaxWalk, NEW e \in behind
        PROVE  \/ Cardinality(WithBlocks \cap (c + 1 .. e[1])) >= kMaxWalk
               \/ e[1] > m_clusterCount /\ ~done
    <3>1. walked \subseteq WithBlocks \cap (c + 1 .. e[1])
      <4>1. CASE e[1] <= last
        <5>1. e[1] \in found
          BY <2>2, <4>1
        <5> QED
          BY <1>3, <2>1, <2>2, <5>1 DEF ahead
      <4>2. CASE last < e[1]
        BY <1>3, <2>1, <2>2, <4>2 DEF ahead
      <4> QED
        BY <1>3, <2>2, <4>1, <4>2
    <3> DEFINE W == WithBlocks \cap (c + 1 .. e[1])
    <3>2. IsFiniteSet(W)
      <4>1. IsFiniteSet(c + 1 .. e[1])
        <5>1. c + 1 \in Int /\ e[1] \in Int
          BY <1>3, <2>2
        <5> QED
          BY <5>1, FS_Interval
      <4>2. W \in SUBSET (c + 1 .. e[1])
        OBVIOUS
      <4> HIDE DEF W
      <4> QED
        BY <4>1, <4>2, FS_Subset
    <3>3. Cardinality(walked) <= Cardinality(W) /\ Cardinality(walked) \in Nat /\ Cardinality(W) \in Nat
      <4> HIDE DEF W
      <4>1. walked \in SUBSET W
        BY <3>1 DEF W
      <4> QED
        BY <3>2, <4>1, FS_Subset, FS_CardinalityType
    <3>4. Cardinality(W) >= kMaxWalk
      <4> HIDE DEF W
      <4> QED
        BY <2>3, <3>3, WalkAssumption
    <3> QED
      BY <3>4
  <2>4. CASE Cardinality(walked) >= kMaxWalk
    <3>1. r = EOS
      BY <1>4, <1>9, <2>4
    <3>2. ~ IsBlock(r) /\ IsEntry(r)
      BY <3>1 DEF IsBlock, EOS, IsEntry
    <3> HIDE DEF r
    <3> QED
      BY <1>3, <2>3, <2>4, <3>2 DEF r, behind, track
  <2>5. CASE ~ (Cardinality(walked) >= kMaxWalk) /\ found # {}
    <3>1. r = << next, first >>
      BY <1>4, <1>9, <2>5
    <3>2. next \in found /\ \A d \in found : next <= d
      <4>1. found \subseteq Nat
        BY <1>3, <1>7
      <4> QED
        BY <2>5, <4>1, MinOf DEF next
    <3>3. next \in 1 .. N /\ c < next /\ next \in Nat
      BY <1>3, <1>7, <3>2
    <3> DEFINE T == OfTrack(next, 1, track)
    <3>4. T \subseteq Nat /\ T # {}
          /\ \A j : j \in T <=> j \in 1 .. Len(Blocks(next)) /\ 1 <= j /\ Blocks(next)[j].track = track
      <4>1. T # {}
        BY <3>2 DEF found
      <4> QED
        BY <3>3, <4>1, InTrack
    <3>5. first \in T /\ \A j \in T : first <= j
      <4> HIDE DEF T
      <4>1. first = Min(T)
        BY DEF first, T
      <4> QED
        BY <3>4, <4>1, MinOf
    <3> HIDE DEF T, r
    <3>6. first \in 1 .. Len(Blocks(next)) /\ Blocks(next)[first].track = track /\ first \in Nat
      BY <3>4, <3>5
    <3>7. IsSlot(r) /\ IsBlock(r)
      BY <3>1, <3>3, <3>6 DEF IsSlot, IsBlock
    <3>8. r \in behind
      BY <1>5, <3>1, <3>3, <3>6
    <3>9. ASSUME NEW e \in behind PROVE ~Before(e, r)
      <4>1. PICK j \in 1 .. Len(Blocks(e[1])) : e = << e[1], j >> /\ Blocks(e[1])[j].track = track
        BY <2>2
      <4>2. e[1] \in 1 .. N /\ e[1] \in Nat /\ j \in Nat
        BY <1>3, <2>2, BlockFacts
      <4>3. next <= e[1]
        <5>1. CASE e[1] <= last
          BY <2>2, <3>2, <5>1
        <5>2. CASE last < e[1]
          <6>1. next <= last
            BY <1>7, <3>2
          <6> QED
            BY <1>3, <3>3, <4>2, <5>2, <6>1
        <5> QED
          BY <1>3, <4>2, <5>1, <5>2
      <4>4. e[1] = next => first <= j
        <5> SUFFICES ASSUME e[1] = next PROVE first <= j
          OBVIOUS
        <5>1. j \in T
          BY <3>4, <4>1, <4>2, BlockFacts
        <5> QED
          BY <3>5, <5>1
      <4>5. e[2] = j
        BY <4>1
      <4> QED
        BY <3>1, <3>3, <3>6, <4>2, <4>3, <4>4, <4>5 DEF Before
    <3> QED
      BY <1>3, <3>7, <3>8, <3>9 DEF IsEntry, r, behind, track
  <2>6. CASE ~ (Cardinality(walked) >= kMaxWalk) /\ found = {}
    <3>1. r = IF InFile(c) THEN EOS ELSE AtEndOfLoaded
      BY <1>4, <1>9, <2>6
    <3>2. ~ IsBlock(r) /\ IsEntry(r)
      BY <3>1 DEF IsBlock, EOS, NotFull, IsEntry, AtEndOfLoaded
    <3>3. ASSUME NEW e \in behind PROVE e[1] > m_clusterCount /\ ~done
      <4>1. e[1] \in 1 .. N /\ last < e[1]
        BY <1>3, <2>2, <2>6
      <4>2. last = m_clusterCount
        BY <1>3, <4>1 DEF last
      <4> QED
        BY <1>3, <4>1, <4>2
    <3> HIDE DEF r
    <3> QED
      BY <1>3, <3>2, <3>3 DEF r, behind, track
  <2> QED
    BY <2>4, <2>5, <2>6
<1> QED
  BY <1>8, <1>9

-----------------------------------------------------------------------------
(* The steps.                                                               *)

\* The points among the first children of the Cues.
LEMMA PointsCount ==
  ASSUME NEW k \in Nat, NEW l \in Nat, k <= l
  PROVE  /\ PointsUpTo(k) \in Nat /\ PointsUpTo(l) \in Nat /\ PointsUpTo(k) <= PointsUpTo(l)
         /\ k < l /\ IsPoint(l) => PointsUpTo(k) + 1 <= PointsUpTo(l)
<1> DEFINE S(n) == { i \in 1 .. n : IsPoint(i) }
<1>1. ASSUME NEW n \in Nat PROVE IsFiniteSet(S(n)) /\ PointsUpTo(n) = Cardinality(S(n)) /\ Cardinality(S(n)) \in Nat
  <2>1. IsFiniteSet(1 .. n)
    BY FS_Interval
  <2>2. S(n) \in SUBSET (1 .. n)
    OBVIOUS
  <2>3. IsFiniteSet(S(n))
    <3> HIDE DEF S
    <3> QED
      BY <2>1, <2>2, FS_Subset
  <2>4. PointsUpTo(n) = Cardinality(S(n))
    BY DEF PointsUpTo
  <2> HIDE DEF S
  <2> QED
    BY <2>3, <2>4, FS_CardinalityType
<1>2. S(k) \in SUBSET S(l)
  OBVIOUS
<1>3. PointsUpTo(k) <= PointsUpTo(l)
  <2> HIDE DEF S
  <2> QED
    BY <1>1, <1>2, FS_Subset
<1>4. ASSUME k < l, IsPoint(l) PROVE PointsUpTo(k) + 1 <= PointsUpTo(l)
  <2>1. S(k) \cup {l} \in SUBSET S(l) /\ l \notin S(k)
    BY <1>4
  <2> HIDE DEF S
  <2>2. Cardinality(S(k) \cup {l}) = Cardinality(S(k)) + 1
    BY <1>1, <2>1, FS_AddElement
  <2>3. Cardinality(S(k) \cup {l}) <= Cardinality(S(l))
    BY <1>1, <2>1, FS_Subset
  <2> QED
    BY <1>1, <2>2, <2>3
<1> QED
  BY <1>1, <1>3, <1>4

LEMMA KidsFacts ==
  ASSUME file \in Files
  PROVE  Stop \in Nat \ {0} /\ Len(file.kids) = Stop - 1 /\ PointsUpTo(Stop - 1) = Len(file.points)
<1>1. file.kids \in Seq(STRING) /\ Cardinality({ k \in DOMAIN file.kids : file.kids[k] = "CuePoint" }) = Len(file.points)
  BY KidsAssumption
<1>2. Len(file.kids) \in Nat /\ DOMAIN file.kids = 1 .. Len(file.kids)
  BY <1>1
<1>3. Stop - 1 = Len(file.kids) /\ Stop \in Nat \ {0}
  BY <1>2 DEF Stop
<1>4. PointsUpTo(Len(file.kids)) = Len(file.points)
  BY <1>1, <1>2 DEF PointsUpTo, IsPoint
<1> QED
  BY <1>2, <1>3, <1>4

\* No more points are loaded than there are, and none while they change.
LEMMA LoadedPoints ==
  ASSUME PointsInv, LoadedInv, NEW i \in 1 .. m_count
  PROVE  /\ i \in 1 .. Len(cues) /\ cues[i] \in CuePoints /\ file.points[i] \in CuePoints /\ Opens
         /\ \A c \in 1 .. N : ClusterPos(c) = cues[i].cluster_pos
                                => cues[i].block_number \in 1 .. Len(Blocks(c))
<1>1. file \in Files /\ PointsKept /\ shift \in Nat
  BY DEF PointsInv
<1>2. m_pos \in 1 .. Stop /\ m_count \in 0 .. PointsUpTo(m_pos - 1) /\ Stop \in Nat
  BY <1>1, KidsFacts DEF LoadedInv
<1>3. PointsUpTo(m_pos - 1) <= PointsUpTo(Stop - 1) /\ PointsUpTo(m_pos - 1) \in Nat
  <2>1. m_pos - 1 \in Nat /\ Stop - 1 \in Nat /\ m_pos - 1 <= Stop - 1
    BY <1>2
  <2> QED
    BY <2>1, PointsCount
<1>4. Len(cues) = Len(file.points) /\ PointsUpTo(Stop - 1) = Len(file.points)
      /\ cues \in Seq(CuePoints) /\ file.points \in Seq(CuePoints)
  BY <1>1, KidsFacts, PointsOfFile DEF PointsKept
<1>5. i \in 1 .. Len(cues) /\ cues[i] \in CuePoints /\ file.points[i] \in CuePoints
  <2>1. i \in 1 .. Len(cues)
    BY <1>2, <1>3, <1>4
  <2> QED
    BY <2>1, <1>4
<1>6. Opens
  <2> SUFFICES ASSUME ~ Opens PROVE FALSE
    OBVIOUS
  <2>1. m_pos - 1 = 0
    BY DEF LoadedInv, Unread
  <2>2. PointsUpTo(0) = 0
    <3>1. { k \in 1 .. 0 : IsPoint(k) } = {}
      OBVIOUS
    <3> QED
      BY <3>1, FS_EmptySet DEF PointsUpTo
  <2> QED
    BY <1>2, <2>1, <2>2
<1>7. ASSUME NEW c \in 1 .. N, ClusterPos(c) = cues[i].cluster_pos
      PROVE  cues[i].block_number \in 1 .. Len(Blocks(c))
  <2>1. cues[i].cluster_pos = file.points[i].cluster_pos + shift
        /\ cues[i].block_number = file.points[i].block_number
    <3>1. CASE stage = "finalized"
      <4>1. cues = file.points /\ shift = 0
        BY <3>1 DEF PointsInv
      <4>2. file.points[i].cluster_pos \in Nat
        BY <1>5, PointType
      <4> QED
        BY <4>1, <4>2
    <3>2. CASE stage = "moved"
      BY <3>2, <1>1, <1>5 DEF PointsInv, Moved, PointsKept
    <3> QED
      BY <3>1, <3>2, <1>6 DEF Opens
  <2>2. file.points[i].cluster_pos \in Nat /\ file.clusters[c].pos \in Nat /\ N \in Nat
    BY <1>1, <1>5, PointType, ClusterFacts
  <2>3. file.points[i].cluster_pos = file.clusters[c].pos
    BY <1>1, <1>7, <2>1, <2>2 DEF ClusterPos
  <2>4. i \in DOMAIN file.points /\ c \in DOMAIN file.clusters
    <3>1. file.clusters \in Seq(ClusterRecords)
      BY <1>1, ClustersAssumption
    <3> QED
      BY <3>1, <1>4, <1>5 DEF N
  <2>5. file.points[i].block_number \in DOMAIN file.clusters[c].blocks
    BY <1>1, <2>3, <2>4, ClustersAssumption
  <2>6. DOMAIN file.clusters[c].blocks = 1 .. Len(Blocks(c))
    <3>1. Blocks(c) \in Seq(BlockRecords)
      BY <1>1, ClusterFacts
    <3> QED
      BY <3>1 DEF Blocks
  <2> QED
    BY <2>1, <2>5, <2>6
<1> QED
  BY <1>5, <1>6, <1>7

\* Cues::Find returns a loaded point.
LEMMA FindPointType ==
  ASSUME PointsInv, LoadedInv, NEW time \in Times, NEW track, FindInCues(time, track)
  PROVE  FindPoint(time) \in 1 .. m_count
<1>1. m_count \in Nat /\ m_count > 0
  <2>1. m_pos - 1 \in Nat /\ file \in Files
    BY KidsFacts DEF LoadedInv, PointsInv
  <2>2. PointsUpTo(m_pos - 1) \in Nat
    BY <2>1, PointsCount
  <2> QED
    BY <2>2 DEF LoadedInv, FindInCues
<1>2. cues[1].time \in Nat /\ time \in Nat
  BY <1>1, LoadedPoints, PointType, TypesAssumption
<1> DEFINE S == { i \in 1 .. m_count : cues[i].time <= time }
<1>3. CASE time <= cues[1].time
  BY <1>1, <1>3 DEF FindPoint
<1>4. CASE ~ (time <= cues[1].time)
  <2>1. 1 \in S
    BY <1>1, <1>2, <1>4
  <2>2. S \subseteq 0 .. m_count /\ \A i \in S : i \in 1 .. m_count
    BY <1>1
  <2>3. Max(S) \in S
    <3> HIDE DEF S
    <3> QED
      BY <1>1, <2>1, <2>2, MaxOf
  <2>4. FindPoint(time) = Max(S)
    BY <1>4 DEF FindPoint
  <2> QED
    BY <2>2, <2>3, <2>4
<1> QED
  BY <1>3, <1>4

LEMMA GetBlockType ==
  ASSUME PointsInv, LoadedInv, NEW i \in 1 .. m_count
  PROVE  IsEntry(GetBlock(cues[i]))
<1>1. file \in Files /\ shift \in Nat
  BY DEF PointsInv
<1>2. cues[i].time \in Nat
  BY LoadedPoints, PointType
<1>3. CASE At(cues[i].cluster_pos) = {}
  BY <1>1, <1>3, GetBlockIs DEF IsEntry
<1>4. CASE At(cues[i].cluster_pos) # {}
  <2>1. PICK c \in 1 .. N : ClusterPos(c) = cues[i].cluster_pos
    BY <1>4 DEF At
  <2>2. GetBlock(cues[i]) = EntryOfPoint(c, cues[i])
    BY <1>1, <2>1, GetBlockIs
  <2>3. EntryOfPoint(c, cues[i]) = EOS \/ \E j \in 1 .. Len(Blocks(c)) : EntryOfPoint(c, cues[i]) = << c, j >>
    BY <1>1, <1>2, <2>1, LoadedPoints, EntryOfPointIs
  <2> QED
    BY <2>2, <2>3 DEF IsEntry, IsSlot
<1> QED
  BY <1>3, <1>4

LEMMA FileKept ==
  ASSUME file' = file
  PROVE  /\ N' = N /\ Stop' = Stop /\ \A e : IsEntry(e)' <=> IsEntry(e)
         /\ \A k : PointsUpTo(k)' = PointsUpTo(k)
BY DEF N, Stop, IsEntry, IsSlot, Blocks, PointsUpTo, IsPoint

LEMMA SeekInvInit == Init => SeekInv
<1> SUFFICES ASSUME Init PROVE SeekInv
  OBVIOUS
<1>1. PointsInv /\ file \in Files
  BY InvInit DEF Init, PointsInv
<1>2. Stop \in Nat \ {0} /\ N \in Nat
  BY <1>1, KidsFacts, ClusterFacts
<1>3. PointsUpTo(0) \in Nat
  BY PointsCount
<1>4. LoadedInv
  BY <1>2, <1>3 DEF Init, CuesInit, ReaderInit, LoadedInv, Opens
<1>5. IsEntry(entry)
  BY DEF Init, ReaderInit, IsEntry
<1> QED
  BY <1>1, <1>4, <1>5 DEF SeekInv

LEMMA LoadPointKeeps == PointsInv /\ LoadedInv /\ LoadsPoint => LoadedInv'
<1> SUFFICES ASSUME PointsInv, LoadedInv, LoadsPoint PROVE LoadedInv'
  OBVIOUS
<1> DEFINE ahead == { k \in m_pos .. Len(file.kids) : IsPoint(k) }
           k     == Min(ahead)
<1>1. /\ m_pos < Stop /\ Opens /\ file' = file /\ stage' = stage
      /\ m_clusterCount' = m_clusterCount /\ done' = done
      /\ \/ m_pos' = Stop /\ m_count' = m_count
         \/ ahead # {} /\ m_pos' = k + 1 /\ m_count' = m_count + 1
  BY DEF LoadsPoint, LoadCuePoint, StopAt, cuesVars, clusterVars
<1>2. file \in Files /\ Stop \in Nat \ {0} /\ Len(file.kids) = Stop - 1
  BY KidsFacts DEF PointsInv
<1>3. m_pos \in 1 .. Stop /\ m_count \in 0 .. PointsUpTo(m_pos - 1)
  BY DEF LoadedInv
<1>4. m_pos' \in 1 .. Stop /\ m_count' \in 0 .. PointsUpTo(m_pos' - 1)
  <2>1. m_pos - 1 \in Nat /\ Stop - 1 \in Nat /\ m_pos - 1 <= Stop - 1
    BY <1>2, <1>3
  <2>2. CASE m_pos' = Stop /\ m_count' = m_count
    <3>1. PointsUpTo(m_pos - 1) <= PointsUpTo(Stop - 1) /\ PointsUpTo(m_pos - 1) \in Nat /\ PointsUpTo(Stop - 1) \in Nat
      BY <2>1, PointsCount
    <3> QED
      BY <1>2, <1>3, <2>2, <3>1
  <2>3. CASE ahead # {} /\ m_pos' = k + 1 /\ m_count' = m_count + 1
    <3>1. ahead \subseteq Nat
      BY <1>2, <1>3
    <3>2. k \in ahead
      <4> HIDE DEF ahead
      <4> QED
        BY <2>3, <3>1, MinOf
    <3>3. k \in m_pos .. Stop - 1 /\ IsPoint(k)
      BY <1>2, <3>2
    <3> HIDE DEF k
    <3>4. k \in Nat /\ m_pos - 1 < k /\ m_pos - 1 <= k /\ m_pos' - 1 = k /\ m_pos' \in 1 .. Stop
      BY <1>2, <1>3, <2>3, <3>3
    <3>5. PointsUpTo(m_pos - 1) + 1 <= PointsUpTo(k) /\ PointsUpTo(m_pos - 1) \in Nat /\ PointsUpTo(k) \in Nat
      BY <2>1, <3>3, <3>4, PointsCount
    <3> QED
      BY <1>3, <2>3, <3>4, <3>5
  <2> HIDE DEF k, ahead
  <2> QED
    BY <1>1, <2>2, <2>3
<1>5. Stop' = Stop /\ N' = N /\ PointsUpTo(m_pos' - 1) = PointsUpTo(m_pos - 1)'
  <2>1. (PointsUpTo(m_pos - 1))' = PointsUpTo(m_pos' - 1)
    BY <1>1 DEF PointsUpTo, IsPoint
  <2> QED
    BY <1>1, <2>1, FileKept
<1> HIDE DEF k, ahead
<1> QED
  BY <1>1, <1>4, <1>5 DEF LoadedInv, Opens

LEMMA SeekInvNext == SeekInv /\ [Next]_vars => SeekInv'
<1> SUFFICES ASSUME SeekInv, [Next]_vars PROVE SeekInv'
  OBVIOUS
<1>1. PointsInv /\ LoadedInv /\ IsEntry(entry) /\ file \in Files /\ PointsInv'
  BY InvNext DEF SeekInv, PointsInv
<1>2. file' = file
  BY DEF Next, MovesCues, CuesNext, MoveCuesBeforeClusters, MoveCuesBeforeClustersHelper, HelperReturns,
         WriteCuesFirst, LoadsPoint, LoadCuePoint, LoadCluster, SeekByCues, SeekTrack, GetNextEntry,
         vars, cuesVars
<1>3. N' = N /\ Stop' = Stop /\ (\A e : IsEntry(e)' <=> IsEntry(e)) /\ \A k : PointsUpTo(k)' = PointsUpTo(k)
  BY <1>2, FileKept
<1>4. N \in Nat \ {0} /\ Stop \in Nat \ {0}
  BY <1>1, ClusterFacts, KidsFacts
<1>5. ASSUME loadVars' = loadVars, m_clusterCount' = m_clusterCount, done' = done,
             (~Opens => Unread)'
      PROVE  LoadedInv'
  <2>1. (PointsUpTo(m_pos - 1))' = PointsUpTo(m_pos - 1)
    BY <1>2, <1>5 DEF PointsUpTo, IsPoint, loadVars
  <2> QED
    BY <1>1, <1>3, <1>5, <2>1 DEF LoadedInv, loadVars
<1>6. ASSUME entry' = entry PROVE IsEntry(entry)'
  BY <1>1, <1>2, <1>6 DEF IsEntry, IsSlot, N, Blocks
<1>7. ASSUME IsEntry(entry') PROVE IsEntry(entry)'
  BY <1>2, <1>7 DEF IsEntry, IsSlot, N, Blocks
<1>8. CASE MovesCues
  <2>1. /\ loadVars' = loadVars /\ m_clusterCount' = m_clusterCount /\ preloaded' = preloaded /\ done' = done
        /\ entry' = entry /\ Unread
    BY <1>8 DEF MovesCues, clusterVars
  <2>2. Unread'
    BY <2>1 DEF Unread, loadVars
  <2> QED
    BY <1>1, <1>5, <1>6, <2>1, <2>2 DEF SeekInv
<1>9. CASE LoadsPoint
  <2>1. LoadedInv'
    BY <1>1, <1>9, LoadPointKeeps
  <2>2. entry' = entry
    BY <1>9 DEF LoadsPoint, LoadCuePoint
  <2> QED
    BY <1>1, <1>6, <2>1, <2>2 DEF SeekInv
<1>10. CASE Opens /\ LoadCluster
  <2>1. /\ loadVars' = loadVars /\ entry' = entry /\ stage' = stage /\ Opens'
        /\ \/ m_clusterCount < N /\ m_clusterCount' = m_clusterCount + 1 /\ (done' => m_clusterCount' = N)
           \/ ~ (m_clusterCount < N) /\ m_clusterCount' = m_clusterCount
    BY <1>10 DEF LoadCluster, cuesVars, Opens
  <2>2. m_clusterCount' \in 0 .. N /\ (done' => m_clusterCount' = N)
    BY <1>1, <1>4, <2>1 DEF LoadedInv
  <2>3. (PointsUpTo(m_pos - 1))' = PointsUpTo(m_pos - 1)
    BY <1>2, <2>1 DEF PointsUpTo, IsPoint, loadVars
  <2>4. LoadedInv'
    BY <1>1, <1>3, <2>1, <2>2, <2>3 DEF LoadedInv, loadVars
  <2> QED
    BY <1>1, <1>6, <2>1, <2>4 DEF SeekInv
<1>11. CASE Opens /\ SeekByCues
  <2>1. PICK time \in Times, track \in Tracks :
          FindInCues(time, track) /\ entry' = GetBlock(cues[FindPoint(time)])
    BY <1>11 DEF SeekByCues
  <2>2. /\ loadVars' = loadVars /\ m_clusterCount' = m_clusterCount /\ done' = done /\ Opens'
    BY <1>11 DEF SeekByCues, cuesVars, Opens
  <2>3. FindPoint(time) \in 1 .. m_count
    BY <1>1, <2>1, FindPointType
  <2>4. IsEntry(entry')
    BY <1>1, <2>1, <2>3, GetBlockType
  <2> QED
    BY <1>1, <1>5, <1>7, <2>2, <2>4 DEF SeekInv
<1>12. CASE Opens /\ SeekTrack
  <2>1. PICK time \in Times, track \in Tracks : entry' = Seek(track, time)
    BY <1>12 DEF SeekTrack
  <2>2. /\ loadVars' = loadVars /\ m_clusterCount' = m_clusterCount /\ done' = done /\ Opens'
    BY <1>12 DEF SeekTrack, clusterVars, cuesVars, Opens
  <2>3. IsEntry(entry')
    BY <1>1, <2>1, SeekType, TypesAssumption DEF LoadedInv
  <2> QED
    BY <1>1, <1>5, <1>7, <2>2, <2>3 DEF SeekInv
<1>13. CASE Opens /\ GetNextEntry
  <2>1. /\ loadVars' = loadVars /\ m_clusterCount' = m_clusterCount /\ done' = done /\ Opens'
        /\ IsBlock(entry) /\ entry' = GetNext(entry)
    BY <1>13 DEF GetNextEntry, cuesVars, Opens
  <2>2. IsEntry(entry')
    BY <1>1, <2>1, SlotIsBlock, NextIs DEF LoadedInv
  <2> QED
    BY <1>1, <1>5, <1>7, <2>1, <2>2 DEF SeekInv
<1>14. CASE UNCHANGED vars
  <2>1. /\ loadVars' = loadVars /\ m_clusterCount' = m_clusterCount /\ done' = done /\ entry' = entry
        /\ preloaded' = preloaded /\ stage' = stage
    BY <1>14 DEF vars, clusterVars, cuesVars
  <2>2. (~Opens => Unread)'
    BY <1>1, <2>1 DEF LoadedInv, Opens, Unread, loadVars
  <2> QED
    BY <1>1, <1>5, <1>6, <2>1, <2>2 DEF SeekInv
<1> QED
  BY <1>8, <1>9, <1>10, <1>11, <1>12, <1>13, <1>14 DEF Next

LEMMA SeekInvHolds == Spec => []SeekInv
<1>1. Init => SeekInv
  BY SeekInvInit
<1>2. SeekInv /\ [Next]_vars => SeekInv'
  BY SeekInvNext
<1> QED
  BY <1>1, <1>2, PTL DEF Spec

-----------------------------------------------------------------------------
\* At any time, a loaded point leads to a block of its track at its time in the
\* cluster it names, if there are some and all of them may be sought: whether
\* the Cues have moved or not, and even if the point counts too few blocks.
THEOREM PointsLead == Spec => []PointsFindBlocks
<1>1. SeekInv => PointsFindBlocks
  <2> SUFFICES ASSUME SeekInv, NEW i \in 1 .. m_count
               PROVE  LET p     == cues[i]
                          meant == { e \in BlocksOf(p.track, N) :
                                       ClusterPos(e[1]) = p.cluster_pos /\ Time(e) = p.time }
                      IN  meant # {} /\ (\A e \in meant : VetEntry(BlockOf(e))) => GetBlock(p) \in meant
    BY DEF PointsFindBlocks
  <2> DEFINE p     == cues[i]
             meant == { e \in BlocksOf(p.track, N) : ClusterPos(e[1]) = p.cluster_pos /\ Time(e) = p.time }
  <2> SUFFICES ASSUME meant # {}, \A e \in meant : VetEntry(BlockOf(e))
               PROVE  GetBlock(p) \in meant
    OBVIOUS
  <2>1. PointsInv /\ LoadedInv /\ file \in Files /\ shift \in Nat /\ N \in Nat
    BY ClusterFacts DEF SeekInv, PointsInv
  <2>2. p.time \in Nat
    BY <2>1, LoadedPoints, PointType
  <2>3. \A e : e \in meant <=>
          \E c \in 1 .. N : \E j \in 1 .. Len(Blocks(c)) :
            /\ e = << c, j >> /\ Blocks(c)[j].track = p.track
            /\ ClusterPos(c) = p.cluster_pos /\ Blocks(c)[j].time = p.time
    <3>1. \A e : e \in BlocksOf(p.track, N) <=>
            \E c \in 1 .. N : \E j \in 1 .. Len(Blocks(c)) : e = << c, j >> /\ Blocks(c)[j].track = p.track
      BY <2>1, InBlocksOf
    <3>2. \A c, j : Time(<< c, j >>) = Blocks(c)[j].time /\ << c, j >>[1] = c
      BY DEF Time, BlockOf
    <3> HIDE DEF p
    <3> QED
      BY <3>1, <3>2
  <2>4. PICK c \in 1 .. N : \E j \in 1 .. Len(Blocks(c)) :
          /\ Blocks(c)[j].track = p.track /\ ClusterPos(c) = p.cluster_pos /\ Blocks(c)[j].time = p.time
    BY <2>3
  <2> DEFINE same == { j \in OfTrack(c, 1, p.track) : Blocks(c)[j].time = p.time }
  <2>5. \A j : j \in same <=> j \in 1 .. Len(Blocks(c)) /\ Blocks(c)[j].track = p.track /\ Blocks(c)[j].time = p.time
    <3>1. Len(Blocks(c)) \in Nat
      BY <2>1, ClusterFacts
    <3> HIDE DEF p
    <3>2. \A j : j \in OfTrack(c, 1, p.track) <=> j \in 1 .. Len(Blocks(c)) /\ 1 <= j /\ Blocks(c)[j].track = p.track
      BY <2>1, InTrack
    <3> QED
      BY <3>1, <3>2
  <2>6. \A j \in same : << c, j >> \in meant /\ VetEntry(Blocks(c)[j])
    <3> HIDE DEF meant, same, p
    <3>1. \A j \in same : << c, j >> \in meant
      BY <2>3, <2>4, <2>5
    <3> QED
      BY <3>1 DEF BlockOf
  <2>7. same # {}
    BY <2>4, <2>5
  <2>8. GetBlock(p) = EntryOfPoint(c, p)
    BY <2>1, <2>4, GetBlockIs
  <2>9. p.block_number \in 1 .. Len(Blocks(c))
    BY <2>1, <2>4, LoadedPoints
  <2>10. \E j \in same : EntryOfPoint(c, p) = << c, j >>
    BY <2>1, <2>2, <2>6, <2>7, <2>9, EntryOfPointIs
  <2> HIDE DEF meant, same, p
  <2> QED
    BY <2>6, <2>8, <2>10
<1> QED
  BY <1>1, SeekInvHolds, PTL

\* Seeking in a video, in whatever clusters are loaded and of whatever sizes,
\* finds the last key frame up to the time.
THEOREM SeekFinds == Spec => []SeekExact
<1>1. SeekInv => SeekExact
  BY SeekVideo, TypesAssumption DEF SeekInv, PointsInv, LoadedInv, SeekExact
<1> QED
  BY <1>1, SeekInvHolds, PTL

\* Whatever block a caller holds, a step of its walk comes to the next block of
\* the track, or stops where the walk is too long or the file is not loaded.
THEOREM WalkComplete == Spec => WalkFollows
<1>1. SeekInv /\ [Next]_vars =>
        [ GetNextEntry =>
            LET behind == { e \in BlocksOf(BlockOf(entry).track, N) : Before(entry, e) }
            IN  IF IsBlock(entry')
                THEN entry' \in behind /\ \A e \in behind : ~Before(e, entry')
                ELSE \A e \in behind :
                       \/ Cardinality(WithBlocks \cap (entry[1] + 1 .. e[1])) >= kMaxWalk
                       \/ e[1] > m_clusterCount /\ ~done ]_vars
  <2> SUFFICES ASSUME SeekInv, GetNextEntry
               PROVE  LET behind == { e \in BlocksOf(BlockOf(entry).track, N) : Before(entry, e) }
                      IN  IF IsBlock(entry')
                          THEN entry' \in behind /\ \A e \in behind : ~Before(e, entry')
                          ELSE \A e \in behind :
                                 \/ Cardinality(WithBlocks \cap (entry[1] + 1 .. e[1])) >= kMaxWalk
                                 \/ e[1] > m_clusterCount /\ ~done
    OBVIOUS
  <2>1. file \in Files /\ m_clusterCount \in 0 .. N /\ (done => m_clusterCount = N)
        /\ IsBlock(entry) /\ IsEntry(entry) /\ entry' = GetNext(entry)
    BY DEF SeekInv, PointsInv, LoadedInv, GetNextEntry
  <2>2. IsSlot(entry)
    BY <2>1, SlotIsBlock
  <2> QED
    BY <2>1, <2>2, NextIs
<1> QED
  BY <1>1, SeekInvHolds, PTL DEF Spec, WalkFollows
=============================================================================
