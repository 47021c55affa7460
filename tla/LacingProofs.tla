---------------------------- MODULE LacingProofs ----------------------------
(* Proofs about Lacing, for any block that is fed in any pieces.  First that   *)
(* the frames of a block fill it: FillInv counts what was read and what is     *)
(* planned to be.  Then that webm_parser finds the frames that mkvparser       *)
(* does: AgreeInv says, for every block that begins with the bytes read so     *)
(* far, how far mkvparser has come where webm_parser is.                       *)
EXTENDS Lacing, TLAPS, WellFoundedInduction, SequenceTheorems

-----------------------------------------------------------------------------
(* Recursive functions.                                                     *)

\* Induction over the naturals, for a property given as a set.
LEMMA NatSetInduction ==
  ASSUME NEW S, 0 \in S, \A n \in Nat : n \in S => n + 1 \in S
  PROVE  Nat \subseteq S
<1> DEFINE T == Nat \ S
<1> SUFFICES ASSUME T # {} PROVE FALSE
  OBVIOUS
<1>1. IsWellFoundedOn(OpToRel(<, Nat), Nat)
  BY NatLessThanWellFounded
<1>2. PICK x \in T : \A y \in T : ~ (<<y, x>> \in OpToRel(<, Nat))
  BY <1>1, WFMin
<1>3. \A y \in T : ~ (y < x)
  BY <1>2 DEF OpToRel
<1>4. x # 0 /\ x - 1 \in Nat /\ x - 1 \notin T
  BY <1>3
<1> QED
  BY <1>4

\* h counts steps from c: the value before each gives the one after it.
Steps(h, c, step, n) == h[0] = c /\ \A k \in 1 .. n : h[k] = step[<< k, h[k - 1] >>]

LEMMA StepsExist ==
  ASSUME NEW S, NEW c \in S, NEW n \in Nat, NEW step \in [(1 .. n) \X S -> S]
  PROVE  \E h \in [0 .. n -> S] : Steps(h, c, step, n)
<1> DEFINE Some(m) == \E h \in [0 .. m -> S] : Steps(h, c, step, m)
           T == { m \in Nat : m <= n => Some(m) }
<1>1. 0 \in T
  <2> DEFINE h == [ k \in 0 .. 0 |-> c ]
  <2>1. h \in [0 .. 0 -> S] /\ Steps(h, c, step, 0)
    BY DEF Steps
  <2> QED
    BY <2>1
<1>2. ASSUME NEW m \in Nat, m \in T PROVE m + 1 \in T
  <2> HIDE DEF Some
  <2> SUFFICES ASSUME m + 1 <= n PROVE Some(m + 1)
    OBVIOUS
  <2>0. Some(m)
    BY <1>2
  <2>1. PICK h \in [0 .. m -> S] : Steps(h, c, step, m)
    BY <2>0 DEF Some
  <2>2. << m + 1, h[m] >> \in (1 .. n) \X S
    BY <2>1
  <2> DEFINE next == step[<< m + 1, h[m] >>]
             g == [ k \in 0 .. m + 1 |-> IF k = m + 1 THEN next ELSE h[k] ]
  <2>3. next \in S
    BY <2>2
  <2>4. g[m + 1] = step[<< m + 1, h[m] >>]
    OBVIOUS
  <2> HIDE DEF next
  <2>5. g \in [0 .. m + 1 -> S]
    BY <2>1, <2>3
  <2>6. g[0] = c
    BY <2>1 DEF Steps
  <2>7. \A k \in 0 .. m : g[k] = h[k]
    OBVIOUS
  <2> HIDE DEF g
  <2>8. ASSUME NEW k \in 1 .. m + 1 PROVE g[k] = step[<< k, g[k - 1] >>]
    <3>1. CASE k = m + 1
      <4>1. k - 1 = m /\ m \in 0 .. m
        BY <3>1
      <4> QED
        BY <3>1, <4>1, <2>4, <2>7
    <3>2. CASE k # m + 1
      <4>1. k \in 1 .. m /\ k - 1 \in 0 .. m /\ k \in 0 .. m
        BY <3>2
      <4> QED
        BY <4>1, <2>1, <2>7 DEF Steps
    <3> QED
      BY <3>1, <3>2
  <2>9. Steps(g, c, step, m + 1)
    BY <2>6, <2>8 DEF Steps
  <2> QED
    BY <2>5, <2>9 DEF Some
<1>3. n \in T
  <2> HIDE DEF T
  <2> QED
    BY <1>1, <1>2, NatSetInduction
<1>4. Some(n)
  BY <1>3
<1> QED
  BY <1>4 DEF Some

\* A function that is what steps from c make of it is in S everywhere.
LEMMA StepsType ==
  ASSUME NEW S, NEW c \in S, NEW n \in Nat, NEW step \in [(1 .. n) \X S -> S],
         NEW g, g[0] = c,
         \A k \in 1 .. n : g[k - 1] \in S => g[k] = step[<< k, g[k - 1] >>]
  PROVE  \A k \in 0 .. n : g[k] \in S
<1> DEFINE T == { m \in Nat : m <= n => g[m] \in S }
<1>1. 0 \in T
  OBVIOUS
<1>2. ASSUME NEW m \in Nat, m \in T PROVE m + 1 \in T
  <2> SUFFICES ASSUME m + 1 <= n PROVE g[m + 1] \in S
    OBVIOUS
  <2>1. g[m] \in S /\ m + 1 \in 1 .. n /\ m + 1 - 1 = m
    BY <1>2
  <2>2. g[m + 1] = step[<< m + 1, g[m] >>]
    BY <2>1
  <2> QED
    BY <2>1, <2>2
<1>3. Nat \subseteq T
  <2> HIDE DEF T
  <2> QED
    BY <1>1, <1>2, NatSetInduction
<1> QED
  BY <1>3

-----------------------------------------------------------------------------
(* Powers of 2.                                                             *)

Powers(g, n) == g[0] = 1 /\ \A k \in 1 .. n : g[k] = 2 * g[k - 1]

LEMMA TwoToPowers ==
  ASSUME NEW n \in Nat
  PROVE  \E g : /\ Powers(g, n) /\ TwoTo(n) = g[n]
                /\ \A k \in 0 .. n : g[k] \in Nat \ {0}
<1> DEFINE Def(f) == [ i \in 0 .. n |-> IF i = 0 THEN 1 ELSE 2 * f[i - 1] ]
           g == CHOOSE f : f = Def(f)
<1>0. PICK S : S = Nat \ {0}
  OBVIOUS
<1> DEFINE step == [ p \in (1 .. n) \X S |-> 2 * p[2] ]
<1>1. step \in [(1 .. n) \X S -> S] /\ 1 \in S
  BY <1>0
<1>2. \A k \in 1 .. n, x \in S : step[<< k, x >>] = 2 * x
  OBVIOUS
<1> HIDE DEF step
<1>3. PICK h \in [0 .. n -> S] : Steps(h, 1, step, n)
  BY <1>1, StepsExist
<1>4. h = Def(h)
  <2>1. ASSUME NEW i \in 0 .. n PROVE h[i] = IF i = 0 THEN 1 ELSE 2 * h[i - 1]
    <3>1. CASE i = 0
      BY <3>1, <1>3 DEF Steps
    <3>2. CASE i # 0
      <4>1. i \in 1 .. n /\ i - 1 \in 0 .. n
        BY <3>2
      <4>2. h[i] = step[<< i, h[i - 1] >>] /\ h[i - 1] \in S
        BY <4>1, <1>3 DEF Steps
      <4> QED
        BY <4>1, <4>2, <1>2, <3>2
    <3> QED
      BY <3>1, <3>2
  <2> QED
    BY <2>1
<1>5. g = Def(g)
  BY <1>4
<1>6. \A i \in 0 .. n : g[i] = IF i = 0 THEN 1 ELSE 2 * g[i - 1]
  BY <1>5
<1>7. TwoTo(n) = g[n]
  BY DEF TwoTo
<1> HIDE DEF g
<1>8. Powers(g, n)
  BY <1>6 DEF Powers
<1>9. \A k \in 0 .. n : g[k] \in S
  <2>1. g[0] = 1
    BY <1>8 DEF Powers
  <2>2. ASSUME NEW k \in 1 .. n, g[k - 1] \in S PROVE g[k] = step[<< k, g[k - 1] >>]
    <3>1. g[k] = 2 * g[k - 1]
      BY <1>8 DEF Powers
    <3> QED
      BY <3>1, <2>2, <1>2
  <2> QED
    BY <1>1, <2>1, <2>2, StepsType
<1> QED
  BY <1>0, <1>7, <1>8, <1>9

LEMMA TwoToType ==
  ASSUME NEW n \in Nat
  PROVE  TwoTo(n) \in Nat \ {0}
BY TwoToPowers

LEMMA TwoToZero == TwoTo(0) = 1
<1>1. PICK g : Powers(g, 0) /\ TwoTo(0) = g[0]
  BY TwoToPowers
<1> QED
  BY <1>1 DEF Powers

LEMMA TwoToNext ==
  ASSUME NEW n \in Nat
  PROVE  TwoTo(n + 1) = 2 * TwoTo(n)
<1>1. PICK g : Powers(g, n) /\ TwoTo(n) = g[n]
  BY TwoToPowers
<1>2. PICK h : Powers(h, n + 1) /\ TwoTo(n + 1) = h[n + 1]
  BY TwoToPowers
<1> DEFINE T == { m \in Nat : m <= n => g[m] = h[m] }
<1>3. 0 \in T
  BY <1>1, <1>2 DEF Powers
<1>4. ASSUME NEW m \in Nat, m \in T PROVE m + 1 \in T
  <2> SUFFICES ASSUME m + 1 <= n PROVE g[m + 1] = h[m + 1]
    OBVIOUS
  <2>1. g[m] = h[m] /\ m + 1 \in 1 .. n /\ m + 1 \in 1 .. n + 1 /\ m + 1 - 1 = m
    BY <1>4
  <2> QED
    BY <2>1, <1>1, <1>2 DEF Powers
<1>5. n \in T
  <2> HIDE DEF T
  <2> QED
    BY <1>3, <1>4, NatSetInduction
<1>6. g[n] = h[n]
  BY <1>5
<1>7. n + 1 \in 1 .. n + 1 /\ n + 1 - 1 = n
  OBVIOUS
<1>8. h[n + 1] = 2 * h[n]
  BY <1>2, <1>7 DEF Powers
<1> QED
  BY <1>1, <1>2, <1>6, <1>8

\* The powers multiply.
LEMMA TwoToAdds ==
  ASSUME NEW a \in Nat, NEW b \in Nat
  PROVE  TwoTo(a + b) = TwoTo(a) * TwoTo(b)
<1> DEFINE T == { m \in Nat : TwoTo(a + m) = TwoTo(a) * TwoTo(m) }
<1>1. 0 \in T
  <2>1. TwoTo(a) \in Nat /\ a + 0 = a
    BY TwoToType
  <2>2. TwoTo(a + 0) = TwoTo(a)
    BY <2>1, Zenon
  <2> QED
    BY <2>1, <2>2, TwoToZero
<1>2. ASSUME NEW m \in Nat, m \in T PROVE m + 1 \in T
  <2>1. PICK p \in Nat, q \in Nat, r \in Nat :
          /\ p = TwoTo(a) /\ q = TwoTo(m) /\ r = TwoTo(a + m) /\ r = p * q
    BY <1>2, TwoToType
  <2>2. TwoTo(m + 1) = 2 * q /\ TwoTo((a + m) + 1) = 2 * r /\ (a + m) + 1 = a + (m + 1)
    BY <2>1, TwoToNext
  <2>3. 2 * r = p * (2 * q)
    BY <2>1
  <2>4. TwoTo(a + (m + 1)) = TwoTo(a) * TwoTo(m + 1)
    BY <2>1, <2>2, <2>3, Zenon
  <2> QED
    BY <2>4
<1>3. b \in T
  <2> HIDE DEF T
  <2> QED
    BY <1>1, <1>2, NatSetInduction
<1> QED
  BY <1>3

\* The powers rise.
LEMMA TwoToRises ==
  ASSUME NEW a \in Nat, NEW b \in Nat, a <= b
  PROVE  TwoTo(a) <= TwoTo(b)
<1>1. PICK c \in Nat : b = a + c
  <2>1. b - a \in Nat /\ b = a + (b - a)
    OBVIOUS
  <2> QED
    BY <2>1
<1>2. TwoTo(b) = TwoTo(a) * TwoTo(c)
  BY <1>1, TwoToAdds
<1>3. TwoTo(a) \in Nat /\ TwoTo(c) \in Nat /\ TwoTo(c) >= 1
  BY TwoToType
<1>4. \A x \in Nat, y \in Nat : y >= 1 => x <= x * y
  OBVIOUS
<1> QED
  BY <1>2, <1>3, <1>4

-----------------------------------------------------------------------------
(* Numbers and sums.                                                        *)

LEMMA ProductType ==
  ASSUME NEW a \in Nat, NEW b \in Nat, NEW c \in Nat
  PROVE  a * b \in Nat /\ a * b + c \in Nat
OBVIOUS

\* What the bytes of a number make is a natural.
LEMMA NumberType ==
  ASSUME NEW bs \in Seq(Nat), kByteBits \in Nat
  PROVE  Number(bs) \in Nat
<1>S. PICK S : S = Nat
  OBVIOUS
<1>0. PICK n \in Nat, base \in Nat : n = Len(bs) /\ base = TwoTo(kByteBits)
  <2>1. Len(bs) \in Nat /\ TwoTo(kByteBits) \in Nat
    BY TwoToType
  <2> QED
    BY <2>1
<1> DEFINE Def(f) == [ i \in 0 .. n |-> IF i = 0 THEN 0 ELSE f[i - 1] * base + bs[i] ]
           g == CHOOSE f : f = Def(f)
           step == [ p \in (1 .. n) \X S |-> p[2] * base + bs[p[1]] ]
<1>1. step \in [(1 .. n) \X S -> S]
  <2>1. ASSUME NEW p \in (1 .. n) \X S PROVE p[2] * base + bs[p[1]] \in S
    <3>1. p[2] \in Nat /\ bs[p[1]] \in Nat
      BY <1>0, <1>S
    <3> QED
      BY <3>1, <1>0, <1>S, ProductType, Zenon
  <2> QED
    BY <2>1
<1>2. \A k \in 1 .. n, x \in S : step[<< k, x >>] = x * base + bs[k]
  OBVIOUS
<1> HIDE DEF step
<1>3. PICK h \in [0 .. n -> S] : Steps(h, 0, step, n)
  BY <1>1, <1>S, StepsExist
<1>4. h = Def(h)
  <2>1. ASSUME NEW i \in 0 .. n PROVE h[i] = IF i = 0 THEN 0 ELSE h[i - 1] * base + bs[i]
    <3>1. CASE i = 0
      BY <3>1, <1>3 DEF Steps
    <3>2. CASE i # 0
      <4>1. i \in 1 .. n /\ i - 1 \in 0 .. n
        BY <3>2
      <4>2. h[i] = step[<< i, h[i - 1] >>] /\ h[i - 1] \in S
        BY <4>1, <1>3 DEF Steps
      <4>3. step[<< i, h[i - 1] >>] = h[i - 1] * base + bs[i]
        BY <4>1, <4>2, <1>2, Zenon
      <4> QED
        BY <4>2, <4>3, <3>2, Zenon
    <3> QED
      BY <3>1, <3>2
  <2> QED
    BY <2>1
<1>5. g = Def(g)
  BY <1>4
<1>6. \A i \in 0 .. n : g[i] = IF i = 0 THEN 0 ELSE g[i - 1] * base + bs[i]
  BY <1>5
<1>7. Number(bs) = g[n]
  BY <1>0 DEF Number
<1> HIDE DEF g
<1>8. \A k \in 0 .. n : g[k] \in S
  <2>1. g[0] = 0
    BY <1>6
  <2>2. ASSUME NEW k \in 1 .. n, g[k - 1] \in S PROVE g[k] = step[<< k, g[k - 1] >>]
    <3>1. k \in 0 .. n /\ k # 0
      OBVIOUS
    <3>2. g[k] = g[k - 1] * base + bs[k]
      BY <3>1, <1>6, Zenon
    <3>3. step[<< k, g[k - 1] >>] = g[k - 1] * base + bs[k]
      BY <2>2, <1>2, Zenon
    <3> QED
      BY <3>2, <3>3, Zenon
  <2>3. 0 \in S
    BY <1>S
  <2> QED
    BY <1>1, <2>1, <2>2, <2>3, StepsType, ZenonT(40)
<1> QED
  BY <1>S, <1>7, <1>8

Partials(g, ns, n) == g[0] = 0 /\ \A k \in 1 .. n : g[k] = g[k - 1] + ns[k]

LEMMA SumPartials ==
  ASSUME NEW ns \in Seq(Int)
  PROVE  \E g : /\ Partials(g, ns, Len(ns)) /\ Sum(ns) = g[Len(ns)]
                /\ \A k \in 0 .. Len(ns) : g[k] \in Int
<1>S. PICK S : S = Int
  OBVIOUS
<1>0. PICK n \in Nat : n = Len(ns)
  OBVIOUS
<1> DEFINE Def(f) == [ i \in 0 .. n |-> IF i = 0 THEN 0 ELSE f[i - 1] + ns[i] ]
           g == CHOOSE f : f = Def(f)
           step == [ p \in (1 .. n) \X S |-> p[2] + ns[p[1]] ]
<1>1. step \in [(1 .. n) \X S -> S] /\ 0 \in S
  BY <1>0, <1>S
<1>2. \A k \in 1 .. n, x \in S : step[<< k, x >>] = x + ns[k]
  OBVIOUS
<1> HIDE DEF step
<1>3. PICK h \in [0 .. n -> S] : Steps(h, 0, step, n)
  BY <1>1, StepsExist
<1>4. h = Def(h)
  <2>1. ASSUME NEW i \in 0 .. n PROVE h[i] = IF i = 0 THEN 0 ELSE h[i - 1] + ns[i]
    <3>1. CASE i = 0
      BY <3>1, <1>3 DEF Steps
    <3>2. CASE i # 0
      <4>1. i \in 1 .. n /\ i - 1 \in 0 .. n
        BY <3>2
      <4>2. h[i] = step[<< i, h[i - 1] >>] /\ h[i - 1] \in S
        BY <4>1, <1>3 DEF Steps
      <4> QED
        BY <4>1, <4>2, <1>2, <3>2
    <3> QED
      BY <3>1, <3>2
  <2> QED
    BY <2>1
<1>5. g = Def(g)
  BY <1>4
<1>6. \A i \in 0 .. n : g[i] = IF i = 0 THEN 0 ELSE g[i - 1] + ns[i]
  BY <1>5
<1>7. Sum(ns) = g[n]
  BY <1>0 DEF Sum
<1> HIDE DEF g
<1>8. Partials(g, ns, n)
  BY <1>6 DEF Partials
<1>9. \A k \in 0 .. n : g[k] \in S
  <2>1. g[0] = 0
    BY <1>6
  <2>2. ASSUME NEW k \in 1 .. n, g[k - 1] \in S PROVE g[k] = step[<< k, g[k - 1] >>]
    BY <1>2, <1>8, <2>2 DEF Partials
  <2> QED
    BY <1>1, <2>1, <2>2, StepsType
<1> QED
  BY <1>S, <1>0, <1>7, <1>8, <1>9

LEMMA SumType ==
  ASSUME NEW ns \in Seq(Int)
  PROVE  Sum(ns) \in Int
<1>1. PICK g : Sum(ns) = g[Len(ns)] /\ \A k \in 0 .. Len(ns) : g[k] \in Int
  BY SumPartials
<1> QED
  BY <1>1

LEMMA SumEmpty ==
  ASSUME NEW ns, ns = << >>
  PROVE  Sum(ns) = 0
<1>1. ns \in Seq(Int) /\ Len(ns) = 0
  OBVIOUS
<1>2. PICK g : Partials(g, ns, Len(ns)) /\ Sum(ns) = g[Len(ns)]
  BY <1>1, SumPartials
<1> QED
  BY <1>1, <1>2 DEF Partials

\* The sum of one number more.
LEMMA SumMore ==
  ASSUME NEW ns \in Seq(Int), NEW more \in Seq(Int), Len(more) = Len(ns) + 1,
         \A k \in 1 .. Len(ns) : more[k] = ns[k]
  PROVE  Sum(more) = Sum(ns) + more[Len(more)]
<1>0. PICK n \in Nat : n = Len(ns)
  OBVIOUS
<1>1. PICK g : Partials(g, ns, n) /\ Sum(ns) = g[n]
  BY <1>0, SumPartials
<1>2. PICK h : Partials(h, more, n + 1) /\ Sum(more) = h[n + 1]
  BY <1>0, SumPartials
<1> DEFINE T == { m \in Nat : m <= n => g[m] = h[m] }
<1>3. 0 \in T
  BY <1>1, <1>2 DEF Partials
<1>4. ASSUME NEW m \in Nat, m \in T PROVE m + 1 \in T
  <2> SUFFICES ASSUME m + 1 <= n PROVE g[m + 1] = h[m + 1]
    OBVIOUS
  <2>1. g[m] = h[m] /\ m + 1 \in 1 .. n /\ m + 1 \in 1 .. n + 1 /\ m + 1 - 1 = m
    BY <1>4
  <2>2. g[m + 1] = g[m] + ns[m + 1] /\ h[m + 1] = h[m] + more[m + 1]
    BY <2>1, <1>1, <1>2 DEF Partials
  <2>3. ns[m + 1] = more[m + 1]
    BY <2>1, <1>0
  <2> QED
    BY <2>1, <2>2, <2>3, Zenon
<1>5. n \in T
  <2> HIDE DEF T
  <2> QED
    BY <1>3, <1>4, NatSetInduction
<1>6. g[n] = h[n]
  BY <1>5
<1>7. n + 1 \in 1 .. n + 1 /\ n + 1 - 1 = n
  OBVIOUS
<1>8. h[n + 1] = h[n] + more[n + 1]
  BY <1>2, <1>7 DEF Partials
<1> QED
  BY <1>0, <1>1, <1>2, <1>6, <1>8

LEMMA SumAppend ==
  ASSUME NEW ns \in Seq(Int), NEW x \in Int
  PROVE  Sum(Append(ns, x)) = Sum(ns) + x
<1>1. PICK more : more = Append(ns, x)
  OBVIOUS
<1>2. /\ more \in Seq(Int) /\ Len(more) = Len(ns) + 1 /\ more[Len(more)] = x
      /\ \A k \in 1 .. Len(ns) : more[k] = ns[k]
  BY <1>1
<1> QED
  BY <1>1, <1>2, SumMore

\* A sequence that is not empty is another and one number more.
LEMMA OneLess ==
  ASSUME NEW S, NEW ns \in Seq(S), NEW n \in Nat, Len(ns) = n + 1
  PROVE  \E less \in Seq(S) : Len(less) = n /\ \A k \in 1 .. n : less[k] = ns[k]
<1> DEFINE less == [ k \in 1 .. n |-> ns[k] ]
<1>1. less \in Seq(S) /\ Len(less) = n /\ \A k \in 1 .. n : less[k] = ns[k]
  OBVIOUS
<1> QED
  BY <1>1

\* Sequences that differ in one place.
Changed(a, b, i, n) ==
  /\ Len(a) = n /\ Len(b) = n /\ i \in 1 .. n
  /\ \A k \in 1 .. n : k # i => b[k] = a[k]

OneLessOf(c, d, a, b, i, m) ==
  /\ Len(c) = m /\ Len(d) = m
  /\ \A k \in 1 .. m : c[k] = a[k] /\ d[k] = b[k]
  /\ IF i = m + 1 THEN c = d ELSE b[m + 1] = a[m + 1] /\ Changed(c, d, i, m)

LEMMA ChangedLess ==
  ASSUME NEW S, NEW m \in Nat, NEW i, NEW a \in Seq(S), NEW b \in Seq(S), Changed(a, b, i, m + 1)
  PROVE  \E c \in Seq(S), d \in Seq(S) : OneLessOf(c, d, a, b, i, m)
<1> USE DEF Changed, OneLessOf
<1>1. PICK c \in Seq(S) : Len(c) = m /\ \A k \in 1 .. m : c[k] = a[k]
  BY OneLess
<1>2. PICK d \in Seq(S) : Len(d) = m /\ \A k \in 1 .. m : d[k] = b[k]
  BY OneLess
<1>3. CASE i = m + 1
  <2>1. \A k \in 1 .. m : c[k] = d[k]
    BY <1>1, <1>2, <1>3
  <2>2. c = d
    BY <1>1, <1>2, <2>1, SeqEqual
  <2> QED
    BY <1>1, <1>2, <1>3, <2>2
<1>4. CASE i # m + 1
  <2>1. i \in 1 .. m /\ b[m + 1] = a[m + 1]
    BY <1>4
  <2>2. \A k \in 1 .. m : k # i => d[k] = c[k]
    BY <1>1, <1>2
  <2> QED
    BY <1>1, <1>2, <1>4, <2>1, <2>2
<1> QED
  BY <1>3, <1>4

\* A number that changes changes the sum by as much.
LEMMA SumChange ==
  ASSUME NEW v \in Seq(Int), NEW w \in Seq(Int), NEW i, NEW n \in Nat, Changed(v, w, i, n)
  PROVE  Sum(w) = Sum(v) - v[i] + w[i]
<1>S. PICK S : S = Int
  OBVIOUS
<1> DEFINE Good(m) == \A a \in Seq(Int), b \in Seq(Int) :
                        Changed(a, b, i, m) => Sum(b) = Sum(a) - a[i] + b[i]
           T == { m \in Nat : Good(m) }
<1>1. 0 \in T
  BY DEF Changed
<1>2. ASSUME NEW m \in Nat, m \in T PROVE m + 1 \in T
  <2>0. Good(m)
    BY <1>2
  <2>1. ASSUME NEW a \in Seq(Int), NEW b \in Seq(Int), Changed(a, b, i, m + 1)
        PROVE  Sum(b) = Sum(a) - a[i] + b[i]
    <3>0. a \in Seq(S) /\ b \in Seq(S)
      BY <1>S
    <3>1. Len(a) = m + 1 /\ Len(b) = m + 1 /\ i \in 1 .. m + 1
      BY <2>1 DEF Changed
    <3>3. PICK c \in Seq(S), d \in Seq(S) : OneLessOf(c, d, a, b, i, m)
      BY <2>1, <3>0, ChangedLess, Zenon
    <3>2. /\ Len(c) = m /\ Len(d) = m
          /\ \A k \in 1 .. m : c[k] = a[k] /\ d[k] = b[k]
          /\ IF i = m + 1 THEN c = d ELSE b[m + 1] = a[m + 1] /\ Changed(c, d, i, m)
      BY <3>3 DEF OneLessOf
    <3>4. Sum(a) = Sum(c) + a[m + 1]
      BY <1>S, <3>1, <3>2, SumMore, ZenonT(40)
    <3>5. Sum(b) = Sum(d) + b[m + 1]
      BY <1>S, <3>1, <3>2, SumMore, ZenonT(40)
    <3>6. /\ Sum(c) \in Int /\ Sum(d) \in Int /\ a[i] \in Int /\ b[i] \in Int
          /\ a[m + 1] \in Int /\ b[m + 1] \in Int
      BY <1>S, <3>1, <3>2, SumType
    <3>7. PICK p \in Int, q \in Int, x \in Int, y \in Int, z \in Int, u \in Int :
            /\ p = Sum(c) /\ q = Sum(d) /\ x = a[i] /\ y = b[i]
            /\ z = a[m + 1] /\ u = b[m + 1]
      BY <3>6, Zenon
    <3>8. Sum(a) = p + z /\ Sum(b) = q + u
      BY <3>4, <3>5, <3>7, Zenon
    <3>9. q + u = (p + z) - x + y
      <4>1. CASE i = m + 1
        <5>1. p = q /\ x = z /\ y = u
          BY <4>1, <3>2, <3>7, Zenon
        <5> QED
          BY <5>1
      <4>2. CASE i # m + 1
        <5>1. Sum(d) = Sum(c) - c[i] + d[i] /\ u = z
          BY <4>2, <1>S, <2>0, <3>2, <3>7, Zenon
        <5>2. i \in 1 .. m
          BY <4>2, <3>2 DEF Changed
        <5>3. c[i] = a[i] /\ d[i] = b[i]
          BY <5>2, <3>2, Zenon
        <5>4. q = p - x + y
          BY <5>1, <5>3, <3>7, Zenon
        <5> QED
          BY <5>1, <5>4
      <4> QED
        BY <4>1, <4>2
    <3> QED
      BY <3>7, <3>8, <3>9, Zenon
  <2> QED
    BY <2>1
<1>3. n \in T
  <2> HIDE DEF T
  <2> QED
    BY <1>1, <1>2, NatSetInduction
<1>4. Good(n)
  BY <1>3
<1> QED
  BY <1>4, Zenon

\* n numbers c have the sum n * c.
LEMMA SumSame ==
  ASSUME NEW n \in Nat, NEW c \in Nat, NEW v \in Seq(Nat), Len(v) = n, \A k \in 1 .. n : v[k] = c
  PROVE  Sum(v) = n * c
<1> DEFINE Good(m) == \A w \in Seq(Nat) : Len(w) = m /\ (\A k \in 1 .. m : w[k] = c) => Sum(w) = m * c
           T == { m \in Nat : Good(m) }
<1>1. 0 \in T
  <2>1. \A w \in Seq(Nat) : Len(w) = 0 => w = << >>
    OBVIOUS
  <2>2. 0 * c = 0
    OBVIOUS
  <2> QED
    BY <2>1, <2>2, SumEmpty
<1>2. ASSUME NEW m \in Nat, m \in T PROVE m + 1 \in T
  <2>1. SUFFICES ASSUME NEW w \in Seq(Nat), Len(w) = m + 1, \A k \in 1 .. m + 1 : w[k] = c
                 PROVE  Sum(w) = (m + 1) * c
    OBVIOUS
  <2>2. PICK u \in Seq(Nat) : Len(u) = m /\ \A k \in 1 .. m : u[k] = w[k]
    BY <2>1, OneLess
  <2>3. Sum(w) = Sum(u) + c
    <3>1. u \in Seq(Int) /\ w \in Seq(Int) /\ w[Len(w)] = c
      BY <2>1
    <3> QED
      BY <2>1, <2>2, <3>1, SumMore
  <2>4. Sum(u) = m * c
    BY <1>2, <2>1, <2>2
  <2> QED
    BY <2>3, <2>4
<1>3. n \in T
  <2> HIDE DEF T
  <2> QED
    BY <1>1, <1>2, NatSetInduction
<1> QED
  BY <1>3

\* No number is larger than the sum, and the sum no larger than each number allows.
LEMMA SumBounds ==
  ASSUME NEW most \in Nat, NEW v \in Seq(Nat)
  PROVE  /\ Sum(v) \in Nat
         /\ \A k \in 1 .. Len(v) : v[k] <= Sum(v)
         /\ (\A k \in 1 .. Len(v) : v[k] <= most) => Sum(v) <= Len(v) * most
<1> DEFINE Bounded(w) == /\ Sum(w) \in Nat
                         /\ \A k \in 1 .. Len(w) : w[k] <= Sum(w)
                         /\ (\A k \in 1 .. Len(w) : w[k] <= most) => Sum(w) <= Len(w) * most
           Good(m) == \A w \in Seq(Nat) : Len(w) = m => Bounded(w)
           T == { m \in Nat : Good(m) }
<1>1. 0 \in T
  <2>1. ASSUME NEW w \in Seq(Nat), Len(w) = 0 PROVE Bounded(w)
    <3>1. w = << >>
      BY <2>1
    <3>2. Sum(w) = 0 /\ 0 * most = 0
      BY <3>1, SumEmpty
    <3> QED
      BY <2>1, <3>2
  <2> QED
    BY <2>1
<1>2. ASSUME NEW m \in Nat, m \in T PROVE m + 1 \in T
  <2>1. SUFFICES ASSUME NEW w \in Seq(Nat), Len(w) = m + 1 PROVE Bounded(w)
    OBVIOUS
  <2>2. PICK u \in Seq(Nat) : Len(u) = m /\ \A k \in 1 .. m : u[k] = w[k]
    BY <2>1, OneLess, SMTT(40)
  <2>3. Sum(w) = Sum(u) + w[m + 1]
    <3>1. u \in Seq(Int) /\ w \in Seq(Int)
      OBVIOUS
    <3> QED
      BY <2>1, <2>2, <3>1, SumMore
  <2>4. Bounded(u)
    BY <1>2, <2>2
  <2>5. w[m + 1] \in Nat
    BY <2>1
  <2>6. Sum(w) \in Nat
    BY <2>3, <2>4, <2>5
  <2>7. ASSUME NEW k \in 1 .. m + 1 PROVE w[k] <= Sum(w)
    <3>1. CASE k = m + 1
      BY <3>1, <2>3, <2>4, <2>5
    <3>2. CASE k # m + 1
      <4>1. k \in 1 .. m /\ u[k] <= Sum(u) /\ u[k] = w[k] /\ u[k] \in Nat
        BY <3>2, <2>2, <2>4
      <4> QED
        BY <4>1, <2>3, <2>4, <2>5, SMTT(40)
    <3> QED
      BY <3>1, <3>2
  <2>8. ASSUME \A k \in 1 .. m + 1 : w[k] <= most PROVE Sum(w) <= (m + 1) * most
    <3>1. Sum(u) <= m * most
      <4>1. ASSUME NEW k \in 1 .. Len(u) PROVE u[k] <= most
        <5>1. k \in 1 .. m /\ k \in 1 .. m + 1
          BY <2>2
        <5> QED
          BY <5>1, <2>2, <2>8, Zenon
      <4> QED
        BY <4>1, <2>2, <2>4
    <3>2. w[m + 1] <= most
      BY <2>8
    <3>3. Sum(u) \in Nat
      BY <2>4
    <3>4. (m + 1) * most = m * most + most /\ m * most \in Nat
      OBVIOUS
    <3> QED
      BY <3>1, <3>2, <3>3, <3>4, <2>3, <2>5
  <2> QED
    BY <2>1, <2>6, <2>7, <2>8
<1>3. Len(v) \in T
  <2> HIDE DEF T
  <2> QED
    BY <1>1, <1>2, NatSetInduction
<1>4. Good(Len(v))
  BY <1>3
<1> QED
  BY <1>4, Zenon

-----------------------------------------------------------------------------
(* The frames fill the block.                                               *)

Byte == 0 .. TwoTo(kByteBits) - 1
Metadata == [ position : Nat, size : Nat ]

States == { "ReadingHeader", "ReadingLaceCount", "GettingAction", "ReadingXiphLaceSizes",
            "ReadingFirstEbmlLaceSize", "ReadingEbmlLaceSizes", "CalculatingFixedLaceSizes",
            "ValidatingSize", "Skipping", "ReadingFrames", "Done" }

LacingTypes ==
  /\ state \in States /\ lacing \in { "none", "xiph", "fixed", "ebml" } /\ size \in Sizes
  /\ num_frames \in Nat /\ header_bytes_read_ \in Nat /\ xiph_lace_size_ \in Nat
  /\ lace_sizes_ \in Seq(Nat) /\ uint_parser_ \in Seq(Byte) /\ current_lace_ \in Nat \ {0}
  /\ frame_metadata_ \in Metadata /\ frames \in Seq(Metadata)
  /\ num_bytes_read \in Nat /\ payload \in Seq(Byte) /\ Len(payload) <= MaxLaceBytes

\* Until the frames are read only the header has been; what was skipped counts as
\* header.
HeaderCounted ==
  /\ state \notin { "ReadingFrames", "Done" } =>
       num_bytes_read = header_bytes_read_ /\ frames = << >> /\ current_lace_ = 1
  /\ state = "ReadingHeader" => header_bytes_read_ <= kHeader /\ payload = << >>
  /\ state \notin { "ReadingHeader", "Skipping" } => header_bytes_read_ = kHeader + Len(payload)

\* How many sizes there are already.
SizesCounted ==
  /\ state \in { "ReadingHeader", "ReadingLaceCount", "GettingAction", "ReadingFirstEbmlLaceSize",
                 "CalculatingFixedLaceSizes" } => lace_sizes_ = << >>
  /\ state \notin { "ReadingHeader", "ReadingLaceCount" } => num_frames \in 1 .. TwoTo(kByteBits)
  /\ state \in { "ReadingXiphLaceSizes", "ReadingFirstEbmlLaceSize", "ReadingEbmlLaceSizes" } =>
       Len(lace_sizes_) < num_frames - 1
  /\ state = "CalculatingFixedLaceSizes" => num_frames > 1
  /\ state = "ValidatingSize" => Len(lace_sizes_) = num_frames - 1

\* The sizes of all frames, whether they have been read, are being read or wait.
Planned ==
  [ i \in 1 .. num_frames |->
      IF i < current_lace_ THEN frames[i].size
      ELSE IF i = current_lace_ THEN frame_metadata_.size ELSE lace_sizes_[i] ]

\* Of each frame lace_sizes_ has what is left to read.  Frames that are not larger
\* than the block fill it.
FramesCounted ==
  state \in { "ReadingFrames", "Done" } =>
    /\ Len(lace_sizes_) = num_frames /\ current_lace_ \in 1 .. num_frames + 1
    /\ Len(frames) = current_lace_ - 1
    /\ \A i \in 1 .. current_lace_ - 1 : frames[i].size <= size /\ lace_sizes_[i] = 0
    /\ \A i \in 1 .. current_lace_ - 2 :
         frames[i + 1].position = frames[i].position + frames[i].size
    /\ current_lace_ <= num_frames =>
         /\ current_lace_ > 1 =>
              frame_metadata_.position = frames[current_lace_ - 1].position + frames[current_lace_ - 1].size
         /\ lace_sizes_[current_lace_] <= frame_metadata_.size
         /\ lace_sizes_[current_lace_] = frame_metadata_.size \/ frame_metadata_.size <= size
    /\ (\A i \in 1 .. num_frames : Planned[i] <= size) => header_bytes_read_ + Sum(Planned) = size
    /\ num_bytes_read = header_bytes_read_ + Sum(Planned) - Sum(lace_sizes_)

Returned ==
  /\ state = "Done" => current_lace_ = num_frames + 1
  /\ status = "completed" => state = "Done"
  /\ status = "skipped" => state = "Skipping" /\ header_bytes_read_ = size

FillInv == LacingTypes /\ HeaderCounted /\ SizesCounted /\ FramesCounted /\ Returned

LEMMA ConstantsType ==
  /\ TwoTo(kByteBits) \in Nat /\ TwoTo(kByteBits) > 1
  /\ kHeader \in Nat /\ Position \in Nat /\ HeaderSize \in Nat
  /\ Bytes \subseteq Byte /\ Counts \subseteq Byte /\ Byte \subseteq Nat
  /\ \A n \in Sizes : n \in Nat /\ n > kHeader
  /\ MaxLaceBytes \in Nat
<1>1. kByteBits \in Nat /\ kByteBits > 1
  BY LacingAssumption
<1>2. TwoTo(1) = 2
  <2>1. 0 \in Nat /\ 0 + 1 = 1
    OBVIOUS
  <2>2. TwoTo(0 + 1) = 2 * TwoTo(0)
    BY <2>1, TwoToNext, Zenon
  <2> QED
    BY <2>1, <2>2, TwoToZero
<1>3. TwoTo(kByteBits) \in Nat /\ TwoTo(1) <= TwoTo(kByteBits)
  <2>1. 1 \in Nat /\ 1 <= kByteBits
    BY <1>1
  <2> QED
    BY <1>1, <2>1, TwoToType, TwoToRises
<1> QED
  BY <1>2, <1>3, LacingAssumption, WordAssumption DEF Byte

\* Words, and numbers that fit one.
LEMMA WordType ==
  ASSUME NEW n \in Int
  PROVE  /\ Word(n) \in Nat /\ Word(n) < TwoTo(kWordBits)
         /\ n >= 0 /\ n < TwoTo(kWordBits) => Word(n) = n
         /\ n < 0 /\ n + TwoTo(kWordBits) >= 0 => Word(n) = n + TwoTo(kWordBits)
<1>1. PICK w \in Nat \ {0} : w = TwoTo(kWordBits)
  BY WordAssumption, TwoToType
<1>2. n % w \in 0 .. w - 1 /\ (n >= 0 /\ n < w => n % w = n)
  OBVIOUS
<1>3. n < 0 /\ n + w >= 0 => n % w = n + w
  OBVIOUS
<1> QED
  BY <1>1, <1>2, <1>3 DEF Word

LEMMA DataBitsType ==
  ASSUME NEW n \in Nat
  PROVE  DataBits(n) \in Nat
<1>1. PICK k \in Nat : k = kByteBits - 1
  BY LacingAssumption
<1>2. k * n \in Nat
  BY ProductType
<1> QED
  BY <1>1, <1>2 DEF DataBits

LEMMA DataBitsRise ==
  ASSUME NEW n \in Nat, NEW m \in Nat, n <= m
  PROVE  DataBits(n) <= DataBits(m)
<1>1. PICK k \in Nat : k = kByteBits - 1
  BY LacingAssumption
<1>2. PICK d \in Nat : m = n + d
  <2>1. m - n \in Nat /\ m = n + (m - n)
    OBVIOUS
  <2> QED
    BY <2>1
<1>3. k * (n + d) = k * n + k * d /\ k * n \in Nat /\ k * d \in Nat
  OBVIOUS
<1>4. k * n <= k * m
  BY <1>2, <1>3
<1> QED
  BY <1>1, <1>4 DEF DataBits

LEMMA LargerSeq ==
  ASSUME NEW S, NEW T, S \subseteq T, NEW s \in Seq(S)
  PROVE  s \in Seq(T) /\ Len(s) \in Nat
<1>1. PICK n \in Nat : n = Len(s)
  OBVIOUS
<1>2. s \in [1 .. n -> S]
  BY <1>1
<1>3. s \in [1 .. n -> T]
  BY <1>2
<1> QED
  BY <1>1, <1>3

LEMMA VarIntType ==
  ASSUME NEW bs \in Seq(Byte)
  PROVE  VarInt(bs) \in Nat /\ VarInt(bs) < TwoTo(DataBits(Len(bs)))
<1>1. bs \in Seq(Nat) /\ Len(bs) \in Nat
  BY ConstantsType, LargerSeq
<1>2. Number(bs) \in Nat
  BY <1>1, NumberType, LacingAssumption
<1>3. TwoTo(DataBits(Len(bs))) \in Nat \ {0}
  BY <1>1, DataBitsType, TwoToType
<1>4. \A x \in Nat, w \in Nat \ {0} : x % w \in Nat /\ x % w < w
  OBVIOUS
<1> QED
  BY <1>2, <1>3, <1>4 DEF VarInt

LEMMA BiasType ==
  ASSUME NEW n \in Nat \ {0}
  PROVE  Bias(n) \in Nat
<1>1. DataBits(n) - 1 \in Nat
  <2>1. DataBits(1) <= DataBits(n)
    BY DataBitsRise
  <2>2. DataBits(1) >= 1 /\ DataBits(1) \in Nat
    BY LacingAssumption DEF DataBits
  <2>3. DataBits(n) \in Nat
    BY DataBitsType
  <2> QED
    BY <2>1, <2>2, <2>3
<1>2. TwoTo(DataBits(n) - 1) \in Nat \ {0}
  BY <1>1, TwoToType
<1> QED
  BY <1>2 DEF Bias

\* Frames that are not larger than the block do not make a word overflow.
LEMMA NoOverflow ==
  ASSUME NEW n \in 1 .. TwoTo(kByteBits), NEW most \in Nat, NEW head \in Nat,
         most < TwoTo(DataBits(kByteBits)), head < TwoTo(DataBits(kByteBits))
  PROVE  head + (n - 1) * most < TwoTo(kWordBits)
<1>1. PICK b \in Nat, big \in Nat : b = TwoTo(kByteBits) /\ big = TwoTo(DataBits(kByteBits))
  BY LacingAssumption, DataBitsType, TwoToType
<1>2. big * b <= TwoTo(kWordBits)
  <2>1. DataBits(kByteBits) \in Nat /\ kByteBits \in Nat /\ kWordBits \in Nat
    BY LacingAssumption, WordAssumption, DataBitsType
  <2>2. TwoTo(DataBits(kByteBits) + kByteBits) = big * b
    BY <1>1, <2>1, TwoToAdds
  <2>3. TwoTo(DataBits(kByteBits) + kByteBits) <= TwoTo(kWordBits)
    BY <2>1, TwoToRises, WordAssumption
  <2> QED
    BY <2>2, <2>3
<1>3. PICK k \in Nat, d \in Nat : n = k + 1 /\ b = k + 1 + d
  <2>1. n - 1 \in Nat /\ b - n \in Nat /\ n = (n - 1) + 1 /\ b = (n - 1) + 1 + (b - n)
    BY <1>1
  <2> QED
    BY <2>1
<1>4. PICK e \in Nat : big = most + e
  <2>1. big - most \in Nat /\ big = most + (big - most)
    BY <1>1
  <2> QED
    BY <2>1
<1>5. k * most <= k * big
  <2>1. k * (most + e) = k * most + k * e /\ k * most \in Nat /\ k * e \in Nat
    OBVIOUS
  <2> QED
    BY <1>4, <2>1
<1>6. big * b = big * k + big + big * d /\ big * d \in Nat /\ big * k = k * big /\ k * big \in Nat
  BY <1>3
<1>7. head < big
  BY <1>1
<1>8. head + k * most < big * b
  <2>1. k * most \in Nat
    OBVIOUS
  <2> QED
    BY <1>5, <1>6, <1>7, <2>1
<1>9. TwoTo(kWordBits) \in Nat
  BY WordAssumption, TwoToType
<1>10. head + k * most < TwoTo(kWordBits)
  <2>1. k * most \in Nat /\ big * b \in Nat
    BY ProductType
  <2> QED
    BY <1>2, <1>8, <1>9, <2>1
<1> QED
  BY <1>3, <1>10

\* An action that only returns from Feed, or calls it again.
LEMMA FillStatus ==
  ASSUME FillInv, UNCHANGED << state, headerVars, header_bytes_read_, xiph_lace_size_, lace_sizes_,
                               uint_parser_, frameVars, num_bytes_read, payload >>,
         status' \notin { "completed", "skipped" }
  PROVE  FillInv'
<1> USE DEF FillInv, headerVars, frameVars
<1>1. LacingTypes'
  BY DEF LacingTypes, Byte, Metadata
<1>2. HeaderCounted' /\ SizesCounted' /\ Returned'
  BY DEF HeaderCounted, SizesCounted, Returned
<1>3. FramesCounted'
  <2>1. Planned' = Planned
    BY DEF Planned
  <2> QED
    BY <2>1 DEF FramesCounted
<1> QED
  BY <1>1, <1>2, <1>3

LEMMA FillInit == Init => FillInv
<1> SUFFICES ASSUME Init PROVE FillInv
  OBVIOUS
<1> USE DEF Init
<1>1. LacingTypes
  <2>1. frame_metadata_ \in Metadata
    BY DEF Metadata
  <2>2. << >> \in Seq(Nat) /\ << >> \in Seq(Byte) /\ << >> \in Seq(Metadata) /\ Len(<< >>) = 0
    OBVIOUS
  <2> QED
    BY <2>1, <2>2, WordAssumption DEF LacingTypes, States
<1>2. HeaderCounted /\ SizesCounted /\ FramesCounted /\ Returned
  BY LacingAssumption DEF HeaderCounted, SizesCounted, FramesCounted, Returned
<1> QED
  BY <1>1, <1>2 DEF FillInv

LEMMA FillReadHeader == FillInv /\ ReadHeader => FillInv'
<1> SUFFICES ASSUME FillInv, ReadHeader PROVE FillInv'
  OBVIOUS
<1> USE DEF FillInv, headerVars, frameVars
<1>0. /\ state = "ReadingHeader" /\ header_bytes_read_ <= kHeader /\ payload = << >>
      /\ num_bytes_read = header_bytes_read_ /\ frames = << >> /\ current_lace_ = 1 /\ lace_sizes_ = << >>
  BY DEF ReadHeader, Running, HeaderCounted, SizesCounted
<1>1. PICK n \in 1 .. kHeader - header_bytes_read_ :
        header_bytes_read_' = header_bytes_read_ + n /\ num_bytes_read' = num_bytes_read + n
  BY DEF ReadHeader
<1>2. /\ header_bytes_read_' \in Nat /\ header_bytes_read_' <= kHeader
      /\ num_bytes_read' = header_bytes_read_'
  BY <1>0, <1>1, ConstantsType DEF LacingTypes
<1>3. UNCHANGED << lacing, size, xiph_lace_size_, lace_sizes_, uint_parser_, current_lace_,
                   frame_metadata_, frames, payload >>
  BY DEF ReadHeader
<1>4. CASE header_bytes_read_' < kHeader
  <2>1. status' = "partial" /\ state' = state /\ num_frames' = num_frames
    BY <1>4 DEF ReadHeader
  <2>2. LacingTypes'
    BY <1>2, <1>3, <2>1 DEF LacingTypes, Byte, Metadata
  <2> QED
    BY <1>0, <1>2, <1>3, <2>1, <2>2
    DEF HeaderCounted, SizesCounted, FramesCounted, Returned
<1>5. CASE ~ (header_bytes_read_' < kHeader)
  <2>1. /\ status' = status /\ header_bytes_read_' = kHeader /\ num_frames' \in Nat
        /\ \/ state' = "GettingAction" /\ num_frames' = 1
           \/ state' = "ReadingLaceCount"
    BY <1>2, <1>5, ConstantsType DEF ReadHeader, LacingTypes
  <2>2. LacingTypes'
    BY <1>2, <1>3, <2>1 DEF LacingTypes, Byte, Metadata, States
  <2>3. HeaderCounted'
    BY <1>0, <1>2, <1>3, <2>1, ConstantsType DEF HeaderCounted
  <2>4. SizesCounted'
    <3>1. lace_sizes_' = << >> /\ (state' = "GettingAction" => num_frames' \in 1 .. TwoTo(kByteBits))
      BY <1>0, <1>3, <2>1, ConstantsType
    <3>2. state' \in { "GettingAction", "ReadingLaceCount" }
      BY <2>1
    <3> QED
      BY <3>1, <3>2 DEF SizesCounted
  <2>5. FramesCounted' /\ Returned'
    BY <1>0, <2>1 DEF FramesCounted, Returned
  <2> QED
    BY <2>2, <2>3, <2>4, <2>5
<1> QED
  BY <1>4, <1>5

\* What reading a byte of the lacing does.
LEMMA ByteRead ==
  ASSUME FillInv, NEW byte \in Byte, ReadByte(byte)
  PROVE  /\ payload' \in Seq(Byte) /\ Len(payload') = Len(payload) + 1
         /\ Len(payload) \in Nat /\ Len(payload') <= MaxLaceBytes
         /\ header_bytes_read_' = header_bytes_read_ + 1 /\ num_bytes_read' = num_bytes_read + 1
         /\ header_bytes_read_' \in Nat /\ num_bytes_read' \in Nat
BY ConstantsType DEF FillInv, LacingTypes, ReadByte

LEMMA FillReadLaceCount == FillInv /\ ReadLaceCount => FillInv'
<1> SUFFICES ASSUME FillInv, ReadLaceCount PROVE FillInv'
  OBVIOUS
<1> USE DEF headerVars, frameVars
<1>0. state = "ReadingLaceCount"
  BY DEF ReadLaceCount, Running
<1>1. PICK lace_count \in Counts : ReadByte(lace_count) /\ num_frames' = lace_count + 1
  BY DEF ReadLaceCount
<1>2. lace_count \in Byte
  BY ConstantsType
<1>3. /\ payload' \in Seq(Byte) /\ Len(payload') = Len(payload) + 1
      /\ Len(payload) \in Nat /\ Len(payload') <= MaxLaceBytes
      /\ header_bytes_read_' = header_bytes_read_ + 1 /\ num_bytes_read' = num_bytes_read + 1
      /\ header_bytes_read_' \in Nat /\ num_bytes_read' \in Nat
  BY <1>1, <1>2, ByteRead
<1>4. num_frames' \in 1 .. TwoTo(kByteBits)
  BY <1>1, <1>2, ConstantsType DEF Byte
<1>5. /\ state' = "GettingAction"
      /\ UNCHANGED << lacing, size, xiph_lace_size_, lace_sizes_, uint_parser_, current_lace_,
                      frame_metadata_, frames, status >>
  BY DEF ReadLaceCount
<1>6. LacingTypes'
  BY <1>3, <1>4, <1>5 DEF FillInv, LacingTypes, Byte, Metadata, States
<1>7. HeaderCounted'
  BY <1>0, <1>3, <1>5, ConstantsType DEF FillInv, HeaderCounted
<1>8. SizesCounted'
  BY <1>0, <1>4, <1>5 DEF FillInv, SizesCounted
<1>9. FramesCounted' /\ Returned'
  BY <1>0, <1>5 DEF FillInv, FramesCounted, Returned
<1> QED
  BY <1>6, <1>7, <1>8, <1>9 DEF FillInv

LEMMA FillGetAction == FillInv /\ GetAction => FillInv'
<1> SUFFICES ASSUME FillInv, GetAction PROVE FillInv'
  OBVIOUS
<1> USE DEF headerVars, frameVars
<1>0. state = "GettingAction" /\ num_frames \in 1 .. TwoTo(kByteBits) /\ lace_sizes_ = << >>
  BY DEF FillInv, GetAction, Running, SizesCounted
<1>1. /\ state' \in { "Skipping", "ValidatingSize", "ReadingXiphLaceSizes",
                      "ReadingFirstEbmlLaceSize", "CalculatingFixedLaceSizes" }
      /\ state' = "ValidatingSize" => num_frames = 1
      /\ state' \in { "ReadingXiphLaceSizes", "ReadingFirstEbmlLaceSize", "CalculatingFixedLaceSizes" } =>
           num_frames # 1
  BY DEF GetAction
<1>2. UNCHANGED << lacing, size, num_frames, header_bytes_read_, xiph_lace_size_, lace_sizes_,
                   uint_parser_, current_lace_, frame_metadata_, frames, status, num_bytes_read, payload >>
  BY DEF GetAction
<1>3. LacingTypes'
  BY <1>1, <1>2 DEF FillInv, LacingTypes, Byte, Metadata, States
<1>4. HeaderCounted'
  BY <1>0, <1>1, <1>2 DEF FillInv, HeaderCounted
<1>5. SizesCounted'
  <2>1. num_frames' > 1 \/ num_frames' = 1
    BY <1>0, <1>2
  <2>2. lace_sizes_' = << >> /\ Len(lace_sizes_') = 0 /\ num_frames' \in 1 .. TwoTo(kByteBits)'
    BY <1>0, <1>2
  <2> QED
    BY <1>0, <1>1, <1>2, <2>1, <2>2 DEF FillInv, SizesCounted
<1>6. FramesCounted' /\ Returned'
  BY <1>0, <1>1, <1>2 DEF FillInv, FramesCounted, Returned
<1> QED
  BY <1>3, <1>4, <1>5, <1>6 DEF FillInv

LEMMA FillReadXiph == FillInv /\ ReadXiphLaceSize => FillInv'
<1> SUFFICES ASSUME FillInv, ReadXiphLaceSize PROVE FillInv'
  OBVIOUS
<1> USE DEF headerVars, frameVars
<1>0. /\ state = "ReadingXiphLaceSizes" /\ num_frames \in 1 .. TwoTo(kByteBits)
      /\ Len(lace_sizes_) < num_frames - 1 /\ lace_sizes_ \in Seq(Nat) /\ xiph_lace_size_ \in Nat
  BY DEF FillInv, LacingTypes, ReadXiphLaceSize, Running, SizesCounted
<1>1. PICK byte \in Bytes :
        /\ ReadByte(byte)
        /\ \/ xiph_lace_size_' = xiph_lace_size_ + byte /\ lace_sizes_' = lace_sizes_
           \/ xiph_lace_size_' = 0 /\ lace_sizes_' = Append(lace_sizes_, xiph_lace_size_ + byte)
  BY DEF ReadXiphLaceSize
<1>2. byte \in Byte /\ byte \in Nat
  BY ConstantsType
<1>3. /\ payload' \in Seq(Byte) /\ Len(payload') = Len(payload) + 1
      /\ Len(payload) \in Nat /\ Len(payload') <= MaxLaceBytes
      /\ header_bytes_read_' = header_bytes_read_ + 1 /\ num_bytes_read' = num_bytes_read + 1
      /\ header_bytes_read_' \in Nat /\ num_bytes_read' \in Nat
  BY <1>1, <1>2, ByteRead
<1>4. /\ UNCHANGED << lacing, size, num_frames, uint_parser_, current_lace_,
                      frame_metadata_, frames, status >>
      /\ state' = IF SizesRead(lace_sizes_') THEN "ValidatingSize" ELSE state
  BY DEF ReadXiphLaceSize
<1>5. /\ xiph_lace_size_' \in Nat /\ lace_sizes_' \in Seq(Nat)
      /\ Len(lace_sizes_') <= Len(lace_sizes_) + 1
  <2>1. xiph_lace_size_ + byte \in Nat /\ Len(lace_sizes_) \in Nat
    BY <1>0, <1>2
  <2>2. CASE xiph_lace_size_' = xiph_lace_size_ + byte /\ lace_sizes_' = lace_sizes_
    BY <1>0, <2>1, <2>2
  <2>3. CASE xiph_lace_size_' = 0 /\ lace_sizes_' = Append(lace_sizes_, xiph_lace_size_ + byte)
    BY <1>0, <2>1, <2>3
  <2> QED
    BY <1>1, <2>2, <2>3
<1>6. /\ state' \in { "ValidatingSize", "ReadingXiphLaceSizes" }
      /\ state' = "ValidatingSize" => Len(lace_sizes_') = num_frames - 1
      /\ state' = "ReadingXiphLaceSizes" => Len(lace_sizes_') < num_frames - 1
  BY <1>0, <1>4, <1>5 DEF SizesRead
<1>7. LacingTypes'
  BY <1>3, <1>4, <1>5, <1>6 DEF FillInv, LacingTypes, Byte, Metadata, States
<1>8. HeaderCounted'
  BY <1>0, <1>3, <1>4, <1>6, ConstantsType DEF FillInv, HeaderCounted
<1>9. SizesCounted'
  BY <1>0, <1>4, <1>6 DEF FillInv, SizesCounted
<1>10. FramesCounted' /\ Returned'
  BY <1>0, <1>4, <1>6 DEF FillInv, FramesCounted, Returned
<1> QED
  BY <1>7, <1>8, <1>9, <1>10 DEF FillInv

LEMMA FillReadEbml == FillInv /\ ReadEbmlLaceSize => FillInv'
<1> SUFFICES ASSUME FillInv, ReadEbmlLaceSize PROVE FillInv'
  OBVIOUS
<1> USE DEF headerVars, frameVars
<1>0. /\ state \in { "ReadingFirstEbmlLaceSize", "ReadingEbmlLaceSizes" }
      /\ num_frames \in 1 .. TwoTo(kByteBits) /\ Len(lace_sizes_) < num_frames - 1
      /\ lace_sizes_ \in Seq(Nat) /\ uint_parser_ \in Seq(Byte)
      /\ status = "feeding"
  BY DEF FillInv, LacingTypes, ReadEbmlLaceSize, Running, SizesCounted
<1>1. PICK byte \in Bytes : \E bytes \in { Append(uint_parser_, byte) } :
        /\ ReadByte(byte)
        /\ \/ status' = "invalid" /\ UNCHANGED << state, lace_sizes_, uint_parser_ >>
           \/ UNCHANGED << status, state, lace_sizes_ >> /\ uint_parser_' = bytes
           \/ /\ UNCHANGED status /\ uint_parser_' = << >>
              /\ lace_sizes_' = Append(lace_sizes_,
                   IF lace_sizes_ = << >> THEN VarInt(bytes) ELSE NextSize(lace_sizes_, bytes))
              /\ state' = IF SizesRead(lace_sizes_') THEN "ValidatingSize" ELSE "ReadingEbmlLaceSizes"
  BY DEF ReadEbmlLaceSize
<1>2. byte \in Byte /\ byte \in Nat
  BY ConstantsType
<1>3. PICK bytes \in Seq(Byte) : bytes = Append(uint_parser_, byte) /\ Len(bytes) \in Nat \ {0}
  <2>1. PICK S : S = Byte
    OBVIOUS
  <2>2. uint_parser_ \in Seq(S) /\ byte \in S
    BY <1>0, <1>2, <2>1
  <2>3. Append(uint_parser_, byte) \in Seq(S) /\ Len(Append(uint_parser_, byte)) \in Nat \ {0}
    BY <2>2
  <2> QED
    BY <2>1, <2>3
<1>4. /\ payload' \in Seq(Byte) /\ Len(payload') = Len(payload) + 1
      /\ Len(payload) \in Nat /\ Len(payload') <= MaxLaceBytes
      /\ header_bytes_read_' = header_bytes_read_ + 1 /\ num_bytes_read' = num_bytes_read + 1
      /\ header_bytes_read_' \in Nat /\ num_bytes_read' \in Nat
  BY <1>1, <1>2, ByteRead
<1>5. UNCHANGED << lacing, size, num_frames, xiph_lace_size_, current_lace_, frame_metadata_, frames >>
  BY DEF ReadEbmlLaceSize
<1> DEFINE new == IF lace_sizes_ = << >> THEN VarInt(bytes) ELSE NextSize(lace_sizes_, bytes)
<1>6. new \in Nat
  <2>1. VarInt(bytes) \in Nat /\ Bias(Len(bytes)) \in Nat
    BY <1>3, VarIntType, BiasType
  <2>2. ASSUME lace_sizes_ # << >> PROVE NextSize(lace_sizes_, bytes) \in Nat
    <3>1. lace_sizes_[Len(lace_sizes_)] \in Nat
      BY <1>0, <2>2
    <3>2. lace_sizes_[Len(lace_sizes_)] + VarInt(bytes) - Bias(Len(bytes)) \in Int
      BY <2>1, <3>1
    <3> QED
      BY <3>2, WordType DEF NextSize
  <2> QED
    BY <2>1, <2>2
<1> HIDE DEF new
<1>7. /\ uint_parser_' \in Seq(Byte) /\ lace_sizes_' \in Seq(Nat)
      /\ state' \in { "ReadingFirstEbmlLaceSize", "ReadingEbmlLaceSizes", "ValidatingSize" }
      /\ state' = "ReadingFirstEbmlLaceSize" => state = state' /\ lace_sizes_' = lace_sizes_
      /\ state' = "ValidatingSize" => Len(lace_sizes_') = num_frames - 1
      /\ state' # "ValidatingSize" => Len(lace_sizes_') < num_frames - 1
      /\ status' \in { "feeding", "invalid" }
  <2>1. CASE status' = "invalid" /\ UNCHANGED << state, lace_sizes_, uint_parser_ >>
    BY <1>0, <2>1
  <2>2. CASE UNCHANGED << status, state, lace_sizes_ >> /\ uint_parser_' = bytes
    BY <1>0, <2>2
  <2>3. CASE /\ UNCHANGED status /\ uint_parser_' = << >>
             /\ lace_sizes_' = Append(lace_sizes_, new)
             /\ state' = IF SizesRead(lace_sizes_') THEN "ValidatingSize" ELSE "ReadingEbmlLaceSizes"
    <3>1. lace_sizes_' \in Seq(Nat) /\ Len(lace_sizes_') = Len(lace_sizes_) + 1 /\ << >> \in Seq(Byte)
      BY <1>0, <1>6, <2>3
    <3> QED
      BY <1>0, <2>3, <3>1 DEF SizesRead
  <2> QED
    BY <1>1, <1>3, <2>1, <2>2, <2>3 DEF new
<1>8. LacingTypes'
  BY <1>4, <1>5, <1>7 DEF FillInv, LacingTypes, Byte, Metadata, States
<1>9. HeaderCounted'
  <2>1. /\ num_bytes_read = header_bytes_read_ /\ frames = << >> /\ current_lace_ = 1
        /\ header_bytes_read_ = kHeader + Len(payload) /\ kHeader \in Nat
    BY <1>0, ConstantsType DEF FillInv, HeaderCounted
  <2>2. /\ num_bytes_read' = header_bytes_read_' /\ frames' = << >> /\ current_lace_' = 1
        /\ header_bytes_read_' = kHeader + Len(payload')
    BY <1>4, <1>5, <2>1
  <2>3. state' # "ReadingHeader"
    BY <1>7
  <2> QED
    BY <2>2, <2>3 DEF HeaderCounted
<1>10. SizesCounted'
  BY <1>0, <1>5, <1>7 DEF FillInv, SizesCounted
<1>11. FramesCounted' /\ Returned'
  BY <1>0, <1>5, <1>7 DEF FillInv, FramesCounted, Returned
<1> QED
  BY <1>8, <1>9, <1>10, <1>11 DEF FillInv

LEMMA FillSkip == FillInv /\ Skip => FillInv'
<1> SUFFICES ASSUME FillInv, Skip PROVE FillInv'
  OBVIOUS
<1> USE DEF headerVars, frameVars
<1>0. /\ state = "Skipping" /\ state' = state /\ header_bytes_read_ \in Nat
      /\ num_bytes_read = header_bytes_read_ /\ size \in Nat
  BY ConstantsType DEF FillInv, LacingTypes, Skip, Running, HeaderCounted
<1>1. PICK n \in 0 .. Max({0, LeftToSkip}) :
        /\ header_bytes_read_' = header_bytes_read_ + n /\ num_bytes_read' = num_bytes_read + n
        /\ status' = IF n = LeftToSkip THEN "skipped" ELSE "partial"
  BY DEF Skip
<1>2. n \in Nat
  OBVIOUS
<1>3. UNCHANGED << lacing, size, num_frames, xiph_lace_size_, lace_sizes_, uint_parser_, current_lace_,
                   frame_metadata_, frames, payload >>
  BY DEF Skip
<1>4. status' # "completed" /\ (status' = "skipped" => header_bytes_read_' = size)
  BY <1>0, <1>1, <1>2 DEF LeftToSkip
<1>5. header_bytes_read_' \in Nat /\ num_bytes_read' = header_bytes_read_'
  BY <1>0, <1>1, <1>2
<1>6. LacingTypes'
  BY <1>0, <1>3, <1>5 DEF FillInv, LacingTypes, Byte, Metadata
<1>7. HeaderCounted' /\ SizesCounted' /\ FramesCounted' /\ Returned'
  BY <1>0, <1>3, <1>4, <1>5 DEF FillInv, HeaderCounted, SizesCounted, FramesCounted, Returned
<1> QED
  BY <1>6, <1>7 DEF FillInv

\* The sizes of frames that are all new, none of which has been read.
LEMMA FreshPlan ==
  ASSUME NEW n \in Nat \ {0}, NEW lens \in Seq(Nat), Len(lens) = n,
         num_frames' = n, lace_sizes_' = lens, current_lace_' = 1, frames' = << >>,
         frame_metadata_'.size = lens[1]
  PROVE  Planned' = lens
<1>1. Planned' = [ i \in 1 .. n |-> IF i = 1 THEN lens[1] ELSE lens[i] ]
  <2>1. ASSUME NEW i \in 1 .. n
        PROVE  (IF i < 1 THEN frames'[i].size ELSE IF i = 1 THEN lens[1] ELSE lens[i])
                 = (IF i = 1 THEN lens[1] ELSE lens[i])
    OBVIOUS
  <2> QED
    BY <2>1 DEF Planned
<1>2. lens = [ i \in 1 .. n |-> lens[i] ]
  OBVIOUS
<1>3. \A i \in 1 .. n : (IF i = 1 THEN lens[1] ELSE lens[i]) = lens[i]
  OBVIOUS
<1> QED
  BY <1>1, <1>2, <1>3, Zenon

LEMMA FreshFrames ==
  ASSUME NEW n \in Nat \ {0}, NEW most \in Nat, NEW head \in Nat,
         NEW lens \in Seq(Nat), Len(lens) = n,
         num_frames' = n, lace_sizes_' = lens, current_lace_' = 1, frames' = << >>,
         frame_metadata_'.size = lens[1],
         size' = most, header_bytes_read_' = head, num_bytes_read' = head,
         (\A i \in 1 .. n : lens[i] <= most) => head + Sum(lens) = most
  PROVE  FramesCounted'
<1>1. Planned' = lens
  BY FreshPlan
<1>2. Sum(lens) \in Nat /\ lens[1] \in Nat
  BY SumBounds
<1>3. Len(frames') = 0 /\ 1 \in 1 .. n + 1
  OBVIOUS
<1> QED
  BY <1>1, <1>2, <1>3 DEF FramesCounted

LEMMA FillFixed == FillInv /\ CalculateFixedLaceSizes => FillInv'
<1> SUFFICES ASSUME FillInv, CalculateFixedLaceSizes PROVE FillInv'
  OBVIOUS
<1> USE DEF headerVars, frameVars
<1>0. /\ state = "CalculatingFixedLaceSizes" /\ status = "feeding"
      /\ num_frames \in 1 .. TwoTo(kByteBits) /\ num_frames \in Nat \ {0}
      /\ header_bytes_read_ \in Nat /\ num_bytes_read = header_bytes_read_ /\ size \in Nat
      /\ header_bytes_read_ = kHeader + Len(payload) /\ frames = << >> /\ current_lace_ = 1
  BY ConstantsType
  DEF FillInv, LacingTypes, CalculateFixedLaceSizes, Running, HeaderCounted, SizesCounted
<1>1. UNCHANGED << lacing, size, num_frames, header_bytes_read_, xiph_lace_size_, uint_parser_,
                   current_lace_, frames, num_bytes_read, payload >>
  BY DEF CalculateFixedLaceSizes
<1>2. CASE ~ Divides(size - header_bytes_read_)
  <2>1. status' = "invalid" /\ UNCHANGED << state, lace_sizes_, frame_metadata_ >>
    BY <1>2 DEF CalculateFixedLaceSizes
  <2> QED
    BY <1>1, <2>1, FillStatus
<1>3. CASE Divides(size - header_bytes_read_)
  <2>1. PICK n \in Nat \ {0}, data \in Nat, each \in Nat :
          /\ n = num_frames /\ data = size - header_bytes_read_ /\ each = data \div num_frames
          /\ n * each = data
    <3>1. PICK n \in Nat \ {0}, data \in Nat : n = num_frames /\ data = size - header_bytes_read_
      <4>1. size - header_bytes_read_ \in Nat
        BY <1>0, <1>3 DEF Divides
      <4> QED
        BY <1>0, <4>1
    <3>2. data % n = 0
      BY <3>1, <1>3 DEF Divides
    <3>3. data \div n \in Nat /\ n * (data \div n) = data
      BY <3>2
    <3> QED
      BY <3>1, <3>3
  <2>2. /\ lace_sizes_' = [ i \in 1 .. n |-> each ] /\ state' = "ReadingFrames" /\ status' = status
        /\ frame_metadata_' = [ position |-> Position + header_bytes_read_, size |-> each ]
    BY <1>3, <2>1 DEF CalculateFixedLaceSizes
  <2>3. PICK lens \in Seq(Nat) :
          lens = lace_sizes_' /\ Len(lens) = n /\ \A k \in 1 .. n : lens[k] = each
    <3>1. [ i \in 1 .. n |-> each ] \in Seq(Nat) /\ Len([ i \in 1 .. n |-> each ]) = n
      OBVIOUS
    <3> QED
      BY <2>2, <3>1
  <2>4. Sum(lens) = data
    BY <2>1, <2>3, SumSame
  <2>5. /\ frame_metadata_' \in Metadata /\ frame_metadata_'.size = lens[1]
    BY <1>0, <2>2, <2>3, ConstantsType DEF Metadata
  <2>6. LacingTypes'
    BY <1>0, <1>1, <2>2, <2>3, <2>5 DEF FillInv, LacingTypes, Byte, States, Metadata
  <2>7. HeaderCounted' /\ Returned'
    BY <1>0, <1>1, <2>2 DEF HeaderCounted, Returned
  <2>8. SizesCounted'
    BY <1>0, <1>1, <2>2 DEF SizesCounted
  <2>9. FramesCounted'
    <3>1. PICK head \in Nat, most \in Nat : head = header_bytes_read_ /\ most = size
      BY <1>0
    <3>2. head + Sum(lens) = most
      BY <2>1, <2>4, <3>1
    <3>3. /\ num_frames' = n /\ lace_sizes_' = lens /\ current_lace_' = 1 /\ frames' = << >>
          /\ size' = most /\ header_bytes_read_' = head /\ num_bytes_read' = head
      BY <1>0, <1>1, <2>1, <2>3, <3>1
    <3> QED
      BY <2>3, <2>5, <3>2, <3>3, FreshFrames
  <2> QED
    BY <2>6, <2>7, <2>8, <2>9 DEF FillInv
<1> QED
  BY <1>2, <1>3

LEMMA FillValidate == FillInv /\ ValidateSize => FillInv'
<1> SUFFICES ASSUME FillInv, ValidateSize PROVE FillInv'
  OBVIOUS
<1> USE DEF headerVars, frameVars
<1>0. /\ state = "ValidatingSize" /\ status = "feeding"
      /\ num_frames \in 1 .. TwoTo(kByteBits) /\ num_frames \in Nat \ {0}
      /\ header_bytes_read_ \in Nat /\ num_bytes_read = header_bytes_read_
      /\ size \in Nat /\ size \in Sizes
      /\ header_bytes_read_ = kHeader + Len(payload) /\ frames = << >> /\ current_lace_ = 1
      /\ lace_sizes_ \in Seq(Nat) /\ Len(lace_sizes_) = num_frames - 1
      /\ payload \in Seq(Byte) /\ Len(payload) <= MaxLaceBytes
  BY ConstantsType DEF FillInv, LacingTypes, ValidateSize, Running, HeaderCounted, SizesCounted
<1>1. UNCHANGED << lacing, size, num_frames, header_bytes_read_, xiph_lace_size_, uint_parser_,
                   current_lace_, frames, num_bytes_read, payload >>
  BY DEF ValidateSize
<1>2. PICK n \in Nat \ {0}, most \in Nat, head \in Nat, old \in Seq(Nat), total \in Nat, sum \in Nat :
        /\ n = num_frames /\ most = size /\ head = header_bytes_read_ /\ old = lace_sizes_
        /\ total = Sum(lace_sizes_) /\ sum = Word(header_bytes_read_ + Sum(lace_sizes_))
  <2>1. Sum(lace_sizes_) \in Nat
    BY <1>0, SumBounds
  <2>2. header_bytes_read_ + Sum(lace_sizes_) \in Int
    BY <1>0, <2>1
  <2> QED
    BY <1>0, <2>1, <2>2, WordType
<1>3. CASE ~ (sum < most)
  <2>1. status' = "invalid" /\ UNCHANGED << state, lace_sizes_, frame_metadata_ >>
    BY <1>2, <1>3 DEF ValidateSize
  <2> QED
    BY <1>1, <2>1, FillStatus
<1>4. CASE sum < most
  <2>1. /\ lace_sizes_' = Append(old, most - sum) /\ state' = "ReadingFrames" /\ status' = status
        /\ frame_metadata_' =
             [ position |-> Position + HeaderSize + header_bytes_read_, size |-> lace_sizes_'[1] ]
    BY <1>2, <1>4 DEF ValidateSize
  <2>2. PICK rest \in Nat : rest = most - sum /\ rest + sum = most
    <3>1. most - sum \in Nat /\ most - sum + sum = most
      BY <1>4
    <3> QED
      BY <3>1
  <2>3. PICK lens \in Seq(Nat) :
          /\ lens = lace_sizes_' /\ lens = Append(old, rest) /\ Len(lens) = n
          /\ \A k \in 1 .. n - 1 : lens[k] = old[k]
    <3>1. /\ Append(old, rest) \in Seq(Nat) /\ Len(Append(old, rest)) = n
          /\ \A k \in 1 .. n - 1 : Append(old, rest)[k] = old[k]
      BY <1>0, <1>2
    <3> QED
      BY <2>1, <2>2, <3>1
  <2>4. Sum(lens) = total + rest
    <3>1. old \in Seq(Int) /\ rest \in Int
      BY <1>2
    <3> QED
      BY <1>2, <2>3, <3>1, SumAppend
  <2>5. (\A i \in 1 .. n : lens[i] <= most) => head + Sum(lens) = most
    <3>1. SUFFICES ASSUME \A i \in 1 .. n : lens[i] <= most PROVE head + Sum(lens) = most
      OBVIOUS
    <3>2. n - 1 = Len(old) /\ \A k \in 1 .. Len(old) : old[k] <= most
      <4>1. n - 1 = Len(old)
        BY <1>0, <1>2
      <4>2. \A k \in 1 .. n - 1 : k \in 1 .. n
        OBVIOUS
      <4> QED
        BY <2>3, <3>1, <4>1, <4>2
    <3>3. total <= Len(old) * most
      BY <1>2, <3>2, SumBounds
    <3>4. head + (n - 1) * most < TwoTo(kWordBits)
      <4>1. most < TwoTo(DataBits(kByteBits))
        BY <1>0, <1>2, WordAssumption
      <4>2. head < TwoTo(DataBits(kByteBits))
        <5>1. DataBits(kByteBits) \in Nat
          BY LacingAssumption, DataBitsType
        <5>2. TwoTo(DataBits(kByteBits)) \in Nat
          BY <5>1, TwoToType
        <5>3. head <= kHeader + MaxLaceBytes /\ kHeader + MaxLaceBytes \in Nat
          BY <1>0, <1>2, ConstantsType
        <5> QED
          BY <5>2, <5>3, WordAssumption
      <4>3. n \in 1 .. TwoTo(kByteBits)
        BY <1>0, <1>2
      <4> QED
        BY <4>1, <4>2, <4>3, NoOverflow
    <3>5. head + total < TwoTo(kWordBits)
      <4>1. PICK k \in Nat : k = Len(old) /\ k = n - 1
        BY <3>2
      <4>2. k * most \in Nat
        BY ProductType
      <4>3. TwoTo(kWordBits) \in Nat
        BY WordAssumption, TwoToType
      <4> QED
        BY <3>3, <3>4, <4>1, <4>2, <4>3
    <3>6. sum = head + total
      <4>1. head + total \in Int /\ head + total >= 0
        OBVIOUS
      <4> QED
        BY <1>2, <3>5, <4>1, WordType
    <3> QED
      BY <2>2, <2>4, <3>6
  <2>6. lens[1] \in Nat
    BY <2>3
  <2>7. frame_metadata_' \in Metadata /\ frame_metadata_'.size = lens[1]
    BY <1>0, <2>1, <2>3, <2>6, ConstantsType DEF Metadata
  <2>8. LacingTypes'
    BY <1>0, <1>1, <2>1, <2>3, <2>7 DEF FillInv, LacingTypes, Byte, States, Metadata
  <2>9. HeaderCounted' /\ Returned'
    BY <1>0, <1>1, <2>1 DEF HeaderCounted, Returned
  <2>10. SizesCounted'
    BY <1>0, <1>1, <2>1 DEF SizesCounted
  <2>11. FramesCounted'
    <3>1. /\ num_frames' = n /\ lace_sizes_' = lens /\ current_lace_' = 1 /\ frames' = << >>
          /\ size' = most /\ header_bytes_read_' = head /\ num_bytes_read' = head
      BY <1>0, <1>1, <1>2, <2>3
    <3> QED
      BY <2>3, <2>5, <2>7, <3>1, FreshFrames
  <2> QED
    BY <2>8, <2>9, <2>10, <2>11 DEF FillInv
<1> QED
  BY <1>3, <1>4

\* What the frames that are read mean for the sizes.
LEMMA PlannedType ==
  ASSUME FillInv, state \in { "ReadingFrames", "Done" }
  PROVE  Planned \in Seq(Nat) /\ Len(Planned) = num_frames /\ num_frames \in Nat
<1>1. /\ num_frames \in Nat /\ lace_sizes_ \in Seq(Nat) /\ Len(lace_sizes_) = num_frames
      /\ current_lace_ \in Nat \ {0} /\ frames \in Seq(Metadata) /\ Len(frames) = current_lace_ - 1
      /\ frame_metadata_ \in Metadata
  BY DEF FillInv, LacingTypes, FramesCounted
<1>2. \A m \in Metadata : m.size \in Nat
  BY DEF Metadata
<1>3. PICK S : S = Metadata
  OBVIOUS
<1>4. \A i \in 1 .. Len(frames) : frames[i] \in S
  BY <1>1, <1>3
<1>5. ASSUME NEW i \in 1 .. num_frames
      PROVE  (IF i < current_lace_ THEN frames[i].size
              ELSE IF i = current_lace_ THEN frame_metadata_.size ELSE lace_sizes_[i]) \in Nat
  <2>1. CASE i < current_lace_
    <3>1. i \in 1 .. Len(frames)
      BY <1>1, <2>1
    <3>2. frames[i].size \in Nat
      BY <3>1, <1>2, <1>3, <1>4
    <3> QED
      BY <2>1, <3>2
  <2>2. CASE ~ (i < current_lace_)
    BY <1>1, <1>2, <2>2
  <2> QED
    BY <2>1, <2>2
<1>6. Planned \in [ 1 .. num_frames -> Nat ]
  BY <1>5 DEF Planned
<1> QED
  BY <1>1, <1>6

LEMMA FillReadFrame == FillInv /\ ReadFrame => FillInv' /\ Planned' = Planned
<1> SUFFICES ASSUME FillInv, ReadFrame PROVE FillInv' /\ Planned' = Planned
  OBVIOUS
<1> USE DEF headerVars, frameVars
<1>0. /\ state = "ReadingFrames" /\ status = "feeding" /\ state' = state
      /\ UNCHANGED << lacing, size, num_frames, header_bytes_read_, xiph_lace_size_, uint_parser_, payload >>
      /\ size \in Nat /\ header_bytes_read_ \in Nat /\ num_bytes_read \in Nat
  BY ConstantsType DEF FillInv, LacingTypes, ReadFrame, Running
<1>1. PICK n \in Nat, c \in Nat \ {0}, most \in Nat, old \in Seq(Nat) :
        n = num_frames /\ c = current_lace_ /\ most = size /\ old = lace_sizes_
  BY <1>0 DEF FillInv, LacingTypes
<1>2. /\ Len(old) = n /\ c \in 1 .. n + 1 /\ Len(frames) = c - 1
      /\ frames \in Seq(Metadata) /\ frame_metadata_ \in Metadata
      /\ \A i \in 1 .. c - 1 : frames[i].size <= most /\ old[i] = 0
      /\ \A i \in 1 .. c - 2 : frames[i + 1].position = frames[i].position + frames[i].size
      /\ c > 1 => frame_metadata_.position = frames[c - 1].position + frames[c - 1].size
      /\ c <= n /\ old[c] <= frame_metadata_.size /\ old[c] <= most
      /\ old[c] = frame_metadata_.size \/ frame_metadata_.size <= most
  BY <1>0, <1>1 DEF FillInv, LacingTypes, FramesCounted, ReadFrame
<1>3. PICK k \in Nat :
        /\ k <= old[c] /\ num_bytes_read' = num_bytes_read + k
        /\ lace_sizes_' = [ old EXCEPT ![c] = @ - k ]
  <2>1. PICK k \in 0 .. lace_sizes_[current_lace_] :
          /\ num_bytes_read' = num_bytes_read + k
          /\ lace_sizes_' = [ lace_sizes_ EXCEPT ![current_lace_] = @ - k ]
    BY DEF ReadFrame
  <2>2. old[c] \in Nat /\ k \in 0 .. old[c]
    BY <1>1, <1>2, <2>1
  <2>3. k \in Nat /\ k <= old[c]
    BY <2>2
  <2>4. lace_sizes_' = [ old EXCEPT ![c] = @ - k ]
    BY <1>1, <2>1, Zenon
  <2> QED
    BY <2>1, <2>3, <2>4
<1>4. c \in 1 .. n /\ old[c] \in Nat /\ old[c] - k \in Nat
  BY <1>2, <1>3, SMTT(40)
<1>5. PICK new \in Seq(Nat) :
        /\ new = lace_sizes_' /\ Len(new) = n /\ new[c] = old[c] - k
        /\ \A i \in 1 .. n : i # c => new[i] = old[i]
  <2>1. /\ [ old EXCEPT ![c] = @ - k ] \in Seq(Nat) /\ Len([ old EXCEPT ![c] = @ - k ]) = n
        /\ [ old EXCEPT ![c] = @ - k ][c] = old[c] - k
        /\ \A i \in 1 .. n : i # c => [ old EXCEPT ![c] = @ - k ][i] = old[i]
    BY <1>2, <1>4
  <2> QED
    BY <1>3, <2>1
<1>6. Sum(new) = Sum(old) - k /\ Sum(old) \in Nat /\ Sum(new) \in Nat
  <2>1. Changed(old, new, c, n)
    BY <1>2, <1>4, <1>5 DEF Changed
  <2>2. old \in Seq(Int) /\ new \in Seq(Int)
    OBVIOUS
  <2>3. Sum(new) = Sum(old) - old[c] + new[c]
    BY <2>1, <2>2, SumChange, Zenon
  <2>4. Sum(old) \in Nat /\ Sum(new) \in Nat
    BY SumBounds
  <2> QED
    BY <1>4, <1>5, <2>3, <2>4
<1>7. PICK plan \in Seq(Nat) :
        /\ plan = Planned /\ Len(plan) = n
        /\ (\A i \in 1 .. n : plan[i] <= most) => header_bytes_read_ + Sum(plan) = most
        /\ num_bytes_read = header_bytes_read_ + Sum(plan) - Sum(old)
  <2>1. Planned \in Seq(Nat) /\ Len(Planned) = num_frames
    BY <1>0, PlannedType
  <2>2. /\ (\A i \in 1 .. num_frames : Planned[i] <= size) => header_bytes_read_ + Sum(Planned) = size
        /\ num_bytes_read = header_bytes_read_ + Sum(Planned) - Sum(lace_sizes_)
    BY <1>0 DEF FillInv, FramesCounted
  <2>3. PICK plan \in Seq(Nat) : plan = Planned
    BY <2>1
  <2> QED
    BY <1>1, <2>1, <2>2, <2>3, Zenon
<1>8. frame_metadata_.size \in Nat /\ frame_metadata_.position \in Nat /\ frame_metadata_.size <= most
  BY <1>2, <1>4 DEF Metadata
<1>9. num_bytes_read' \in Nat /\ num_bytes_read' = header_bytes_read_ + Sum(plan) - Sum(new)
  <2>1. Sum(plan) \in Nat
    BY SumBounds
  <2>2. PICK h \in Nat, p \in Nat, o \in Nat, w \in Nat, r \in Nat :
          /\ h = header_bytes_read_ /\ p = Sum(plan) /\ o = Sum(old) /\ w = Sum(new)
          /\ r = num_bytes_read
    BY <1>0, <1>6, <2>1, Zenon
  <2>3. w = o - k /\ r = h + p - o /\ num_bytes_read' = r + k
    BY <1>3, <1>6, <1>7, <2>2, Zenon
  <2>4. r + k \in Nat /\ r + k = h + p - w
    BY <2>3
  <2> QED
    BY <2>2, <2>3, <2>4, Zenon
<1>10. CASE new[c] > 0
  <2>1. /\ status' = "partial" /\ frames' = frames /\ current_lace_' = c
        /\ frame_metadata_' = frame_metadata_
    BY <1>1, <1>5, <1>10 DEF ReadFrame
  <2>2. Planned' = plan
    <3>1. \A i \in 1 .. n : i > c => new[i] = old[i]
      BY <1>5
    <3> QED
      BY <1>0, <1>1, <1>5, <1>7, <2>1, <3>1 DEF Planned
  <2>3. LacingTypes'
    BY <1>0, <1>1, <1>5, <1>9, <2>1 DEF FillInv, LacingTypes, Byte, Metadata
  <2>4. HeaderCounted' /\ SizesCounted' /\ Returned'
    BY <1>0, <2>1 DEF FillInv, HeaderCounted, SizesCounted, Returned
  <2>5. \A i \in 1 .. c - 1 : frames[i].size <= most /\ new[i] = 0
    BY <1>2, <1>5, SMTT(40)
  <2>6. FramesCounted'
    <3>1. /\ num_frames' = n /\ size' = most /\ lace_sizes_' = new
          /\ header_bytes_read_' = header_bytes_read_
      BY <1>0, <1>1, <1>5
    <3>2. new[c] <= frame_metadata_.size
      BY <1>2, <1>3, <1>4, <1>5, <1>8, SMTT(40)
    <3> QED
      BY <1>2, <1>5, <1>7, <1>8, <1>9, <2>1, <2>2, <2>5, <3>1, <3>2 DEF FramesCounted
  <2> QED
    BY <1>7, <2>2, <2>3, <2>4, <2>6 DEF FillInv
<1>11. CASE ~ (new[c] > 0)
  <2>1. /\ status' = status /\ frames' = Append(frames, frame_metadata_) /\ current_lace_' = c + 1
        /\ frame_metadata_' =
             IF c = n THEN frame_metadata_
             ELSE [ position |-> frame_metadata_.position + frame_metadata_.size, size |-> old[c + 1] ]
    BY <1>1, <1>2, <1>5, <1>11 DEF ReadFrame
  <2>2. PICK read \in Seq(Metadata) :
          /\ read = frames' /\ Len(read) = c /\ read[c] = frame_metadata_
          /\ \A i \in 1 .. c - 1 : read[i] = frames[i]
    <3>1. PICK S : S = Metadata
      OBVIOUS
    <3>2. frames \in Seq(S) /\ frame_metadata_ \in S
      BY <1>2, <3>1
    <3>3. /\ Append(frames, frame_metadata_) \in Seq(S) /\ Len(Append(frames, frame_metadata_)) = c
          /\ Append(frames, frame_metadata_)[c] = frame_metadata_
          /\ \A i \in 1 .. c - 1 : Append(frames, frame_metadata_)[i] = frames[i]
      BY <1>2, <3>2
    <3> QED
      BY <2>1, <3>1, <3>3
  <2>3. frame_metadata_' \in Metadata
    <3>1. CASE c = n
      BY <1>2, <2>1, <3>1
    <3>2. CASE c # n
      <4>1. old[c + 1] \in Nat
        <5>1. old \in Seq(Nat) /\ c + 1 \in 1 .. Len(old)
          BY <1>2, <3>2
        <5> QED
          BY <5>1, ElementOfSeq
      <4> QED
        BY <1>8, <2>1, <3>2, <4>1 DEF Metadata
    <3> QED
      BY <3>1, <3>2
  <2>4. Planned' = plan
    <3>1. n = num_frames'
      BY <1>0, <1>1
    <3>2. Planned' = [ i \in 1 .. n |->
             IF i < c + 1 THEN read[i].size
             ELSE IF i = c + 1 THEN frame_metadata_'.size ELSE new[i] ]
      BY <1>5, <2>1, <2>2, <3>1 DEF Planned
    <3>3. plan = [ i \in 1 .. n |->
             IF i < c THEN frames[i].size
             ELSE IF i = c THEN frame_metadata_.size ELSE old[i] ]
      BY <1>1, <1>7 DEF Planned
    <3>4. ASSUME NEW i \in 1 .. n
          PROVE  (IF i < c + 1 THEN read[i].size
                  ELSE IF i = c + 1 THEN frame_metadata_'.size ELSE new[i])
                 = (IF i < c THEN frames[i].size
                    ELSE IF i = c THEN frame_metadata_.size ELSE old[i])
      <4>1. CASE i < c
        BY <2>2, <4>1
      <4>2. CASE i = c
        BY <2>2, <4>2
      <4>3. CASE i = c + 1
        BY <2>1, <4>3
      <4>4. CASE i > c + 1
        <5>1. ~ (i < c + 1) /\ i # c + 1 /\ ~ (i < c) /\ i # c
          BY <4>4
        <5>2. new[i] = old[i]
          BY <1>5, <5>1, Zenon
        <5> QED
          BY <5>1, <5>2, Zenon
      <4> QED
        BY <4>1, <4>2, <4>3, <4>4
    <3> QED
      BY <3>2, <3>3, <3>4, Zenon
  <2>5. LacingTypes'
    <3>1. c + 1 \in Nat \ {0}
      OBVIOUS
    <3> QED
      BY <1>0, <1>1, <1>5, <1>9, <2>1, <2>2, <2>3, <3>1 DEF FillInv, LacingTypes, Byte
  <2>6. HeaderCounted' /\ SizesCounted' /\ Returned'
    BY <1>0, <2>1 DEF FillInv, HeaderCounted, SizesCounted, Returned
  <2>7. \A i \in 1 .. c : read[i].size <= most /\ new[i] = 0
    <3>1. new[c] = 0
      BY <1>4, <1>5, <1>11
    <3>2. ASSUME NEW i \in 1 .. c PROVE read[i].size <= most /\ new[i] = 0
      <4>1. CASE i = c
        BY <1>8, <2>2, <3>1, <4>1
      <4>2. CASE i # c
        <5>1. i \in 1 .. c - 1 /\ i \in 1 .. n
          BY <1>2, <4>2
        <5> QED
          BY <1>2, <1>5, <2>2, <4>2, <5>1
      <4> QED
        BY <4>1, <4>2
    <3> QED
      BY <3>2
  <2>8. \A i \in 1 .. c - 1 : read[i + 1].position = read[i].position + read[i].size
    <3>1. ASSUME NEW i \in 1 .. c - 1
          PROVE  read[i + 1].position = read[i].position + read[i].size
      <4>1. CASE i = c - 1
        <5>1. i + 1 = c /\ c > 1
          BY <4>1
        <5>2. read[i] = frames[i]
          BY <2>2
        <5> QED
          BY <1>2, <2>2, <4>1, <5>1, <5>2
      <4>2. CASE i # c - 1
        <5>1. i \in 1 .. c - 2 /\ i + 1 \in 1 .. c - 1
          BY <4>2
        <5> QED
          BY <1>2, <2>2, <5>1
      <4> QED
        BY <4>1, <4>2
    <3> QED
      BY <3>1
  <2>9. FramesCounted'
    <3>1. /\ num_frames' = n /\ size' = most /\ lace_sizes_' = new
          /\ header_bytes_read_' = header_bytes_read_ /\ frames' = read /\ current_lace_' = c + 1
      BY <1>0, <1>1, <1>5, <2>1, <2>2
    <3>2. /\ Len(new) = n /\ c + 1 \in 1 .. n + 1 /\ Len(read) = c + 1 - 1
          /\ c + 1 - 1 = c /\ c + 1 - 2 = c - 1
      BY <1>4, <1>5, <2>2
    <3>3. ASSUME c + 1 <= n
          PROVE  /\ frame_metadata_'.position = read[c].position + read[c].size
                 /\ new[c + 1] = frame_metadata_'.size /\ new[c + 1] \in Nat
      <4>1. c + 1 \in 1 .. n /\ c # n
        BY <3>3
      <4>2. new[c + 1] = old[c + 1]
        BY <1>5, <4>1
      <4>3. new[c + 1] \in Nat
        BY <1>5, <4>1
      <4> QED
        BY <2>1, <2>2, <4>1, <4>2, <4>3
    <3>4. c + 1 <= n => new[c + 1] <= frame_metadata_'.size
      <4>1. \A x \in Nat : x <= x
        OBVIOUS
      <4> QED
        BY <3>3, <4>1
    <3>5. /\ (\A i \in 1 .. n : Planned'[i] <= most) => header_bytes_read_ + Sum(Planned') = most
          /\ num_bytes_read' = header_bytes_read_ + Sum(Planned') - Sum(new)
      BY <1>7, <1>9, <2>4
    <3> QED
      BY <2>7, <2>8, <3>1, <3>2, <3>3, <3>4, <3>5, SMTT(40) DEF FramesCounted
  <2> QED
    BY <1>7, <2>4, <2>5, <2>6, <2>9 DEF FillInv
<1> QED
  BY <1>10, <1>11

LEMMA FillFramesRead == FillInv /\ FramesRead => FillInv'
<1> SUFFICES ASSUME FillInv, FramesRead PROVE FillInv'
  OBVIOUS
<1> USE DEF headerVars, frameVars
<1>0. /\ state = "ReadingFrames" /\ state' = "Done" /\ status' = "completed"
      /\ current_lace_ > Len(lace_sizes_)
      /\ UNCHANGED << lacing, size, num_frames, header_bytes_read_, xiph_lace_size_, lace_sizes_,
                      uint_parser_, current_lace_, frame_metadata_, frames, num_bytes_read, payload >>
  BY DEF FramesRead, Running
<1>1. num_frames \in Nat /\ Len(lace_sizes_) = num_frames /\ current_lace_ \in 1 .. num_frames + 1
  BY <1>0 DEF FillInv, LacingTypes, FramesCounted
<1>2. current_lace_ = num_frames + 1
  BY <1>0, <1>1
<1>3. LacingTypes'
  BY <1>0 DEF FillInv, LacingTypes, Byte, Metadata, States
<1>4. HeaderCounted' /\ SizesCounted'
  BY <1>0 DEF FillInv, HeaderCounted, SizesCounted
<1>5. FramesCounted'
  <2>1. Planned' = Planned
    BY <1>0 DEF Planned
  <2> QED
    BY <1>0, <2>1 DEF FillInv, FramesCounted
<1>6. Returned'
  BY <1>0, <1>2 DEF Returned
<1> QED
  BY <1>3, <1>4, <1>5, <1>6 DEF FillInv

LEMMA FillStutter == FillInv /\ UNCHANGED vars => FillInv'
<1> SUFFICES ASSUME FillInv, UNCHANGED vars PROVE FillInv'
  OBVIOUS
<1> USE DEF FillInv, vars, headerVars, frameVars
<1>1. LacingTypes'
  BY DEF LacingTypes, Byte, Metadata
<1>2. HeaderCounted' /\ SizesCounted' /\ Returned'
  BY DEF HeaderCounted, SizesCounted, Returned
<1>3. FramesCounted'
  <2>1. Planned' = Planned
    BY DEF Planned
  <2> QED
    BY <2>1 DEF FramesCounted
<1> QED
  BY <1>1, <1>2, <1>3

LEMMA FillStep == FillInv /\ [Next]_vars => FillInv'
<1> SUFFICES ASSUME FillInv, [Next]_vars PROVE FillInv'
  OBVIOUS
<1>1. CASE Feed
  BY <1>1, FillStatus DEF Feed
<1>2. CASE Interrupted
  BY <1>2, FillStatus DEF Interrupted
<1>3. CASE FrameBeyondBlock
  BY <1>3, FillStatus DEF FrameBeyondBlock
<1> QED
  BY <1>1, <1>2, <1>3, FillReadHeader, FillReadLaceCount, FillGetAction, FillReadXiph, FillReadEbml,
     FillFixed, FillValidate, FillSkip, FillReadFrame, FillFramesRead, FillStutter
  DEF Next

\* The lengths of the frames that were delivered are the sizes that were planned.
LEMMA LensPlanned ==
  ASSUME FillInv, state = "Done"
  PROVE  /\ Len(frames) = num_frames /\ Lens = Planned
         /\ \A i \in 1 .. num_frames - 1 :
              frames[i + 1].position = frames[i].position + frames[i].size
         /\ \A i \in 1 .. num_frames : Planned[i] <= size
         /\ Sum(lace_sizes_) = 0
<1>1. PICK n \in Nat : n = num_frames
  BY DEF FillInv, LacingTypes
<1>2. /\ current_lace_ = n + 1 /\ Len(frames) = n /\ frames \in Seq(Metadata)
      /\ lace_sizes_ \in Seq(Nat) /\ Len(lace_sizes_) = n
  BY <1>1 DEF FillInv, LacingTypes, Returned, FramesCounted
<1>3. /\ \A i \in 1 .. n : frames[i].size <= size /\ lace_sizes_[i] = 0
      /\ \A i \in 1 .. n - 1 : frames[i + 1].position = frames[i].position + frames[i].size
  <2>1. n + 1 - 1 = n /\ n + 1 - 2 = n - 1
    OBVIOUS
  <2>2. /\ \A i \in 1 .. current_lace_ - 1 : frames[i].size <= size /\ lace_sizes_[i] = 0
        /\ \A i \in 1 .. current_lace_ - 2 :
             frames[i + 1].position = frames[i].position + frames[i].size
    BY DEF FillInv, FramesCounted
  <2> QED
    BY <1>2, <2>1, <2>2
<1>4. Planned = [ i \in 1 .. n |-> frames[i].size ]
  <2>1. \A i \in 1 .. n : i < n + 1
    OBVIOUS
  <2> QED
    BY <1>1, <1>2, <2>1 DEF Planned
<1>5. DOMAIN frames = 1 .. n
  BY <1>2
<1>6. Lens = Planned
  BY <1>4, <1>5 DEF Lens
<1>7. \A i \in 1 .. n : Planned[i] <= size
  BY <1>3, <1>4
<1>8. Sum(lace_sizes_) = 0
  <2>1. Sum(lace_sizes_) = n * 0
    BY <1>2, <1>3, SumSame
  <2> QED
    BY <2>1
<1> QED
  BY <1>1, <1>2, <1>3, <1>6, <1>7, <1>8

LEMMA FillShows == FillInv => FramesFillBlock
<1> SUFFICES ASSUME FillInv PROVE FramesFillBlock
  OBVIOUS
<1>1. ASSUME status = "completed"
      PROVE  /\ Len(frames) = num_frames
             /\ \A i \in 1 .. num_frames - 1 :
                  frames[i + 1].position = frames[i].position + frames[i].size
             /\ header_bytes_read_ + Sum(Lens) = size
             /\ num_bytes_read = size
  <2>1. state = "Done"
    BY <1>1 DEF FillInv, Returned
  <2>2. /\ Len(frames) = num_frames /\ Lens = Planned
        /\ \A i \in 1 .. num_frames - 1 :
             frames[i + 1].position = frames[i].position + frames[i].size
        /\ \A i \in 1 .. num_frames : Planned[i] <= size
        /\ Sum(lace_sizes_) = 0
    BY <2>1, LensPlanned
  <2>3. /\ header_bytes_read_ + Sum(Planned) = size
        /\ num_bytes_read = header_bytes_read_ + Sum(Planned) - Sum(lace_sizes_)
    BY <2>1, <2>2 DEF FillInv, FramesCounted
  <2>4. size \in Nat
    BY ConstantsType DEF FillInv, LacingTypes
  <2>5. num_bytes_read = size - 0
    <3>1. Sum(lace_sizes_) = 0
      BY <2>2
    <3>2. num_bytes_read = header_bytes_read_ + Sum(Planned) - Sum(lace_sizes_)
      BY <2>3
    <3>3. header_bytes_read_ + Sum(Planned) = size
      BY <2>3
    <3>4. PICK whole \in Nat, h \in Nat : whole = Sum(Planned) /\ h = header_bytes_read_
      <4>1. Sum(Planned) \in Nat
        BY <2>1, PlannedType, SumBounds
      <4>2. header_bytes_read_ \in Nat
        BY DEF FillInv, LacingTypes
      <4> QED
        BY <4>1, <4>2
    <3>5. num_bytes_read = h + whole - 0 /\ h + whole = size
      BY <3>1, <3>2, <3>3, <3>4, Zenon
    <3> QED
      BY <2>4, <3>5
  <2> QED
    BY <2>2, <2>3, <2>4, <2>5
<1>2. ASSUME status = "skipped" PROVE num_bytes_read = size
  BY <1>2 DEF FillInv, Returned, HeaderCounted
<1> QED
  BY <1>1, <1>2 DEF FramesFillBlock

\* The frames of a block follow each other up to its end, one for each that was
\* announced, and the calls of Feed say that they have read the block, no less and
\* no more (BasicBlockParser::Feed), however its calls are cut.
THEOREM FramesFill == Spec => []FramesFillBlock
<1>1. Init => FillInv
  BY FillInit
<1>2. FillInv /\ [Next]_vars => FillInv'
  BY FillStep
<1>3. FillInv => FramesFillBlock
  BY FillShows
<1> QED
  BY <1>1, <1>2, <1>3, PTL DEF Spec

-----------------------------------------------------------------------------
(* Both parsers find the same frames.                                       *)

\* What the block may be after what was read of it.
Blocks ==
  { b \in [ 1 .. size - kHeader -> Byte ] :
      \A i \in 1 .. Len(payload) : i \in DOMAIN b => b[i] = payload[i] }

SizeStates == { "ReadingXiphLaceSizes", "ReadingFirstEbmlLaceSize", "ReadingEbmlLaceSizes", "ValidatingSize" }

\* What the lace count says, and which states each lacing goes through.
Announced ==
  /\ state \in { "ReadingHeader", "ReadingLaceCount" } => payload = << >>
  /\ state = "ReadingLaceCount" => lacing # "none"
  /\ state \notin { "ReadingHeader", "ReadingLaceCount" } =>
       IF lacing = "none" THEN num_frames = 1 /\ payload = << >>
       ELSE payload # << >> /\ num_frames = payload[1] + 1
  /\ state \in { "ReadingHeader", "ReadingLaceCount", "GettingAction" } => xiph_lace_size_ = 0
  /\ state \notin { "ReadingFirstEbmlLaceSize", "ReadingEbmlLaceSizes" } => uint_parser_ = << >>
  /\ state \in { "GettingAction", "CalculatingFixedLaceSizes" } /\ lacing # "none" => Len(payload) = 1
  /\ state = "ReadingXiphLaceSizes" => lacing = "xiph"
  /\ state \in { "ReadingFirstEbmlLaceSize", "ReadingEbmlLaceSizes" } => lacing = "ebml"
  /\ state = "ReadingEbmlLaceSizes" => lace_sizes_ # << >>
  /\ state = "CalculatingFixedLaceSizes" => lacing = "fixed"
  /\ state = "ValidatingSize" /\ lacing = "fixed" => num_frames = 1 /\ Len(payload) = 1

\* The number that is being read lacks a byte.
Incomplete(bytes) == bytes # << >> => bytes[1] # 0 /\ Len(bytes) <= LeadingZeros(bytes[1])
Unfinished == Incomplete(uint_parser_)

\* mkvparser has this of the block b before it where webm_parser has read p bytes,
\* the last n of which belong to a size that is not complete.
Before(rest, b, p, n) ==
  rest \in Seq(Byte) /\ Len(rest) = Len(b) - p + n /\ \A i \in 1 .. Len(rest) : rest[i] = b[p - n + i]

\* Bytes that a size goes on behind.
Full(rest, n) == \A i \in 1 .. n : rest[i] = TwoTo(kByteBits) - 1

XiphStep(b) ==
  \E laced \in { XiphSizes(Tail(b), Len(lace_sizes_)) } : \E n \in 0 .. Len(payload) :
    /\ laced.sizes = lace_sizes_ /\ Before(laced.rest, b, Len(payload), n)
    /\ Full(laced.rest, n)
    /\ xiph_lace_size_ = Sum(SubSeq(laced.rest, 1, n))
    /\ state = "ValidatingSize" => n = 0

\* The number that is being read is the next that mkvparser has before it.
Begun(rest, b, p, bytes) == Before(rest, b, p, Len(bytes)) /\ \A i \in 1 .. Len(bytes) : bytes[i] = rest[i]
NumberBegun(rest, b) == Begun(rest, b, Len(payload), uint_parser_)

\* The sizes are equal if one of the parsers has none that is larger than the block.
SizesAgree(sizes, words, most) ==
  /\ sizes \in Seq(Int) /\ Len(sizes) = Len(words)
  /\ (\A i \in 1 .. Len(sizes) : words[i] <= most) \/ (\A i \in 1 .. Len(sizes) : sizes[i] \in 0 .. most)
     => sizes = words

First(b) == ReadUInt(Tail(b))

\* What mkvparser has of the sizes, n of them behind the first.
EbmlLaced(b, n) == EbmlSizes(First(b).value, First(b).rest, n)

EbmlStep(b) ==
  \E laced \in { EbmlLaced(b, Len(lace_sizes_) - 1) } :
    /\ First(b).value = lace_sizes_[1] /\ Len(laced.rest) <= Len(First(b).rest)
    /\ SizesAgree(laced.sizes, lace_sizes_, size) /\ NumberBegun(laced.rest, b)

InStep(b) ==
  /\ lacing = "xiph" => XiphStep(b)
  /\ lacing = "ebml" => IF lace_sizes_ = << >> THEN NumberBegun(Tail(b), b) ELSE EbmlStep(b)

SameFrames(b) ==
  /\ Parse(b) # Refused => Planned = Parse(b) /\ \A i \in 1 .. num_frames : Planned[i] <= size
  /\ (\A i \in 1 .. num_frames : Planned[i] > 0 /\ Planned[i] <= size) => Planned = Parse(b)

Agreement ==
  ~ SingleEbml => \A b \in Blocks :
    /\ status \in { "invalid", "beyond" } => Parse(b) = Refused
    /\ status # "invalid" /\ state \in SizeStates =>
         IF Len(payload) > Len(b) THEN Parse(b) = Refused ELSE InStep(b)
    /\ state \in { "ReadingFrames", "Done" } => SameFrames(b)

AgreeInv == FillInv /\ Announced /\ Unfinished /\ Agreement

\* The least of some naturals.
LEMMA LeastOf ==
  ASSUME NEW E, E \subseteq Nat, E # {}
  PROVE  Min(E) \in E /\ \A y \in E : Min(E) <= y
<1>1. PICK m \in E : \A y \in E : m <= y
  <2> SUFFICES ASSUME \A m \in E : \E y \in E : ~ (m <= y) PROVE FALSE
    OBVIOUS
  <2> DEFINE T == { n \in Nat : \A y \in E : n <= y }
  <2>1. 0 \in T
    OBVIOUS
  <2>2. ASSUME NEW n \in Nat, n \in T PROVE n + 1 \in T
    <3>1. n \notin E
      BY <2>2
    <3>2. ASSUME NEW y \in E PROVE n + 1 <= y
      <4>1. n <= y /\ y # n /\ y \in Nat
        BY <2>2, <3>1
      <4> QED
        BY <4>1
    <3> QED
      BY <3>2
  <2>3. Nat \subseteq T
    <3> HIDE DEF T
    <3> QED
      BY <2>1, <2>2, NatSetInduction
  <2>4. PICK e \in E : e \in Nat
    OBVIOUS
  <2>5. e + 1 \in T
    <3>1. e + 1 \in Nat
      BY <2>4
    <3> QED
      BY <2>3, <3>1, Zenon
  <2>6. e + 1 <= e
    BY <2>5
  <2> QED
    BY <2>4, <2>6
<1> QED
  BY <1>1 DEF Min

LEMMA LeastIs ==
  ASSUME NEW E, E \subseteq Nat, NEW m \in E, \A y \in E : m <= y
  PROVE  Min(E) = m
<1>1. PICK least \in E : least = Min(E) /\ least <= m
  BY LeastOf
<1>2. m <= least /\ m \in Nat /\ least \in Nat
  OBVIOUS
<1> QED
  BY <1>1, <1>2

\* What is behind the first n elements of a sequence, and these.
LEMMA RestOf ==
  ASSUME NEW S, NEW s \in Seq(S), NEW n \in 0 .. Len(s)
  PROVE  /\ SubSeq(s, n + 1, Len(s)) \in Seq(S) /\ Len(SubSeq(s, n + 1, Len(s))) = Len(s) - n
         /\ \A i \in 1 .. Len(s) - n : SubSeq(s, n + 1, Len(s))[i] = s[n + i]
<1>1. PICK len \in Nat : len = Len(s)
  OBVIOUS
<1>2. n + 1 \in Int /\ len \in Int /\ \A i \in n + 1 .. len : s[i] \in S
  BY <1>1
<1>3. /\ SubSeq(s, n + 1, len) \in Seq(S)
      /\ Len(SubSeq(s, n + 1, len)) = IF n + 1 <= len THEN len - (n + 1) + 1 ELSE 0
      /\ \A i \in 1 .. len - (n + 1) + 1 : SubSeq(s, n + 1, len)[i] = s[n + 1 + i - 1]
  BY <1>2, SubSeqProperties
<1>4. len - (n + 1) + 1 = len - n /\ (~ (n + 1 <= len) => len - n = 0)
  BY <1>1
<1>5. \A i \in 1 .. len - n : n + 1 + i - 1 = n + i
  BY <1>1
<1>6. Len(SubSeq(s, n + 1, len)) = len - n
  BY <1>3, <1>4
<1>7. \A i \in 1 .. len - n : SubSeq(s, n + 1, len)[i] = s[n + i]
  BY <1>3, <1>4, <1>5
<1> QED
  BY <1>1, <1>3, <1>6, <1>7

LEMMA FirstOf ==
  ASSUME NEW S, NEW s \in Seq(S), NEW n \in 0 .. Len(s)
  PROVE  /\ SubSeq(s, 1, n) \in Seq(S) /\ Len(SubSeq(s, 1, n)) = n
         /\ \A i \in 1 .. n : SubSeq(s, 1, n)[i] = s[i]
<1>1. 1 \in Int /\ n \in Int /\ \A i \in 1 .. n : s[i] \in S
  OBVIOUS
<1>2. /\ SubSeq(s, 1, n) \in Seq(S)
      /\ Len(SubSeq(s, 1, n)) = IF 1 <= n THEN n - 1 + 1 ELSE 0
      /\ \A i \in 1 .. n - 1 + 1 : SubSeq(s, 1, n)[i] = s[1 + i - 1]
  BY <1>1, SubSeqProperties
<1>3. n - 1 + 1 = n /\ \A i \in 1 .. n : 1 + i - 1 = i
  OBVIOUS
<1> QED
  BY <1>2, <1>3

\* A byte that is not 0 has a highest bit that is set.
LEMMA HighestBit ==
  ASSUME NEW m \in Nat
  PROVE  \A b \in 1 .. TwoTo(m) - 1 : \E e \in 0 .. m - 1 : b \in TwoTo(e) .. TwoTo(e + 1) - 1
<1> DEFINE Bit(k) == \A b \in 1 .. TwoTo(k) - 1 : \E e \in 0 .. k - 1 : b \in TwoTo(e) .. TwoTo(e + 1) - 1
           T == { k \in Nat : Bit(k) }
<1>1. 0 \in T
  BY TwoToZero
<1>2. ASSUME NEW k \in Nat, k \in T PROVE k + 1 \in T
  <2>1. TwoTo(k) \in Nat \ {0} /\ TwoTo(k + 1) \in Nat
    BY TwoToType
  <2>2. ASSUME NEW b \in 1 .. TwoTo(k + 1) - 1
        PROVE  \E e \in 0 .. k + 1 - 1 : b \in TwoTo(e) .. TwoTo(e + 1) - 1
    <3>1. CASE b \in 1 .. TwoTo(k) - 1
      <4>1. PICK e \in 0 .. k - 1 : b \in TwoTo(e) .. TwoTo(e + 1) - 1
        BY <1>2, <3>1
      <4>2. e \in 0 .. k + 1 - 1
        OBVIOUS
      <4> QED
        BY <4>1, <4>2
    <3>2. CASE b \notin 1 .. TwoTo(k) - 1
      <4>1. b \in TwoTo(k) .. TwoTo(k + 1) - 1
        BY <2>1, <2>2, <3>2
      <4>2. k \in 0 .. k + 1 - 1
        OBVIOUS
      <4> QED
        BY <4>1, <4>2
    <3> QED
      BY <3>1, <3>2
  <2> QED
    BY <2>2
<1>3. m \in T
  <2> HIDE DEF T
  <2> QED
    BY <1>1, <1>2, NatSetInduction
<1> QED
  BY <1>3

LEMMA LeadingZerosType ==
  ASSUME NEW b \in Byte, b # 0
  PROVE  LeadingZeros(b) \in 0 .. kByteBits - 1
<1>0. kByteBits \in Nat /\ TwoTo(kByteBits) \in Nat
  BY LacingAssumption, ConstantsType
<1>1. b \in 1 .. TwoTo(kByteBits) - 1
  BY <1>0 DEF Byte
<1>2. PICK e \in 0 .. kByteBits - 1 : b \in TwoTo(e) .. TwoTo(e + 1) - 1
  BY <1>0, <1>1, HighestBit
<1>3. PICK n \in 0 .. kByteBits - 1 : n = kByteBits - 1 - e
  BY <1>0
<1>4. kByteBits - 1 - n = e /\ kByteBits - n = e + 1
  BY <1>0, <1>3
<1>5. b \in TwoTo(kByteBits - 1 - n) .. TwoTo(kByteBits - n) - 1
  BY <1>2, <1>4
<1> QED
  BY <1>5 DEF LeadingZeros

\* Numbers and their biases are far smaller than a word.
LEMMA NumbersSmall ==
  ASSUME NEW bs \in Seq(Byte), Len(bs) \in 1 .. kByteBits
  PROVE  /\ VarInt(bs) \in Nat /\ VarInt(bs) < TwoTo(DataBits(kByteBits))
         /\ Bias(Len(bs)) \in Nat /\ Bias(Len(bs)) < TwoTo(DataBits(kByteBits))
<1>0. kByteBits \in Nat /\ Len(bs) \in Nat \ {0} /\ Len(bs) <= kByteBits
  BY LacingAssumption
<1>1. /\ DataBits(Len(bs)) \in Nat /\ DataBits(kByteBits) \in Nat
      /\ DataBits(Len(bs)) <= DataBits(kByteBits)
  BY <1>0, DataBitsType, DataBitsRise
<1>2. TwoTo(DataBits(Len(bs))) <= TwoTo(DataBits(kByteBits))
  BY <1>1, TwoToRises
<1>3. VarInt(bs) \in Nat /\ VarInt(bs) < TwoTo(DataBits(Len(bs)))
  BY VarIntType
<1>4. TwoTo(DataBits(Len(bs))) \in Nat /\ TwoTo(DataBits(kByteBits)) \in Nat
  BY <1>1, TwoToType
<1>5. Bias(Len(bs)) \in Nat
  BY <1>0, BiasType
<1>6. Bias(Len(bs)) < TwoTo(DataBits(kByteBits))
  <2>1. DataBits(Len(bs)) - 1 \in Nat
    <3>1. DataBits(1) <= DataBits(Len(bs))
      BY <1>0, DataBitsRise
    <3>2. DataBits(1) >= 1 /\ DataBits(1) \in Nat
      BY LacingAssumption DEF DataBits
    <3> QED
      BY <1>1, <3>1, <3>2
  <2>2. PICK d \in Nat : d = DataBits(Len(bs)) - 1 /\ d <= DataBits(kByteBits)
    BY <1>1, <2>1
  <2>3. TwoTo(d) <= TwoTo(DataBits(kByteBits)) /\ TwoTo(d) \in Nat
    BY <1>1, <2>2, TwoToRises, TwoToType
  <2>4. Bias(Len(bs)) = TwoTo(d) - 1
    BY <2>2 DEF Bias
  <2> QED
    BY <1>4, <2>3, <2>4
<1> QED
  BY <1>2, <1>3, <1>4, <1>5, <1>6

-----------------------------------------------------------------------------
(* What mkvparser makes of the bytes, size by size.                         *)

Laced == [ sizes : Seq(Int), rest : Seq(Byte) ]

\* One of the sizes is that of no frame.
HasNone(laced) == \E i \in 1 .. Len(laced.sizes) : laced.sizes[i] <= 0

\* next has one size more.
OneMore(laced, next) ==
  /\ next \in Laced /\ Len(next.sizes) = Len(laced.sizes) + 1
  /\ \A i \in 1 .. Len(laced.sizes) : next.sizes[i] = laced.sizes[i]

LEMMA LacedType ==
  ASSUME NEW laced \in Laced
  PROVE  laced.sizes \in Seq(Int) /\ laced.rest \in Seq(Byte) /\ Len(laced.sizes) \in Nat
BY DEF Laced

LEMMA AppendedIsMore ==
  ASSUME NEW laced \in Laced, NEW x \in Int, NEW rest \in Seq(Byte)
  PROVE  OneMore(laced, [ sizes |-> Append(laced.sizes, x), rest |-> rest ])
<1>1. PICK sizes \in Seq(Int) : sizes = laced.sizes
  BY LacedType
<1>2. /\ Append(sizes, x) \in Seq(Int) /\ Len(Append(sizes, x)) = Len(sizes) + 1
      /\ \A i \in 1 .. Len(sizes) : Append(sizes, x)[i] = sizes[i]
  OBVIOUS
<1>3. [ sizes |-> Append(sizes, x), rest |-> rest ] \in Laced
  BY <1>2 DEF Laced
<1> QED
  BY <1>1, <1>2, <1>3 DEF OneMore

LEMMA NoneStays ==
  ASSUME NEW laced \in Laced, NEW next, OneMore(laced, next), HasNone(laced)
  PROVE  HasNone(next)
<1>1. PICK i \in 1 .. Len(laced.sizes) : laced.sizes[i] <= 0
  BY DEF HasNone
<1>2. PICK n \in Nat : n = Len(laced.sizes) /\ Len(next.sizes) = n + 1
  BY LacedType DEF OneMore
<1>3. i \in 1 .. n + 1
  BY <1>1, <1>2
<1>4. next.sizes[i] = laced.sizes[i]
  BY <1>1 DEF OneMore
<1> QED
  BY <1>1, <1>2, <1>3, <1>4 DEF HasNone

LEMMA NoneRefused ==
  ASSUME NEW laced \in Laced, HasNone(laced)
  PROVE  WithLast(laced) = Refused
<1>1. PICK i \in 1 .. Len(laced.sizes) : laced.sizes[i] <= 0
  BY DEF HasNone
<1>2. i \in DOMAIN laced.sizes /\ laced.sizes[i] \in Int
  BY LacedType
<1>3. ~ (laced.sizes[i] > 0)
  BY <1>1, <1>2
<1> QED
  BY <1>2, <1>3 DEF WithLast

\* The places of bytes less than 255.
Ends(rest) == { i \in DOMAIN rest : rest[i] < TwoTo(kByteBits) - 1 }

LEMMA NextXiphIs ==
  ASSUME NEW laced \in Laced
  PROVE  /\ Ends(laced.rest) = {} => NextXiph(laced) = [ sizes |-> Append(laced.sizes, 0), rest |-> << >> ]
         /\ Ends(laced.rest) # {} =>
              NextXiph(laced) = [ sizes |-> Append(laced.sizes, Sum(SubSeq(laced.rest, 1, Min(Ends(laced.rest))))),
                                  rest  |-> SubSeq(laced.rest, Min(Ends(laced.rest)) + 1, Len(laced.rest)) ]
BY DEF NextXiph, Ends

LEMMA NextXiphType ==
  ASSUME NEW laced \in Laced
  PROVE  OneMore(laced, NextXiph(laced))
<1>S. PICK S : S = Byte
  OBVIOUS
<1>1. PICK rest \in Seq(S) : rest = laced.rest
  BY <1>S, LacedType
<1>2. CASE Ends(rest) = {}
  <2>1. << >> \in Seq(Byte) /\ 0 \in Int
    OBVIOUS
  <2>2. NextXiph(laced) = [ sizes |-> Append(laced.sizes, 0), rest |-> << >> ]
    BY <1>1, <1>2, NextXiphIs
  <2> QED
    BY <2>1, <2>2, AppendedIsMore
<1>3. CASE Ends(rest) # {}
  <2>1. PICK m \in 0 .. Len(rest) : m = Min(Ends(rest))
    <3>1. Ends(rest) \subseteq 1 .. Len(rest) /\ Ends(rest) \subseteq Nat
      BY DEF Ends
    <3>2. Min(Ends(rest)) \in Ends(rest)
      BY <1>3, <3>1, LeastOf
    <3> QED
      BY <3>1, <3>2
  <2>2. SubSeq(rest, m + 1, Len(rest)) \in Seq(S) /\ SubSeq(rest, 1, m) \in Seq(S)
    BY RestOf, FirstOf
  <2>3. SubSeq(rest, 1, m) \in Seq(Int)
    <3>1. Byte \subseteq Int
      BY ConstantsType
    <3> QED
      BY <1>S, <2>2, <3>1, LargerSeq
  <2>4. Sum(SubSeq(rest, 1, m)) \in Int
    BY <2>3, SumType
  <2>5. NextXiph(laced) = [ sizes |-> Append(laced.sizes, Sum(SubSeq(rest, 1, m))),
                            rest  |-> SubSeq(rest, m + 1, Len(rest)) ]
    BY <1>1, <1>3, <2>1, NextXiphIs
  <2> QED
    BY <1>S, <2>2, <2>4, <2>5, AppendedIsMore
<1> QED
  BY <1>2, <1>3

XiphRun(g, b, n) ==
  g[0] = [ sizes |-> << >>, rest |-> b ] /\ \A k \in 1 .. n : g[k] = NextXiph(g[k - 1])

LEMMA XiphSteps ==
  ASSUME NEW b \in Seq(Byte), NEW n \in Nat
  PROVE  \E g : /\ XiphRun(g, b, n) /\ XiphSizes(b, n) = g[n]
                /\ \A k \in 0 .. n : g[k] \in Laced
<1>S. PICK S : S = Laced
  OBVIOUS
<1> DEFINE first == [ sizes |-> << >>, rest |-> b ]
           Def(f) == [ k \in 0 .. n |-> IF k = 0 THEN first ELSE NextXiph(f[k - 1]) ]
           g == CHOOSE f : f = Def(f)
           step == [ p \in (1 .. n) \X S |-> NextXiph(p[2]) ]
<1>1. first \in S
  <2>1. << >> \in Seq(Int)
    OBVIOUS
  <2> QED
    BY <1>S, <2>1 DEF Laced
<1>2. step \in [(1 .. n) \X S -> S]
  <2>1. \A laced \in S : NextXiph(laced) \in S
    BY <1>S, NextXiphType DEF OneMore
  <2> QED
    BY <2>1
<1>3. \A k \in 1 .. n, x \in S : step[<< k, x >>] = NextXiph(x)
  OBVIOUS
<1>7. XiphSizes(b, n) = g[n]
  BY DEF XiphSizes
<1> HIDE DEF step, first
<1>4. PICK h \in [0 .. n -> S] : Steps(h, first, step, n)
  BY <1>1, <1>2, StepsExist
<1>5. h = Def(h)
  <2>1. ASSUME NEW i \in 0 .. n PROVE h[i] = IF i = 0 THEN first ELSE NextXiph(h[i - 1])
    <3>1. CASE i = 0
      BY <3>1, <1>4 DEF Steps
    <3>2. CASE i # 0
      <4>1. i \in 1 .. n /\ i - 1 \in 0 .. n
        BY <3>2
      <4>2. h[i] = step[<< i, h[i - 1] >>] /\ h[i - 1] \in S
        BY <4>1, <1>4 DEF Steps
      <4>3. step[<< i, h[i - 1] >>] = NextXiph(h[i - 1])
        BY <4>1, <4>2, <1>3, Zenon
      <4> QED
        BY <3>2, <4>2, <4>3, Zenon
    <3> QED
      BY <3>1, <3>2
  <2> QED
    BY <2>1
<1>6. g = Def(g)
  BY <1>5
<1>8. \A i \in 0 .. n : g[i] = IF i = 0 THEN first ELSE NextXiph(g[i - 1])
  BY <1>6
<1> HIDE DEF g
<1>9. g[0] = first /\ \A k \in 1 .. n : g[k] = NextXiph(g[k - 1])
  <2>1. ASSUME NEW k \in 1 .. n PROVE g[k] = NextXiph(g[k - 1])
    <3>1. k \in 0 .. n /\ k # 0
      OBVIOUS
    <3> QED
      BY <3>1, <1>8, Zenon
  <2>2. 0 \in 0 .. n
    OBVIOUS
  <2> QED
    BY <1>8, <2>1, <2>2
<1>10. \A k \in 0 .. n : g[k] \in S
  <2>1. ASSUME NEW k \in 1 .. n, g[k - 1] \in S PROVE g[k] = step[<< k, g[k - 1] >>]
    BY <1>3, <1>9, <2>1, Zenon
  <2> QED
    BY <1>1, <1>2, <1>9, <2>1, StepsType
<1>11. XiphRun(g, b, n)
  BY <1>9 DEF XiphRun, first
<1> QED
  BY <1>S, <1>7, <1>10, <1>11

LEMMA XiphStart ==
  ASSUME NEW b \in Seq(Byte)
  PROVE  XiphSizes(b, 0) = [ sizes |-> << >>, rest |-> b ]
<1>1. PICK g : XiphRun(g, b, 0) /\ XiphSizes(b, 0) = g[0]
  BY XiphSteps
<1> QED
  BY <1>1 DEF XiphRun

LEMMA XiphNext ==
  ASSUME NEW b \in Seq(Byte), NEW n \in Nat
  PROVE  /\ XiphSizes(b, n) \in Laced
         /\ XiphSizes(b, n + 1) = NextXiph(XiphSizes(b, n))
<1>1. PICK g : XiphRun(g, b, n) /\ XiphSizes(b, n) = g[n] /\ \A k \in 0 .. n : g[k] \in Laced
  BY XiphSteps
<1>2. PICK h : XiphRun(h, b, n + 1) /\ XiphSizes(b, n + 1) = h[n + 1]
  BY XiphSteps
<1> DEFINE T == { m \in Nat : m <= n => g[m] = h[m] }
<1>3. 0 \in T
  BY <1>1, <1>2 DEF XiphRun
<1>4. ASSUME NEW m \in Nat, m \in T PROVE m + 1 \in T
  <2> SUFFICES ASSUME m + 1 <= n PROVE g[m + 1] = h[m + 1]
    OBVIOUS
  <2>1. g[m] = h[m] /\ m + 1 \in 1 .. n /\ m + 1 \in 1 .. n + 1 /\ m + 1 - 1 = m
    BY <1>4
  <2>2. g[m + 1] = NextXiph(g[m]) /\ h[m + 1] = NextXiph(h[m])
    BY <2>1, <1>1, <1>2 DEF XiphRun
  <2> QED
    BY <2>1, <2>2, Zenon
<1>5. n \in T
  <2> HIDE DEF T
  <2> QED
    BY <1>3, <1>4, NatSetInduction
<1>6. g[n] = h[n]
  BY <1>5
<1>7. n + 1 \in 1 .. n + 1 /\ n + 1 - 1 = n /\ n \in 0 .. n
  OBVIOUS
<1>8. h[n + 1] = NextXiph(h[n])
  BY <1>2, <1>7 DEF XiphRun
<1> QED
  BY <1>1, <1>2, <1>6, <1>7, <1>8, Zenon

\* A size of no frame makes mkvparser refuse the block.
LEMMA XiphDoomed ==
  ASSUME NEW b \in Seq(Byte), NEW k \in Nat, NEW n \in Nat, k <= n, HasNone(XiphSizes(b, k))
  PROVE  WithLast(XiphSizes(b, n)) = Refused
<1> DEFINE T == { m \in Nat : HasNone(XiphSizes(b, k + m)) }
<1>1. 0 \in T
  <2>1. k + 0 = k
    OBVIOUS
  <2>2. HasNone(XiphSizes(b, k + 0))
    BY <2>1, Zenon
  <2> QED
    BY <2>2
<1>2. ASSUME NEW m \in Nat, m \in T PROVE m + 1 \in T
  <2>1. PICK j \in Nat : j = k + m /\ k + (m + 1) = j + 1
    OBVIOUS
  <2>2. HasNone(XiphSizes(b, j)) /\ XiphSizes(b, j) \in Laced
    BY <1>2, <2>1, XiphNext
  <2>3. OneMore(XiphSizes(b, j), XiphSizes(b, j + 1))
    BY <2>2, XiphNext, NextXiphType
  <2>4. HasNone(XiphSizes(b, j + 1))
    BY <2>2, <2>3, NoneStays
  <2>5. HasNone(XiphSizes(b, k + (m + 1)))
    BY <2>1, <2>4, Zenon
  <2> QED
    BY <2>5
<1>3. Nat \subseteq T
  <2> HIDE DEF T
  <2> QED
    BY <1>1, <1>2, NatSetInduction
<1>4. n - k \in Nat /\ k + (n - k) = n
  OBVIOUS
<1>5. HasNone(XiphSizes(b, k + (n - k)))
  BY <1>3, <1>4
<1>6. HasNone(XiphSizes(b, n))
  BY <1>4, <1>5, Zenon
<1>7. XiphSizes(b, n) \in Laced
  BY XiphNext
<1> QED
  BY <1>6, <1>7, NoneRefused

\* Numbers at the front of the bytes, and none.
LEMMA ReadUIntType ==
  ASSUME NEW r \in Seq(Byte)
  PROVE  /\ ReadUInt(r).value \in Int /\ ReadUInt(r).length \in 1 .. kByteBits
         /\ ReadUInt(r).rest \in Seq(Byte)
         /\ ReadUInt(r).value >= 0 => /\ ReadUInt(r).value < TwoTo(DataBits(kByteBits))
                                      /\ Bias(ReadUInt(r).length) \in Nat
                                      /\ Bias(ReadUInt(r).length) < TwoTo(DataBits(kByteBits))
<1>S. PICK S : S = Byte
  OBVIOUS
<1>0. kByteBits \in Nat /\ kByteBits > 1 /\ << >> \in Seq(Byte)
  BY LacingAssumption
<1>1. CASE r = << >> \/ Head(r) = 0
  <2>1. ReadUInt(r) = [ value |-> -1, length |-> 1, rest |-> << >> ]
    BY <1>1 DEF ReadUInt
  <2> QED
    BY <1>0, <2>1
<1>2. CASE ~ (r = << >> \/ Head(r) = 0)
  <2>1. Head(r) \in Byte /\ Head(r) # 0
    BY <1>2
  <2>2. PICK length \in 1 .. kByteBits : length = LeadingZeros(Head(r)) + 1
    BY <1>0, <2>1, LeadingZerosType
  <2>3. CASE length > Len(r)
    <3>1. ReadUInt(r) = [ value |-> -1, length |-> length, rest |-> << >> ]
      BY <1>2, <2>2, <2>3 DEF ReadUInt
    <3> QED
      BY <1>0, <3>1
  <2>4. CASE ~ (length > Len(r))
    <3>1. ReadUInt(r) = [ value |-> VarInt(SubSeq(r, 1, length)), length |-> length,
                          rest |-> SubSeq(r, length + 1, Len(r)) ]
      BY <1>2, <2>2, <2>4 DEF ReadUInt
    <3>2. length \in 0 .. Len(r) /\ r \in Seq(S)
      BY <1>S, <2>4
    <3>3. PICK bytes \in Seq(Byte) : bytes = SubSeq(r, 1, length) /\ Len(bytes) = length
      BY <1>S, <3>2, FirstOf
    <3>4. SubSeq(r, length + 1, Len(r)) \in Seq(Byte)
      BY <1>S, <3>2, RestOf
    <3>5. /\ VarInt(bytes) \in Nat /\ VarInt(bytes) < TwoTo(DataBits(kByteBits))
          /\ Bias(length) \in Nat /\ Bias(length) < TwoTo(DataBits(kByteBits))
      BY <3>3, NumbersSmall
    <3>6. /\ ReadUInt(r).value = VarInt(bytes) /\ ReadUInt(r).length = length
          /\ ReadUInt(r).rest = SubSeq(r, length + 1, Len(r))
      BY <3>1, <3>3
    <3>7. VarInt(bytes) \in Int
      BY <3>5
    <3> QED
      BY <3>4, <3>5, <3>6, <3>7, Zenon
  <2> QED
    BY <2>3, <2>4
<1> QED
  BY <1>1, <1>2

\* The number whose bytes are at the front.
LEMMA ReadUIntIs ==
  ASSUME NEW r \in Seq(Byte), NEW bytes \in Seq(Byte), bytes # << >>, bytes[1] # 0,
         Len(bytes) = LeadingZeros(bytes[1]) + 1, Len(bytes) <= Len(r),
         \A i \in 1 .. Len(bytes) : bytes[i] = r[i]
  PROVE  ReadUInt(r) = [ value |-> VarInt(bytes), length |-> Len(bytes),
                         rest |-> SubSeq(r, Len(bytes) + 1, Len(r)) ]
<1>S. PICK S : S = Byte
  OBVIOUS
<1>1. PICK n \in Nat \ {0} : n = Len(bytes) /\ n \in 0 .. Len(r) /\ n \in 1 .. Len(r)
  OBVIOUS
<1>2. r # << >> /\ Head(r) = bytes[1]
  BY <1>1
<1>3. SubSeq(r, 1, n) = bytes
  <2>1. r \in Seq(S) /\ bytes \in Seq(S)
    BY <1>S
  <2>2. /\ SubSeq(r, 1, n) \in Seq(S) /\ Len(SubSeq(r, 1, n)) = n
        /\ \A i \in 1 .. n : SubSeq(r, 1, n)[i] = r[i]
    BY <1>1, <2>1, FirstOf
  <2>3. \A i \in 1 .. n : SubSeq(r, 1, n)[i] = bytes[i]
    BY <1>1, <2>2
  <2>4. PICK front \in Seq(S) : front = SubSeq(r, 1, n)
    BY <2>2
  <2>5. Len(front) = Len(bytes) /\ \A i \in 1 .. Len(front) : front[i] = bytes[i]
    BY <1>1, <2>2, <2>3, <2>4
  <2> QED
    BY <2>1, <2>4, <2>5, SeqEqual
<1>4. ~ (n > Len(r)) /\ LeadingZeros(Head(r)) + 1 = n
  BY <1>1, <1>2
<1> QED
  BY <1>1, <1>2, <1>3, <1>4 DEF ReadUInt

\* There is none, or not all of it.
LEMMA ReadUIntFails ==
  ASSUME NEW r \in Seq(Byte),
         r = << >> \/ r[1] = 0 \/ Len(r) <= LeadingZeros(r[1])
  PROVE  ReadUInt(r).value = -1
<1>1. CASE r = << >> \/ r[1] = 0
  BY <1>1 DEF ReadUInt
<1>2. CASE r # << >> /\ r[1] # 0 /\ Len(r) <= LeadingZeros(r[1])
  <2>1. Head(r) = r[1] /\ r[1] \in Byte
    BY <1>2
  <2>2. LeadingZeros(r[1]) + 1 > Len(r)
    <3>1. LeadingZeros(r[1]) \in 0 .. kByteBits - 1
      BY <1>2, <2>1, LeadingZerosType
    <3> QED
      BY <1>2, <3>1
  <2> QED
    BY <1>2, <2>1, <2>2 DEF ReadUInt
<1> QED
  BY <1>1, <1>2

LacedSome == { laced \in Laced : laced.sizes # << >> }

LEMMA NextEbmlType ==
  ASSUME NEW laced \in LacedSome
  PROVE  OneMore(laced, NextEbml(laced)) /\ NextEbml(laced) \in LacedSome
<1>0. laced \in Laced /\ laced.sizes # << >> /\ laced.sizes \in Seq(Int) /\ laced.rest \in Seq(Byte)
  BY LacedType DEF LacedSome
<1>1. OneMore(laced, NextEbml(laced))
  <2>1. PICK delta : delta = ReadUInt(laced.rest)
    OBVIOUS
  <2>2. CASE delta.value < 0
    <3>1. NextEbml(laced) = [ sizes |-> Append(laced.sizes, 0), rest |-> << >> ]
      BY <2>1, <2>2 DEF NextEbml
    <3>2. << >> \in Seq(Byte) /\ 0 \in Int
      OBVIOUS
    <3> QED
      BY <1>0, <3>1, <3>2, AppendedIsMore
  <2>3. CASE ~ (delta.value < 0)
    <3>1. /\ delta.value \in Int /\ delta.rest \in Seq(Byte) /\ Bias(delta.length) \in Nat
      BY <1>0, <2>1, <2>3, ReadUIntType
    <3>2. laced.sizes[Len(laced.sizes)] \in Int
      BY <1>0
    <3>3. laced.sizes[Len(laced.sizes)] + delta.value - Bias(delta.length) \in Int
      BY <3>1, <3>2
    <3>4. NextEbml(laced) =
            [ sizes |-> Append(laced.sizes, laced.sizes[Len(laced.sizes)] + delta.value - Bias(delta.length)),
              rest  |-> delta.rest ]
      BY <2>1, <2>3 DEF NextEbml
    <3> QED
      BY <1>0, <3>1, <3>3, <3>4, AppendedIsMore
  <2> QED
    BY <2>2, <2>3
<1>2. Len(NextEbml(laced).sizes) > 0
  BY <1>0, <1>1 DEF OneMore
<1> QED
  BY <1>1, <1>2 DEF OneMore, LacedSome

EbmlRun(g, c, b, n) ==
  g[0] = [ sizes |-> << c >>, rest |-> b ] /\ \A k \in 1 .. n : g[k] = NextEbml(g[k - 1])

LEMMA EbmlSteps ==
  ASSUME NEW c \in Int, NEW b \in Seq(Byte), NEW n \in Nat
  PROVE  \E g : /\ EbmlRun(g, c, b, n) /\ EbmlSizes(c, b, n) = g[n]
                /\ \A k \in 0 .. n : g[k] \in LacedSome
<1>S. PICK S : S = LacedSome
  OBVIOUS
<1> DEFINE first == [ sizes |-> << c >>, rest |-> b ]
           Def(f) == [ k \in 0 .. n |-> IF k = 0 THEN first ELSE NextEbml(f[k - 1]) ]
           g == CHOOSE f : f = Def(f)
           step == [ p \in (1 .. n) \X S |-> NextEbml(p[2]) ]
<1>1. first \in S
  <2>1. << c >> \in Seq(Int) /\ << c >> # << >>
    OBVIOUS
  <2> QED
    BY <1>S, <2>1 DEF Laced, LacedSome
<1>2. step \in [(1 .. n) \X S -> S]
  <2>1. \A laced \in S : NextEbml(laced) \in S
    BY <1>S, NextEbmlType
  <2> QED
    BY <2>1
<1>3. \A k \in 1 .. n, x \in S : step[<< k, x >>] = NextEbml(x)
  OBVIOUS
<1>7. EbmlSizes(c, b, n) = g[n]
  BY DEF EbmlSizes
<1> HIDE DEF step, first
<1>4. PICK h \in [0 .. n -> S] : Steps(h, first, step, n)
  BY <1>1, <1>2, StepsExist
<1>5. h = Def(h)
  <2>1. ASSUME NEW i \in 0 .. n PROVE h[i] = IF i = 0 THEN first ELSE NextEbml(h[i - 1])
    <3>1. CASE i = 0
      BY <3>1, <1>4 DEF Steps
    <3>2. CASE i # 0
      <4>1. i \in 1 .. n /\ i - 1 \in 0 .. n
        BY <3>2
      <4>2. h[i] = step[<< i, h[i - 1] >>] /\ h[i - 1] \in S
        BY <4>1, <1>4 DEF Steps
      <4>3. step[<< i, h[i - 1] >>] = NextEbml(h[i - 1])
        BY <4>1, <4>2, <1>3, Zenon
      <4> QED
        BY <3>2, <4>2, <4>3, Zenon
    <3> QED
      BY <3>1, <3>2
  <2> QED
    BY <2>1
<1>6. g = Def(g)
  BY <1>5
<1>8. \A i \in 0 .. n : g[i] = IF i = 0 THEN first ELSE NextEbml(g[i - 1])
  BY <1>6
<1> HIDE DEF g
<1>9. g[0] = first /\ \A k \in 1 .. n : g[k] = NextEbml(g[k - 1])
  <2>1. ASSUME NEW k \in 1 .. n PROVE g[k] = NextEbml(g[k - 1])
    <3>1. k \in 0 .. n /\ k # 0
      OBVIOUS
    <3> QED
      BY <3>1, <1>8, Zenon
  <2>2. 0 \in 0 .. n
    OBVIOUS
  <2> QED
    BY <1>8, <2>1, <2>2
<1>10. \A k \in 0 .. n : g[k] \in S
  <2>1. ASSUME NEW k \in 1 .. n, g[k - 1] \in S PROVE g[k] = step[<< k, g[k - 1] >>]
    BY <1>3, <1>9, <2>1, Zenon
  <2> QED
    BY <1>1, <1>2, <1>9, <2>1, StepsType, ZenonT(40)
<1>11. EbmlRun(g, c, b, n)
  BY <1>9 DEF EbmlRun, first
<1> QED
  BY <1>S, <1>7, <1>10, <1>11

LEMMA EbmlStart ==
  ASSUME NEW c \in Int, NEW b \in Seq(Byte)
  PROVE  EbmlSizes(c, b, 0) = [ sizes |-> << c >>, rest |-> b ]
<1>1. PICK g : EbmlRun(g, c, b, 0) /\ EbmlSizes(c, b, 0) = g[0]
  BY EbmlSteps
<1> QED
  BY <1>1 DEF EbmlRun

LEMMA EbmlNext ==
  ASSUME NEW c \in Int, NEW b \in Seq(Byte), NEW n \in Nat
  PROVE  /\ EbmlSizes(c, b, n) \in LacedSome
         /\ EbmlSizes(c, b, n + 1) = NextEbml(EbmlSizes(c, b, n))
<1>1. PICK g : EbmlRun(g, c, b, n) /\ EbmlSizes(c, b, n) = g[n] /\ \A k \in 0 .. n : g[k] \in LacedSome
  BY EbmlSteps
<1>2. PICK h : EbmlRun(h, c, b, n + 1) /\ EbmlSizes(c, b, n + 1) = h[n + 1]
  BY EbmlSteps
<1> DEFINE T == { m \in Nat : m <= n => g[m] = h[m] }
<1>3. 0 \in T
  BY <1>1, <1>2 DEF EbmlRun
<1>4. ASSUME NEW m \in Nat, m \in T PROVE m + 1 \in T
  <2> SUFFICES ASSUME m + 1 <= n PROVE g[m + 1] = h[m + 1]
    OBVIOUS
  <2>1. g[m] = h[m] /\ m + 1 \in 1 .. n /\ m + 1 \in 1 .. n + 1 /\ m + 1 - 1 = m
    BY <1>4
  <2>2. g[m + 1] = NextEbml(g[m]) /\ h[m + 1] = NextEbml(h[m])
    BY <2>1, <1>1, <1>2 DEF EbmlRun
  <2> QED
    BY <2>1, <2>2, Zenon
<1>5. n \in T
  <2> HIDE DEF T
  <2> QED
    BY <1>3, <1>4, NatSetInduction
<1>6. g[n] = h[n]
  BY <1>5
<1>7. n + 1 \in 1 .. n + 1 /\ n + 1 - 1 = n /\ n \in 0 .. n
  OBVIOUS
<1>8. h[n + 1] = NextEbml(h[n])
  BY <1>2, <1>7 DEF EbmlRun
<1> QED
  BY <1>1, <1>2, <1>6, <1>7, <1>8, Zenon

LEMMA EbmlDoomed ==
  ASSUME NEW c \in Int, NEW b \in Seq(Byte), NEW k \in Nat, NEW n \in Nat, k <= n, HasNone(EbmlSizes(c, b, k))
  PROVE  WithLast(EbmlSizes(c, b, n)) = Refused
<1> DEFINE T == { m \in Nat : HasNone(EbmlSizes(c, b, k + m)) }
<1>1. 0 \in T
  <2>1. k + 0 = k
    OBVIOUS
  <2>2. HasNone(EbmlSizes(c, b, k + 0))
    BY <2>1, Zenon
  <2> QED
    BY <2>2
<1>2. ASSUME NEW m \in Nat, m \in T PROVE m + 1 \in T
  <2>1. PICK j \in Nat : j = k + m /\ k + (m + 1) = j + 1
    OBVIOUS
  <2>2. HasNone(EbmlSizes(c, b, j)) /\ EbmlSizes(c, b, j) \in Laced
    BY <1>2, <2>1, EbmlNext DEF LacedSome
  <2>3. OneMore(EbmlSizes(c, b, j), EbmlSizes(c, b, j + 1))
    BY <2>2, EbmlNext, NextEbmlType
  <2>4. HasNone(EbmlSizes(c, b, j + 1))
    BY <2>2, <2>3, NoneStays
  <2>5. HasNone(EbmlSizes(c, b, k + (m + 1)))
    BY <2>1, <2>4, Zenon
  <2> QED
    BY <2>5
<1>3. Nat \subseteq T
  <2> HIDE DEF T
  <2> QED
    BY <1>1, <1>2, NatSetInduction
<1>4. n - k \in Nat /\ k + (n - k) = n
  OBVIOUS
<1>5. HasNone(EbmlSizes(c, b, k + (n - k)))
  BY <1>3, <1>4
<1>6. HasNone(EbmlSizes(c, b, n))
  BY <1>4, <1>5, Zenon
<1>7. EbmlSizes(c, b, n) \in Laced
  BY EbmlNext DEF LacedSome
<1> QED
  BY <1>6, <1>7, NoneRefused

-----------------------------------------------------------------------------
(* Where mkvparser is in the block.                                         *)

LEMMA BeforeOneMore ==
  ASSUME NEW b \in Seq(Byte), NEW p \in Nat, NEW n \in Nat, NEW rest, Before(rest, b, p, n),
         p + 1 <= Len(b)
  PROVE  /\ n + 1 \in 1 .. Len(rest) /\ rest[n + 1] = b[p + 1]
         /\ Before(rest, b, p + 1, n + 1)
<1>1. PICK len \in Nat : len = Len(b)
  OBVIOUS
<1>2. rest \in Seq(Byte) /\ Len(rest) = len - p + n /\ \A i \in 1 .. Len(rest) : rest[i] = b[p - n + i]
  BY <1>1 DEF Before
<1>3. n + 1 \in 1 .. Len(rest) /\ p - n + (n + 1) = p + 1
  BY <1>1, <1>2
<1>4. len - p + n = len - (p + 1) + (n + 1) /\ p - n = (p + 1) - (n + 1)
  BY <1>1
<1> QED
  BY <1>1, <1>2, <1>3, <1>4 DEF Before

LEMMA BeforeRest ==
  ASSUME NEW b \in Seq(Byte), NEW p \in Nat, NEW n \in Nat, NEW rest, Before(rest, b, p, n),
         p <= Len(b)
  PROVE  Before(SubSeq(rest, n + 1, Len(rest)), b, p, 0)
<1>S. PICK S : S = Byte
  OBVIOUS
<1>1. PICK len \in Nat : len = Len(b)
  OBVIOUS
<1>2. rest \in Seq(S) /\ Len(rest) = len - p + n /\ \A i \in 1 .. Len(rest) : rest[i] = b[p - n + i]
  BY <1>S, <1>1 DEF Before
<1>3. n \in 0 .. Len(rest) /\ Len(rest) - n = len - p /\ len - p \in Nat
  BY <1>1, <1>2
<1>4. PICK behind : behind = SubSeq(rest, n + 1, Len(rest))
  OBVIOUS
<1>5. /\ behind \in Seq(S) /\ Len(behind) = len - p
      /\ \A i \in 1 .. len - p : behind[i] = rest[n + i]
  BY <1>2, <1>3, <1>4, RestOf, SMTT(40)
<1>6. ASSUME NEW i \in 1 .. len - p PROVE behind[i] = b[p - 0 + i]
  <2>1. n + i \in 1 .. Len(rest) /\ p - n + (n + i) = p - 0 + i
    BY <1>2, <1>3
  <2> QED
    BY <1>2, <1>5, <2>1
<1>7. len - p + 0 = len - p
  BY <1>1
<1> QED
  BY <1>S, <1>1, <1>4, <1>5, <1>6, <1>7 DEF Before

LEMMA BeforeTail ==
  ASSUME NEW b \in Seq(Byte), Len(b) > 0
  PROVE  Tail(b) \in Seq(Byte) /\ Len(Tail(b)) = Len(b) - 1 /\ Before(Tail(b), b, 1, 0)
<1>S. PICK S : S = Byte
  OBVIOUS
<1>1. b \in Seq(S) /\ b # << >>
  BY <1>S
<1>2. /\ Tail(b) \in Seq(S) /\ Len(Tail(b)) = Len(b) - 1
      /\ \A i \in 1 .. Len(Tail(b)) : Tail(b)[i] = b[i + 1]
  BY <1>1, HeadTailProperties
<1>3. Len(b) - 1 = Len(b) - 1 + 0 /\ \A i \in Nat : 1 - 0 + i = i + 1
  OBVIOUS
<1> QED
  BY <1>S, <1>2, <1>3 DEF Before

-----------------------------------------------------------------------------
(* One size more.                                                           *)

LEMMA SumOneMore ==
  ASSUME NEW rest \in Seq(Byte), NEW n \in Nat, n + 1 <= Len(rest)
  PROVE  Sum(SubSeq(rest, 1, n + 1)) = Sum(SubSeq(rest, 1, n)) + rest[n + 1]
<1>1. rest \in Seq(Int)
  <2>1. Byte \subseteq Int
    BY ConstantsType
  <2> QED
    BY <2>1, LargerSeq
<1>2. n \in 0 .. Len(rest) /\ n + 1 \in 0 .. Len(rest) /\ n + 1 \in 1 .. n + 1
  OBVIOUS
<1>3. PICK less \in Seq(Int) : /\ less = SubSeq(rest, 1, n) /\ Len(less) = n
                               /\ \A i \in 1 .. n : less[i] = rest[i]
  BY <1>1, <1>2, FirstOf, ZenonT(40)
<1>4. PICK more \in Seq(Int) : /\ more = SubSeq(rest, 1, n + 1) /\ Len(more) = n + 1
                               /\ \A i \in 1 .. n + 1 : more[i] = rest[i]
  BY <1>1, <1>2, FirstOf
<1>5. \A k \in 1 .. Len(less) : more[k] = less[k]
  BY <1>3, <1>4
<1>6. Sum(more) = Sum(less) + more[Len(more)]
  BY <1>3, <1>4, <1>5, SumMore
<1>7. more[Len(more)] = rest[n + 1]
  BY <1>2, <1>4
<1> QED
  BY <1>3, <1>4, <1>6, <1>7

\* A size has n full bytes and one more, which ends it.
SizeEnds(rest, n) == Full(rest, n) /\ n + 1 <= Len(rest) /\ rest[n + 1] < TwoTo(kByteBits) - 1
SizeTaken(laced, n) ==
  [ sizes |-> Append(laced.sizes, Sum(SubSeq(laced.rest, 1, n)) + laced.rest[n + 1]),
    rest  |-> SubSeq(laced.rest, n + 2, Len(laced.rest)) ]

\* A byte of less than 255 ends a size.
LEMMA XiphMore ==
  ASSUME NEW b \in Seq(Byte), NEW k \in Nat, NEW n \in Nat, SizeEnds(XiphSizes(b, k).rest, n)
  PROVE  XiphSizes(b, k + 1) = SizeTaken(XiphSizes(b, k), n)
<1>0. PICK laced : laced = XiphSizes(b, k)
  OBVIOUS
<1>1. laced \in Laced /\ XiphSizes(b, k + 1) = NextXiph(laced)
  BY <1>0, XiphNext
<1>2. laced.rest \in Seq(Byte)
  BY <1>1, LacedType
<1>9. /\ n + 1 <= Len(laced.rest) /\ laced.rest[n + 1] < TwoTo(kByteBits) - 1
      /\ \A i \in 1 .. n : laced.rest[i] = TwoTo(kByteBits) - 1
  BY <1>0 DEF SizeEnds, Full
<1>3. n + 1 \in Ends(laced.rest)
  BY <1>2, <1>9 DEF Ends
<1>4. ASSUME NEW y \in Ends(laced.rest) PROVE n + 1 <= y
  <2>1. y \in 1 .. Len(laced.rest) /\ laced.rest[y] < TwoTo(kByteBits) - 1
    BY <1>2 DEF Ends
  <2>2. TwoTo(kByteBits) \in Nat
    BY ConstantsType
  <2>3. y \notin 1 .. n
    BY <1>9, <2>1, <2>2
  <2> QED
    BY <2>1, <2>3
<1>5. Min(Ends(laced.rest)) = n + 1
  <2>1. Ends(laced.rest) \subseteq Nat
    BY <1>2 DEF Ends
  <2> QED
    BY <1>3, <1>4, <2>1, LeastIs
<1>6. NextXiph(laced) = [ sizes |-> Append(laced.sizes, Sum(SubSeq(laced.rest, 1, n + 1))),
                          rest  |-> SubSeq(laced.rest, n + 1 + 1, Len(laced.rest)) ]
  BY <1>1, <1>3, <1>5, NextXiphIs
<1>7. Sum(SubSeq(laced.rest, 1, n + 1)) = Sum(SubSeq(laced.rest, 1, n)) + laced.rest[n + 1]
  BY <1>2, <1>9, SumOneMore
<1>8. n + 1 + 1 = n + 2
  OBVIOUS
<1> QED
  BY <1>0, <1>1, <1>6, <1>7, <1>8 DEF SizeTaken

\* The block ends in a size.
LEMMA XiphShort ==
  ASSUME NEW b \in Seq(Byte), NEW k \in Nat, NEW m \in Nat, k < m,
         Full(XiphSizes(b, k).rest, Len(XiphSizes(b, k).rest))
  PROVE  WithLast(XiphSizes(b, m)) = Refused
<1>1. PICK laced \in Laced : laced = XiphSizes(b, k) /\ XiphSizes(b, k + 1) = NextXiph(laced)
  BY XiphNext
<1>2. laced.rest \in Seq(Byte) /\ laced.sizes \in Seq(Int)
  BY LacedType
<1>3. Ends(laced.rest) = {}
  <2>1. PICK most \in Nat : most = TwoTo(kByteBits) - 1
    <3>1. TwoTo(kByteBits) - 1 \in Nat
      BY ConstantsType
    <3> QED
      BY <3>1
  <2>2. \A i \in DOMAIN laced.rest : laced.rest[i] = most
    <3>1. Full(laced.rest, Len(laced.rest))
      BY <1>1
    <3>2. DOMAIN laced.rest = 1 .. Len(laced.rest)
      BY <1>2
    <3> QED
      BY <2>1, <3>1, <3>2 DEF Full
  <2>3. ~ (most < most)
    OBVIOUS
  <2> QED
    BY <2>1, <2>2, <2>3 DEF Ends
<1>4. XiphSizes(b, k + 1) = [ sizes |-> Append(laced.sizes, 0), rest |-> << >> ]
  BY <1>1, <1>3, NextXiphIs
<1>5. HasNone(XiphSizes(b, k + 1))
  <2>1. PICK sizes \in Seq(Int) : sizes = laced.sizes
    BY <1>2
  <2>2. Len(Append(sizes, 0)) \in 1 .. Len(Append(sizes, 0)) /\ Append(sizes, 0)[Len(Append(sizes, 0))] = 0
    OBVIOUS
  <2>3. XiphSizes(b, k + 1).sizes = Append(sizes, 0)
    BY <1>4, <2>1
  <2>4. \E i \in 1 .. Len(Append(sizes, 0)) : Append(sizes, 0)[i] <= 0
    BY <2>2
  <2> QED
    BY <2>3, <2>4 DEF HasNone
<1>6. k + 1 \in Nat /\ k + 1 <= m
  OBVIOUS
<1> QED
  BY <1>5, <1>6, XiphDoomed

\* mkvparser finds no number where it expects a size.
LEMMA EbmlShort ==
  ASSUME NEW c \in Int, NEW b \in Seq(Byte), NEW k \in Nat, NEW m \in Nat, k < m,
         ReadUInt(EbmlSizes(c, b, k).rest).value = -1
  PROVE  WithLast(EbmlSizes(c, b, m)) = Refused
<1>1. PICK laced \in LacedSome : laced = EbmlSizes(c, b, k) /\ EbmlSizes(c, b, k + 1) = NextEbml(laced)
  BY EbmlNext
<1>2. laced.rest \in Seq(Byte) /\ laced.sizes \in Seq(Int)
  BY LacedType DEF LacedSome
<1>4. EbmlSizes(c, b, k + 1) = [ sizes |-> Append(laced.sizes, 0), rest |-> << >> ]
  BY <1>1 DEF NextEbml
<1>5. HasNone(EbmlSizes(c, b, k + 1))
  <2>1. PICK sizes \in Seq(Int) : sizes = laced.sizes
    BY <1>2
  <2>2. Len(Append(sizes, 0)) \in 1 .. Len(Append(sizes, 0)) /\ Append(sizes, 0)[Len(Append(sizes, 0))] = 0
    OBVIOUS
  <2>3. EbmlSizes(c, b, k + 1).sizes = Append(sizes, 0)
    BY <1>4, <2>1
  <2>4. \E i \in 1 .. Len(Append(sizes, 0)) : Append(sizes, 0)[i] <= 0
    BY <2>2
  <2> QED
    BY <2>3, <2>4 DEF HasNone
<1>6. k + 1 \in Nat /\ k + 1 <= m
  OBVIOUS
<1> QED
  BY <1>5, <1>6, EbmlDoomed

\* Sizes agree also after a difference: it is less than a word, and what it makes
\* negative is too large as a word.
LEMMA AgreeMore ==
  ASSUME NEW sizes \in Seq(Int), NEW words \in Seq(Nat), NEW most \in Nat, NEW k \in Nat \ {0},
         Len(sizes) = k, SizesAgree(sizes, words, most), most < TwoTo(DataBits(kByteBits)),
         NEW value \in Nat, NEW bias \in Nat,
         value < TwoTo(DataBits(kByteBits)), bias < TwoTo(DataBits(kByteBits))
  PROVE  SizesAgree(Append(sizes, sizes[k] + value - bias), Append(words, Word(words[k] + value - bias)), most)
<1>1. Len(words) = k /\ sizes[k] \in Int /\ words[k] \in Nat
  BY DEF SizesAgree
<1>2. PICK x \in Int, w \in Nat, y \in Int :
        x = sizes[k] + value - bias /\ w = Word(words[k] + value - bias) /\ y = words[k] + value - bias
  <2>1. sizes[k] + value - bias \in Int /\ words[k] + value - bias \in Int
    BY <1>1
  <2> QED
    BY <2>1, WordType
<1>3. PICK more \in Seq(Int), moreWords \in Seq(Nat) :
        /\ more = Append(sizes, x) /\ moreWords = Append(words, w)
        /\ Len(more) = k + 1 /\ Len(moreWords) = k + 1
        /\ \A i \in 1 .. k : more[i] = sizes[i] /\ moreWords[i] = words[i]
        /\ more[k + 1] = x /\ moreWords[k + 1] = w
  <2>1. /\ Append(sizes, x) \in Seq(Int) /\ Len(Append(sizes, x)) = k + 1 /\ Append(sizes, x)[k + 1] = x
        /\ \A i \in 1 .. k : Append(sizes, x)[i] = sizes[i]
    OBVIOUS
  <2>2. /\ Append(words, w) \in Seq(Nat) /\ Len(Append(words, w)) = k + 1 /\ Append(words, w)[k + 1] = w
        /\ \A i \in 1 .. k : Append(words, w)[i] = words[i]
    BY <1>1
  <2> QED
    BY <2>1, <2>2
<1>4. PICK big \in Nat, all \in Nat :
        big = TwoTo(DataBits(kByteBits)) /\ all = TwoTo(kWordBits) /\ 2 * big <= all
  <2>1. DataBits(kByteBits) \in Nat /\ kByteBits \in Nat /\ kWordBits \in Nat
    BY LacingAssumption, WordAssumption, DataBitsType
  <2>2. TwoTo(DataBits(kByteBits) + 1) = 2 * TwoTo(DataBits(kByteBits))
    BY <2>1, TwoToNext
  <2>3. DataBits(kByteBits) + 1 <= kWordBits /\ DataBits(kByteBits) + 1 \in Nat
    BY <2>1, LacingAssumption, WordAssumption
  <2>4. TwoTo(DataBits(kByteBits) + 1) <= TwoTo(kWordBits)
    BY <2>1, <2>3, TwoToRises
  <2>5. TwoTo(DataBits(kByteBits)) \in Nat /\ TwoTo(kWordBits) \in Nat
    BY <2>1, TwoToType
  <2> QED
    BY <2>2, <2>4, <2>5
<1>5. /\ y >= 0 /\ y < all => w = y
      /\ y < 0 /\ y + all >= 0 => w = y + all
  BY <1>2, <1>4, WordType
<1>6. ASSUME \/ \A i \in 1 .. k + 1 : moreWords[i] <= most
             \/ \A i \in 1 .. k + 1 : more[i] \in 0 .. most
      PROVE  more = moreWords
  <2>1. \A i \in 1 .. k : i \in 1 .. k + 1
    OBVIOUS
  <2>2. (\A i \in 1 .. k : words[i] <= most) \/ (\A i \in 1 .. k : sizes[i] \in 0 .. most)
    BY <1>3, <1>6, <2>1
  <2>3. sizes = words
    BY <2>2 DEF SizesAgree
  <2>4. k \in 1 .. k /\ k + 1 \in 1 .. k + 1
    OBVIOUS
  <2>5. PICK last \in Nat : last = words[k] /\ last = sizes[k] /\ last <= most
    BY <1>1, <2>2, <2>3, <2>4
  <2>6. x = y /\ y = last + value - bias
    BY <1>2, <2>5
  <2>7. w <= most \/ (x >= 0 /\ x <= most)
    BY <1>3, <1>6, <2>4
  <2>8. x = w
    <3>1. value < big /\ bias < big /\ most < big
      BY <1>4
    <3>2. 2 * big <= all /\ last <= most /\ y = last + value - bias
      BY <1>4, <2>5, <2>6
    <3>3. last < big
      BY <3>1, <3>2
    <3>4. y < 2 * big
      BY <3>1, <3>2, <3>3
    <3>5. y > 0 - big
      BY <3>1, <3>2
    <3>6. y < all /\ y + all >= 0 /\ y + all > most
      BY <3>1, <3>2, <3>4, <3>5
    <3> QED
      BY <1>4, <1>5, <2>6, <2>7, <3>6
  <2>9. moreWords \in Seq(Int) /\ \A i \in 1 .. k + 1 : more[i] = moreWords[i]
    <3>1. ASSUME NEW i \in 1 .. k + 1 PROVE more[i] = moreWords[i]
      <4>1. i \in 1 .. k \/ i = k + 1
        OBVIOUS
      <4> QED
        BY <1>3, <2>3, <2>8, <4>1
    <3> QED
      BY <3>1
  <2> QED
    BY <1>3, <2>9, SeqEqual
<1>7. SizesAgree(more, moreWords, most)
  BY <1>3, <1>6 DEF SizesAgree
<1> QED
  BY <1>2, <1>3, <1>7

-----------------------------------------------------------------------------
(* The steps up to the sizes.                                               *)

LEMMA BlockType ==
  ASSUME FillInv, NEW b \in Blocks
  PROVE  /\ b \in Seq(Byte) /\ Len(b) \in Nat \ {0} /\ Len(b) = size - kHeader /\ b # << >>
         /\ \A i \in 1 .. Len(payload) : i <= Len(b) => b[i] = payload[i]
<1>1. PICK n \in Nat \ {0} : n = size - kHeader
  <2>1. size - kHeader \in Nat \ {0}
    BY ConstantsType DEF FillInv, LacingTypes
  <2> QED
    BY <2>1
<1>2. b \in [ 1 .. n -> Byte ] /\ \A i \in 1 .. Len(payload) : i \in DOMAIN b => b[i] = payload[i]
  BY <1>1 DEF Blocks
<1>3. b \in Seq(Byte) /\ Len(b) = n /\ DOMAIN b = 1 .. n
  BY <1>2
<1>4. \A i \in 1 .. Len(payload) : i <= n => i \in 1 .. n
  OBVIOUS
<1>5. \A i \in 1 .. Len(payload) : i <= n => b[i] = payload[i]
  BY <1>2, <1>3, <1>4
<1>6. b # << >>
  BY <1>3
<1> QED
  BY <1>1, <1>3, <1>5, <1>6

\* A byte more leaves fewer blocks.
LEMMA FewerBlocks ==
  ASSUME FillInv, FillInv', NEW byte \in Byte, ReadByte(byte), size' = size, NEW b \in Blocks'
  PROVE  b \in Blocks /\ (Len(payload) + 1 <= Len(b) => b[Len(payload) + 1] = byte)
<1>1. PICK p \in Nat : p = Len(payload)
  BY DEF FillInv, LacingTypes
<1>2. /\ payload \in Seq(Byte) /\ payload' = Append(payload, byte)
  BY DEF ReadByte, FillInv, LacingTypes
<1>3. Len(payload') = p + 1 /\ payload'[p + 1] = byte /\ \A i \in 1 .. p : payload'[i] = payload[i]
  BY <1>1, <1>2
<1>4. b \in [ 1 .. size - kHeader -> Byte ] /\ \A i \in 1 .. p + 1 : i \in DOMAIN b => b[i] = payload'[i]
  BY <1>3 DEF Blocks
<1>5. b \in Blocks
  <2>1. \A i \in 1 .. p : i \in 1 .. p + 1
    OBVIOUS
  <2> QED
    BY <1>1, <1>3, <1>4, <2>1 DEF Blocks
<1>6. ASSUME p + 1 <= Len(b) PROVE b[p + 1] = byte
  <2>1. p + 1 \in DOMAIN b /\ p + 1 \in 1 .. p + 1
    BY <1>5, <1>6, BlockType
  <2> QED
    BY <1>3, <1>4, <2>1
<1> QED
  BY <1>1, <1>5, <1>6

\* What mkvparser makes of a block does not depend on what webm_parser has read.
LEMMA ParseSame ==
  ASSUME lacing' = lacing, NEW b
  PROVE  Parse(b)' = Parse(b)
BY DEF Parse

LEMMA AgreeInit == Init => AgreeInv
<1> SUFFICES ASSUME Init PROVE AgreeInv
  OBVIOUS
<1>1. /\ state = "ReadingHeader" /\ status = "feeding" /\ payload = << >>
      /\ xiph_lace_size_ = 0 /\ uint_parser_ = << >>
  BY DEF Init
<1>2. FillInv
  BY FillInit
<1>3. Announced
  BY <1>1 DEF Announced
<1>4. Unfinished
  BY <1>1 DEF Unfinished, Incomplete
<1>5. Agreement
  BY <1>1 DEF Agreement, SizeStates
<1> QED
  BY <1>2, <1>3, <1>4, <1>5 DEF AgreeInv

\* Nothing changes but what Feed does, and the block is not refused.
LEMMA AgreeStatus ==
  ASSUME AgreeInv, FillInv', status # "invalid", status' \notin { "invalid", "beyond" },
         UNCHANGED << state, headerVars, header_bytes_read_, xiph_lace_size_, lace_sizes_,
                      uint_parser_, frameVars, num_bytes_read, payload >>
  PROVE  AgreeInv'
<1> USE DEF headerVars, frameVars
<1>1. Announced' /\ Unfinished'
  BY DEF AgreeInv, Announced, Unfinished, Incomplete
<1>2. Agreement'
  <2> SUFFICES ASSUME ~ SingleEbml', NEW b \in Blocks'
               PROVE  /\ state' \in SizeStates =>
                           IF Len(payload') > Len(b) THEN Parse(b)' = Refused ELSE InStep(b)'
                      /\ state' \in { "ReadingFrames", "Done" } => SameFrames(b)'
    BY DEF Agreement, SizeStates
  <2>1. ~ SingleEbml /\ b \in Blocks
    BY DEF SingleEbml, Blocks, Byte
  <2>2. Parse(b)' = Parse(b)
    BY ParseSame
  <2>3. InStep(b)' = InStep(b)
    BY DEF InStep, XiphStep, EbmlStep, NumberBegun, EbmlLaced, First
  <2>4. SameFrames(b)' = SameFrames(b)
    <3>1. Planned' = Planned
      BY DEF Planned
    <3> QED
      BY <2>2, <3>1 DEF SameFrames
  <2> QED
    BY <2>1, <2>2, <2>3, <2>4 DEF AgreeInv, Agreement
<1> QED
  BY <1>1, <1>2 DEF AgreeInv

LEMMA AgreeReadHeader == AgreeInv /\ ReadHeader => AgreeInv'
<1> SUFFICES ASSUME AgreeInv, ReadHeader PROVE AgreeInv'
  OBVIOUS
<1> USE DEF headerVars, frameVars
<1>0. FillInv' /\ FillInv
  BY FillReadHeader DEF AgreeInv
<1>1. /\ state = "ReadingHeader" /\ status = "feeding" /\ payload = << >> /\ xiph_lace_size_ = 0
      /\ uint_parser_ = << >>
  BY DEF AgreeInv, ReadHeader, Running, Announced
<1>2. /\ status' \in { "feeding", "partial" }
      /\ \/ state' = "ReadingHeader"
         \/ state' = "GettingAction" /\ num_frames' = 1 /\ lacing = "none"
         \/ state' = "ReadingLaceCount" /\ lacing # "none"
      /\ UNCHANGED << lacing, size, xiph_lace_size_, lace_sizes_, uint_parser_, current_lace_,
                      frame_metadata_, frames, payload >>
  BY <1>1 DEF ReadHeader
<1>3. Announced'
  BY <1>1, <1>2 DEF Announced
<1>4. Unfinished'
  BY <1>1, <1>2 DEF Unfinished, Incomplete
<1>5. Agreement'
  BY <1>2 DEF Agreement, SizeStates
<1> QED
  BY <1>0, <1>3, <1>4, <1>5 DEF AgreeInv

LEMMA AgreeReadLaceCount == AgreeInv /\ ReadLaceCount => AgreeInv'
<1> SUFFICES ASSUME AgreeInv, ReadLaceCount PROVE AgreeInv'
  OBVIOUS
<1> USE DEF headerVars, frameVars
<1>0. FillInv' /\ FillInv
  BY FillReadLaceCount DEF AgreeInv
<1>1. /\ state = "ReadingLaceCount" /\ status = "feeding" /\ payload = << >> /\ xiph_lace_size_ = 0
      /\ uint_parser_ = << >> /\ lacing # "none"
  BY DEF AgreeInv, ReadLaceCount, Running, Announced
<1>2. PICK lace_count \in Counts : ReadByte(lace_count) /\ num_frames' = lace_count + 1
  BY DEF ReadLaceCount
<1>3. /\ state' = "GettingAction" /\ status' = status
      /\ UNCHANGED << lacing, size, xiph_lace_size_, lace_sizes_, uint_parser_, current_lace_,
                      frame_metadata_, frames >>
  BY DEF ReadLaceCount
<1>4. payload' = << lace_count >> /\ Len(payload') = 1 /\ payload' # << >> /\ payload'[1] = lace_count
  BY <1>1, <1>2 DEF ReadByte
<1>5. Announced'
  BY <1>1, <1>2, <1>3, <1>4 DEF Announced
<1>6. Unfinished'
  BY <1>1, <1>3 DEF Unfinished, Incomplete
<1>7. Agreement'
  BY <1>1, <1>3 DEF Agreement, SizeStates
<1> QED
  BY <1>0, <1>5, <1>6, <1>7 DEF AgreeInv

LEMMA AgreeGetAction == AgreeInv /\ GetAction => AgreeInv'
<1> SUFFICES ASSUME AgreeInv, GetAction PROVE AgreeInv'
  OBVIOUS
<1> USE DEF headerVars, frameVars
<1>0. FillInv' /\ FillInv
  BY FillGetAction DEF AgreeInv
<1>1. /\ state = "GettingAction" /\ status = "feeding" /\ xiph_lace_size_ = 0 /\ uint_parser_ = << >>
      /\ lace_sizes_ = << >>
      /\ IF lacing = "none" THEN num_frames = 1 /\ payload = << >>
         ELSE payload # << >> /\ num_frames = payload[1] + 1 /\ Len(payload) = 1
  BY DEF AgreeInv, GetAction, Running, Announced, FillInv, SizesCounted
<1>2. UNCHANGED << lacing, size, num_frames, header_bytes_read_, xiph_lace_size_, lace_sizes_,
                   uint_parser_, current_lace_, frame_metadata_, frames, status, num_bytes_read, payload >>
  BY DEF GetAction
<1>3. \/ state' = "Skipping"
      \/ state' = "ValidatingSize" /\ num_frames = 1
      \/ state' = "ReadingXiphLaceSizes" /\ lacing = "xiph"
      \/ state' = "ReadingFirstEbmlLaceSize" /\ lacing = "ebml"
      \/ state' = "CalculatingFixedLaceSizes" /\ lacing = "fixed"
  <2>1. lacing \in { "none", "xiph", "fixed", "ebml" }
    BY <1>0 DEF FillInv, LacingTypes
  <2>2. num_frames # 1 => lacing # "none"
    BY <1>1
  <2> QED
    BY <2>1, <2>2 DEF GetAction
<1>4. Announced'
  BY <1>1, <1>2, <1>3 DEF Announced
<1>5. Unfinished'
  BY <1>1, <1>2 DEF Unfinished, Incomplete
<1>6. Agreement'
  <2> SUFFICES ASSUME NEW b \in Blocks', state' \in SizeStates
               PROVE  ~ (Len(payload') > Len(b)) /\ InStep(b)'
    BY <1>1, <1>2, <1>3 DEF Agreement
  <2>1. b \in Blocks
    BY <1>2 DEF Blocks, Byte
  <2>2. b \in Seq(Byte) /\ Len(b) \in Nat \ {0}
    BY <1>0, <2>1, BlockType
  <2>3. ~ (Len(payload') > Len(b))
    <3>1. Len(payload') = 0 \/ Len(payload') = 1
      BY <1>1, <1>2
    <3>2. \A len \in Nat \ {0} : ~ (0 > len) /\ ~ (1 > len)
      OBVIOUS
    <3> QED
      BY <2>2, <3>1, <3>2
  <2>4. Tail(b) \in Seq(Byte) /\ Before(Tail(b), b, 1, 0)
    BY <2>2, BeforeTail
  <2>5. lacing # "none" => Len(payload') = 1
    BY <1>1, <1>2
  <2>6. lacing = "xiph" => XiphStep(b)'
    <3> SUFFICES ASSUME lacing = "xiph" PROVE XiphStep(b)'
      OBVIOUS
    <3>1. PICK laced : laced = XiphSizes(Tail(b), 0) /\ laced = [ sizes |-> << >>, rest |-> Tail(b) ]
      BY <2>4, XiphStart
    <3>2. /\ laced.sizes = << >> /\ laced.rest = Tail(b)
          /\ Len(lace_sizes_') = 0 /\ lace_sizes_' = << >> /\ xiph_lace_size_' = 0
      BY <1>1, <1>2, <3>1
    <3>3. Sum(SubSeq(laced.rest, 1, 0)) = 0
      <4>1. SubSeq(laced.rest, 1, 0) = << >>
        BY SubSeqEmpty
      <4> QED
        BY <4>1, SumEmpty
    <3>4. 0 \in 0 .. Len(payload') /\ Before(laced.rest, b, Len(payload'), 0)
      <4>1. Len(payload') = 1
        BY <2>5
      <4>2. Before(laced.rest, b, Len(payload'), 0)
        BY <2>4, <3>2, <4>1, Zenon
      <4> QED
        BY <4>1, <4>2
    <3>5. Full(laced.rest, 0)
      BY DEF Full
    <3> QED
      BY <3>1, <3>2, <3>3, <3>4, <3>5 DEF XiphStep
  <2>7. lacing = "ebml" => NumberBegun(Tail(b), b)'
    <3> SUFFICES ASSUME lacing = "ebml" PROVE NumberBegun(Tail(b), b)'
      OBVIOUS
    <3>1. Len(payload') = 1 /\ Len(uint_parser_') = 0
      BY <1>1, <1>2, <2>5
    <3>2. Before(Tail(b), b, Len(payload'), Len(uint_parser_'))
      BY <2>4, <3>1, Zenon
    <3> QED
      BY <3>1, <3>2 DEF NumberBegun, Begun
  <2> QED
    BY <1>1, <1>2, <2>3, <2>6, <2>7 DEF InStep
<1> QED
  BY <1>0, <1>4, <1>5, <1>6 DEF AgreeInv

LEMMA AgreeSkip == AgreeInv /\ Skip => AgreeInv'
<1> SUFFICES ASSUME AgreeInv, Skip PROVE AgreeInv'
  OBVIOUS
<1> USE DEF headerVars, frameVars
<1>0. FillInv' /\ FillInv
  BY FillSkip DEF AgreeInv
<1>1. /\ state = "Skipping" /\ state' = state /\ status' \in { "skipped", "partial" }
      /\ UNCHANGED << lacing, size, num_frames, xiph_lace_size_, lace_sizes_, uint_parser_,
                      current_lace_, frame_metadata_, frames, payload >>
  BY DEF Skip, Running
<1>2. Announced' /\ Unfinished'
  BY <1>1 DEF AgreeInv, Announced, Unfinished, Incomplete
<1>3. Agreement'
  BY <1>1 DEF Agreement, SizeStates
<1> QED
  BY <1>0, <1>2, <1>3 DEF AgreeInv

-----------------------------------------------------------------------------
(* The sizes of Xiph's lacing.                                              *)

\* The first byte behind the header tells how many frames there are.
LEMMA CountByte ==
  ASSUME FillInv, Announced, state \notin { "ReadingHeader", "ReadingLaceCount" }, lacing # "none",
         NEW b \in Blocks
  PROVE  /\ Len(payload) \in Nat \ {0} /\ payload \in Seq(Byte) /\ num_frames \in Nat
         /\ Head(b) = num_frames - 1 /\ Head(b) + 1 = num_frames
<1>1. payload # << >> /\ num_frames = payload[1] + 1 /\ payload \in Seq(Byte) /\ num_frames \in Nat
  BY DEF FillInv, LacingTypes, Announced
<1>2. Len(payload) \in Nat \ {0}
  BY <1>1
<1>3. b \in Seq(Byte) /\ b # << >> /\ 1 <= Len(b)
  BY BlockType
<1>4. 1 \in 1 .. Len(payload)
  BY <1>2
<1>5. b[1] = payload[1]
  BY <1>3, <1>4, BlockType
<1>6. Head(b) = payload[1]
  BY <1>3, <1>5
<1>7. PICK byte \in Byte : byte = payload[1] /\ byte \in Nat
  <2>1. payload[1] \in Byte
    BY <1>1, <1>4, ElementOfSeq, Zenon
  <2>2. Byte \subseteq Nat
    BY ConstantsType
  <2> QED
    BY <2>1, <2>2
<1>8. num_frames = byte + 1 /\ Head(b) = byte
  BY <1>1, <1>6, <1>7
<1> QED
  BY <1>1, <1>2, <1>7, <1>8

LEMMA XiphParse ==
  ASSUME FillInv, Announced, state \notin { "ReadingHeader", "ReadingLaceCount" }, lacing = "xiph",
         NEW b \in Blocks
  PROVE  Parse(b) = WithLast(XiphSizes(Tail(b), num_frames - 1))
<1>1. b # << >> /\ Head(b) = num_frames - 1
  BY CountByte, BlockType
<1> QED
  BY <1>1 DEF Parse

\* mkvparser at n bytes of the size behind the first k.
XiphAt(b, p, k, n) == Before(XiphSizes(Tail(b), k).rest, b, p, n) /\ Full(XiphSizes(Tail(b), k).rest, n)

\* The sum of these bytes.
Part(b, k, n) == Sum(SubSeq(XiphSizes(Tail(b), k).rest, 1, n))

\* mkvparser after one byte more of a size.
LEMMA XiphByte ==
  ASSUME NEW b \in Seq(Byte), Len(b) > 0, NEW p \in Nat, NEW k \in Nat, NEW n \in 0 .. p,
         XiphAt(b, p, k, n), p + 1 <= Len(b)
  PROVE  /\ b[p + 1] = TwoTo(kByteBits) - 1 =>
              XiphAt(b, p + 1, k, n + 1) /\ Part(b, k, n + 1) = Part(b, k, n) + b[p + 1]
         /\ b[p + 1] # TwoTo(kByteBits) - 1 =>
              /\ XiphAt(b, p + 1, k + 1, 0)
              /\ XiphSizes(Tail(b), k + 1).sizes = Append(XiphSizes(Tail(b), k).sizes, Part(b, k, n) + b[p + 1])
<1>1. Tail(b) \in Seq(Byte)
  BY BeforeTail
<1>2. PICK laced \in Laced : laced = XiphSizes(Tail(b), k) /\ laced.rest \in Seq(Byte)
  BY <1>1, XiphNext, LacedType
<1>3. Before(laced.rest, b, p, n) /\ \A i \in 1 .. n : laced.rest[i] = TwoTo(kByteBits) - 1
  BY <1>2 DEF XiphAt, Full
<1>8. n \in Nat /\ n + 1 \in Nat /\ p + 1 \in Nat
  OBVIOUS
<1>4. /\ n + 1 \in 1 .. Len(laced.rest) /\ laced.rest[n + 1] = b[p + 1]
      /\ Before(laced.rest, b, p + 1, n + 1)
  BY <1>3, <1>8, BeforeOneMore
<1>5. n \in Nat /\ n + 1 <= Len(laced.rest)
  BY <1>2, <1>4, <1>8
<1>6. ASSUME b[p + 1] = TwoTo(kByteBits) - 1
      PROVE  XiphAt(b, p + 1, k, n + 1) /\ Part(b, k, n + 1) = Part(b, k, n) + b[p + 1]
  <2>1. \A i \in 1 .. n + 1 : i \in 1 .. n \/ i = n + 1
    OBVIOUS
  <2>2. Full(laced.rest, n + 1)
    BY <1>3, <1>4, <1>6, <2>1 DEF Full
  <2>3. Sum(SubSeq(laced.rest, 1, n + 1)) = Sum(SubSeq(laced.rest, 1, n)) + b[p + 1]
    BY <1>2, <1>4, <1>5, SumOneMore
  <2> QED
    BY <1>2, <1>4, <2>2, <2>3 DEF XiphAt, Part
<1>7. ASSUME b[p + 1] # TwoTo(kByteBits) - 1
      PROVE  /\ XiphAt(b, p + 1, k + 1, 0)
             /\ XiphSizes(Tail(b), k + 1).sizes = Append(laced.sizes, Part(b, k, n) + b[p + 1])
  <2>1. b[p + 1] \in Byte
    BY <1>2, <1>4
  <2>2. SizeEnds(laced.rest, n)
    BY <1>3, <1>4, <1>5, <1>7, <2>1, ConstantsType DEF Byte, SizeEnds, Full
  <2>3. XiphSizes(Tail(b), k + 1) = SizeTaken(laced, n)
    BY <1>1, <1>2, <1>5, <2>2, XiphMore
  <2>4. p + 1 \in Nat /\ n + 1 \in 0 .. p + 1 /\ n + 1 + 1 = n + 2
    OBVIOUS
  <2>5. Before(SubSeq(laced.rest, n + 1 + 1, Len(laced.rest)), b, p + 1, 0)
    BY <1>4, <1>8, <2>4, BeforeRest
  <2>6. /\ XiphSizes(Tail(b), k + 1).sizes = Append(laced.sizes, Sum(SubSeq(laced.rest, 1, n)) + b[p + 1])
        /\ XiphSizes(Tail(b), k + 1).rest = SubSeq(laced.rest, n + 1 + 1, Len(laced.rest))
    BY <1>4, <2>3, <2>4 DEF SizeTaken
  <2>7. Full(XiphSizes(Tail(b), k + 1).rest, 0)
    BY DEF Full
  <2> QED
    BY <1>2, <2>5, <2>6, <2>7 DEF XiphAt, Part
<1> QED
  BY <1>2, <1>6, <1>7

LEMMA AgreeReadXiph == AgreeInv /\ ReadXiphLaceSize => AgreeInv'
<1> SUFFICES ASSUME AgreeInv, ReadXiphLaceSize PROVE AgreeInv'
  OBVIOUS
<1> USE DEF headerVars, frameVars
<1>0. FillInv' /\ FillInv /\ Announced
  BY FillReadXiph DEF AgreeInv
<1>1. /\ state = "ReadingXiphLaceSizes" /\ status = "feeding" /\ lacing = "xiph"
      /\ Len(lace_sizes_) < num_frames - 1 /\ lace_sizes_ \in Seq(Nat) /\ num_frames \in Nat
      /\ payload \in Seq(Byte) /\ payload # << >> /\ num_frames = payload[1] + 1
  BY DEF AgreeInv, ReadXiphLaceSize, Running, Announced, FillInv, SizesCounted, LacingTypes
<1>2. PICK byte \in Byte :
        /\ ReadByte(byte)
        /\ IF byte = TwoTo(kByteBits) - 1
           THEN xiph_lace_size_' = xiph_lace_size_ + byte /\ lace_sizes_' = lace_sizes_
           ELSE xiph_lace_size_' = 0 /\ lace_sizes_' = Append(lace_sizes_, xiph_lace_size_ + byte)
  BY ConstantsType DEF ReadXiphLaceSize
<1>3. /\ state' = IF SizesRead(lace_sizes_') THEN "ValidatingSize" ELSE state
      /\ UNCHANGED << lacing, size, num_frames, uint_parser_, current_lace_,
                      frame_metadata_, frames, status >>
  BY DEF ReadXiphLaceSize
<1>4. PICK p \in Nat, k \in Nat : p = Len(payload) /\ k = Len(lace_sizes_) /\ Len(payload') = p + 1
  BY <1>1, <1>2 DEF ReadByte
<1>5. payload' # << >> /\ payload'[1] = payload[1]
  BY <1>1, <1>2, SMTT(40) DEF ReadByte
<1>6. byte # TwoTo(kByteBits) - 1 \/ state' = "ReadingXiphLaceSizes"
  BY <1>1, <1>2, <1>3 DEF SizesRead
<1>7. state' \in { "ReadingXiphLaceSizes", "ValidatingSize" }
  BY <1>1, <1>3
<1>9. Announced' /\ Unfinished'
  <2>1. state' = "ValidatingSize" => xiph_lace_size_' = 0
    BY <1>2, <1>6
  <2>2. uint_parser_' = << >>
    BY <1>1, <1>3 DEF AgreeInv, Announced
  <2>3. state' = "ValidatingSize" => lacing' # "fixed"
    BY <1>1, <1>3
  <2>4. num_frames' = payload'[1] + 1 /\ lacing' = "xiph"
    BY <1>1, <1>3, <1>5
  <2>5. Announced'
    BY <1>5, <1>7, <2>1, <2>2, <2>4 DEF Announced
  <2> QED
    BY <2>2, <2>5 DEF Unfinished, Incomplete
<1>10. Agreement'
  <2> SUFFICES ASSUME NEW b \in Blocks'
               PROVE  IF Len(payload') > Len(b) THEN Parse(b)' = Refused ELSE InStep(b)'
    BY <1>1, <1>3, <1>7 DEF Agreement
  <2>1. b \in Blocks /\ (p + 1 <= Len(b) => b[p + 1] = byte)
    BY <1>0, <1>2, <1>3, <1>4, FewerBlocks
  <2>2. b \in Seq(Byte) /\ Len(b) \in Nat \ {0} /\ Len(b) > 0
    BY <1>0, <2>1, BlockType
  <2>3. IF p > Len(b) THEN Parse(b) = Refused ELSE XiphStep(b)
    BY <1>1, <1>4, <2>1 DEF AgreeInv, Agreement, SingleEbml, SizeStates, InStep
  <2>4. Parse(b)' = Parse(b)
    BY <1>3, ParseSame
  <2>5. Tail(b) \in Seq(Byte)
    BY <2>2, BeforeTail
  <2>6. CASE p > Len(b)
    BY <1>4, <2>2, <2>3, <2>4, <2>6
  <2>7. CASE p = Len(b)
    <3>0. XiphStep(b)
      BY <2>2, <2>3, <2>7
    <3>1. PICK n \in 0 .. p : XiphAt(b, p, k, n)
      BY <1>4, <3>0 DEF XiphStep, XiphAt
    <3>2. Full(XiphSizes(Tail(b), k).rest, Len(XiphSizes(Tail(b), k).rest))
      <4>1. Len(XiphSizes(Tail(b), k).rest) = n
        BY <2>2, <2>7, <3>1 DEF Before, XiphAt
      <4> QED
        BY <3>1, <4>1 DEF XiphAt
    <3>3. num_frames - 1 \in Nat /\ k < num_frames - 1
      BY <1>1, <1>4
    <3>4. WithLast(XiphSizes(Tail(b), num_frames - 1)) = Refused
      BY <2>5, <3>1, <3>2, <3>3, XiphShort
    <3>5. Parse(b) = Refused
      BY <1>0, <1>1, <2>1, <3>4, XiphParse
    <3>6. Len(payload') > Len(b)
      BY <1>4, <2>7
    <3> QED
      BY <2>4, <3>5, <3>6
  <2>8. CASE p < Len(b)
    <3>0. XiphStep(b)
      BY <2>2, <2>3, <2>8
    <3>1. PICK n \in 0 .. p :
            /\ XiphAt(b, p, k, n) /\ xiph_lace_size_ = Part(b, k, n)
            /\ XiphSizes(Tail(b), k).sizes = lace_sizes_
      BY <1>4, <3>0 DEF XiphStep, XiphAt, Part
    <3>2. p + 1 <= Len(b) /\ b[p + 1] = byte /\ ~ (Len(payload') > Len(b))
      BY <1>4, <2>1, <2>2, <2>8
    <3>3. /\ byte = TwoTo(kByteBits) - 1 =>
               XiphAt(b, p + 1, k, n + 1) /\ Part(b, k, n + 1) = xiph_lace_size_ + byte
          /\ byte # TwoTo(kByteBits) - 1 =>
               /\ XiphAt(b, p + 1, k + 1, 0)
               /\ XiphSizes(Tail(b), k + 1).sizes = Append(lace_sizes_, xiph_lace_size_ + byte)
      BY <2>2, <3>1, <3>2, XiphByte
    <3>4. CASE byte = TwoTo(kByteBits) - 1
      <4>1. /\ xiph_lace_size_' = xiph_lace_size_ + byte /\ lace_sizes_' = lace_sizes_
            /\ state' = "ReadingXiphLaceSizes"
        BY <1>2, <1>6, <3>4
      <4>2. n + 1 \in 0 .. Len(payload')
        BY <1>4
      <4>3. Len(lace_sizes_') = k /\ Len(payload') = p + 1
        BY <1>4, <4>1
      <4>4. XiphStep(b)'
        BY <3>1, <3>3, <3>4, <4>1, <4>2, <4>3 DEF XiphStep, XiphAt, Part
      <4> QED
        BY <1>1, <1>3, <3>2, <4>4 DEF InStep
    <3>5. CASE byte # TwoTo(kByteBits) - 1
      <4>1. xiph_lace_size_' = 0 /\ lace_sizes_' = Append(lace_sizes_, xiph_lace_size_ + byte)
        BY <1>2, <3>5
      <4>2. Len(lace_sizes_') = k + 1
        BY <1>1, <1>4, <4>1
      <4>3. Part(b, k + 1, 0) = 0
        <5>1. SubSeq(XiphSizes(Tail(b), k + 1).rest, 1, 0) = << >>
          BY SubSeqEmpty
        <5> QED
          BY <5>1, SumEmpty DEF Part
      <4>4. 0 \in 0 .. Len(payload') /\ Len(payload') = p + 1
        BY <1>4
      <4>5. XiphStep(b)'
        BY <3>3, <3>5, <4>1, <4>2, <4>3, <4>4 DEF XiphStep, XiphAt, Part
      <4> QED
        BY <1>1, <1>3, <3>2, <4>5 DEF InStep
    <3> QED
      BY <3>4, <3>5
  <2> QED
    BY <1>4, <2>2, <2>6, <2>7, <2>8
<1> QED
  BY <1>0, <1>9, <1>10 DEF AgreeInv


-----------------------------------------------------------------------------
(* The sizes of EBML's lacing.                                              *)

\* The number is not all there.
LEMMA NumberMissing ==
  ASSUME NEW b \in Seq(Byte), NEW p \in Nat, p = Len(b), NEW u \in Seq(Byte), NEW rest,
         Begun(rest, b, p, u), Incomplete(u)
  PROVE  rest \in Seq(Byte) /\ ReadUInt(rest).value = -1
<1>1. rest \in Seq(Byte) /\ Len(rest) = Len(u) /\ \A i \in 1 .. Len(u) : u[i] = rest[i]
  BY DEF Begun, Before
<1>2. CASE u = << >>
  <2>1. rest = << >>
    BY <1>1, <1>2
  <2> QED
    BY <1>1, <2>1, ReadUIntFails
<1>3. CASE u # << >>
  <2>1. 1 \in 1 .. Len(u)
    BY <1>3
  <2>2. u[1] = rest[1]
    BY <1>1, <2>1
  <2>3. Len(u) <= LeadingZeros(u[1])
    BY <1>3 DEF Incomplete
  <2> QED
    BY <1>1, <2>2, <2>3, ReadUIntFails
<1> QED
  BY <1>2, <1>3

\* One byte of it more.
LEMMA NumberByte ==
  ASSUME NEW b \in Seq(Byte), NEW p \in Nat, p + 1 <= Len(b), NEW u \in Seq(Byte), NEW rest,
         Begun(rest, b, p, u), Incomplete(u), NEW bytes, bytes = Append(u, b[p + 1])
  PROVE  /\ bytes \in Seq(Byte) /\ bytes # << >> /\ Begun(rest, b, p + 1, bytes)
         /\ bytes[1] # 0 /\ ~ (Len(bytes) <= LeadingZeros(bytes[1])) =>
              Len(bytes) = LeadingZeros(bytes[1]) + 1
<1>1. PICK n \in Nat : n = Len(u)
  OBVIOUS
<1>2. b[p + 1] \in Byte
  BY ElementOfSeq
<1>3. /\ bytes \in Seq(Byte) /\ bytes # << >> /\ Len(bytes) = n + 1 /\ bytes[n + 1] = b[p + 1]
      /\ \A i \in 1 .. n : bytes[i] = u[i]
  BY <1>1, <1>2
<1>4. Before(rest, b, p, n) /\ \A i \in 1 .. n : u[i] = rest[i]
  BY <1>1 DEF Begun
<1>5. rest[n + 1] = b[p + 1] /\ Before(rest, b, p + 1, n + 1)
  BY <1>4, BeforeOneMore
<1>6. \A i \in 1 .. n + 1 : bytes[i] = rest[i]
  <2>1. \A i \in 1 .. n + 1 : i \in 1 .. n \/ i = n + 1
    OBVIOUS
  <2> QED
    BY <1>3, <1>4, <1>5, <2>1
<1>7. Begun(rest, b, p + 1, bytes)
  BY <1>3, <1>5, <1>6 DEF Begun
<1>8. ASSUME bytes[1] # 0, ~ (Len(bytes) <= LeadingZeros(bytes[1]))
      PROVE  Len(bytes) = LeadingZeros(bytes[1]) + 1
  <2>0. bytes[1] \in Byte
    <3>1. 1 \in 1 .. Len(bytes)
      BY <1>3
    <3> QED
      BY <1>3, <3>1, ElementOfSeq
  <2>1. PICK z \in Nat : z = LeadingZeros(bytes[1])
    <3>1. kByteBits \in Nat
      BY LacingAssumption
    <3> QED
      BY <1>8, <2>0, <3>1, LeadingZerosType
  <2>2. CASE n = 0
    BY <1>3, <1>8, <2>1, <2>2
  <2>3. CASE n # 0
    <3>1. 1 \in 1 .. n /\ u # << >>
      BY <1>1, <2>3
    <3>2. bytes[1] = u[1]
      BY <1>3, <3>1
    <3>3. n <= z
      BY <1>1, <2>1, <3>1, <3>2 DEF Incomplete
    <3> QED
      BY <1>3, <1>8, <2>1, <3>3
  <2> QED
    BY <2>2, <2>3
<1> QED
  BY <1>3, <1>7, <1>8

\* A first byte of zero is that of no number.
LEMMA NumberZero ==
  ASSUME NEW b, NEW p, NEW bytes \in Seq(Byte), bytes # << >>, bytes[1] = 0, NEW rest,
         Begun(rest, b, p, bytes)
  PROVE  ReadUInt(rest).value = -1
<1>1. rest \in Seq(Byte) /\ \A i \in 1 .. Len(bytes) : bytes[i] = rest[i]
  BY DEF Begun, Before
<1>2. 1 \in 1 .. Len(bytes)
  OBVIOUS
<1>3. rest[1] = 0
  BY <1>1, <1>2
<1> QED
  BY <1>1, <1>3, ReadUIntFails

\* These bytes are the number at the front of rest.
NumberTaken(rest, b, p, bytes) ==
  /\ ReadUInt(rest).value = VarInt(bytes) /\ ReadUInt(rest).length = Len(bytes)
  /\ Begun(ReadUInt(rest).rest, b, p, << >>) /\ Len(ReadUInt(rest).rest) <= Len(rest)

\* All of the number is there.
LEMMA NumberComplete ==
  ASSUME NEW b \in Seq(Byte), NEW p \in Nat, p <= Len(b), NEW bytes \in Seq(Byte), bytes # << >>,
         bytes[1] # 0, Len(bytes) = LeadingZeros(bytes[1]) + 1, NEW rest, Begun(rest, b, p, bytes)
  PROVE  /\ NumberTaken(rest, b, p, bytes)
         /\ VarInt(bytes) \in Nat /\ VarInt(bytes) < TwoTo(DataBits(kByteBits))
         /\ Bias(Len(bytes)) \in Nat /\ Bias(Len(bytes)) < TwoTo(DataBits(kByteBits))
<1>1. /\ Before(rest, b, p, Len(bytes)) /\ rest \in Seq(Byte)
      /\ Len(rest) = Len(b) - p + Len(bytes) /\ \A i \in 1 .. Len(bytes) : bytes[i] = rest[i]
  BY DEF Begun, Before
<1>2. Len(bytes) \in Nat /\ Len(bytes) <= Len(rest) /\ Len(b) - p <= Len(rest)
  BY <1>1
<1>3. ReadUInt(rest) = [ value |-> VarInt(bytes), length |-> Len(bytes),
                         rest |-> SubSeq(rest, Len(bytes) + 1, Len(rest)) ]
  BY <1>1, <1>2, ReadUIntIs
<1>4. /\ ReadUInt(rest).value = VarInt(bytes) /\ ReadUInt(rest).length = Len(bytes)
      /\ ReadUInt(rest).rest = SubSeq(rest, Len(bytes) + 1, Len(rest))
  <2>1. PICK v, l, r : v = VarInt(bytes) /\ l = Len(bytes) /\ r = SubSeq(rest, Len(bytes) + 1, Len(rest))
    OBVIOUS
  <2>2. ReadUInt(rest) = [ value |-> v, length |-> l, rest |-> r ]
    BY <1>3, <2>1, Zenon
  <2>3. ReadUInt(rest).value = v /\ ReadUInt(rest).length = l /\ ReadUInt(rest).rest = r
    BY <2>2
  <2> QED
    BY <2>1, <2>3, Zenon
<1>5. Before(ReadUInt(rest).rest, b, p, 0)
  <2>1. Before(SubSeq(rest, Len(bytes) + 1, Len(rest)), b, p, 0)
    BY <1>1, <1>2, BeforeRest
  <2> QED
    BY <1>4, <2>1, Zenon
<1>6. Begun(ReadUInt(rest).rest, b, p, << >>)
  <2>1. Len(<< >>) = 0 /\ 1 .. 0 = {}
    OBVIOUS
  <2> QED
    BY <1>5, <2>1 DEF Begun
<1>7. Len(ReadUInt(rest).rest) <= Len(rest)
  BY <1>2, <1>5 DEF Before
<1>8. Len(bytes) \in 1 .. kByteBits
  <2>1. bytes[1] \in Byte
    <3>1. 1 \in 1 .. Len(bytes)
      OBVIOUS
    <3> QED
      BY <3>1, ElementOfSeq
  <2>2. LeadingZeros(bytes[1]) \in 0 .. kByteBits - 1 /\ kByteBits \in Nat
    BY <2>1, LeadingZerosType, LacingAssumption
  <2> QED
    BY <2>2
<1>9. /\ VarInt(bytes) \in Nat /\ VarInt(bytes) < TwoTo(DataBits(kByteBits))
      /\ Bias(Len(bytes)) \in Nat /\ Bias(Len(bytes)) < TwoTo(DataBits(kByteBits))
  BY <1>8, NumbersSmall
<1> QED
  BY <1>4, <1>6, <1>7, <1>9, Zenon DEF NumberTaken

\* webm_parser has these sizes and bytes of the next.
EbmlBehind(b, p, words, u, most) ==
  /\ First(b).value = words[1] /\ Len(EbmlLaced(b, Len(words) - 1).rest) <= Len(First(b).rest)
  /\ SizesAgree(EbmlLaced(b, Len(words) - 1).sizes, words, most)
  /\ Begun(EbmlLaced(b, Len(words) - 1).rest, b, p, u)
EbmlAt(b, p, words, u, most) ==
  IF words = << >> THEN Begun(Tail(b), b, p, u) ELSE EbmlBehind(b, p, words, u, most)

EbmlAhead(b, words) == IF words = << >> THEN Tail(b) ELSE EbmlLaced(b, Len(words) - 1).rest

LEMMA FirstType ==
  ASSUME NEW b \in Seq(Byte), Len(b) > 0
  PROVE  First(b).value \in Int /\ First(b).rest \in Seq(Byte)
BY BeforeTail, ReadUIntType DEF First

\* mkvparser refuses a block that has no number where a size is expected.
LEMMA EbmlFails ==
  ASSUME NEW b \in Seq(Byte), Len(b) > 0, NEW words \in Seq(Nat), NEW n \in Nat, Len(words) < n - 1,
         ReadUInt(EbmlAhead(b, words)).value = -1
  PROVE  First(b).value <= 0 \/ WithLast(EbmlLaced(b, n - 2)) = Refused
<1>1. CASE words = << >>
  BY <1>1 DEF EbmlAhead, First
<1>2. CASE words # << >>
  <2>1. PICK k \in Nat, m \in Nat : k = Len(words) - 1 /\ m = n - 2 /\ k < m
    <3>1. Len(words) - 1 \in Nat /\ n - 2 \in Nat /\ Len(words) - 1 < n - 2
      BY <1>2
    <3> QED
      BY <3>1
  <2>2. ReadUInt(EbmlSizes(First(b).value, First(b).rest, k).rest).value = -1
    BY <1>2, <2>1 DEF EbmlAhead, EbmlLaced
  <2>3. WithLast(EbmlSizes(First(b).value, First(b).rest, m)) = Refused
    BY <2>1, <2>2, FirstType, EbmlShort
  <2> QED
    BY <2>1, <2>3 DEF EbmlLaced
<1> QED
  BY <1>1, <1>2

\* A size is complete.
LEMMA EbmlTaken ==
  ASSUME NEW b \in Seq(Byte), Len(b) > 0, NEW p \in Nat, p + 1 <= Len(b), NEW words \in Seq(Nat), NEW u \in Seq(Byte),
         NEW most \in Nat, most < TwoTo(DataBits(kByteBits)), EbmlAt(b, p, words, u, most), Incomplete(u),
         NEW bytes, bytes = Append(u, b[p + 1]), bytes[1] # 0, ~ (Len(bytes) <= LeadingZeros(bytes[1])),
         NEW more, more = Append(words, IF words = << >> THEN VarInt(bytes) ELSE NextSize(words, bytes))
  PROVE  more # << >> /\ EbmlBehind(b, p + 1, more, << >>, most)
<1>0. Begun(EbmlAhead(b, words), b, p, u)
  BY DEF EbmlAt, EbmlBehind, EbmlAhead
<1>1. /\ bytes \in Seq(Byte) /\ bytes # << >> /\ Begun(EbmlAhead(b, words), b, p + 1, bytes)
      /\ Len(bytes) = LeadingZeros(bytes[1]) + 1
  BY <1>0, NumberByte
<1>2. PICK delta : delta = ReadUInt(EbmlAhead(b, words))
  OBVIOUS
<1>3. p + 1 \in Nat
  OBVIOUS
<1>4. /\ delta.value = VarInt(bytes) /\ delta.length = Len(bytes)
      /\ Begun(delta.rest, b, p + 1, << >>) /\ Len(delta.rest) <= Len(EbmlAhead(b, words))
  <2>1. PICK ahead : ahead = EbmlAhead(b, words)
    OBVIOUS
  <2>2. Begun(ahead, b, p + 1, bytes)
    BY <1>1, <2>1
  <2>0. bytes \in Seq(Byte) /\ bytes # << >> /\ Len(bytes) = LeadingZeros(bytes[1]) + 1
    BY <1>1
  <2>3. NumberTaken(ahead, b, p + 1, bytes)
    BY <1>3, <2>0, <2>2, NumberComplete
  <2> QED
    BY <1>2, <2>1, <2>3, Zenon DEF NumberTaken
<1>5. /\ VarInt(bytes) \in Nat /\ VarInt(bytes) < TwoTo(DataBits(kByteBits))
      /\ Bias(Len(bytes)) \in Nat /\ Bias(Len(bytes)) < TwoTo(DataBits(kByteBits))
  BY <1>1, <1>3, NumberComplete
<1>6. First(b).value \in Int /\ First(b).rest \in Seq(Byte)
  BY FirstType
<1>7. CASE words = << >>
  <2>1. more = << VarInt(bytes) >>
    BY <1>7
  <2>2. delta = First(b)
    BY <1>2, <1>7 DEF EbmlAhead, First
  <2>3. Len(more) - 1 = 0 /\ more[1] = VarInt(bytes) /\ Len(more) = 1 /\ more \in Seq(Int)
    <3>1. PICK v \in Int : v = VarInt(bytes)
      BY <1>5
    <3>2. more = << v >>
      BY <2>1, <3>1
    <3> QED
      BY <3>1, <3>2, SMTT(40)
  <2>4. EbmlLaced(b, 0) = [ sizes |-> << First(b).value >>, rest |-> First(b).rest ]
    BY <1>6, EbmlStart DEF EbmlLaced
  <2>5. EbmlLaced(b, 0).sizes = more /\ EbmlLaced(b, 0).rest = First(b).rest
    BY <1>4, <2>1, <2>2, <2>4, SMTT(40)
  <2>6. SizesAgree(more, more, most)
    BY <2>3 DEF SizesAgree
  <2>7. Len(First(b).rest) <= Len(First(b).rest)
    BY <1>6
  <2>8. Begun(First(b).rest, b, p + 1, << >>) /\ First(b).value = more[1]
    BY <1>4, <2>2, <2>3
  <2>9. EbmlBehind(b, p + 1, more, << >>, most)
    BY <2>3, <2>5, <2>6, <2>7, <2>8, Zenon DEF EbmlBehind
  <2> QED
    BY <2>1, <2>9
<1>8. CASE words # << >>
  <2>1. PICK k \in Nat : k = Len(words) - 1 /\ k + 1 = Len(words) /\ k + 1 \in Nat \ {0}
    <3>1. PICK l \in Nat \ {0} : l = Len(words)
      BY <1>8
    <3>2. l - 1 \in Nat /\ l - 1 = Len(words) - 1 /\ l - 1 + 1 = Len(words) /\ l - 1 + 1 \in Nat \ {0}
      BY <3>1
    <3> QED
      BY <3>2
  <2>2. PICK laced \in LacedSome : laced = EbmlLaced(b, k) /\ EbmlLaced(b, k + 1) = NextEbml(laced)
    BY <1>6, EbmlNext DEF EbmlLaced
  <2>3. laced.rest \in Seq(Byte) /\ laced.sizes \in Seq(Int) /\ laced.rest = EbmlAhead(b, words)
    BY <1>8, <2>1, <2>2, LacedType DEF LacedSome, EbmlAhead
  <2>4. /\ First(b).value = words[1] /\ Len(laced.rest) <= Len(First(b).rest)
        /\ SizesAgree(laced.sizes, words, most)
    BY <1>8, <2>1, <2>2 DEF EbmlAt, EbmlBehind
  <2>5. Len(laced.sizes) = k + 1
    BY <2>1, <2>4 DEF SizesAgree
  <2>6. PICK x : x = laced.sizes[k + 1] + VarInt(bytes) - Bias(Len(bytes))
    OBVIOUS
  <2>7. NextEbml(laced) = [ sizes |-> Append(laced.sizes, x), rest |-> delta.rest ]
    <3>1. ~ (delta.value < 0)
      BY <1>4, <1>5
    <3> QED
      BY <1>2, <1>4, <2>3, <2>5, <2>6, <3>1 DEF NextEbml
  <2>8. PICK w : w = Word(words[k + 1] + VarInt(bytes) - Bias(Len(bytes))) /\ w = NextSize(words, bytes)
    BY <2>1 DEF NextSize
  <2>9. SizesAgree(Append(laced.sizes, x), Append(words, w), most)
    BY <1>5, <2>1, <2>3, <2>4, <2>5, <2>6, <2>8, AgreeMore, ZenonT(40)
  <2>10. more = Append(words, w)
    BY <1>8, <2>8
  <2>11. Len(more) - 1 = k + 1 /\ more[1] = words[1] /\ more # << >>
    <3>1. w \in Nat
      <4>1. words[k + 1] \in Nat
        BY <2>1, ElementOfSeq
      <4>2. words[k + 1] + VarInt(bytes) - Bias(Len(bytes)) \in Int
        BY <1>5, <4>1
      <4> QED
        BY <2>8, <4>2, WordType
    <3>2. PICK v \in Nat : v = w
      BY <3>1
    <3>3. more = Append(words, v)
      BY <2>10, <3>2
    <3>4. PICK s \in Seq(Nat) : s = words /\ Len(s) = k + 1
      BY <2>1
    <3>5. PICK t : t = Append(s, v)
      OBVIOUS
    <3>6. /\ t # << >> /\ Len(t) = Len(s) + 1
          /\ \A i \in 1 .. Len(s) : t[i] = s[i]
      BY <3>2, <3>4, <3>5, AppendProperties, SMTT(40)
    <3>7. 1 \in 1 .. Len(s) /\ Len(s) + 1 - 1 = k + 1
      BY <2>1, <3>4
    <3> QED
      BY <3>3, <3>4, <3>5, <3>6, <3>7
  <2>12. EbmlLaced(b, k + 1).sizes = Append(laced.sizes, x) /\ EbmlLaced(b, k + 1).rest = delta.rest
    <3>1. PICK sizes, rest : sizes = Append(laced.sizes, x) /\ rest = delta.rest
      OBVIOUS
    <3>2. EbmlLaced(b, k + 1) = [ sizes |-> sizes, rest |-> rest ]
      BY <2>2, <2>7, <3>1, Zenon
    <3>3. EbmlLaced(b, k + 1).sizes = sizes /\ EbmlLaced(b, k + 1).rest = rest
      BY <3>2
    <3> QED
      BY <3>1, <3>3, Zenon
  <2>13. Len(delta.rest) <= Len(First(b).rest)
    <3>1. delta.rest \in Seq(Byte)
      BY <1>4 DEF Begun, Before
    <3> QED
      BY <1>4, <1>6, <2>3, <2>4, <3>1, SMTT(40)
  <2>14. EbmlBehind(b, p + 1, more, << >>, most)
    BY <1>4, <2>4, <2>9, <2>10, <2>11, <2>12, <2>13, Zenon DEF EbmlBehind
  <2> QED
    BY <2>11, <2>14
<1> QED
  BY <1>7, <1>8

LEMMA EbmlParse ==
  ASSUME FillInv, Announced, state \notin { "ReadingHeader", "ReadingLaceCount" }, lacing = "ebml",
         num_frames # 1, NEW b \in Blocks
  PROVE  Parse(b) = IF First(b).value <= 0 \/ Len(First(b).rest) - First(b).value < 0 THEN Refused
                    ELSE WithLast(EbmlLaced(b, num_frames - 2))
<1>1. b # << >> /\ Head(b) + 1 = num_frames
  BY CountByte, BlockType
<1>2. Parse(b) = EbmlLens(Tail(b), num_frames)
  BY <1>1 DEF Parse
<1> QED
  BY <1>2 DEF EbmlLens, EbmlLaced, First

\* mkvparser refuses a block in which webm_parser finds no number.
LEMMA EbmlRefused ==
  ASSUME FillInv, Announced, state \in { "ReadingFirstEbmlLaceSize", "ReadingEbmlLaceSizes" },
         NEW b \in Blocks, ReadUInt(EbmlAhead(b, lace_sizes_)).value = -1
  PROVE  Parse(b) = Refused
<1>1. /\ lace_sizes_ \in Seq(Nat) /\ num_frames \in Nat /\ Len(lace_sizes_) < num_frames - 1
      /\ lacing = "ebml"
  BY DEF FillInv, LacingTypes, SizesCounted, Announced
<1>2. b \in Seq(Byte) /\ Len(b) > 0
  BY BlockType
<1>3. First(b).value <= 0 \/ WithLast(EbmlLaced(b, num_frames - 2)) = Refused
  BY <1>1, <1>2, EbmlFails
<1>4. num_frames # 1
  BY <1>1
<1> QED
  BY <1>1, <1>3, <1>4, EbmlParse

LEMMA EbmlInStep ==
  ASSUME lacing = "ebml", NEW b
  PROVE  InStep(b) => EbmlAt(b, Len(payload), lace_sizes_, uint_parser_, size)
BY DEF InStep, EbmlAt, EbmlBehind, EbmlStep, NumberBegun

LEMMA EbmlInStepNext ==
  ASSUME lacing' = "ebml", NEW b, EbmlAt(b, Len(payload'), lace_sizes_', uint_parser_', size')
  PROVE  InStep(b)'
BY DEF InStep, EbmlAt, EbmlBehind, EbmlStep, NumberBegun

\* What a byte of a size does.
NoNumber(bytes) ==
  bytes[1] = 0 /\ status' = "invalid" /\ UNCHANGED << state, lace_sizes_, uint_parser_ >>
NumberGoesOn(bytes) ==
  /\ bytes[1] # 0 /\ Len(bytes) <= LeadingZeros(bytes[1]) /\ uint_parser_' = bytes
  /\ UNCHANGED << state, lace_sizes_, status >>
NumberEnds(bytes) ==
  /\ bytes[1] # 0 /\ ~ (Len(bytes) <= LeadingZeros(bytes[1])) /\ uint_parser_' = << >>
  /\ lace_sizes_' = Append(lace_sizes_, IF lace_sizes_ = << >> THEN VarInt(bytes) ELSE NextSize(lace_sizes_, bytes))
  /\ state' = (IF SizesRead(lace_sizes_') THEN "ValidatingSize" ELSE "ReadingEbmlLaceSizes")
  /\ UNCHANGED status

LEMMA EbmlByte ==
  ASSUME AgreeInv, ReadEbmlLaceSize
  PROVE  \E byte \in Byte :
           /\ ReadByte(byte)
           /\ \/ NoNumber(Append(uint_parser_, byte))
              \/ NumberGoesOn(Append(uint_parser_, byte))
              \/ NumberEnds(Append(uint_parser_, byte))
<1>1. PICK byte \in Byte : \E bytes \in { Append(uint_parser_, byte) } :
        /\ ReadByte(byte)
        /\ IF bytes[1] = 0
           THEN status' = "invalid" /\ UNCHANGED << state, lace_sizes_, uint_parser_ >>
           ELSE /\ UNCHANGED status
                /\ IF Len(bytes) <= LeadingZeros(bytes[1])
                   THEN uint_parser_' = bytes /\ UNCHANGED << state, lace_sizes_ >>
                   ELSE /\ uint_parser_' = << >>
                        /\ lace_sizes_' = Append(lace_sizes_,
                             IF lace_sizes_ = << >> THEN VarInt(bytes) ELSE NextSize(lace_sizes_, bytes))
                        /\ state' = IF SizesRead(lace_sizes_') THEN "ValidatingSize" ELSE "ReadingEbmlLaceSizes"
  BY ConstantsType DEF ReadEbmlLaceSize
<1>2. \E bytes \in { Append(uint_parser_, byte) } :
        ReadByte(byte) /\ (NoNumber(bytes) \/ NumberGoesOn(bytes) \/ NumberEnds(bytes))
  BY <1>1 DEF NoNumber, NumberGoesOn, NumberEnds
<1> QED
  BY <1>1, <1>2

LEMMA AgreeReadEbml == AgreeInv /\ ReadEbmlLaceSize => AgreeInv'
<1> SUFFICES ASSUME AgreeInv, ReadEbmlLaceSize PROVE AgreeInv'
  OBVIOUS
<1> USE DEF headerVars, frameVars
<1>0. FillInv' /\ FillInv /\ Announced /\ Unfinished
  BY FillReadEbml DEF AgreeInv
<1>1. /\ state \in { "ReadingFirstEbmlLaceSize", "ReadingEbmlLaceSizes" } /\ status = "feeding"
      /\ lacing = "ebml" /\ Len(lace_sizes_) < num_frames - 1 /\ lace_sizes_ \in Seq(Nat) /\ num_frames \in Nat
      /\ payload \in Seq(Byte) /\ payload # << >> /\ num_frames = payload[1] + 1
      /\ uint_parser_ \in Seq(Byte) /\ xiph_lace_size_ \in Nat
      /\ state = "ReadingEbmlLaceSizes" => lace_sizes_ # << >>
  BY DEF AgreeInv, ReadEbmlLaceSize, Running, Announced, FillInv, SizesCounted, LacingTypes
<1>10. PICK byte \in Byte :
         /\ ReadByte(byte)
         /\ \/ NoNumber(Append(uint_parser_, byte))
            \/ NumberGoesOn(Append(uint_parser_, byte))
            \/ NumberEnds(Append(uint_parser_, byte))
  BY EbmlByte
<1>2. PICK bytes : /\ bytes = Append(uint_parser_, byte) /\ ReadByte(byte)
                   /\ NoNumber(bytes) \/ NumberGoesOn(bytes) \/ NumberEnds(bytes)
  BY <1>10
<1>3. UNCHANGED << lacing, size, num_frames, xiph_lace_size_, current_lace_, frame_metadata_, frames >>
  BY DEF ReadEbmlLaceSize
<1>4. PICK p \in Nat : p = Len(payload) /\ Len(payload') = p + 1
  BY <1>1, <1>2 DEF ReadByte
<1>5. payload' # << >> /\ payload'[1] = payload[1]
  <2>1. payload' = Append(payload, byte)
    BY <1>2 DEF ReadByte
  <2> QED
    BY <1>1, <2>1, SMTT(40)
<1>6. /\ state' \in { "ReadingFirstEbmlLaceSize", "ReadingEbmlLaceSizes", "ValidatingSize" }
      /\ state' = "ReadingEbmlLaceSizes" => lace_sizes_' # << >>
      /\ state' = "ValidatingSize" => uint_parser_' = << >>
  <2>1. NumberEnds(bytes) => lace_sizes_' # << >>
    BY <1>1 DEF NumberEnds
  <2> QED
    BY <1>1, <1>2, <2>1 DEF NoNumber, NumberGoesOn, NumberEnds
<1>7. Announced'
  BY <1>1, <1>3, <1>5, <1>6 DEF Announced
<1>8. Unfinished'
  BY <1>0, <1>2 DEF Unfinished, Incomplete, NoNumber, NumberGoesOn, NumberEnds
<1>9. Agreement'
  <2> SUFFICES ASSUME NEW b \in Blocks'
               PROVE  /\ status' = "invalid" => Parse(b) = Refused
                      /\ status' # "invalid" => IF Len(payload') > Len(b) THEN Parse(b) = Refused ELSE InStep(b)'
    <3>1. status' # "beyond" /\ state' \notin { "ReadingFrames", "Done" }
      BY <1>1, <1>2, <1>6 DEF NoNumber, NumberGoesOn, NumberEnds
    <3>2. \A x \in Blocks' : Parse(x)' = Parse(x)
      BY <1>3, ParseSame
    <3> QED
      BY <3>1, <3>2 DEF Agreement
  <2>1. b \in Blocks /\ (p + 1 <= Len(b) => b[p + 1] = byte)
    BY <1>0, <1>2, <1>3, <1>4, FewerBlocks
  <2>2. b \in Seq(Byte) /\ Len(b) \in Nat \ {0} /\ Len(b) > 0
    BY <1>0, <2>1, BlockType
  <2>3. IF p > Len(b) THEN Parse(b) = Refused ELSE EbmlAt(b, p, lace_sizes_, uint_parser_, size)
    <3>1. ~ SingleEbml
      BY <1>1 DEF SingleEbml
    <3>2. IF p > Len(b) THEN Parse(b) = Refused ELSE InStep(b)
      BY <1>1, <1>4, <2>1, <3>1 DEF AgreeInv, Agreement, SizeStates
    <3> QED
      BY <1>1, <1>4, <3>2, EbmlInStep
  <2>4. PICK words \in Seq(Nat), u \in Seq(Byte), most \in Nat :
          /\ words = lace_sizes_ /\ u = uint_parser_ /\ most = size
          /\ most < TwoTo(DataBits(kByteBits)) /\ Incomplete(u)
    <3>1. size \in Nat /\ size < TwoTo(DataBits(kByteBits))
      BY <1>0, ConstantsType, WordAssumption DEF FillInv, LacingTypes
    <3> QED
      BY <1>0, <1>1, <3>1 DEF Unfinished
  <2>5. CASE p > Len(b)
    BY <1>4, <2>2, <2>3, <2>5
  <2>6. CASE p = Len(b)
    <3>1. EbmlAt(b, p, words, u, most)
      BY <2>2, <2>3, <2>4, <2>6
    <3>2. Begun(EbmlAhead(b, words), b, p, u)
      BY <3>1 DEF EbmlAt, EbmlBehind, EbmlAhead
    <3>3. ReadUInt(EbmlAhead(b, words)).value = -1
      BY <2>2, <2>4, <2>6, <3>2, NumberMissing
    <3>4. Parse(b) = Refused
      BY <1>0, <1>1, <2>1, <2>4, <3>3, EbmlRefused
    <3>5. Len(payload') > Len(b)
      BY <1>4, <2>6
    <3> QED
      BY <3>4, <3>5
  <2>7. CASE p < Len(b)
    <3>1. EbmlAt(b, p, words, u, most)
      BY <2>2, <2>3, <2>4, <2>7
    <3>2. Begun(EbmlAhead(b, words), b, p, u)
      BY <3>1 DEF EbmlAt, EbmlBehind, EbmlAhead
    <3>3. p + 1 <= Len(b) /\ b[p + 1] = byte /\ ~ (Len(payload') > Len(b))
      BY <1>4, <2>1, <2>2, <2>7
    <3>4. bytes = Append(u, b[p + 1])
      BY <1>2, <2>4, <3>3
    <3>5. bytes \in Seq(Byte) /\ bytes # << >> /\ Begun(EbmlAhead(b, words), b, p + 1, bytes)
      BY <2>2, <2>4, <3>2, <3>3, <3>4, NumberByte
    <3>6. CASE NoNumber(bytes)
      <4>1. bytes[1] = 0 /\ status' = "invalid"
        BY <3>6 DEF NoNumber
      <4>2. ReadUInt(EbmlAhead(b, words)).value = -1
        BY <3>5, <4>1, NumberZero
      <4>3. Parse(b) = Refused
        BY <1>0, <1>1, <2>1, <2>4, <4>2, EbmlRefused
      <4> QED
        BY <4>1, <4>3
    <3>7. CASE NumberGoesOn(bytes)
      <4>1. lace_sizes_' = words /\ uint_parser_' = bytes /\ size' = most /\ lacing' = "ebml" /\ Len(payload') = p + 1
        BY <1>1, <1>3, <1>4, <2>4, <3>7 DEF NumberGoesOn
      <4>2. EbmlAt(b, p + 1, words, bytes, most)
        BY <3>1, <3>5 DEF EbmlAt, EbmlBehind, EbmlAhead
      <4>3. InStep(b)'
        BY <4>1, <4>2, EbmlInStepNext
      <4>4. status' # "invalid"
        BY <1>1, <3>7 DEF NumberGoesOn
      <4> QED
        BY <3>3, <4>3, <4>4
    <3>8. CASE NumberEnds(bytes)
      <4>1. PICK more : /\ more = Append(words, IF words = << >> THEN VarInt(bytes) ELSE NextSize(words, bytes))
                        /\ lace_sizes_' = more
        BY <2>4, <3>8 DEF NumberEnds
      <4>2. bytes[1] # 0 /\ ~ (Len(bytes) <= LeadingZeros(bytes[1]))
        BY <3>8 DEF NumberEnds
      <4>3. more # << >> /\ EbmlBehind(b, p + 1, more, << >>, most)
        <5>1. Len(b) > 0 /\ p + 1 <= Len(b)
          BY <2>2, <3>3
        <5>2. PICK next : next = Append(words, IF words = << >> THEN VarInt(bytes) ELSE NextSize(words, bytes))
          OBVIOUS
        <5>3. next # << >> /\ EbmlBehind(b, p + 1, next, << >>, most)
          BY <2>2, <2>4, <3>1, <3>4, <4>2, <5>1, <5>2, EbmlTaken, ZenonT(40)
        <5> QED
          BY <4>1, <5>2, <5>3, Zenon
      <4>4. EbmlAt(b, p + 1, more, << >>, most)
        BY <4>3 DEF EbmlAt
      <4>5. uint_parser_' = << >> /\ size' = most /\ lacing' = "ebml" /\ Len(payload') = p + 1 /\ status' # "invalid"
        BY <1>1, <1>3, <1>4, <2>4, <3>8 DEF NumberEnds
      <4>6. InStep(b)'
        BY <4>1, <4>4, <4>5, EbmlInStepNext
      <4> QED
        BY <3>3, <4>5, <4>6
    <3> QED
      BY <1>2, <3>6, <3>7, <3>8
  <2> QED
    BY <1>4, <2>2, <2>5, <2>6, <2>7
<1> QED
  BY <1>0, <1>7, <1>8, <1>9 DEF AgreeInv

-----------------------------------------------------------------------------
(* The size of the last frame.                                              *)

LEMMA AgreeFixed == AgreeInv /\ CalculateFixedLaceSizes => AgreeInv'
<1> SUFFICES ASSUME AgreeInv, CalculateFixedLaceSizes PROVE AgreeInv'
  OBVIOUS
<1> USE DEF headerVars, frameVars
<1>0. FillInv' /\ FillInv /\ Announced /\ Unfinished
  BY FillFixed DEF AgreeInv
<1>1. /\ state = "CalculatingFixedLaceSizes" /\ status = "feeding" /\ lacing = "fixed"
      /\ Len(payload) = 1 /\ payload # << >> /\ num_frames = payload[1] + 1 /\ uint_parser_ = << >>
      /\ header_bytes_read_ = kHeader + Len(payload) /\ frames = << >> /\ current_lace_ = 1
      /\ num_frames \in Nat /\ num_frames > 1
  BY DEF AgreeInv, CalculateFixedLaceSizes, Running, Announced, FillInv, SizesCounted, HeaderCounted, LacingTypes
<1>2. UNCHANGED << lacing, size, num_frames, header_bytes_read_, xiph_lace_size_, uint_parser_,
                   current_lace_, frames, payload >>
  BY DEF CalculateFixedLaceSizes
<1>3. \/ /\ ~ Divides(size - header_bytes_read_) /\ status' = "invalid" /\ state' = state
      \/ /\ Divides(size - header_bytes_read_) /\ status' = status /\ state' = "ReadingFrames"
         /\ lace_sizes_' = [ i \in 1 .. num_frames |-> (size - header_bytes_read_) \div num_frames ]
         /\ frame_metadata_'.size = (size - header_bytes_read_) \div num_frames
  BY DEF CalculateFixedLaceSizes
<1>4. Announced'
  BY <1>1, <1>2, <1>3 DEF Announced
<1>5. Unfinished'
  BY <1>1, <1>2 DEF Unfinished, Incomplete
<1>6. Agreement'
  <2> SUFFICES ASSUME NEW b \in Blocks'
               PROVE  /\ status' = "invalid" => Parse(b) = Refused
                      /\ state' = "ReadingFrames" => SameFrames(b)'
    <3>1. status' # "beyond" /\ state' # "Done" /\ (status' = "invalid" \/ state' \notin SizeStates)
      BY <1>1, <1>3 DEF SizeStates
    <3>2. \A x \in Blocks' : Parse(x)' = Parse(x)
      BY <1>2, ParseSame
    <3> QED
      BY <3>1, <3>2 DEF Agreement
  <2>1. b \in Blocks /\ Parse(b)' = Parse(b)
    BY <1>2, ParseSame DEF Blocks, Byte
  <2>2. b \in Seq(Byte) /\ Len(b) \in Nat \ {0} /\ Len(b) > 0 /\ b # << >> /\ Len(b) = size - kHeader
    BY <1>0, <2>1, BlockType
  <2>3. Head(b) + 1 = num_frames
    BY <1>0, <1>1, <2>1, CountByte
  <2>4. Parse(b) = FixedLens(Tail(b), num_frames)
    BY <1>1, <2>2, <2>3 DEF Parse
  <2>5. PICK n \in Nat \ {0}, most \in Nat, data \in Nat :
          /\ n = num_frames /\ most = size /\ data = size - header_bytes_read_ /\ data = Len(Tail(b)) /\ data <= most
    <3>1. PICK most \in Nat, h \in Nat, l \in Nat \ {0} :
            most = size /\ h = kHeader /\ l = Len(b) /\ l = most - h /\ header_bytes_read_ = h + 1
      BY <1>0, <1>1, <2>2, ConstantsType DEF FillInv, LacingTypes
    <3>2. Len(Tail(b)) = l - 1
      BY <2>2, <3>1, BeforeTail
    <3>3. size - header_bytes_read_ = l - 1 /\ l - 1 \in Nat /\ l - 1 <= most
      BY <3>1
    <3> QED
      BY <1>1, <3>1, <3>2, <3>3
  <2>6. Tail(b) # << >> <=> data > 0
    BY <2>2, <2>5, BeforeTail
  <2>7. CASE ~ Divides(size - header_bytes_read_)
    <3>1. ~ (Tail(b) # << >> /\ Len(Tail(b)) % num_frames = 0)
      BY <2>5, <2>6, <2>7 DEF Divides
    <3>2. Parse(b) = Refused
      BY <2>4, <3>1 DEF FixedLens
    <3>3. state' # "ReadingFrames"
      BY <1>1, <1>3, <2>7
    <3> QED
      BY <3>2, <3>3
  <2>8. CASE Divides(size - header_bytes_read_)
    <3>1. PICK each \in Nat : each = data \div n /\ n * each = data
      <4>1. data % n = 0
        BY <2>5, <2>8 DEF Divides
      <4>2. data \div n \in Nat /\ n * (data \div n) = data
        BY <4>1
      <4> QED
        BY <4>2
    <3>2. Parse(b) = [ i \in 1 .. n |-> each ]
      <4>1. Tail(b) # << >> /\ Len(Tail(b)) % num_frames = 0
        BY <2>5, <2>6, <2>8 DEF Divides
      <4> QED
        BY <2>4, <2>5, <3>1, <4>1 DEF FixedLens
    <3>3. lace_sizes_' = [ i \in 1 .. n |-> each ] /\ frame_metadata_'.size = each /\ status' # "invalid"
      BY <1>1, <1>3, <2>5, <2>8, <3>1
    <3>4. PICK lens \in Seq(Nat) :
            lens = lace_sizes_' /\ lens = Parse(b) /\ Len(lens) = n /\ \A k \in 1 .. n : lens[k] = each
      <4>1. [ i \in 1 .. n |-> each ] \in Seq(Nat) /\ Len([ i \in 1 .. n |-> each ]) = n
        OBVIOUS
      <4> QED
        BY <3>2, <3>3, <4>1
    <3>5. Planned' = lens
      <4>1. lens[1] = each
        BY <3>4
      <4> QED
        BY <1>1, <1>2, <2>5, <3>3, <3>4, <4>1, FreshPlan
    <3>6. \A k \in 1 .. n : lens[k] <= most
      <4>1. Sum(lens) = data
        BY <3>1, <3>4, SumSame
      <4>2. Sum(lens) \in Nat /\ \A k \in 1 .. Len(lens) : lens[k] <= Sum(lens)
        BY SumBounds
      <4> QED
        BY <2>5, <3>4, <4>1, <4>2
    <3>7. num_frames' = n /\ size' = most
      BY <1>2, <2>5
    <3>8. SameFrames(b)'
      BY <2>1, <3>4, <3>5, <3>6, <3>7 DEF SameFrames
    <3> QED
      BY <3>3, <3>8
  <2> QED
    BY <2>7, <2>8
<1> QED
  BY <1>0, <1>4, <1>5, <1>6 DEF AgreeInv

\* The frames that mkvparser makes of its sizes, if no other reason refuses the block.
LEMMA ParseLast ==
  ASSUME AgreeInv, state = "ValidatingSize", status = "feeding", ~ SingleEbml, NEW b \in Blocks,
         Len(payload) <= Len(b)
  PROVE  \E laced \in Laced :
           /\ SizesAgree(laced.sizes, lace_sizes_, size) /\ Len(laced.rest) = Len(b) - Len(payload)
           /\ Parse(b) # Refused => Parse(b) = WithLast(laced)
           /\ laced.sizes = lace_sizes_ /\ WithLast(laced) # Refused => Parse(b) = WithLast(laced)
<1>1. /\ FillInv /\ Announced /\ lace_sizes_ \in Seq(Nat) /\ Len(lace_sizes_) = num_frames - 1
      /\ num_frames \in Nat \ {0} /\ payload \in Seq(Byte) /\ lacing \in { "none", "xiph", "fixed", "ebml" }
      /\ size \in Nat /\ uint_parser_ = << >>
  BY ConstantsType DEF AgreeInv, FillInv, LacingTypes, SizesCounted, Announced
<1>2. /\ b \in Seq(Byte) /\ Len(b) \in Nat \ {0} /\ Len(b) > 0 /\ b # << >>
      /\ InStep(b)
  <2>1. b \in Seq(Byte) /\ Len(b) \in Nat \ {0} /\ Len(b) > 0 /\ b # << >>
    BY <1>1, BlockType
  <2>2. ~ (Len(payload) > Len(b))
    BY <1>1, <2>1
  <2> QED
    BY <2>1, <2>2 DEF AgreeInv, Agreement, SizeStates
<1>3. \A s \in Seq(Nat) : SizesAgree(s, s, size)
  <2>1. \A s \in Seq(Nat) : s \in Seq(Int)
    OBVIOUS
  <2> QED
    BY <2>1 DEF SizesAgree
<1>4. ASSUME NEW rest \in Seq(Byte), num_frames = 1, Len(rest) = Len(b) - Len(payload),
             Parse(b) = IF Len(rest) > 0 THEN << Len(rest) >> ELSE Refused
      PROVE  \E laced \in Laced :
               /\ SizesAgree(laced.sizes, lace_sizes_, size) /\ Len(laced.rest) = Len(b) - Len(payload)
               /\ Parse(b) # Refused => Parse(b) = WithLast(laced)
               /\ laced.sizes = lace_sizes_ /\ WithLast(laced) # Refused => Parse(b) = WithLast(laced)
  <2>1. lace_sizes_ = << >>
    BY <1>1, <1>4
  <2>2. PICK laced : laced = [ sizes |-> << >>, rest |-> rest ]
    OBVIOUS
  <2>3. laced \in Laced /\ laced.sizes = << >> /\ laced.rest = rest
    <3>1. << >> \in Seq(Int)
      OBVIOUS
    <3> QED
      BY <2>2, <3>1 DEF Laced
  <2>4. WithLast(laced) = IF Len(rest) > 0 THEN << Len(rest) >> ELSE Refused
    <3>1. Sum(laced.sizes) = 0
      BY <2>3, SumEmpty
    <3>2. \A i \in DOMAIN laced.sizes : laced.sizes[i] > 0
      BY <2>3
    <3>3. PICK l \in Nat : l = Len(rest) /\ l - 0 = l /\ Append(<< >>, l) = << l >>
      OBVIOUS
    <3> QED
      BY <2>3, <3>1, <3>2, <3>3 DEF WithLast
  <2>5. SizesAgree(laced.sizes, lace_sizes_, size)
    BY <1>1, <1>3, <2>1, <2>3
  <2> QED
    BY <1>4, <2>3, <2>4, <2>5
<1>5. CASE lacing = "none"
  <2>1. num_frames = 1 /\ payload = << >> /\ Parse(b) = << Len(b) >>
    BY <1>1, <1>2, <1>5 DEF Announced, Parse
  <2>2. Len(b) = Len(b) - Len(payload)
    BY <1>2, <2>1
  <2> QED
    BY <1>2, <1>4, <2>1, <2>2
<1>6. CASE lacing = "fixed"
  <2>1. num_frames = 1 /\ Len(payload) = 1
    BY <1>1, <1>6 DEF Announced
  <2>2. Head(b) + 1 = 1
    BY <1>1, <1>6, <2>1, CountByte
  <2>3. Parse(b) = FixedLens(Tail(b), 1)
    BY <1>2, <1>6, <2>2 DEF Parse
  <2>4. PICK rest \in Seq(Byte), l \in Nat : rest = Tail(b) /\ Len(rest) = l /\ l = Len(b) - Len(payload)
    <3>1. Tail(b) \in Seq(Byte) /\ Len(Tail(b)) = Len(b) - Len(payload)
      BY <1>2, <2>1, BeforeTail
    <3>2. Len(Tail(b)) \in Nat
      BY <3>1
    <3> QED
      BY <3>1, <3>2
  <2>5. Parse(b) = IF l > 0 THEN << l >> ELSE Refused
    <3>0. PICK S : S = Byte
      OBVIOUS
    <3>4. rest \in Seq(S) /\ Len(rest) = l
      BY <2>4, <3>0
    <3>1. rest # << >> <=> l > 0
      BY <3>4
    <3>2. l % 1 = 0 /\ l \div 1 = l
      OBVIOUS
    <3>3. [ i \in 1 .. 1 |-> l ] = << l >>
      OBVIOUS
    <3> QED
      BY <2>3, <2>4, <3>1, <3>2, <3>3 DEF FixedLens
  <2> QED
    BY <1>4, <2>1, <2>4, <2>5
<1>7. CASE lacing = "xiph"
  <2>1. XiphStep(b)
    BY <1>2, <1>7 DEF InStep
  <2>2. PICK laced : /\ laced = XiphSizes(Tail(b), Len(lace_sizes_)) /\ laced.sizes = lace_sizes_
                     /\ Before(laced.rest, b, Len(payload), 0)
    BY <2>1 DEF XiphStep
  <2>3. laced \in Laced /\ laced = XiphSizes(Tail(b), num_frames - 1)
    <3>1. Tail(b) \in Seq(Byte) /\ num_frames - 1 \in Nat
      BY <1>1, <1>2, BeforeTail
    <3> QED
      BY <1>1, <2>2, <3>1, XiphNext
  <2>4. Parse(b) = WithLast(laced)
    BY <1>1, <1>7, <2>3, XiphParse
  <2>5. Len(laced.rest) = Len(b) - Len(payload)
    BY <1>1, <1>2, <2>2 DEF Before
  <2>6. SizesAgree(laced.sizes, lace_sizes_, size)
    BY <1>1, <1>3, <2>2
  <2> QED
    BY <2>3, <2>4, <2>5, <2>6
<1>8. CASE lacing = "ebml"
  <2>1. num_frames # 1
    BY <1>8 DEF SingleEbml
  <2>2. PICK k \in Nat : k = num_frames - 2 /\ k = Len(lace_sizes_) - 1 /\ lace_sizes_ # << >>
    <3>1. num_frames - 2 \in Nat /\ num_frames - 2 = Len(lace_sizes_) - 1 /\ lace_sizes_ # << >>
      BY <1>1, <2>1
    <3> QED
      BY <3>1
  <2>3. EbmlStep(b)
    BY <1>2, <1>8, <2>2 DEF InStep
  <2>4. PICK laced : /\ laced = EbmlLaced(b, k)
                     /\ First(b).value = lace_sizes_[1] /\ Len(laced.rest) <= Len(First(b).rest)
                     /\ SizesAgree(laced.sizes, lace_sizes_, size) /\ NumberBegun(laced.rest, b)
    BY <2>2, <2>3 DEF EbmlStep
  <2>5. laced \in Laced
    BY <1>2, <2>4, FirstType, EbmlNext DEF EbmlLaced, LacedSome
  <2>6. Len(laced.rest) = Len(b) - Len(payload) /\ laced.rest \in Seq(Byte)
    <3>1. Before(laced.rest, b, Len(payload), 0)
      BY <1>1, <2>4 DEF NumberBegun, Begun
    <3> QED
      BY <1>1, <1>2, <3>1 DEF Before
  <2>7. Parse(b) = IF First(b).value <= 0 \/ Len(First(b).rest) - First(b).value < 0 THEN Refused ELSE WithLast(laced)
    BY <1>1, <1>8, <2>1, <2>2, <2>4, EbmlParse
  <2>8. ASSUME laced.sizes = lace_sizes_, WithLast(laced) # Refused PROVE Parse(b) = WithLast(laced)
    <3>1. Len(laced.rest) - Sum(laced.sizes) > 0 /\ \A i \in DOMAIN laced.sizes : laced.sizes[i] > 0
      BY <2>8 DEF WithLast
    <3>2. Sum(lace_sizes_) \in Nat /\ lace_sizes_[1] <= Sum(lace_sizes_) /\ lace_sizes_[1] \in Nat
      <4>1. 1 \in 1 .. Len(lace_sizes_)
        BY <1>1, <2>2
      <4> QED
        BY <1>1, <4>1, SumBounds, ElementOfSeq
    <3>3. lace_sizes_[1] > 0
      <4>1. 1 \in DOMAIN lace_sizes_
        BY <1>1, <2>2
      <4> QED
        BY <2>8, <3>1, <4>1
    <3>4. PICK v \in Nat, l \in Nat, f \in Nat, s \in Nat :
            /\ v = First(b).value /\ l = Len(laced.rest) /\ f = Len(First(b).rest) /\ s = Sum(lace_sizes_)
            /\ v > 0 /\ v <= s /\ l - s > 0 /\ l <= f
      <4>1. First(b).rest \in Seq(Byte)
        BY <1>2, FirstType
      <4>2. Len(First(b).rest) \in Nat /\ Len(laced.rest) \in Nat
        BY <2>6, <4>1
      <4>3. Len(laced.rest) - Sum(lace_sizes_) > 0
        BY <2>8, <3>1
      <4> QED
        BY <2>4, <3>2, <3>3, <4>2, <4>3
    <3>5. ~ (v <= 0) /\ ~ (f - v < 0)
      BY <3>4
    <3> QED
      BY <2>7, <3>4, <3>5
  <2> QED
    BY <2>4, <2>5, <2>6, <2>7, <2>8
<1> QED
  BY <1>1, <1>5, <1>6, <1>7, <1>8

\* The sizes that both have before the last, and what it is.
LastFits(laced, words, most, sum) ==
  /\ laced.sizes = words /\ sum < most /\ WithLast(laced) = Append(words, most - sum)
  /\ \A i \in 1 .. Len(words) + 1 : Append(words, most - sum)[i] \in 1 .. most

LEMMA LastAgrees ==
  ASSUME NEW laced \in Laced, NEW words \in Seq(Nat), NEW most \in Nat, NEW head \in Nat, NEW len \in Nat,
         head + len = most, most < TwoTo(DataBits(kByteBits)),
         SizesAgree(laced.sizes, words, most), Len(laced.rest) = len
  PROVE  WithLast(laced) # Refused => LastFits(laced, words, most, Word(head + Sum(words)))
<1> SUFFICES ASSUME WithLast(laced) # Refused PROVE LastFits(laced, words, most, Word(head + Sum(words)))
  OBVIOUS
<1>1. PICK sizes \in Seq(Int) : sizes = laced.sizes
  BY LacedType
<1>2. /\ len - Sum(sizes) > 0 /\ \A i \in DOMAIN sizes : sizes[i] > 0
      /\ WithLast(laced) = Append(sizes, len - Sum(sizes))
  BY <1>1 DEF WithLast
<1>3. sizes \in Seq(Nat)
  <2>1. PICK n \in Nat : n = Len(sizes) /\ DOMAIN sizes = 1 .. n /\ sizes \in [ 1 .. n -> Int ]
    OBVIOUS
  <2>2. \A i \in 1 .. n : sizes[i] \in Nat
    BY <1>2, <2>1
  <2>3. sizes \in [ 1 .. n -> Nat ]
    BY <2>1, <2>2
  <2> QED
    BY <2>1, <2>3
<1>4. PICK s \in Nat : s = Sum(sizes) /\ s < len /\ \A i \in 1 .. Len(sizes) : sizes[i] <= s
  <2>1. Sum(sizes) \in Nat /\ \A i \in 1 .. Len(sizes) : sizes[i] <= Sum(sizes)
    BY <1>3, SumBounds
  <2>2. Sum(sizes) < len
    <3>1. PICK s \in Nat : s = Sum(sizes) /\ len - s > 0
      BY <1>2, <2>1
    <3> QED
      BY <3>1
  <2> QED
    BY <2>1, <2>2
<1>5. \A i \in 1 .. Len(sizes) : sizes[i] \in 1 .. most
  BY <1>2, <1>3, <1>4
<1>6. sizes = words
  <2>1. \A i \in 1 .. Len(sizes) : sizes[i] \in 0 .. most
    BY <1>5
  <2> QED
    BY <1>1, <2>1 DEF SizesAgree
<1>7. Word(head + Sum(words)) = head + s
  <2>1. DataBits(kByteBits) \in Nat /\ kWordBits \in Nat /\ DataBits(kByteBits) <= kWordBits
    BY LacingAssumption, WordAssumption, DataBitsType
  <2>2. TwoTo(DataBits(kByteBits)) <= TwoTo(kWordBits)
    BY <2>1, TwoToRises
  <2>3. TwoTo(DataBits(kByteBits)) \in Nat /\ TwoTo(kWordBits) \in Nat
    BY <2>1, TwoToType
  <2>4. head + s \in Int /\ head + s >= 0 /\ head + s < TwoTo(kWordBits)
    BY <1>4, <2>2, <2>3
  <2> QED
    BY <1>4, <1>6, <2>4, WordType
<1>8. PICK last \in Nat : last = most - (head + s) /\ last = len - s /\ last \in 1 .. most /\ head + s < most
  <2>1. PICK l \in Nat : l = len - s /\ l > 0 /\ l <= len
    <3>1. len - s \in Nat /\ len - s > 0 /\ len - s <= len
      BY <1>4
    <3> QED
      BY <3>1
  <2>2. most - (head + s) = l /\ l \in 1 .. most /\ head + s < most
    BY <1>4, <2>1
  <2> QED
    BY <2>1, <2>2
<1>9. \A i \in 1 .. Len(words) + 1 : Append(words, last)[i] \in 1 .. most
  <2>1. \A i \in 1 .. Len(words) + 1 : i \in 1 .. Len(words) \/ i = Len(words) + 1
    OBVIOUS
  <2> QED
    BY <1>5, <1>6, <1>8, <2>1
<1>10. WithLast(laced) = Append(words, last)
  BY <1>2, <1>4, <1>6, <1>8
<1>11. laced.sizes = words
  BY <1>1, <1>6
<1> QED
  BY <1>7, <1>8, <1>9, <1>10, <1>11 DEF LastFits

\* Frames that fill the block and are none of them empty are those of mkvparser.
LEMMA LastIs ==
  ASSUME NEW laced \in Laced, NEW words \in Seq(Nat), NEW most \in Nat, NEW head \in Nat, NEW len \in Nat,
         head + len = most, SizesAgree(laced.sizes, words, most), Len(laced.rest) = len,
         NEW last \in Nat, head + Sum(Append(words, last)) = most,
         \A i \in 1 .. Len(words) + 1 : Append(words, last)[i] > 0 /\ Append(words, last)[i] <= most
  PROVE  laced.sizes = words /\ WithLast(laced) = Append(words, last) /\ WithLast(laced) # Refused
<1>1. PICK n \in Nat : n = Len(words)
  OBVIOUS
<1>2. \A i \in 1 .. n : words[i] > 0 /\ words[i] <= most
  <2>1. \A i \in 1 .. n : i \in 1 .. n + 1
    OBVIOUS
  <2>2. \A i \in 1 .. n : Append(words, last)[i] = words[i]
    BY <1>1
  <2> QED
    BY <1>1, <2>1, <2>2
<1>3. last > 0
  <2>1. n + 1 \in 1 .. n + 1 /\ Append(words, last)[n + 1] = last
    BY <1>1
  <2> QED
    BY <1>1, <2>1
<1>4. PICK sizes \in Seq(Int) : sizes = laced.sizes /\ Len(sizes) = n
  BY <1>1, LacedType DEF SizesAgree
<1>5. sizes = words
  BY <1>1, <1>2, <1>4 DEF SizesAgree
<1>6. PICK s \in Nat : s = Sum(words) /\ Sum(Append(words, last)) = s + last
  <2>1. words \in Seq(Int) /\ last \in Int
    OBVIOUS
  <2>2. Sum(words) \in Nat
    BY SumBounds
  <2> QED
    BY <2>1, <2>2, SumAppend
<1>7. len - s = last
  BY <1>6, SMTT(40)
<1>8. \A i \in DOMAIN sizes : sizes[i] > 0
  BY <1>1, <1>2, <1>4, <1>5
<1>9. len - Sum(laced.sizes) = last /\ len - Sum(laced.sizes) > 0
  BY <1>3, <1>4, <1>5, <1>6, <1>7
<1>10. WithLast(laced) = Append(words, last)
  BY <1>4, <1>5, <1>8, <1>9 DEF WithLast
<1>11. Append(words, last) # << >>
  BY AppendProperties
<1> QED
  BY <1>4, <1>5, <1>10, <1>11 DEF Refused

LEMMA AgreeValidate == AgreeInv /\ ValidateSize => AgreeInv'
<1> SUFFICES ASSUME AgreeInv, ValidateSize PROVE AgreeInv'
  OBVIOUS
<1> USE DEF headerVars, frameVars
<1>0. FillInv' /\ FillInv /\ Announced /\ Unfinished
  BY FillValidate DEF AgreeInv
<1>1. /\ state = "ValidatingSize" /\ status = "feeding"
      /\ header_bytes_read_ = kHeader + Len(payload) /\ frames = << >> /\ current_lace_ = 1
      /\ num_frames \in Nat \ {0} /\ lace_sizes_ \in Seq(Nat) /\ Len(lace_sizes_) = num_frames - 1
      /\ uint_parser_ = << >> /\ payload \in Seq(Byte) /\ size \in Nat /\ size \in Sizes /\ kHeader \in Nat
      /\ IF lacing = "none" THEN num_frames = 1 /\ payload = << >>
         ELSE payload # << >> /\ num_frames = payload[1] + 1
  BY ConstantsType
  DEF AgreeInv, ValidateSize, Running, Announced, FillInv, SizesCounted, HeaderCounted, LacingTypes
<1>2. UNCHANGED << lacing, size, num_frames, header_bytes_read_, xiph_lace_size_, uint_parser_,
                   current_lace_, frames, payload >>
  BY DEF ValidateSize
<1>3. PICK n \in Nat \ {0}, most \in Nat, head \in Nat, old \in Seq(Nat), sum \in Nat :
        /\ n = num_frames /\ most = size /\ head = header_bytes_read_ /\ old = lace_sizes_
        /\ sum = Word(header_bytes_read_ + Sum(lace_sizes_)) /\ Len(old) = n - 1
        /\ sum = Word(head + Sum(old)) /\ most < TwoTo(DataBits(kByteBits))
  <2>1. Sum(lace_sizes_) \in Nat
    BY <1>1, SumBounds
  <2>2. header_bytes_read_ \in Nat
    BY <1>0 DEF FillInv, LacingTypes
  <2>3. header_bytes_read_ + Sum(lace_sizes_) \in Int
    BY <2>1, <2>2
  <2>4. Word(header_bytes_read_ + Sum(lace_sizes_)) \in Nat
    BY <2>3, WordType
  <2>5. size < TwoTo(DataBits(kByteBits))
    BY <1>1, WordAssumption
  <2> QED
    BY <1>1, <2>2, <2>4, <2>5
<1>4. \/ ~ (sum < most) /\ status' = "invalid" /\ state' = state
      \/ /\ sum < most /\ status' = status /\ state' = "ReadingFrames"
         /\ lace_sizes_' = Append(old, most - sum) /\ frame_metadata_'.size = lace_sizes_'[1]
  BY <1>3 DEF ValidateSize
<1>5. Announced'
  BY <1>0, <1>1, <1>2, <1>4 DEF Announced
<1>6. Unfinished'
  BY <1>1, <1>2 DEF Unfinished, Incomplete
<1>7. Agreement'
  <2> SUFFICES ASSUME NEW b \in Blocks', ~ SingleEbml
               PROVE  /\ status' = "invalid" => Parse(b) = Refused
                      /\ state' = "ReadingFrames" => SameFrames(b)'
    <3>1. status' # "beyond" /\ state' # "Done" /\ (status' = "invalid" \/ state' \notin SizeStates)
      BY <1>1, <1>4 DEF SizeStates
    <3>2. \A x \in Blocks' : Parse(x)' = Parse(x)
      BY <1>2, ParseSame
    <3>3. SingleEbml' = SingleEbml
      BY <1>2 DEF SingleEbml
    <3> QED
      BY <3>1, <3>2, <3>3 DEF Agreement
  <2>1. b \in Blocks /\ Parse(b)' = Parse(b)
    BY <1>2, ParseSame DEF Blocks, Byte
  <2>2. PICK p \in Nat, l \in Nat : p = Len(payload) /\ l = Len(b) /\ head = kHeader + p /\ most = kHeader + l
    <3>1. Len(b) \in Nat /\ Len(b) = size - kHeader
      BY <1>0, <2>1, BlockType
    <3>2. Len(payload) \in Nat
      BY <1>1
    <3>3. size = kHeader + Len(b)
      BY <1>1, <3>1
    <3> QED
      BY <1>1, <1>3, <3>1, <3>2, <3>3
  <2>3. ASSUME state' = "ReadingFrames"
        PROVE  /\ Planned' = Append(old, most - sum) /\ most - sum \in Nat /\ sum < most
               /\ Len(Planned') = n /\ Planned' \in Seq(Nat) /\ num_frames' = n /\ size' = most
               /\ (\A i \in 1 .. n : Planned'[i] <= most) => head + Sum(Planned') = most
    <3>1. /\ sum < most /\ lace_sizes_' = Append(old, most - sum)
          /\ frame_metadata_'.size = lace_sizes_'[1]
      BY <1>1, <1>4, <2>3
    <3>2. PICK last \in Nat : last = most - sum
      <4>1. most - sum \in Nat
        BY <3>1
      <4> QED
        BY <4>1
    <3>3. PICK lens \in Seq(Nat) : lens = Append(old, last) /\ Len(lens) = n
      <4>1. Append(old, last) \in Seq(Nat) /\ Len(Append(old, last)) = n
        BY <1>3
      <4> QED
        BY <4>1
    <3>4. Planned' = lens
      BY <1>1, <1>2, <1>3, <3>1, <3>2, <3>3, FreshPlan
    <3>5. num_frames' = n /\ size' = most /\ header_bytes_read_' = head
      BY <1>2, <1>3
    <3>6. (\A i \in 1 .. n : lens[i] <= most) => head + Sum(lens) = most
      BY <1>0, <2>3, <3>4, <3>5 DEF FillInv, FramesCounted
    <3> QED
      BY <3>1, <3>2, <3>3, <3>4, <3>5, <3>6
  <2>4. CASE p > l
    <3>1. Parse(b) = Refused
      BY <1>1, <2>1, <2>2, <2>4 DEF AgreeInv, Agreement, SizeStates
    <3>2. ASSUME state' = "ReadingFrames" PROVE SameFrames(b)'
      <4>1. ~ \A i \in 1 .. n : Planned'[i] > 0 /\ Planned'[i] <= most
        <5> SUFFICES ASSUME \A i \in 1 .. n : Planned'[i] > 0 /\ Planned'[i] <= most PROVE FALSE
          OBVIOUS
        <5>1. head + Sum(Planned') = most
          BY <2>3, <3>2
        <5>2. Sum(Planned') \in Nat
          BY <2>3, <3>2, SumBounds
        <5> QED
          BY <1>1, <2>2, <2>4, <5>1, <5>2
      <4>2. num_frames' = n /\ size' = most
        BY <2>3, <3>2
      <4> QED
        BY <2>1, <3>1, <4>1, <4>2 DEF SameFrames
    <3> QED
      BY <3>1, <3>2
  <2>5. CASE p <= l
    <3>1. PICK laced \in Laced :
            /\ SizesAgree(laced.sizes, old, most) /\ Len(laced.rest) = l - p
            /\ Parse(b) # Refused => Parse(b) = WithLast(laced)
            /\ laced.sizes = old /\ WithLast(laced) # Refused => Parse(b) = WithLast(laced)
      BY <1>1, <1>3, <2>1, <2>2, <2>5, ParseLast
    <3>2. PICK len \in Nat : len = l - p /\ head + len = most
      <4>1. l - p \in Nat /\ head + (l - p) = most
        BY <1>1, <2>2, <2>5
      <4> QED
        BY <4>1
    <3>3. WithLast(laced) # Refused => LastFits(laced, old, most, sum)
      BY <1>3, <3>1, <3>2, LastAgrees
    <3>4. ASSUME status' = "invalid" PROVE Parse(b) = Refused
      <4>1. ~ (sum < most)
        BY <1>1, <1>4, <3>4
      <4> QED
        BY <3>1, <3>3, <4>1 DEF LastFits
    <3>5. ASSUME state' = "ReadingFrames" PROVE SameFrames(b)'
      <4>1. PICK last \in Nat, lens \in Seq(Nat) :
              /\ last = most - sum /\ lens = Planned' /\ lens = Append(old, last) /\ Len(lens) = n
              /\ (\A i \in 1 .. n : lens[i] <= most) => head + Sum(lens) = most
        BY <2>3, <3>5
      <4>2. num_frames' = n /\ size' = most /\ Len(old) + 1 = n
        BY <1>3, <2>3, <3>5
      <4>3. ASSUME Parse(b) # Refused PROVE lens = Parse(b) /\ \A i \in 1 .. n : lens[i] <= most
        <5>1. LastFits(laced, old, most, sum) /\ Parse(b) = WithLast(laced)
          BY <3>1, <3>3, <4>3
        <5>2. WithLast(laced) = lens /\ \A i \in 1 .. n : lens[i] \in 1 .. most
          BY <4>1, <4>2, <5>1 DEF LastFits
        <5> QED
          BY <5>1, <5>2
      <4>4. ASSUME \A i \in 1 .. n : lens[i] > 0 /\ lens[i] <= most PROVE lens = Parse(b)
        <5>1. head + Sum(Append(old, last)) = most
          BY <4>1, <4>4
        <5>2. \A i \in 1 .. Len(old) + 1 : Append(old, last)[i] > 0 /\ Append(old, last)[i] <= most
          BY <4>1, <4>2, <4>4
        <5>3. Len(laced.rest) = len
          BY <3>1, <3>2
        <5>4. laced.sizes = old /\ WithLast(laced) = Append(old, last) /\ WithLast(laced) # Refused
          BY <3>1, <3>2, <5>1, <5>2, <5>3, LastIs
        <5> QED
          BY <3>1, <4>1, <5>4
      <4> QED
        BY <2>1, <4>1, <4>2, <4>3, <4>4 DEF SameFrames
    <3> QED
      BY <3>4, <3>5
  <2> QED
    BY <2>4, <2>5
<1> QED
  BY <1>0, <1>5, <1>6, <1>7 DEF AgreeInv

-----------------------------------------------------------------------------
(* The frames.                                                              *)

\* Where only the frames are read the sizes stay what they were planned to be.
LEMMA AgreeFrames ==
  ASSUME AgreeInv, FillInv', state = "ReadingFrames", state' \in { "ReadingFrames", "Done" },
         status # "invalid", status' \notin { "invalid", "beyond" }, Planned' = Planned,
         UNCHANGED << lacing, size, num_frames, xiph_lace_size_, uint_parser_, payload >>
  PROVE  AgreeInv'
<1>1. Announced' /\ Unfinished'
  BY DEF AgreeInv, Announced, Unfinished, Incomplete
<1>2. Agreement'
  <2> SUFFICES ASSUME ~ SingleEbml, NEW b \in Blocks' PROVE SameFrames(b)'
    <3>1. SingleEbml' = SingleEbml
      BY DEF SingleEbml
    <3> QED
      BY <3>1 DEF Agreement, SizeStates
  <2>1. b \in Blocks /\ Parse(b)' = Parse(b)
    BY ParseSame DEF Blocks, Byte
  <2>2. SameFrames(b)
    BY <2>1 DEF AgreeInv, Agreement
  <2> QED
    BY <2>1, <2>2 DEF SameFrames
<1> QED
  BY <1>1, <1>2 DEF AgreeInv

LEMMA AgreeReadFrame == AgreeInv /\ ReadFrame => AgreeInv'
<1> SUFFICES ASSUME AgreeInv, ReadFrame PROVE AgreeInv'
  OBVIOUS
<1> USE DEF headerVars, frameVars
<1>1. FillInv' /\ Planned' = Planned
  BY FillReadFrame DEF AgreeInv
<1>2. /\ state = "ReadingFrames" /\ state' = state /\ status = "feeding" /\ status' \in { "feeding", "partial" }
      /\ UNCHANGED << lacing, size, num_frames, xiph_lace_size_, uint_parser_, payload >>
  BY DEF ReadFrame, Running
<1> QED
  BY <1>1, <1>2, AgreeFrames

LEMMA AgreeFramesRead == AgreeInv /\ FramesRead => AgreeInv'
<1> SUFFICES ASSUME AgreeInv, FramesRead PROVE AgreeInv'
  OBVIOUS
<1> USE DEF headerVars, frameVars
<1>1. FillInv'
  BY FillFramesRead DEF AgreeInv
<1>2. /\ state = "ReadingFrames" /\ state' = "Done" /\ status = "feeding" /\ status' = "completed"
      /\ UNCHANGED << lacing, size, num_frames, xiph_lace_size_, uint_parser_, payload,
                      lace_sizes_, current_lace_, frame_metadata_, frames >>
  BY DEF FramesRead, Running
<1>3. Planned' = Planned
  BY <1>2 DEF Planned
<1> QED
  BY <1>1, <1>2, <1>3, AgreeFrames

\* mkvparser has refused a block in which a frame is larger than the block.
LEMMA AgreeBeyond == AgreeInv /\ FrameBeyondBlock => AgreeInv'
<1> SUFFICES ASSUME AgreeInv, FrameBeyondBlock PROVE AgreeInv'
  OBVIOUS
<1> USE DEF headerVars, frameVars
<1>1. /\ state = "ReadingFrames" /\ state' = state /\ status = "feeding" /\ status' = "beyond"
      /\ UNCHANGED << lacing, size, num_frames, header_bytes_read_, xiph_lace_size_, lace_sizes_, uint_parser_,
                      current_lace_, frame_metadata_, frames, num_bytes_read, payload >>
      /\ current_lace_ <= Len(lace_sizes_) /\ lace_sizes_[current_lace_] > size
  BY DEF FrameBeyondBlock, Running
<1>2. FillInv /\ FillInv'
  <2>1. FillInv
    BY DEF AgreeInv
  <2> QED
    BY <1>1, <2>1, FillStatus
<1>3. PICK n \in Nat, c \in Nat \ {0}, most \in Nat, left \in Nat, whole \in Nat :
        /\ n = num_frames /\ c = current_lace_ /\ most = size /\ left = lace_sizes_[current_lace_]
        /\ whole = frame_metadata_.size /\ c <= n /\ left <= whole /\ left > most
  <2>1. /\ num_frames \in Nat /\ current_lace_ \in Nat \ {0} /\ size \in Nat
        /\ lace_sizes_ \in Seq(Nat) /\ Len(lace_sizes_) = num_frames
        /\ frame_metadata_ \in Metadata
        /\ current_lace_ <= num_frames => lace_sizes_[current_lace_] <= frame_metadata_.size
    BY <1>1, <1>2, ConstantsType DEF FillInv, LacingTypes, FramesCounted
  <2>2. lace_sizes_[current_lace_] \in Nat
    BY <1>1, <2>1
  <2>3. frame_metadata_.size \in Nat
    BY <2>1 DEF Metadata
  <2> QED
    BY <1>1, <2>1, <2>2, <2>3
<1>4. c \in 1 .. n /\ Planned[c] > most
  <2>1. c \in 1 .. n /\ ~ (c < c)
    BY <1>3
  <2>2. Planned[c] = whole
    BY <1>3, <2>1 DEF Planned
  <2> QED
    BY <1>3, <2>1, <2>2
<1>5. Planned' = Planned
  BY <1>1 DEF Planned
<1>6. Announced' /\ Unfinished'
  BY <1>1 DEF AgreeInv, Announced, Unfinished, Incomplete
<1>7. Agreement'
  <2> SUFFICES ASSUME ~ SingleEbml, NEW b \in Blocks'
               PROVE  Parse(b)' = Refused /\ SameFrames(b)'
    <3>1. SingleEbml' = SingleEbml
      BY <1>1 DEF SingleEbml
    <3> QED
      BY <1>1, <3>1 DEF Agreement, SizeStates
  <2>1. b \in Blocks /\ Parse(b)' = Parse(b)
    BY <1>1, ParseSame DEF Blocks, Byte
  <2>2. SameFrames(b)
    BY <1>1, <2>1 DEF AgreeInv, Agreement
  <2>3. Parse(b) = Refused
    <3>1. ASSUME Parse(b) # Refused PROVE FALSE
      <4>1. Planned[c] <= most
        BY <1>3, <1>4, <2>2, <3>1 DEF SameFrames
      <4>2. Planned[c] = whole
        <5>1. ~ (c < c)
          OBVIOUS
        <5> QED
          BY <1>3, <1>4, <5>1 DEF Planned
      <4> QED
        BY <1>3, <4>1, <4>2
    <3> QED
      BY <3>1
  <2> QED
    BY <1>1, <1>5, <2>1, <2>2, <2>3 DEF SameFrames
<1> QED
  BY <1>2, <1>6, <1>7 DEF AgreeInv

LEMMA AgreeStutter == AgreeInv /\ UNCHANGED vars => AgreeInv'
<1> SUFFICES ASSUME AgreeInv, UNCHANGED vars PROVE AgreeInv'
  OBVIOUS
<1> USE DEF vars, headerVars, frameVars
<1>1. FillInv'
  BY FillStutter DEF AgreeInv
<1>2. Announced' /\ Unfinished'
  BY DEF AgreeInv, Announced, Unfinished, Incomplete
<1>3. Agreement'
  <2> SUFFICES ASSUME ~ SingleEbml, NEW b \in Blocks'
               PROVE  /\ status' \in { "invalid", "beyond" } => Parse(b)' = Refused
                      /\ status' # "invalid" /\ state' \in SizeStates =>
                           IF Len(payload') > Len(b) THEN Parse(b)' = Refused ELSE InStep(b)'
                      /\ state' \in { "ReadingFrames", "Done" } => SameFrames(b)'
    <3>1. SingleEbml' = SingleEbml
      BY DEF SingleEbml
    <3> QED
      BY <3>1 DEF Agreement, SizeStates
  <2>1. b \in Blocks /\ Parse(b)' = Parse(b)
    BY ParseSame DEF Blocks, Byte
  <2>2. InStep(b)' = InStep(b)
    BY DEF InStep, XiphStep, EbmlStep, NumberBegun, EbmlLaced, First
  <2>3. SameFrames(b)' = SameFrames(b)
    <3>1. Planned' = Planned
      BY DEF Planned
    <3> QED
      BY <2>1, <3>1 DEF SameFrames
  <2> QED
    BY <2>1, <2>2, <2>3 DEF AgreeInv, Agreement
<1> QED
  BY <1>1, <1>2, <1>3 DEF AgreeInv

LEMMA AgreeFeed == AgreeInv /\ (Feed \/ Interrupted) => AgreeInv'
<1> SUFFICES ASSUME AgreeInv, Feed \/ Interrupted PROVE AgreeInv'
  OBVIOUS
<1>1. /\ status \in { "partial", "feeding" } /\ status' \in { "feeding", "partial" }
      /\ UNCHANGED << state, headerVars, header_bytes_read_, xiph_lace_size_, lace_sizes_,
                      uint_parser_, frameVars, num_bytes_read, payload >>
  BY DEF Feed, Interrupted
<1>2. FillInv'
  BY <1>1, FillStatus DEF AgreeInv
<1>3. status # "invalid" /\ status' \notin { "invalid", "beyond" }
  BY <1>1
<1> QED
  BY <1>1, <1>2, <1>3, AgreeStatus

LEMMA AgreeStep == AgreeInv /\ [Next]_vars => AgreeInv'
BY AgreeFeed, AgreeReadHeader, AgreeReadLaceCount, AgreeGetAction, AgreeReadXiph, AgreeReadEbml,
   AgreeFixed, AgreeValidate, AgreeSkip, AgreeReadFrame, AgreeBeyond, AgreeFramesRead, AgreeStutter
DEF Next

LEMMA AgreeShows == AgreeInv => ParsersAgree
<1> SUFFICES ASSUME AgreeInv, status \in { "completed", "invalid", "beyond" }, ~ SingleEbml
             PROVE  /\ Parse(WholePayload) # Refused => status = "completed" /\ Lens = Parse(WholePayload)
                    /\ status = "completed" /\ (\A i \in DOMAIN Lens : Lens[i] > 0) => Lens = Parse(WholePayload)
  BY DEF ParsersAgree
<1>1. FillInv
  BY DEF AgreeInv
<1>2. PICK b \in Blocks : b = WholePayload
  <2>1. payload \in Seq(Byte) /\ 0 \in Byte
    BY <1>1, ConstantsType DEF FillInv, LacingTypes, Byte
  <2>2. DOMAIN payload = 1 .. Len(payload) /\ \A i \in 1 .. Len(payload) : payload[i] \in Byte
    BY <2>1
  <2>3. WholePayload \in [ 1 .. size - kHeader -> Byte ]
    BY <2>1, <2>2 DEF WholePayload
  <2>4. \A i \in 1 .. Len(payload) : i \in DOMAIN WholePayload => WholePayload[i] = payload[i]
    BY <2>2 DEF WholePayload
  <2> QED
    BY <2>3, <2>4 DEF Blocks
<1>3. CASE status \in { "invalid", "beyond" }
  <2>1. Parse(b) = Refused
    BY <1>2, <1>3 DEF AgreeInv, Agreement
  <2> QED
    BY <1>2, <1>3, <2>1
<1>4. CASE status = "completed"
  <2>1. state = "Done"
    BY <1>1, <1>4 DEF FillInv, Returned
  <2>2. SameFrames(b)
    BY <1>2, <2>1 DEF AgreeInv, Agreement
  <2>3. Lens = Planned /\ \A i \in 1 .. num_frames : Planned[i] <= size
    BY <1>1, <2>1, LensPlanned
  <2>4. DOMAIN Planned = 1 .. num_frames
    BY DEF Planned
  <2> QED
    BY <1>2, <1>4, <2>2, <2>3, <2>4 DEF SameFrames
<1> QED
  BY <1>3, <1>4

\* Wherever the calls of BasicBlockParser::Feed are cut, it delivers the frames that
\* Block::Parse finds in the same bytes, a single frame in EBML's lacing apart; of
\* the blocks that Block::Parse refuses it completes only some with an empty frame.
THEOREM ParsersFindSame == Spec => []ParsersAgree
<1>1. Init => AgreeInv
  BY AgreeInit
<1>2. AgreeInv /\ [Next]_vars => AgreeInv'
  BY AgreeStep
<1>3. AgreeInv => ParsersAgree
  BY AgreeShows
<1> QED
  BY <1>1, <1>2, <1>3, PTL DEF Spec
=============================================================================
