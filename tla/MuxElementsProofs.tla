-------------------------- MODULE MuxElementsProofs --------------------------
(***************************************************************************)
(* That AddTrack gives every track a number of its own, for any number of   *)
(* tracks and whatever numbers are asked for in between: the search for a   *)
(* free one ends, since fewer numbers are taken than it looks at.           *)
(***************************************************************************)
EXTENDS MuxElements, TLAPS, WellFoundedInduction, FiniteSetTheorems

-----------------------------------------------------------------------------
(* A free number.                                                           *)

\* A set of naturals that is not empty has a least element.
LEMMA LeastNatural ==
  ASSUME NEW T, T \subseteq Nat, T # {}
  PROVE  \E x \in T : \A y \in T : x <= y
<1>1. IsWellFoundedOn(OpToRel(<, Nat), Nat)
  BY NatLessThanWellFounded
<1>2. PICK x \in T : \A y \in T : ~ (<<y, x>> \in OpToRel(<, Nat))
  BY <1>1, WFMin
<1>3. \A y \in T : ~ (y < x)
  BY <1>2 DEF OpToRel
<1> QED
  BY <1>3

\* n tracks have at most n numbers.
LEMMA FewNumbersUsed ==
  ASSUME NEW n \in Nat, DOMAIN tracks = 1 .. n
  PROVE  IsFiniteSet(NumbersUsed) /\ Cardinality(NumbersUsed) <= n
<1> DEFINE number == [ i \in 1 .. n |-> tracks[i].TrackNumber ]
<1>1. number \in Surjection(1 .. n, NumbersUsed)
  BY DEF Surjection, NumbersUsed
<1>2. IsFiniteSet(1 .. n) /\ Cardinality(1 .. n) = n
  BY FS_Interval
<1> HIDE DEF number
<1>3. IsFiniteSet(NumbersUsed) /\ Cardinality(NumbersUsed) <= Cardinality(1 .. n)
  BY <1>1, <1>2, FS_Surjection
<1> QED
  BY <1>2, <1>3

\* Of the numbers n + 1 .. n + n + 1 one is free.
LEMMA OneIsFree ==
  ASSUME NEW n \in Nat, DOMAIN tracks = 1 .. n
  PROVE  \E x \in n + 1 .. n + 1 + n :
           x \notin NumbersUsed /\ n + 1 .. x - 1 \subseteq NumbersUsed
<1> DEFINE Looked == n + 1 .. n + 1 + n
<1>1. PICK T : T = Looked \ NumbersUsed
  OBVIOUS
<1>2. T # {}
  <2> SUFFICES ASSUME T = {} PROVE FALSE
    OBVIOUS
  <2>1. Looked \in SUBSET NumbersUsed
    BY <1>1
  <2>2. IsFiniteSet(NumbersUsed) /\ Cardinality(NumbersUsed) <= n
    BY FewNumbersUsed
  <2>3. Cardinality(Looked) = n + 1
    BY FS_Interval
  <2>4. Cardinality(Looked) <= Cardinality(NumbersUsed)
    BY <2>1, <2>2, FS_Subset
  <2>5. Cardinality(NumbersUsed) \in Nat
    BY <2>2, FS_CardinalityType
  <2> QED
    BY <2>2, <2>3, <2>4, <2>5
<1>3. T \subseteq Nat
  BY <1>1
<1>4. PICK x \in T : \A y \in T : x <= y
  BY <1>2, <1>3, LeastNatural
<1>5. ASSUME NEW y \in n + 1 .. x - 1 PROVE y \in NumbersUsed
  <2>1. x \in Looked /\ y \in Looked /\ ~ (x <= y)
    BY <1>1, <1>4
  <2> QED
    BY <1>1, <1>4, <2>1
<1> QED
  BY <1>1, <1>4, <1>5

LEMMA FreeNumberIsFree ==
  ASSUME NEW n \in Nat, n = Len(tracks), DOMAIN tracks = 1 .. n
  PROVE  FreeNumber \notin NumbersUsed
<1>1. \E x \in n + 1 .. n + 1 + n :
        x \notin NumbersUsed /\ n + 1 .. x - 1 \subseteq NumbersUsed
  BY OneIsFree
<1>2. FreeNumber = CHOOSE x \in n + 1 .. n + 1 + n :
                     x \notin NumbersUsed /\ n + 1 .. x - 1 \subseteq NumbersUsed
  BY DEF FreeNumber
<1> QED
  BY <1>1, <1>2, Zenon

-----------------------------------------------------------------------------
(* The invariant: tracks is a sequence of objects that have a number, and no *)
(* two have the same.                                                        *)

Numbered == { o \in { tracks[i] : i \in DOMAIN tracks } : "TrackNumber" \in DOMAIN o }

TracksInv == tracks \in Seq(Numbered) /\ NumbersUnique

LEMMA NewTrackNumbered ==
  ASSUME NEW uid
  PROVE  "TrackNumber" \in DOMAIN NewTrack(uid)
BY DEF NewTrack, With

\* What AddTrack does to the tracks: a new one gets a number that no other has.
LEMMA TracksInvAdd ==
  ASSUME TracksInv, NEW track, NEW number, "TrackNumber" \in DOMAIN track,
         AddTrack(track, number)
  PROVE  TracksInv'
<1> DEFINE given == IF number = 0 THEN FreeNumber ELSE number
           new == [ track EXCEPT !.TrackNumber = given ]
<1>1. PICK n \in Nat : n = Len(tracks) /\ DOMAIN tracks = 1 .. n
  BY DEF TracksInv
<1>2. given \notin NumbersUsed
  BY <1>1, FreeNumberIsFree, NumberAssumption DEF AddTrack
<1>3. tracks' = Append(tracks, new)
  BY DEF AddTrack
<1>4. new.TrackNumber = given /\ "TrackNumber" \in DOMAIN new
  OBVIOUS
<1> HIDE DEF given, new
<1>5. /\ DOMAIN tracks' = 1 .. n + 1 /\ Len(tracks') = n + 1
      /\ \A i \in 1 .. n : tracks'[i] = tracks[i]
      /\ tracks'[n + 1] = new
  BY <1>1, <1>3 DEF TracksInv
<1>6. tracks' \in Seq(Numbered')
  <2>1. \A i \in 1 .. n : "TrackNumber" \in DOMAIN tracks[i]
    BY <1>1 DEF TracksInv, Numbered
  <2>2. \A i \in 1 .. n + 1 : tracks'[i] \in Numbered'
    BY <1>4, <1>5, <2>1 DEF Numbered
  <2>3. tracks' \in Seq(Numbered \cup {new})
    BY <1>3 DEF TracksInv
  <2>4. tracks' = [ i \in 1 .. n + 1 |-> tracks'[i] ]
    BY <1>5, <2>3
  <2> QED
    BY <2>2, <2>4
<1>7. NumbersUnique'
  <2> SUFFICES ASSUME NEW i \in 1 .. n + 1, NEW j \in 1 .. n + 1,
                      tracks'[i].TrackNumber = tracks'[j].TrackNumber, i # j
               PROVE  FALSE
    BY <1>5 DEF NumbersUnique
  <2>1. \A k \in 1 .. n : tracks[k].TrackNumber \in NumbersUsed
    BY <1>1 DEF NumbersUsed
  <2>2. CASE i = n + 1
    BY <2>1, <2>2, <1>2, <1>4, <1>5
  <2>3. CASE j = n + 1
    BY <2>1, <2>3, <1>2, <1>4, <1>5
  <2>4. CASE i \in 1 .. n /\ j \in 1 .. n
    BY <2>4, <1>1, <1>5 DEF TracksInv, NumbersUnique
  <2> QED
    BY <2>2, <2>3, <2>4
<1> QED
  BY <1>6, <1>7 DEF TracksInv

\* A setter keeps the number.
LEMMA TracksInvChange ==
  ASSUME TracksInv, NEW i \in DOMAIN tracks, NEW t, ChangeTrack(i, t),
         "TrackNumber" \in DOMAIN t, t.TrackNumber = tracks[i].TrackNumber
  PROVE  TracksInv'
<1>1. PICK n \in Nat : n = Len(tracks) /\ DOMAIN tracks = 1 .. n
  BY DEF TracksInv
<1>2. tracks' = [ tracks EXCEPT ![i] = t ]
  BY DEF ChangeTrack
<1>3. /\ DOMAIN tracks' = 1 .. n /\ tracks'[i] = t
      /\ \A j \in 1 .. n : j # i => tracks'[j] = tracks[j]
  BY <1>1, <1>2
<1>4. \A j \in 1 .. n : "TrackNumber" \in DOMAIN tracks[j]
  BY <1>1 DEF TracksInv, Numbered
<1>5. \A j \in 1 .. n : tracks'[j] \in Numbered'
  BY <1>3, <1>4 DEF Numbered
<1>6. tracks' = [ j \in 1 .. n |-> tracks'[j] ]
  BY <1>1, <1>2
<1>7. tracks' \in Seq(Numbered')
  BY <1>5, <1>6
<1>8. \A j \in 1 .. n : tracks'[j].TrackNumber = tracks[j].TrackNumber
  BY <1>3
<1>9. NumbersUnique'
  BY <1>1, <1>3, <1>8 DEF TracksInv, NumbersUnique
<1> QED
  BY <1>7, <1>9 DEF TracksInv

LEMMA TracksInvSet ==
  ASSUME TracksInv, NEW i \in DOMAIN tracks, Set(i)
  PROVE  TracksInv'
<1>1. "TrackNumber" \in DOMAIN tracks[i]
  BY DEF TracksInv, Numbered
<1>2. ASSUME NEW id, NEW v, id # "TrackNumber", ChangeTrack(i, [ tracks[i] EXCEPT ![id] = v ])
      PROVE  TracksInv'
  <2>1. PICK t : t = [ tracks[i] EXCEPT ![id] = v ]
    OBVIOUS
  <2>2. "TrackNumber" \in DOMAIN t /\ t.TrackNumber = tracks[i].TrackNumber
    BY <1>1, <1>2, <2>1
  <2> QED
    BY <1>2, <2>1, <2>2, TracksInvChange
<1>3. CASE \E f \in Values.track : SetTrackField(i, f[1], f[2])
  BY <1>2, <1>3, SettersAssumption DEF SetTrackField
<1>4. CASE AddContentEncoding(i)
  BY <1>2, <1>4 DEF AddContentEncoding
<1>5. CASE \E f \in Values.encoding : SetEncodingField(i, f[1], f[2])
  BY <1>2, <1>5 DEF SetEncodingField
<1>6. CASE \E f \in Values.colour : SetColour(i, f[1], f[2])
  BY <1>2, <1>6 DEF SetColour
<1>7. CASE \E f \in Values.mastering : SetMasteringMetadata(i, f[1], f[2])
  BY <1>2, <1>7 DEF SetMasteringMetadata
<1>8. CASE \E f \in Values.projection : SetProjection(i, f[1], f[2])
  BY <1>2, <1>8 DEF SetProjection
<1> QED
  BY <1>3, <1>4, <1>5, <1>6, <1>7, <1>8 DEF Set

LEMMA TracksInvInit == Init => TracksInv
<1> SUFFICES ASSUME Init PROVE TracksInv
  OBVIOUS
<1>1. tracks = << >>
  BY DEF Init
<1> QED
  BY <1>1 DEF TracksInv, NumbersUnique

LEMMA TracksInvStep == TracksInv /\ [Next]_muxVars => TracksInv'
<1> SUFFICES ASSUME TracksInv, [Next]_muxVars PROVE TracksInv'
  OBVIOUS
<1>1. CASE tracks' = tracks
  BY <1>1 DEF TracksInv, Numbered, NumbersUnique
<1>2. ASSUME NEW uid \in Uids, NEW n \in TrackNumbers, NEW size, AddVideoTrack(uid, size, size, n)
      PROVE  TracksInv'
  <2>1. "TrackNumber" \in DOMAIN NewVideoTrack(uid, size, size)
    BY NewTrackNumbered DEF NewVideoTrack, With
  <2> QED
    BY <1>2, <2>1, TracksInvAdd DEF AddVideoTrack
<1>3. ASSUME NEW uid \in Uids, NEW n \in TrackNumbers, NEW rate, AddAudioTrack(uid, rate, 1, n)
      PROVE  TracksInv'
  <2>1. "TrackNumber" \in DOMAIN NewAudioTrack(uid, rate, 1)
    BY NewTrackNumbered DEF NewAudioTrack, With
  <2> QED
    BY <1>3, <2>1, TracksInvAdd DEF AddAudioTrack
<1>4. ASSUME NEW uid \in Uids, NEW n \in TrackNumbers, AddOtherTrack(uid, n)
      PROVE  TracksInv'
  BY <1>4, NewTrackNumbered, TracksInvAdd DEF AddOtherTrack
<1>5. CASE \E i \in DOMAIN tracks : Set(i)
  BY <1>5, TracksInvSet
<1>6. CASE \E f \in Values.info : SetInfoField(f[1], f[2])
  BY <1>1, <1>6 DEF SetInfoField
<1>7. CASE \/ \E uid \in Uids : AddChapter(uid)
           \/ \E f \in Values.chapter : SetChapterField(f[1], f[2])
           \/ \E f \in Values.string : AddString(f[1], f[2], f[3])
  BY <1>1, <1>7 DEF AddChapter, SetChapterField, AddString, ChangeChapters
<1>8. CASE AddTag \/ \E f \in Values.tag : AddSimpleTag(f[1], f[2])
  BY <1>1, <1>8 DEF AddTag, AddSimpleTag, ChangeTags
<1>9. CASE \/ \E cue \in Cues : AddCue(cue)
           \/ \E seek \in Seeks : AddSeekEntry(seek)
           \/ Write
  BY <1>1, <1>9 DEF AddCue, AddSeekEntry, Write
<1>10. CASE UNCHANGED muxVars
  BY <1>1, <1>10 DEF muxVars
<1> QED
  BY <1>2, <1>3, <1>4, <1>5, <1>6, <1>7, <1>8, <1>9, <1>10 DEF Next

\* However many tracks are added, with a number or without one, and whatever is
\* set on them in between, no two have the same number (Tracks::AddTrack).
THEOREM TracksToldApart == Spec => []NumbersUnique
<1>1. TracksInv => NumbersUnique
  BY DEF TracksInv
<1> QED
  BY <1>1, TracksInvInit, TracksInvStep, PTL DEF Spec
=============================================================================
