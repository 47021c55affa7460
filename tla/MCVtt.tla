------------------------------- MODULE MCVtt -------------------------------
(* Texts of up to three cues, alone and together, and every text that one of them
   becomes when it is cut off, loses a character or has one replaced. *)
EXTENDS VttProperties

Ends(text, end) == FoldLeft(LAMBDA t, c : IF c = LF THEN t \o end ELSE Append(t, c), << >>, text)

Header == << kId, LF, LF >>
One == << "a", LF, "1", SP, kArrow, SP, "2", ".", "5", SP, "b", ":", "c", LF, "d", LF, "e", SP, kArrow, LF >>
Two == << "2", kArrow, "1", ":", "0", "0", ".", "5", "0", "0", LF, "f", LF >>
Late == << "1", ":", "0", "0", ":", "0", "5", SP, kArrow, SP, "1", ":", "0", "0", ":", "0", "7", SP, SP,
           "b", ":", "c", SP, "d", ":", "e", LF, "g" >>
Short == << "1", ".", "0", "5", SP, kArrow, SP, "1", ".", "1", LF, "h", LF >>
Instant == << "5", kArrow, "5", LF, "i", LF >>
Long == << "1", kArrow, "2", LF >> \o [i \in 1 .. kMaxLineLength |-> "j"]

Whole == Header \o One \o << LF, LF >> \o Two \o << LF >> \o Late
Small == << BOM, kId, SP, "x", LF, LF >> \o Short \o << LF >> \o Instant

\* A text that is damaged at one place.
Damage == {LF, CR, SP, "1", "6", "a", ":", ".", kArrow, NotUtf8, ReadError, BOM}
Damaged(text) ==
  {SubSeq(text, 1, n) : n \in 0 .. Len(text)}
  \cup {RemoveAt(text, i) : i \in DOMAIN text}
  \cup {[text EXCEPT ![i] = c] : i \in DOMAIN text, c \in Damage}

Texts ==
  Damaged(Whole) \cup Damaged(Small)
  \cup {Ends(t, e) : t \in Damaged(Header \o One \o << LF >> \o Two), e \in {<< CR >>, << CR, LF >>}}
  \cup {Header \o Long, Header \o Append(Long, "j"), Header \o Instant \o << LF >> \o One}

File(kindOf, text) == [kind |-> kindOf, text |-> text]
Pairs ==
  LET texts == {Whole, Small, Header \o Two, Header, << kId >>}
      kinds == {"subtitles", "metadata", "chapters"}
  IN  {<< File(k, t), File(l, u) >> : k \in kinds, l \in kinds, t \in texts, u \in texts}

MCInputs == {<< File("captions", t) >> : t \in Texts} \cup {<< File("chapters", t) >> : t \in Damaged(Whole)}
            \cup Pairs \cup {<< >>}
MCFrameTimes == {0, 1000, 2000, 4000}
=============================================================================
