------------------------------- MODULE WebVtt -------------------------------
(* libwebvtt (webvtt/webvttparser.cc): reading lines and the parts of a cue.
   A text is a sequence of characters. WEBVTT, the arrow and the byte order mark
   are one character each, since nothing else is made of their letters; a space
   stands for the tab too, and no text has a NUL. What is still to be read is
   Parser::unget_ and then what the reader gives. *)
EXTENDS Integers, Sequences, SequencesExt, FiniteSetsExt

CONSTANTS
  kMaxLineLength,   \* of GetLine, 10000
  kIntMax           \* INT_MAX

LF == "lf"
CR == "cr"
SP == " "
kArrow == "-->"
kId == "WEBVTT"
BOM == "bom"
NotUtf8 == "xff"      \* the bytes that no UTF-8 text has
ReadError == "error"  \* where the reader fails
Digits == << "0", "1", "2", "3", "4", "5", "6", "7", "8", "9" >>

-----------------------------------------------------------------------------
\* Mutant: the character behind a CR is consumed, whatever it is.
AfterCrEats(chars) == IF chars # << >> THEN Tail(chars) ELSE chars

\* A pair of CR and LF ends one line; anything else behind a CR is put back.
AfterCr(chars) == IF chars # << >> /\ Head(chars) = LF THEN Tail(chars) ELSE chars

\* e is the code's result, negative, zero and positive; rest is still to be read.
GetLine(chars) ==
  LET ends == {i \in DOMAIN chars : chars[i] \in {LF, CR, NotUtf8, ReadError}}
      n == Min(ends \cup {Len(chars) + 1}) - 1
      behind == SubSeq(chars, n + 2, Len(chars))
      Read(rest) == [e |-> 0, line |-> SubSeq(chars, 1, n), rest |-> rest]
      failed == [Read(<< >>) EXCEPT !.e = -1]
  IN  CASE n > kMaxLineLength -> failed
        [] chars = << >>      -> [failed EXCEPT !.e = 1]
        [] n = Len(chars)     -> Read(<< >>)
        [] chars[n + 1] = LF  -> Read(behind)
        [] chars[n + 1] = CR /\ (behind = << >> \/ Head(behind) # ReadError) -> Read(AfterCr(behind))
        [] OTHER              -> failed

\* ParseBOM and the line of WEBVTT, with the empty line behind it.
ParserInit(chars) ==
  LET text == IF chars # << >> /\ Head(chars) = BOM THEN Tail(chars) ELSE chars
      failed == [e |-> -1, rest |-> << >>]
  IN  IF text = << >> \/ Head(text) # kId THEN failed
      ELSE LET first == GetLine(Tail(text))
               second == GetLine(first.rest)
           IN  IF \/ first.e < 0 \/ second.e < 0
                  \/ first.line # << >> /\ Head(first.line) # SP
                  \/ second.line # << >>
               THEN failed ELSE [e |-> 0, rest |-> second.rest]

-----------------------------------------------------------------------------
(* The timings line. The code scans it by an index up to a NUL that it puts over
   the arrow and at the end; what it accepts is words. *)
Fields(chars, separator) ==
  LET ends == SelectSeq([i \in 1 .. Len(chars) + 1 |-> i],
                        LAMBDA i : i > Len(chars) \/ chars[i] = separator)
  IN  [k \in DOMAIN ends |-> SubSeq(chars, IF k = 1 THEN 1 ELSE ends[k - 1] + 1, ends[k] - 1)]

Words(chars) == SelectSeq(Fields(chars, SP), LAMBDA word : word # << >>)

ParseNumber(word) ==
  LET Value(c) == CHOOSE i \in DOMAIN Digits : Digits[i] = c
      number == FoldLeft(LAMBDA n, c : 10 * n + Value(c) - 1, 0, word)
  IN  IF word = << >> \/ ~ ToSet(word) \subseteq ToSet(Digits) \/ number > kIntMax
      THEN -1 ELSE number

\* The value decides, not the number of digits: 050 is half a second.
Milliseconds(val) ==
  CASE val < 0 \/ val >= 1000 -> -1
    [] val < 10               -> val * 100
    [] val < 100              -> val * 10
    [] OTHER                  -> val

\* SS, MM:SS or HH:MM:SS with or without a fraction, as Time::presentation gives it;
\* fields are kept below 60, so that comparing them is comparing this.
TimeOf(numbers, ms) ==
  IF \/ Len(numbers) > 3 \/ ms < 0
     \/ \E i \in DOMAIN numbers : numbers[i] < 0 \/ (i > 1 /\ numbers[i] >= 60)
     \/ Len(numbers) = 2 /\ numbers[1] >= 60
  THEN -1
  ELSE 1000 * FoldLeft(LAMBDA t, n : 60 * t + n, 0, numbers) + ms

Numbers(fields) == [i \in DOMAIN fields |-> ParseNumber(fields[i])]
ParseTime(word) ==
  LET parts == Fields(word, ".")
  IN  IF Len(parts) > 2 THEN -1
      ELSE TimeOf(Numbers(Fields(parts[1], ":")),
                  IF Len(parts) = 1 THEN 0 ELSE Milliseconds(ParseNumber(parts[2])))

\* A setting is NAME:VALUE.
IsSetting(word) == LET fields == Fields(word, ":")
                   IN  Len(fields) = 2 /\ fields[1] # << >> /\ fields[2] # << >>

HasArrow(line) == Contains(line, kArrow)

TimingsFrom(start, stop, settings) ==
  IF start >= 0 /\ stop >= 0 /\ \A i \in DOMAIN settings : IsSetting(settings[i])
  THEN [e |-> 0, start |-> start, stop |-> stop, settings |-> settings]
  ELSE [e |-> -1]

TimingsOf(before, behind) ==
  IF Len(before) # 1 \/ behind = << >> THEN [e |-> -1]
  ELSE TimingsFrom(ParseTime(before[1]), ParseTime(behind[1]), Tail(behind))

ParseTimingsLine(line) ==
  LET arrow == Min({i \in DOMAIN line : line[i] = kArrow})
  IN  TimingsOf(Words(SubSeq(line, 1, arrow - 1)), Words(SubSeq(line, arrow + 1, Len(line))))
=============================================================================
