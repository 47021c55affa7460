------------------------------- MODULE InOneGo -------------------------------
(***************************************************************************)
(* What a parser that is fed piece by piece promises: the events of a       *)
(* document, each once and in order, then that it is done.                  *)
(***************************************************************************)
EXTENDS Sequences, Naturals

VARIABLES
  script,   \* the events, and whether the document is whole
  log,      \* those that have happened
  done      \* the parser has said that it is done

vars == << script, log, done >>

Init == log = << >> /\ done = FALSE

Deliver == /\ Len(log) < Len(script.log)
           /\ log' = Append(log, script.log[Len(log) + 1])
           /\ UNCHANGED << script, done >>

Finish == /\ script.whole /\ log = script.log
          /\ done' = TRUE /\ UNCHANGED << script, log >>

\* The caller starts over somewhere else.
Restart == log' = << >> /\ done' = FALSE

Next == Deliver \/ Finish \/ Restart

Spec == Init /\ [][Next]_vars /\ WF_vars(Deliver \/ Finish)
=============================================================================
