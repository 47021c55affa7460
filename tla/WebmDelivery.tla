---------------------------- MODULE WebmDelivery ----------------------------
(***************************************************************************)
(* That a parser which is fed piece by piece tells its callback what it     *)
(* tells one that sees the document whole.                                 *)
(***************************************************************************)
EXTENDS WebmDocument

\* What a callback is told of each document, from the start and behind a seek.
Scripts ==
  [ f \in Files |-> [ p \in f.seeks \cup {1} |->
      [ sought \in BOOLEAN |-> Script(f, p, sought) ] ] ]

script == Scripts[file][start.at][start.seeks > 0]

\* The callback sees what it would see if the document came in one go, nothing
\* twice, nothing of what it skips, and in the end all of it.
Promise == INSTANCE InOneGo WITH script <- script, log <- events,
                                 done <- status = "completed"

DeliversInOneGo == Promise!Spec
=============================================================================
