------------------------------- MODULE MCMux -------------------------------
(* One video track and one audio track.                                     *)
EXTENDS MuxProperties

V == 1
A == 2
MCTracks == << V, A >>

F(t, ts, k) == [ id |-> 0, track |-> t, ts |-> ts, key |-> k, len |-> 1,
                 extra |-> "none", dur |-> Unset, ref |-> Unset ]

MCInputs ==
  { F(V, 0, TRUE), F(V, 2, FALSE), F(V, 5, TRUE) }
    \cup { F(A, 0, TRUE), [F(A, 2, TRUE) EXCEPT !.dur = 1], F(A, 5, TRUE) }
    \cup { [F(A, 2, FALSE) EXCEPT !.extra = "padding"] }

Settings(mode, accurate, chunking) ==
  [ mode |-> mode, accurate |-> accurate, chunking |-> chunking,
    outputCues |-> TRUE, estimate |-> FALSE, cuesTrack |-> 0,
    maxDuration |-> 0, maxSize |-> 20, chapters |-> FALSE, tags |-> TRUE ]

MCConfigs == { Settings("file", FALSE, TRUE), Settings("file", TRUE, FALSE),
               Settings("live", FALSE, FALSE),
               [Settings("file", FALSE, FALSE) EXCEPT !.chapters = TRUE] }
=============================================================================
