----------------------------- MODULE ClusterList -----------------------------
(***************************************************************************)
(* What loading promises: the clusters of the file that have blocks become *)
(* known one after the other, in file order, and when loading says that it *)
(* has reached the end all of them are known.                              *)
(***************************************************************************)
EXTENDS Naturals

VARIABLES
  inFile,  \* the positions of the file's clusters that have blocks
  known,   \* those of the clusters that are known
  ended    \* the end has been reached

vars == << inFile, known, ended >>

Init == known = {} /\ ended \in { FALSE, inFile = {} }

IsNext(p) == \A q \in inFile \ known : p <= q

Load == \E p \in inFile \ known :
          /\ IsNext(p) /\ known' = known \cup {p}
          /\ ended' \in { FALSE, known' = inFile }
          /\ UNCHANGED inFile

End == known = inFile /\ ended' = TRUE /\ UNCHANGED << inFile, known >>

Next == Load \/ End

SafeSpec == Init /\ [][Next]_vars

\* In the end all of them are loaded.
Progress == WF_vars(Next)
=============================================================================
