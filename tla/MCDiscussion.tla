---------------------------- MODULE MCDiscussion ----------------------------
(* One article, two readers (the two the sample thread is attributed to),   *)
(* two requests of theirs at a time and two processes running the script.    *)
EXTENDS Discussion, TLC

Symmetry == Permutations(Sessions) \cup Permutations(Scripts)
=============================================================================
