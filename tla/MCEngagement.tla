---------------------------- MODULE MCEngagement ----------------------------
(* One browser and one article on a small instance: two requests at a time, *)
(* two accounts, one subject, and a click, a completion and a save.          *)
EXTENDS Engagement, TLC

Symmetry == Permutations(Conns) \cup Permutations(Users)
=============================================================================
