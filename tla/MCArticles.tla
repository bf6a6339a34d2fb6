----------------------------- MODULE MCArticles -----------------------------
(* One article on a small instance: two requests at a time and every body   *)
(* over two headings.                                                       *)
EXTENDS Articles, TLC

Symmetry == Permutations(Conns) \cup Permutations(Anchors)

=============================================================================
