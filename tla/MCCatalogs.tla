----------------------------- MODULE MCCatalogs -----------------------------
(* Three requests of one user at a time, two names and one article.          *)
EXTENDS Catalogs, TLC

Symmetry == Permutations(Conns)
=============================================================================
