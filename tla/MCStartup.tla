----------------------------- MODULE MCStartup -----------------------------
(* Two processes, three checkouts (a first release, its successor, and one *)
(* in which the first migration was edited) and four months, one ahead.    *)
EXTENDS Startup, TLC

CONSTANTS a, b, x

MCReleases == {<<a, NoText>>, <<a, b>>, <<x, b>>}
Symmetry   == Permutations(Procs)
=============================================================================
