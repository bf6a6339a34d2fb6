----------------------------- MODULE MCOtpSignIn ----------------------------
(* One address on a small instance: two requests at a time, two challenges  *)
(* and more guesses than a challenge allows.                                *)
EXTENDS OtpSignIn, TLC

Symmetry == Permutations(Conns) \cup Permutations(Codes)

=============================================================================
