---------------------------- MODULE MCAdminLogin ----------------------------
(* The admin's sign-in on a small instance: two requests at a time and      *)
(* enough of them to be locked out.                                         *)
EXTENDS AdminLogin, TLC

Symmetry == Permutations(Conns)

=============================================================================
