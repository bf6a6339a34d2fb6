--------------------------- MODULE SessionLedger ---------------------------
(***************************************************************************)
(* What the refresh registry promises, with no transactions in it.         *)
(*                                                                         *)
(* A sign-in opens a family with one live token.  A rotation trades the    *)
(* live token of a family for its successor in one step.  A kill takes a   *)
(* set of live tokens of one user away for good.  Nothing else happens: a  *)
(* token that has left `live' never comes back, and a family never has     *)
(* two.                                                                    *)
(***************************************************************************)

CONSTANTS Tokens, Users, NoToken, NoUser

VARIABLES used,     \* every token ever issued
          live,     \* the tokens a refresh would accept
          family,   \* the token that opened the family of each used token
          owner     \* the account each used token signs in

ledgerVars == <<used, live, family, owner>>

Init ==
  /\ used   = {}
  /\ live   = {}
  /\ family = [t \in Tokens |-> NoToken]
  /\ owner  = [t \in Tokens |-> NoUser]

Open(t, u) ==
  /\ t \notin used
  /\ used'   = used \cup {t}
  /\ live'   = live \cup {t}
  /\ family' = [family EXCEPT ![t] = t]
  /\ owner'  = [owner EXCEPT ![t] = u]

Rotate(t, n) ==
  /\ t \in live
  /\ n \notin used
  /\ used'   = used \cup {n}
  /\ live'   = (live \ {t}) \cup {n}
  /\ family' = [family EXCEPT ![n] = family[t]]
  /\ owner'  = [owner EXCEPT ![n] = owner[t]]

Kill(u, S) ==
  /\ S \subseteq live
  /\ \A t \in S : owner[t] = u
  /\ live' = live \ S
  /\ UNCHANGED <<used, family, owner>>

Next ==
  \/ \E t \in Tokens, u \in Users : Open(t, u)
  \/ \E t, n \in Tokens : Rotate(t, n)
  \/ \E u \in Users, S \in SUBSET Tokens : Kill(u, S)

Spec == Init /\ [][Next]_ledgerVars

=============================================================================
