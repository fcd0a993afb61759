----------------------------- MODULE MCSessions -----------------------------
(***************************************************************************)
(* Instances of Revocation for TLC: a session that came by a role and one  *)
(* that came with a ticket, on two nodes of which one may die; and one     *)
(* session alone.                                                          *)
(***************************************************************************)
EXTENDS Revocation

CONSTANTS n1, n2, w1, a1, s1, s2

Both == {s1, s2}
Alone == {s2}
TwoNodes == {n1, n2}
OnN1 == [w \in {a1, w1} |-> n1]
Apart == [s \in Both |-> IF s = s1 THEN n1 ELSE n2]
Alike == [s \in Both |-> "u"]
OneGoal == [s \in Both |-> "t"]
OneCard == [s \in Both |-> IF s = s1 THEN NoTicket ELSE "k"]
AlonesNode == [s \in Alone |-> n2]
AlonesUser == [s \in Alone |-> "u"]
AlonesGoal == [s \in Alone |-> "t"]
NoCard == [s \in Alone |-> NoTicket]
OneRole == {<<"u", "t">>}

\* What the proofs assume of the constants.
ASSUME ConstantsOK
=============================================================================
