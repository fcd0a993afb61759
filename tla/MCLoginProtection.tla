------------------------- MODULE MCLoginProtection -------------------------
(***************************************************************************)
(* Instances of LoginProtection for TLC.                                   *)
(***************************************************************************)
EXTENDS LoginProtection, TLC

CONSTANTS n1, n2, i1, u1, l1, l2

\* Two clients behind one address, each on a node of its own, try one account.
EachNode == l1 :> n1 @@ l2 :> n2
OneNode == l1 :> n1 @@ l2 :> n1
OneAddress == l1 :> i1 @@ l2 :> i1
OneAccount == l1 :> u1 @@ l2 :> u1

\* The two clients, each with its node, are alike.
Swap == {n1 :> n1 @@ n2 :> n2 @@ l1 :> l1 @@ l2 :> l2,
         n1 :> n2 @@ n2 :> n1 @@ l1 :> l2 @@ l2 :> l1}

AlwaysOn == {[enabled |-> TRUE, exempt |-> {}]}
OnOrOff == {[enabled |-> TRUE, exempt |-> {}], [enabled |-> FALSE, exempt |-> {i1}]}
=============================================================================
