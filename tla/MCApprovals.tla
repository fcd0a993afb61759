---------------------------- MODULE MCApprovals ----------------------------
(***************************************************************************)
(* Instances of Approvals for TLC.                                         *)
(***************************************************************************)
EXTENDS Approvals, TLC

CONSTANTS s1, s2, t1, a1, a2, a3, d1, web

\* Two sessions of one ticket.
OneTicket == s1 :> t1 @@ s2 :> t1
OneUse == t1 :> 1
TwoUses == t1 :> 2
NoIdentities == s1 :> NoIdentity @@ s2 :> NoIdentity
SameTarget == s1 :> web @@ s2 :> web

\* All askers are of the same session: a held connection and its requests.
HeldAndPolled == [a \in Askers |-> s1]

\* Bound: the third call comes after the second has returned, and only where nobody has
\* looked at the question, nothing has failed and the other session is not there.
ThirdCall ==
    asker[a3].pc # "start" =>
        /\ asker[a2].pc = "done" /\ failures = 0
        /\ session[s2] = "new" /\ verdict[s1] = "none" /\ job[d1] = Idle

\* One session, one connection held for it, one use.
TheTicket == s1 :> t1
Nobody == s1 :> NoIdentity
TheTarget == s1 :> web
=============================================================================
