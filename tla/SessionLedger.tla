--------------------------- MODULE SessionLedger ---------------------------
(***************************************************************************)
(* What the session tables promise: a user session is opened once and      *)
(* ended once, a target session is open only inside an open user session,  *)
(* and a ticket admits until it is deleted.  Every operation is one step;  *)
(* Sessions shows that the transactions of the code implement them, and    *)
(* Revocation builds on them.                                              *)
(***************************************************************************)
EXTENDS FiniteSets

CONSTANTS Sessions, Targets, Tickets, NoTicket

\* Assumed: NoTicket \notin Tickets

VARIABLES
    parent,  \* user_sessions: the row of every session
    child,   \* target_sessions: one row per session and target
    by,      \* target_sessions.ticket_id
    ticket   \* tickets: "due" is the instant of the expiry

ledger == <<parent, child, by, ticket>>

UserRows == {"unborn", "open", "ended", "deleted"}
TargetRows == {"none", "open", "ended"}
TicketRows == {"valid", "due", "past", "deleted"}

Init ==
    /\ parent = [s \in Sessions |-> "unborn"]
    /\ child = [s \in Sessions |-> [t \in Targets |-> "none"]]
    /\ by = [s \in Sessions |-> [t \in Targets |-> NoTicket]]
    /\ ticket = [k \in Tickets |-> "valid"]

-----------------------------------------------------------------------------
Register(s) ==
    /\ parent[s] = "unborn"
    /\ parent' = [parent EXCEPT ![s] = "open"]
    /\ UNCHANGED <<child, by, ticket>>

\* A ticket admits until it is deleted.  (Its expiry is read, not locked: it may come
\* while the session is being registered, and is then left to the expiry sweep.)
Admits(k) == k # NoTicket => ticket[k] # "deleted"

\* The row is left exactly as it is when one exists.
OpenRow(s, t, k) ==
    /\ child' = [child EXCEPT ![s][t] = IF @ = "none" THEN "open" ELSE @]
    /\ by' = [by EXCEPT ![s][t] = IF child[s][t] = "none" THEN k ELSE @]

\* open_or_lookup.
OpenTarget(s, t, k) ==
    /\ parent[s] = "open"
    /\ Admits(k)
    /\ OpenRow(s, t, k)
    /\ UNCHANGED <<parent, ticket>>

EndRow(s) ==
    /\ parent' = [parent EXCEPT ![s] = "ended"]
    /\ child' = [child EXCEPT ![s] = [t \in Targets |-> IF @[t] = "open" THEN "ended" ELSE @[t]]]

\* mark_ended_in_transaction.
End(s) ==
    /\ parent[s] = "open"
    /\ EndRow(s)
    /\ UNCHANGED <<by, ticket>>

Forgets(s) == child' = [child EXCEPT ![s] = [t \in Targets |-> "none"]]

\* discard_session of an attempt that never became a session, or cleanup_db.
ForgetTargets(s) ==
    /\ Forgets(s)
    /\ by' = [by EXCEPT ![s] = [t \in Targets |-> NoTicket]]
    /\ UNCHANGED <<parent, ticket>>

Forget(s) ==
    /\ parent[s] \in {"open", "ended"}
    /\ \A t \in Targets : child[s][t] = "none"
    /\ parent' = [parent EXCEPT ![s] = "deleted"]
    /\ UNCHANGED <<child, by, ticket>>

\* The foreign key of the target sessions is set to null.
TicketRow(k) ==
    /\ ticket' = [ticket EXCEPT ![k] = "deleted"]
    /\ by' = [s \in Sessions |-> [t \in Targets |-> IF by[s][t] = k THEN NoTicket ELSE by[s][t]]]

DeleteTicket(k) ==
    /\ ticket[k] # "deleted"
    /\ TicketRow(k)
    /\ UNCHANGED <<parent, child>>

TimePasses(k) ==
    /\ ticket[k] \in {"valid", "due"}
    /\ ticket' = [ticket EXCEPT ![k] = IF @ = "valid" THEN "due" ELSE "past"]
    /\ UNCHANGED <<parent, child, by>>

LedgerNext ==
    \/ \E s \in Sessions : Register(s) \/ End(s) \/ ForgetTargets(s) \/ Forget(s)
    \/ \E s \in Sessions, t \in Targets, k \in Tickets \cup {NoTicket} : OpenTarget(s, t, k)
    \/ \E k \in Tickets : DeleteTicket(k) \/ TimePasses(k)

LedgerSpec == Init /\ [][LedgerNext]_ledger

-----------------------------------------------------------------------------
LedgerTypeOK ==
    /\ parent \in [Sessions -> UserRows]
    /\ child \in [Sessions -> [Targets -> TargetRows]]
    /\ by \in [Sessions -> [Targets -> Tickets \cup {NoTicket}]]
    /\ ticket \in [Tickets -> TicketRows]

\* No target access reads as open past its parent: not a statement of an opener, an
\* ender or a discard that comes late leaves a target session open on its own.
WithinParent ==
    \A s \in Sessions, t \in Targets : child[s][t] = "open" => parent[s] = "open"
=============================================================================
