----------------------------- MODULE Sessions -----------------------------
(***************************************************************************)
(* The session tables as the nodes of a cluster write them: transactions   *)
(* that lock a user session or a ticket, statements outside any            *)
(* transaction, node-bound handles that die with their node, heartbeats,   *)
(* the reaper, shutdown and retention.                                     *)
(*                                                                         *)
(* A worker is a task of the node it is on.  locked[x] is the row lock of  *)
(* a user session or a ticket; what a transaction writes becomes visible   *)
(* when it commits (read committed, the weakest isolation of the three     *)
(* databases).  A node is one run of the program: it never comes back      *)
(* under the same id.                                                      *)
(***************************************************************************)
EXTENDS FiniteSets, Naturals

CONSTANTS
    Sessions, Targets, Tickets, NoTicket,
    Nodes, NoNode, Workers, Nobody,
    At,        \* the node of every worker
    Owner,     \* node_id of every session; NoNode: a browser session
    Mortal,    \* nodes that may die
    Losses     \* bound on failed statements and late heartbeats

Rows == Sessions \cup Tickets

\* What is assumed of the constants.
ConstantsOK ==
    /\ At \in [Workers -> Nodes]
    /\ Owner \in [Sessions -> Nodes \cup {NoNode}]
    /\ NoNode \notin Nodes /\ NoTicket \notin Tickets /\ Nobody \notin Workers
    /\ Mortal \subseteq Nodes /\ Losses \in Nat

ASSUME SessionsConstants == ConstantsOK

VARIABLES
    parent, child, by, ticket,  \* as in SessionLedger
    locked,    \* who holds the lock of a row
    task,      \* what every worker does
    handle,    \* WarpgateServerHandle of a node-bound session
    cookie,    \* the stored browser session that backs an unowned session
    node,      \* nodes: the row of every node, as its heartbeat left it
    up,        \* which nodes run
    losses     \* failed statements so far

tables == <<parent, child, by, ticket>>
vars == <<tables, locked, task, handle, cookie, node, up, losses>>

Ledger == INSTANCE SessionLedger

Idle == [op |-> "idle", s |-> Nobody, t |-> Nobody, k |-> NoTicket, todo |-> {}, live |-> {},
         then |-> "idle"]
Ops == {"idle", "open", "openTicket", "openInsert", "ending", "endLocked", "discard",
        "discardParent", "delete", "deleteCollect", "deleteCommit", "reapLive", "reapOwned",
        "reapCookies", "reapChildren", "leaveChildren", "leave"}
Tasks == [op : Ops, s : Sessions \cup {Nobody}, t : Targets \cup {Nobody},
          k : Tickets \cup {NoTicket}, todo : SUBSET Sessions, live : SUBSET Nodes, then : Ops]

Init ==
    /\ parent = [s \in Sessions |-> "unborn"]
    /\ child = [s \in Sessions |-> [t \in Targets |-> "none"]]
    /\ by = [s \in Sessions |-> [t \in Targets |-> NoTicket]]
    /\ ticket = [k \in Tickets |-> "valid"]
    /\ locked = [x \in Rows |-> Nobody]
    /\ task = [w \in Workers |-> Idle]
    /\ handle = [s \in Sessions |-> "none"]
    /\ cookie = [s \in Sessions |-> "none"]
    /\ node = [n \in Nodes |-> "gone"]
    /\ up = [n \in Nodes |-> "new"]
    /\ losses = 0

-----------------------------------------------------------------------------
(* Locks, and tasks.                                                       *)

Unlocked(w) == [x \in Rows |-> IF locked[x] = w THEN Nobody ELSE locked[x]]
Goto(w, record) == task' = [task EXCEPT ![w] = record]
Is(w, op) == task[w].op = op /\ up[At[w]] = "up"

\* Faulty variant: the row is read without being locked.
Takes_NoLock(w, x) == UNCHANGED locked

\* A no-op update locks the row until the transaction is over.
Takes(w, x) ==
    /\ locked[x] \in {Nobody, w}
    /\ locked' = [locked EXCEPT ![x] = w]

\* The transaction is over, committed or not.
Releases(w) == locked' = Unlocked(w)

\* A task that ends sessions one at a time, and what it does after the last.
Ends(w, sessions, then) == Goto(w, [Idle EXCEPT !.op = "ending", !.todo = sessions, !.then = then])

-----------------------------------------------------------------------------
(* Registering a session.                                                  *)

\* register_user_session_in: a session of a node, or one that any node serves.  The
\* handle of an unfinished login is provisional.
Register(w, s) ==
    /\ Is(w, "idle") /\ parent[s] = "unborn" /\ Owner[s] \in {At[w], NoNode}
    /\ parent' = [parent EXCEPT ![s] = "open"]
    /\ \E h \in IF Owner[s] = NoNode THEN {"none"} ELSE {"live", "provisional"} :
           handle' = [handle EXCEPT ![s] = h]
    /\ cookie' = [cookie EXCEPT ![s] = IF Owner[s] = NoNode THEN "unsaved" ELSE @]
    /\ UNCHANGED <<child, by, ticket, locked, task, node, up, losses>>

\* WarpgateServerHandle::confirm.
Confirm(s) ==
    /\ handle[s] = "provisional"
    /\ handle' = [handle EXCEPT ![s] = "live"]
    /\ UNCHANGED <<tables, locked, task, cookie, node, up, losses>>

\* update_session of the browser session storage, which refuses an ended parent.
SaveCookie(s) ==
    /\ cookie[s] \in {"unsaved", "none"} /\ Owner[s] = NoNode
    /\ parent[s] = "open" /\ locked[s] = Nobody
    /\ cookie' = [cookie EXCEPT ![s] = "saved"]
    /\ UNCHANGED <<tables, locked, task, handle, node, up, losses>>

\* rotate_session_id removes the row; the end of the request writes it again.
Rotate(s) ==
    /\ cookie[s] = "saved" /\ locked[s] = Nobody
    /\ cookie' = [cookie EXCEPT ![s] = "none"]
    /\ UNCHANGED <<tables, locked, task, handle, node, up, losses>>

\* SHARED_SESSION_ORPHAN_GRACE is over, and nothing was stored yet.
GraceEnds(s) ==
    /\ cookie[s] = "unsaved"
    /\ cookie' = [cookie EXCEPT ![s] = "none"]
    /\ UNCHANGED <<tables, locked, task, handle, node, up, losses>>

-----------------------------------------------------------------------------
(* Opening a target session: open_or_lookup.                               *)

Serves(w, s) ==
    IF Owner[s] = NoNode THEN parent[s] # "unborn"
    ELSE At[w] = Owner[s] /\ handle[s] \in {"live", "provisional"}

BeginOpen(w, s, t, k) ==
    /\ Is(w, "idle") /\ Serves(w, s)
    /\ Goto(w, [Idle EXCEPT !.op = "open", !.s = s, !.t = t, !.k = k])
    /\ UNCHANGED <<tables, locked, handle, cookie, node, up, losses>>

OpenLocksParent(w) ==
    LET s == task[w].s IN
    /\ Is(w, "open") /\ locked[s] = Nobody
    /\ \/ /\ parent[s] # "open"            \* UserSessionEnded
          /\ Goto(w, Idle) /\ UNCHANGED locked
       \/ /\ parent[s] = "open"
          /\ Takes(w, s)
          /\ Goto(w, [task[w] EXCEPT !.op = IF task[w].k = NoTicket
                                            THEN "openInsert" ELSE "openTicket"])
    /\ UNCHANGED <<tables, handle, cookie, node, up, losses>>

\* The ticket exists, and expiry > now.
TicketValid(k) == ticket[k] = "valid"

OpenLocksTicket(w) ==
    LET k == task[w].k IN
    /\ Is(w, "openTicket") /\ locked[k] = Nobody
    /\ \/ /\ ~TicketValid(k)               \* InvalidTicket
          /\ Goto(w, Idle) /\ Releases(w)
       \/ /\ TicketValid(k)
          /\ Takes(w, k)
          /\ Goto(w, [task[w] EXCEPT !.op = "openInsert"])
    /\ UNCHANGED <<tables, handle, cookie, node, up, losses>>

\* insert_unless_already_open, the lookup and the commit.
OpenCommits(w) ==
    LET s == task[w].s
        t == task[w].t IN
    /\ Is(w, "openInsert")
    /\ child' = [child EXCEPT ![s][t] = IF @ = "none" THEN "open" ELSE @]
    /\ by' = [by EXCEPT ![s][t] = IF child[s][t] = "none" THEN task[w].k ELSE @]
    /\ Releases(w) /\ Goto(w, Idle)
    /\ UNCHANGED <<parent, ticket, handle, cookie, node, up, losses>>

-----------------------------------------------------------------------------
(* Ending sessions.                                                        *)

\* revoke_open_matching reads which sessions are open, and ends them one by one.
OpenMatching(sessions) == {s \in sessions : parent[s] = "open"}

\* close_sessions of an administrator, of one session, of a user's or of all.
Close(w, sessions) ==
    /\ Is(w, "idle")
    /\ Ends(w, OpenMatching(sessions), "idle")
    /\ UNCHANGED <<tables, locked, handle, cookie, node, up, losses>>

\* One that is gone counts as ended.
Ended(s) == parent[s] # "open"

\* mark_ended_in_transaction locks the session; one that is gone or ended is skipped.
EndLocks(w) ==
    /\ Is(w, "ending")
    /\ \E s \in task[w].todo :
        /\ locked[s] = Nobody
        /\ \/ /\ Ended(s)
              /\ Goto(w, [task[w] EXCEPT !.todo = @ \ {s}]) /\ UNCHANGED locked
           \/ /\ ~Ended(s)
              /\ Takes(w, s)
              /\ Goto(w, [task[w] EXCEPT !.op = "endLocked", !.s = s])
    /\ UNCHANGED <<tables, handle, cookie, node, up, losses>>

\* The open target sessions of a session end with it.
TargetsEnded(s) ==
    [child EXCEPT ![s] = [t \in Targets |-> IF @[t] = "open" THEN "ended" ELSE @[t]]]

\* revoke also deletes the stored browser sessions, in the same transaction.
EndCommits(w) ==
    LET s == task[w].s IN
    /\ Is(w, "endLocked")
    /\ parent' = [parent EXCEPT ![s] = "ended"]
    /\ child' = TargetsEnded(s)
    /\ cookie' = [cookie EXCEPT ![s] = "none"]
    /\ Releases(w)
    /\ Goto(w, [task[w] EXCEPT !.op = "ending", !.s = Nobody, !.todo = @ \ {s}])
    /\ UNCHANGED <<by, ticket, handle, node, up, losses>>

\* After the last of them the task goes on, or is done.
EndDone(w) ==
    /\ Is(w, "ending") /\ task[w].todo = {}
    /\ Goto(w, [Idle EXCEPT !.op = task[w].then])
    /\ UNCHANGED <<tables, locked, handle, cookie, node, up, losses>>

\* The handle is dropped, which it cannot be while a request of the session uses it:
\* an unfinished login is discarded, a session of this node is ended.
DropHandle(w, s) ==
    /\ Is(w, "idle") /\ At[w] = Owner[s] /\ handle[s] \in {"live", "provisional"}
    /\ \A v \in Workers : task[v].s # s \/ task[v].op \notin {"open", "openTicket", "openInsert"}
    /\ IF handle[s] = "provisional"
       THEN Goto(w, [Idle EXCEPT !.op = "discard", !.s = s])
       ELSE Ends(w, {s}, "idle")
    /\ handle' = [handle EXCEPT ![s] = "none"]
    /\ UNCHANGED <<tables, locked, cookie, node, up, losses>>

\* discard_session: two statements without a transaction.
DiscardTargets(w) ==
    LET s == task[w].s IN
    /\ Is(w, "discard")
    /\ child' = [child EXCEPT ![s] = [t \in Targets |-> "none"]]
    /\ by' = [by EXCEPT ![s] = [t \in Targets |-> NoTicket]]
    /\ Goto(w, [task[w] EXCEPT !.op = "discardParent"])
    /\ UNCHANGED <<parent, ticket, locked, handle, cookie, node, up, losses>>

DiscardParent(w) ==
    LET s == task[w].s IN
    /\ Is(w, "discardParent") /\ locked[s] = Nobody
    /\ parent' = [parent EXCEPT ![s] = "deleted"]
    /\ Goto(w, Idle)
    /\ UNCHANGED <<child, by, ticket, locked, handle, cookie, node, up, losses>>

-----------------------------------------------------------------------------
(* Tickets.                                                                *)

Admitted(k) == {s \in Sessions : \E t \in Targets : child[s][t] = "open" /\ by[s][t] = k}

\* delete_ticket_closing_sessions, and the tickets of a deleted target.
BeginDelete(w, k) ==
    /\ Is(w, "idle") /\ ticket[k] # "deleted"
    /\ Goto(w, [Idle EXCEPT !.op = "delete", !.k = k])
    /\ UNCHANGED <<tables, locked, handle, cookie, node, up, losses>>

DeleteLocks(w) ==
    LET k == task[w].k IN
    /\ Is(w, "delete") /\ locked[k] = Nobody
    /\ IF ticket[k] = "deleted" THEN UNCHANGED locked ELSE Takes(w, k)
    /\ Goto(w, [task[w] EXCEPT !.op = "deleteCollect"])
    /\ UNCHANGED <<tables, handle, cookie, node, up, losses>>

DeleteCollects(w) ==
    /\ Is(w, "deleteCollect")
    /\ Goto(w, [task[w] EXCEPT !.op = "deleteCommit", !.todo = Admitted(task[w].k)])
    /\ UNCHANGED <<tables, locked, handle, cookie, node, up, losses>>

DeleteCommits(w) ==
    LET k == task[w].k IN
    /\ Is(w, "deleteCommit")
    /\ ticket' = [ticket EXCEPT ![k] = "deleted"]
    /\ by' = [s \in Sessions |-> [t \in Targets |-> IF by[s][t] = k THEN NoTicket ELSE by[s][t]]]
    /\ Releases(w) /\ Ends(w, OpenMatching(task[w].todo), "idle")
    /\ UNCHANGED <<parent, child, handle, cookie, node, up, losses>>

TimePasses(k) ==
    /\ ticket[k] \in {"valid", "due"}
    /\ ticket' = [ticket EXCEPT ![k] = IF @ = "valid" THEN "due" ELSE "past"]
    /\ UNCHANGED <<parent, child, by, locked, task, handle, cookie, node, up, losses>>

\* close_sessions_of_expired_tickets: expiry < now.
SweepExpired(w) ==
    /\ Is(w, "idle")
    /\ \E k \in Tickets : ticket[k] = "past" /\ Admitted(k) # {}
    /\ Ends(w, OpenMatching(UNION {Admitted(k) : k \in {j \in Tickets : ticket[j] = "past"}}), "idle")
    /\ UNCHANGED <<tables, locked, handle, cookie, node, up, losses>>

-----------------------------------------------------------------------------
(* Nodes.                                                                  *)

\* Cluster::start, and every heartbeat after it.
Heartbeat(n) ==
    /\ up[n] \in {"new", "up"} /\ node[n] # "fresh"
    /\ node' = [node EXCEPT ![n] = "fresh"]
    /\ up' = [up EXCEPT ![n] = "up"]
    /\ UNCHANGED <<tables, locked, task, handle, cookie, losses>>

\* last_seen < now - HEARTBEAT_TIMEOUT: the node is dead, or it cannot write.
FallsBehind(n) ==
    /\ node[n] = "fresh"
    /\ up[n] = "up" => losses < Losses
    /\ losses' = IF up[n] = "up" THEN losses + 1 ELSE losses
    /\ node' = [node EXCEPT ![n] = "late"]
    /\ UNCHANGED <<tables, locked, task, handle, cookie, up>>

\* A statement fails: the transaction rolls back and the task gives up.
Fails(w) ==
    /\ task[w].op # "idle" /\ up[At[w]] = "up" /\ losses < Losses
    /\ losses' = losses + 1
    /\ Releases(w) /\ Goto(w, Idle)
    /\ UNCHANGED <<tables, handle, cookie, node, up>>

\* reap, on one of the nodes: the rows of the nodes that fell behind go first.
Reap(w) ==
    /\ Is(w, "idle")
    /\ node' = [n \in Nodes |-> IF node[n] = "late" THEN "gone" ELSE node[n]]
    /\ Goto(w, [Idle EXCEPT !.op = "reapLive"])
    /\ UNCHANGED <<tables, locked, handle, cookie, up, losses>>

ReapReadsLive(w) ==
    /\ Is(w, "reapLive")
    /\ Goto(w, [task[w] EXCEPT !.op = "reapOwned", !.live = {n \in Nodes : node[n] # "gone"}])
    /\ UNCHANGED <<tables, locked, handle, cookie, node, up, losses>>

\* At least the current node should have been present.
Bails(live) == live = {}

\* Faulty variant: only the sessions of nodes whose row is still there, and late.
BoundElsewhere_Listed(live) ==
    {s \in Sessions : Owner[s] # NoNode /\ Owner[s] \notin live /\ node[Owner[s]] = "late"}

BoundElsewhere(live) == {s \in Sessions : Owner[s] # NoNode /\ Owner[s] \notin live}

\* end_connection_bound_sessions.
ReapOwned(w) ==
    LET live == task[w].live IN
    /\ Is(w, "reapOwned")
    /\ Ends(w, IF Bails(live) THEN {} ELSE OpenMatching(BoundElsewhere(live)), "reapCookies")
    /\ UNCHANGED <<tables, locked, handle, cookie, node, up, losses>>

\* end_sessions_without_cookie: no stored browser session, and past the grace.
ReapCookies(w) ==
    /\ Is(w, "reapCookies")
    /\ Ends(w, OpenMatching({s \in Sessions : Owner[s] = NoNode /\ cookie[s] = "none"}),
            "reapChildren")
    /\ UNCHANGED <<tables, locked, handle, cookie, node, up, losses>>

\* end_children_of_ended_parents: one statement, of the reaper and of a shutdown.
EndChildren(w) ==
    /\ Is(w, "reapChildren") \/ Is(w, "leaveChildren")
    /\ child' = [s \in Sessions |-> IF parent[s] = "ended" THEN TargetsEnded(s)[s] ELSE child[s]]
    /\ Goto(w, IF Is(w, "reapChildren") THEN Idle ELSE [Idle EXCEPT !.op = "leave"])
    /\ UNCHANGED <<parent, by, ticket, locked, handle, cookie, node, up, losses>>

\* Cluster::shutdown ends the sessions of its node, and then drops the node's row.
Shutdown(w) ==
    /\ Is(w, "idle") /\ At[w] \in Mortal
    /\ Ends(w, OpenMatching({s \in Sessions : Owner[s] = At[w]}), "leaveChildren")
    /\ UNCHANGED <<tables, locked, handle, cookie, node, up, losses>>

Exits(n) ==
    /\ up' = [up EXCEPT ![n] = "down"]
    /\ task' = [w \in Workers |-> IF At[w] = n THEN Idle ELSE task[w]]
    /\ locked' = [x \in Rows |-> IF locked[x] # Nobody /\ At[locked[x]] = n THEN Nobody ELSE locked[x]]
    /\ handle' = [s \in Sessions |-> IF Owner[s] = n THEN "none" ELSE handle[s]]

Leave(w) ==
    /\ Is(w, "leave")
    /\ node' = [node EXCEPT ![At[w]] = "gone"]
    /\ Exits(At[w])
    /\ UNCHANGED <<tables, cookie, losses>>

\* The program dies: its transactions roll back, its handles and tasks are gone.
Crash(n) ==
    /\ up[n] = "up" /\ n \in Mortal
    /\ Exits(n)
    /\ UNCHANGED <<tables, cookie, node, losses>>

-----------------------------------------------------------------------------
(* Retention: cleanup_db.                                                  *)

\* Ended target sessions past the retention, with their recordings.
CleanTargets(w, s) ==
    /\ Is(w, "idle") /\ \E t \in Targets : child[s][t] = "ended"
    /\ child' = [child EXCEPT ![s] = [t \in Targets |-> IF @[t] = "ended" THEN "none" ELSE @[t]]]
    /\ by' = [by EXCEPT ![s] = [t \in Targets |-> IF child[s][t] = "ended" THEN NoTicket ELSE @[t]]]
    /\ UNCHANGED <<parent, ticket, locked, task, handle, cookie, node, up, losses>>

Unreferenced(s) == \A t \in Targets : child[s][t] = "none"

\* Ended user sessions that no target session refers to.
CleanParent(w, s) ==
    /\ Is(w, "idle") /\ parent[s] = "ended" /\ Unreferenced(s) /\ locked[s] = Nobody
    /\ parent' = [parent EXCEPT ![s] = "deleted"]
    /\ UNCHANGED <<child, by, ticket, locked, task, handle, cookie, node, up, losses>>
-----------------------------------------------------------------------------
Starts(w) ==
    \/ Reap(w) \/ Shutdown(w) \/ SweepExpired(w)
    \/ \E s \in Sessions : Register(w, s) \/ DropHandle(w, s) \/ CleanTargets(w, s) \/ CleanParent(w, s)
    \/ \E s \in Sessions, t \in Targets, k \in Tickets \cup {NoTicket} : BeginOpen(w, s, t, k)
    \/ \E k \in Tickets : BeginDelete(w, k)
    \/ \E sessions \in SUBSET Sessions : sessions # {} /\ Close(w, sessions)

Proceeds(w) ==
    \/ OpenLocksParent(w) \/ OpenLocksTicket(w) \/ OpenCommits(w)
    \/ EndLocks(w) \/ EndCommits(w) \/ EndDone(w)
    \/ DiscardTargets(w) \/ DiscardParent(w)
    \/ DeleteLocks(w) \/ DeleteCollects(w) \/ DeleteCommits(w)
    \/ ReapReadsLive(w) \/ ReapOwned(w) \/ ReapCookies(w) \/ EndChildren(w) \/ Leave(w)

Next ==
    \/ \E w \in Workers : Starts(w) \/ Proceeds(w) \/ Fails(w)
    \/ \E s \in Sessions : Confirm(s) \/ SaveCookie(s) \/ Rotate(s) \/ GraceEnds(s)
    \/ \E k \in Tickets : TimePasses(k)
    \/ \E n \in Nodes : Heartbeat(n) \/ FallsBehind(n) \/ Crash(n)

Spec == Init /\ [][Next]_vars

\* A task that was begun goes on, and waits for a lock in turn; the reaper of a running
\* node runs again and again; heartbeats are written, and those of a dead node grow old.
Left(n) == up[n] = "down" /\ FallsBehind(n)
Fairness ==
    /\ \A w \in Workers : SF_vars(Proceeds(w)) /\ SF_vars(Reap(w))
    /\ \A n \in Nodes : WF_vars(Heartbeat(n)) /\ WF_vars(Left(n))

LiveSpec == Spec /\ Fairness

-----------------------------------------------------------------------------
TypeOK ==
    /\ Ledger!LedgerTypeOK
    /\ locked \in [Rows -> Workers \cup {Nobody}]
    /\ task \in [Workers -> Tasks]
    /\ handle \in [Sessions -> {"none", "live", "provisional"}]
    /\ cookie \in [Sessions -> {"none", "unsaved", "saved"}]
    /\ node \in [Nodes -> {"gone", "fresh", "late"}]
    /\ up \in [Nodes -> {"new", "up", "down"}]
    /\ losses \in 0..Losses

\* The transactions, and the statements outside them, do what the ledger promises: no
\* target session opens in a session another node is ending or under a ticket that is
\* being deleted, and a session ends with all that is in it (open_or_lookup, mark_ended_in_transaction,
\* discard_session, delete_ticket_closing_sessions, the reaper and cleanup_db).
ImplementsLedger == Ledger!LedgerSpec

\* No target access reads as open past its parent (end_children_of_ended_parents is a
\* safety net that nothing needs).
WithinParent == Ledger!WithinParent

\* Deleting a ticket overlooks no session: whoever it admitted and is still open is
\* among those collected, until the ticket is gone (delete_ticket_closing_sessions).
NobodyOverlooked ==
    \A w \in Workers : task[w].op = "deleteCommit" => Admitted(task[w].k) \subseteq task[w].todo

\* An open session of a node that died; another node's reaper ends it, whatever it, the
\* dead node and the failures left half done.
Orphaned(s) == Owner[s] \in {n \in Nodes : up[n] = "down"} /\ parent[s] = "open"
=============================================================================
