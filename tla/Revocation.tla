---------------------------- MODULE Revocation ----------------------------
(***************************************************************************)
(* Cutting what is already connected when access is taken away: a role or  *)
(* a target is removed, a role assignment or a ticket expires, a ticket or *)
(* its target is deleted.  The rows are those of SessionLedger, whose      *)
(* operations are transactions; the connections, the tasks that close      *)
(* them and the queues of what could not be closed live in the memory of   *)
(* the nodes.                                                              *)
(*                                                                         *)
(* An AccessChange is the set of the pairs of a user and a target it can   *)
(* affect.  A session connects to one target, by a role or with one        *)
(* ticket.  (The HTTP requests that run inside a browser session are in    *)
(* LiveStreams.)                                                           *)
(***************************************************************************)
EXTENDS SessionLedger, Naturals

CONSTANTS
    Users, Nodes, Admins, Sweepers,
    At,        \* the node of every worker
    On,        \* the node of every session
    User,      \* the user of every session
    Goal,      \* the target a session connects to
    Card,      \* the ticket it connects with, or NoTicket
    Granted,   \* the pairs that roles grant
    Expiring,  \* those of them by an assignment with an expiry
    Mortal,    \* nodes that may die
    Failures,  \* bound on failed statements
    Losses     \* bound on posts that do not reach a peer

Workers == Admins \cup Sweepers
Pairs == Users \X Targets
Pair(s) == <<User[s], Goal[s]>>

\* What is assumed of the constants.  Every node runs the sweep of its queues.
ConstantsOK ==
    /\ At \in [Workers -> Nodes] /\ On \in [Sessions -> Nodes]
    /\ User \in [Sessions -> Users] /\ Goal \in [Sessions -> Targets]
    /\ Card \in [Sessions -> Tickets \cup {NoTicket}] /\ NoTicket \notin Tickets
    /\ Expiring \subseteq Granted /\ Granted \subseteq Pairs
    /\ Mortal \subseteq Nodes /\ Failures \in Nat /\ Losses \in Nat
    /\ Sweepers # {} /\ {At[w] : w \in Admins} \subseteq {At[w] : w \in Sweepers}

ASSUME RevocationConstants == ConstantsOK

VARIABLES
    access,    \* the pairs a role grants, as authorize_target_by_id answers
    lapsed,    \* pairs whose role assignment has expired
    swept,     \* role_expiry_swept_until of every node: the expiries it has handled
    conn,      \* the connection of every session
    task,      \* what every worker does
    changes,   \* PendingRevocations.changes of every node
    closes,    \* PendingRevocations.closes of every node
    up,        \* which nodes run
    failures, losses,
    owed       \* sessions that were open when their access was taken, and still are

roles == <<access, lapsed>>
queues == <<changes, closes>>
counts == <<failures, losses>>
vars == <<ledger, roles, swept, conn, task, queues, up, counts, owed>>

Idle == [op |-> "idle", phase |-> "idle", change |-> {}, rows |-> {}, ids |-> {}, left |-> {},
         onError |-> "report", admitted |-> {}, changes |-> {}, closes |-> {}]

RevocationInit ==
    /\ Init
    /\ access = Granted /\ lapsed = {}
    /\ swept = [n \in Nodes |-> {}]
    /\ conn = [s \in Sessions |-> "none"]
    /\ task = [w \in Workers |-> Idle]
    /\ changes = [n \in Nodes |-> {}]
    /\ closes = [n \in Nodes |-> {}]
    /\ up = Nodes
    /\ failures = 0 /\ losses = 0
    /\ owed = {}

-----------------------------------------------------------------------------
(* Connections.                                                            *)

Connect(s) ==
    /\ On[s] \in up
    /\ Register(s)
    /\ conn' = [conn EXCEPT ![s] = "login"]
    /\ UNCHANGED <<roles, swept, task, queues, up, counts, owed>>

\* authorize_for_target, or validate_ticket, which refuses at expiry < now.
Authorised(s) ==
    IF Card[s] = NoTicket THEN Pair(s) \in access ELSE ticket[Card[s]] \in {"valid", "due"}

Authorise(s) ==
    /\ conn[s] = "login"
    /\ conn' = [conn EXCEPT ![s] = IF Authorised(s) THEN "authorised" ELSE "closing"]
    /\ UNCHANGED <<ledger, roles, swept, task, queues, up, counts, owed>>

\* The ticket is asked for again, under its lock: expiry > now.
StillAdmits(s) == Card[s] # NoTicket => ticket[Card[s]] = "valid"

\* start_target_session.
StartTarget(s) ==
    /\ conn[s] = "authorised"
    /\ \/ /\ StillAdmits(s) /\ OpenTarget(s, Goal[s], Card[s])
          /\ conn' = [conn EXCEPT ![s] = "live"]
       \/ /\ ~(StillAdmits(s) /\ parent[s] = "open")
          /\ conn' = [conn EXCEPT ![s] = "closing"]
          /\ UNCHANGED ledger
    /\ UNCHANGED <<roles, swept, task, queues, up, counts, owed>>

Ends(s) == IF parent[s] = "open" THEN End(s) ELSE UNCHANGED ledger

\* The client leaves, or SessionHandle::close has reached the session: the handle drops.
Disconnect(s) ==
    /\ conn[s] \in {"login", "authorised", "live", "closing"}
    /\ conn' = [conn EXCEPT ![s] = "gone"]
    /\ Ends(s)
    /\ owed' = owed \ {s}
    /\ UNCHANGED <<roles, swept, task, queues, up, counts>>

-----------------------------------------------------------------------------
(* Tasks.                                                                  *)

Goto(w, record) == task' = [task EXCEPT ![w] = record]
Is(w, op) == task[w].op = op /\ At[w] \in up

\* revoke_open_matching skips those that are not open.
Closing(record, ids, onError) ==
    [record EXCEPT !.op = "revoke", !.ids = ids, !.left = ids, !.onError = onError]

\* close_admitted_sessions queues what it cannot close.
Admitting(record, ids) ==
    IF ids = {} THEN [record EXCEPT !.op = record.phase]
    ELSE Closing([record EXCEPT !.admitted = {}], ids, "closes")

\* The sessions of a target's tickets come after its role sessions; a sweep goes on.
Continue(w) ==
    Admitting([Idle EXCEPT !.phase = task[w].phase, !.changes = task[w].changes,
                           !.closes = task[w].closes], task[w].admitted)

-----------------------------------------------------------------------------
(* Taking access away.                                                     *)

\* An open session of these pairs that no ticket admitted.
Open(s) == parent[s] = "open" /\ child[s][Goal[s]] = "open"
Affected(pairs) == {s \in Sessions : Open(s) /\ by[s][Goal[s]] = NoTicket /\ Pair(s) \in pairs}

\* AccessChange: Users, Username, Targets, All.
AccessChanges == {{u} \X Targets : u \in Users} \cup {Users \X {t} : t \in Targets} \cup {Pairs}

\* A role is taken from a user or a target, or deleted.  Less may be lost than the change
\* names, since another role may still grant it.
TakeAway(w, change, lost) ==
    /\ Is(w, "idle") /\ lost # {} /\ lost \subseteq change \cap access
    /\ access' = access \ lost
    /\ owed' = owed \cup Affected(lost)
    /\ Goto(w, [Idle EXCEPT !.op = "recheck", !.change = change, !.onError = "change"])
    /\ UNCHANGED <<ledger, lapsed, swept, conn, queues, up, counts>>

\* A role is assigned, or renewed: the expiry of a renewed one is to come.
Grant(w, pair) ==
    /\ Is(w, "idle") /\ pair \in Granted \ access
    /\ access' = access \cup {pair}
    /\ lapsed' = lapsed \ {pair}
    /\ swept' = [n \in Nodes |-> swept[n] \ {pair}]
    /\ owed' = {s \in owed : Pair(s) # pair \/ Card[s] # NoTicket}
    /\ UNCHANGED <<ledger, conn, task, queues, up, counts>>

\* expires_at passes; nobody is told.
Lapse(pair) ==
    /\ pair \in access \cap Expiring
    /\ access' = access \ {pair} /\ lapsed' = lapsed \cup {pair}
    /\ owed' = owed \cup Affected({pair})
    /\ UNCHANGED <<ledger, swept, conn, task, queues, up, counts>>

\* open_user_sessions_admitted_by_tickets.
AdmittedBy(tickets) ==
    {s \in Sessions : /\ parent[s] = "open"
                      /\ \E t \in Targets : child[s][t] = "open" /\ by[s][t] \in tickets}

\* delete_ticket_closing_sessions; close_admitted_sessions follows its commit.
DropTicket(w, k) ==
    /\ Is(w, "idle")
    /\ DeleteTicket(k)
    /\ owed' = owed \cup AdmittedBy({k})
    /\ Goto(w, Admitting(Idle, AdmittedBy({k})))
    /\ UNCHANGED <<roles, swept, conn, queues, up, counts>>

\* A target is deleted, and its ticket k with it: role sessions are closed first.
DropTarget(w, t, k) ==
    LET lost == Users \X {t} IN
    /\ Is(w, "idle") /\ \A s \in Sessions : Card[s] = k => Goal[s] = t
    /\ DeleteTicket(k)
    /\ access' = access \ lost
    /\ owed' = owed \cup AdmittedBy({k}) \cup Affected(lost)
    /\ Goto(w, [Idle EXCEPT !.op = "recheck", !.change = lost, !.onError = "change",
                            !.admitted = AdmittedBy({k})])
    /\ UNCHANGED <<lapsed, swept, conn, queues, up, counts>>

-----------------------------------------------------------------------------
(* close_sessions.                                                         *)

\* An administrator closes sessions, or deletes their user: an error is reported.
AdminClose(w, ids) ==
    /\ Is(w, "idle")
    /\ Goto(w, Closing(Idle, ids, "report"))
    /\ UNCHANGED <<ledger, roles, swept, conn, queues, up, counts, owed>>

\* revoke_open_matching ends one session at a time.
Revoke(w) ==
    /\ Is(w, "revoke")
    /\ \E s \in task[w].left :
        /\ Ends(s)
        /\ owed' = owed \ {s}
        /\ Goto(w, [task[w] EXCEPT !.left = @ \ {s}])
    /\ UNCHANGED <<roles, swept, conn, queues, up, counts>>

Told(sessions) ==
    conn' = [s \in Sessions |-> IF s \in sessions /\ conn[s] \in {"login", "authorised", "live"}
                               THEN "closing" ELSE conn[s]]

\* close_local_sessions.
CloseLocal(w) ==
    /\ Is(w, "revoke") /\ task[w].left = {}
    /\ Told({s \in task[w].ids : On[s] = At[w]})
    /\ Goto(w, [task[w] EXCEPT !.op = "peers"])
    /\ UNCHANGED <<ledger, roles, swept, queues, up, counts, owed>>

\* close_sessions_on_peers: best effort.
ClosePeers(w) ==
    LET peers == up \ {At[w]} IN
    /\ Is(w, "peers")
    /\ \E reached \in SUBSET peers :
        /\ reached = peers \/ losses < Losses
        /\ losses' = IF reached = peers THEN losses ELSE losses + 1
        /\ Told({s \in task[w].ids : On[s] \in reached})
    /\ Goto(w, Continue(w))
    /\ UNCHANGED <<ledger, roles, swept, queues, up, failures, owed>>

-----------------------------------------------------------------------------
(* try_close_sessions_no_longer_authorised.                                *)

Select(w) ==
    /\ Is(w, "recheck")
    /\ Goto(w, [task[w] EXCEPT !.op = "judge", !.rows = Affected(task[w].change)])
    /\ UNCHANGED <<ledger, roles, swept, conn, queues, up, counts, owed>>

\* still_authorised: a check that fails counts as a refusal.  One verdict for a pair.
Judge(w) ==
    /\ Is(w, "judge")
    /\ \E pair \in {Pair(s) : s \in task[w].rows}, fails \in {FALSE, failures < Failures} :
        LET those == {s \in task[w].rows : Pair(s) = pair} IN
        /\ failures' = IF fails THEN failures + 1 ELSE failures
        /\ Goto(w, [task[w] EXCEPT !.rows = @ \ those,
                                   !.ids = IF pair \in access /\ ~fails THEN @ ELSE @ \cup those])
    /\ UNCHANGED <<ledger, roles, swept, conn, queues, up, losses, owed>>

Judged(w) ==
    /\ Is(w, "judge") /\ task[w].rows = {}
    /\ Goto(w, IF task[w].ids = {} THEN Continue(w) ELSE Closing(task[w], task[w].ids, "change"))
    /\ UNCHANGED <<ledger, roles, swept, conn, queues, up, counts, owed>>

-----------------------------------------------------------------------------
(* Failures, and the retries of the five-second sweep.                     *)

\* Faulty variants: the closes are lost; only the sessions not ended yet are queued.
QueuedCloses_Lost(job, queue) == queue

\* push_closes queues all, those that are ended already as well.
QueuedCloses(job, queue) == IF job.onError = "closes" THEN queue \cup job.ids ELSE queue

\* A statement fails.  A change is queued, to be judged again; closes are queued by id; the
\* chunk of a retry is tried again id by id.
Fails(w) ==
    LET job == task[w] IN
    /\ Is(w, "recheck") \/ (Is(w, "revoke") /\ job.left # {})
    /\ failures < Failures
    /\ failures' = failures + 1
    /\ changes' = [changes EXCEPT ![At[w]] = IF job.onError = "change" THEN @ \cup {job.change} ELSE @]
    /\ closes' = [closes EXCEPT ![At[w]] = QueuedCloses(job, @)]
    /\ Goto(w, IF job.onError = "chunk"
               THEN [Idle EXCEPT !.op = "singles", !.phase = "singles", !.closes = job.ids]
               ELSE Continue(w))
    /\ UNCHANGED <<ledger, roles, swept, conn, up, losses, owed>>

\* Faulty variant: expiry = now.
Expired_Now == {k \in Tickets : ticket[k] = "due"}

\* close_sessions_of_expired_tickets: expiry < now.
Expired == {k \in Tickets : ticket[k] = "past"}

SweepTickets(w) ==
    /\ Is(w, "idle") /\ w \in Sweepers
    /\ \E fails \in {FALSE, failures < Failures} :
        /\ failures' = IF fails THEN failures + 1 ELSE failures
        /\ Goto(w, Admitting([Idle EXCEPT !.phase = "take"],
                             IF fails THEN {} ELSE AdmittedBy(Expired)))
    /\ UNCHANGED <<ledger, roles, swept, conn, queues, up, losses, owed>>

\* retry_pending_revocations: the changes that are queued now, one after the other.
TakeChanges(w) ==
    /\ Is(w, "take")
    /\ Goto(w, [Idle EXCEPT !.op = "changes", !.phase = "changes", !.changes = changes[At[w]]])
    /\ changes' = [changes EXCEPT ![At[w]] = {}]
    /\ UNCHANGED <<ledger, roles, swept, conn, closes, up, counts, owed>>

RetryChange(w) ==
    /\ Is(w, "changes")
    /\ \E change \in task[w].changes :
        Goto(w, [task[w] EXCEPT !.op = "recheck", !.change = change, !.onError = "change",
                                !.changes = @ \ {change}])
    /\ UNCHANGED <<ledger, roles, swept, conn, queues, up, counts, owed>>

\* retry_pending_closes.
TakeCloses(w) ==
    LET ids == closes[At[w]] IN
    /\ Is(w, "changes") /\ task[w].changes = {}
    /\ closes' = [closes EXCEPT ![At[w]] = {}]
    /\ Goto(w, IF ids = {} THEN [Idle EXCEPT !.op = "roles"]
               ELSE Closing([Idle EXCEPT !.phase = "roles"], ids, "chunk"))
    /\ UNCHANGED <<ledger, roles, swept, conn, changes, up, counts, owed>>

RetryClose(w) ==
    /\ Is(w, "singles")
    /\ \/ \E s \in task[w].closes : Goto(w, Closing([task[w] EXCEPT !.closes = @ \ {s}], {s}, "closes"))
       \/ task[w].closes = {} /\ Goto(w, [Idle EXCEPT !.op = "roles"])
    /\ UNCHANGED <<ledger, roles, swept, conn, queues, up, counts, owed>>

\* Faulty variant: the watermark moves although the query failed.
Mark_Always(fails, mark) == lapsed

\* role_expiry_swept_until.
Mark(fails, mark) == IF fails THEN mark ELSE lapsed

\* close_sessions_of_expired_role_assignments.
SweepRoles(w) ==
    LET n == At[w]
        users == {pair[1] : pair \in lapsed \ swept[n]} IN
    /\ Is(w, "roles")
    /\ \E fails \in {FALSE, failures < Failures} :
        /\ failures' = IF fails THEN failures + 1 ELSE failures
        /\ swept' = [swept EXCEPT ![n] = Mark(fails, @)]
        /\ Goto(w, IF fails \/ users = {} THEN Idle
                   ELSE [Idle EXCEPT !.op = "recheck", !.change = users \X Targets,
                                     !.onError = "change"])
    /\ UNCHANGED <<ledger, roles, conn, queues, up, losses, owed>>

-----------------------------------------------------------------------------
(* Nodes and time.                                                         *)

\* A node dies with its connections, its tasks and its queues.
Crash(n) ==
    /\ n \in up \cap Mortal
    /\ up' = up \ {n}
    /\ conn' = [s \in Sessions |-> IF On[s] = n /\ conn[s] # "none" THEN "gone" ELSE conn[s]]
    /\ task' = [w \in Workers |-> IF At[w] = n THEN Idle ELSE task[w]]
    /\ changes' = [changes EXCEPT ![n] = {}] /\ closes' = [closes EXCEPT ![n] = {}]
    /\ UNCHANGED <<ledger, roles, swept, counts, owed>>

\* end_connection_bound_sessions (Sessions).
Reaped(s) ==
    /\ On[s] \notin up
    /\ End(s)
    /\ owed' = owed \ {s}
    /\ UNCHANGED <<roles, swept, conn, task, queues, up, counts>>

Clock(k) == TimePasses(k) /\ UNCHANGED <<roles, swept, conn, task, queues, up, counts, owed>>

-----------------------------------------------------------------------------
Begins(w) ==
    \/ \E change \in AccessChanges, lost \in SUBSET access : TakeAway(w, change, lost)
    \/ \E pair \in Pairs : Grant(w, pair)
    \/ \E k \in Tickets : DropTicket(w, k)
    \/ \E t \in Targets, k \in Tickets : DropTarget(w, t, k)
    \/ \E s \in Sessions : AdminClose(w, {s})

Proceeds(w) ==
    \/ Revoke(w) \/ CloseLocal(w) \/ ClosePeers(w)
    \/ Select(w) \/ Judge(w) \/ Judged(w)
    \/ TakeChanges(w) \/ RetryChange(w) \/ TakeCloses(w) \/ RetryClose(w) \/ SweepRoles(w)

Next ==
    \/ \E s \in Sessions : Connect(s) \/ Authorise(s) \/ StartTarget(s) \/ Disconnect(s) \/ Reaped(s)
    \/ \E w \in Admins : Begins(w)
    \/ \E w \in Workers : Proceeds(w) \/ Fails(w) \/ SweepTickets(w)
    \/ \E k \in Tickets : Clock(k)
    \/ \E pair \in Pairs : Lapse(pair)
    \/ \E n \in Nodes : Crash(n)

Spec == RevocationInit /\ [][Next]_vars

\* Tasks go on and the sweep of a running node comes round; a session that is told to
\* close does; another node reaps the sessions of a dead one.
Disconnects(s) == conn[s] = "closing" /\ Disconnect(s)
Fairness ==
    /\ \A w \in Workers : WF_vars(Proceeds(w)) /\ WF_vars(SweepTickets(w))
    /\ \A s \in Sessions : WF_vars(Disconnects(s)) /\ WF_vars(Reaped(s))

LiveSpec == Spec /\ Fairness

-----------------------------------------------------------------------------
TypeOK ==
    /\ LedgerTypeOK
    /\ access \subseteq Pairs /\ lapsed \subseteq Pairs
    /\ swept \in [Nodes -> SUBSET Pairs]
    /\ conn \in [Sessions -> {"none", "login", "authorised", "live", "closing", "gone"}]
    /\ changes \in [Nodes -> SUBSET SUBSET Pairs]
    /\ closes \in [Nodes -> SUBSET Sessions]
    /\ up \subseteq Nodes
    /\ owed \subseteq Sessions

\* A task that has s before it, by id or by the change that s is part of.
Carries(w, s) ==
    \/ task[w].op = "recheck" /\ Pair(s) \in task[w].change
    \/ s \in task[w].rows \cup task[w].admitted \cup task[w].closes \cup task[w].left
    \/ task[w].op = "judge" /\ s \in task[w].ids
    \/ \E change \in task[w].changes : Pair(s) \in change

\* Somebody still has it on their list that s is to be closed.
Pending(s) ==
    \/ \E w \in Workers : Carries(w, s)
    \/ \E n \in {At[w] : w \in Sweepers} \cap up :
        \/ s \in closes[n]
        \/ \E change \in changes[n] : Pair(s) \in change
        \/ Pair(s) \in lapsed \ swept[n]

\* A revocation cannot be lost: a session that was open when its access was taken is
\* ended, or on the list of a task, of a queue or of the next sweep, whatever failed and
\* however the tasks interleave (close_sessions_no_longer_authorised, push_closes).
NothingLost == \A s \in owed : Pending(s)

\* The sessions that are still to be ended or cut: no session stays among them, although
\* statements fail and wherever it is (close_admitted_sessions, retry_pending_closes).
Cutting == owed \cup {s \in Sessions : conn[s] = "live" /\ parent[s] = "ended" /\ Card[s] # NoTicket}

\* An open session of an expired ticket; it does not stay one, although nodes die: every
\* node sweeps them (close_sessions_of_expired_tickets).
Overdue(s, k) == ticket[k] = "past" /\ Open(s) /\ by[s][Goal[s]] = k

\* No connection is live by a right that is gone and that nobody is about to act on.
NoLateAdmission ==
    \A s \in Sessions :
        conn[s] = "live" /\ Card[s] = NoTicket /\ Pair(s) \notin access /\ parent[s] = "open" => Pending(s)
=============================================================================
