-------------------------- MODULE SessionsProofs --------------------------
(***************************************************************************)
(* The transactions of Sessions implement SessionLedger, for any number of *)
(* sessions, targets, tickets, nodes and workers.  The argument is the     *)
(* inductive invariant Inv: which locks a task holds at each of its        *)
(* statements, what the tables say while it holds them, and why a discard, *)
(* which takes no lock, meets no opener.                                   *)
(***************************************************************************)
EXTENDS Sessions, TLAPS

Opening == {"open", "openTicket", "openInsert"}
Resumed == {"idle", "reapCookies", "reapChildren", "leaveChildren"}

\* The fields that the next statement of a task reads.
FieldsOK(x) ==
    /\ x.op \in Opening => x.s \in Sessions /\ x.t \in Targets
    /\ x.op \in {"endLocked", "discard", "discardParent"} => x.s \in Sessions
    /\ x.op \in {"openTicket", "delete", "deleteCollect", "deleteCommit"} => x.k \in Tickets
    /\ x.then \in Resumed

\* The locks w holds, and what cannot change while it does.
LockOK(w, x, lock, par, tick) ==
    /\ x.op \in {"openTicket", "openInsert", "endLocked"} => lock[x.s] = w /\ par[x.s] = "open"
    /\ x.op = "openInsert" /\ x.k # NoTicket => lock[x.k] = w /\ tick[x.k] # "deleted"
    /\ x.op \in {"deleteCollect", "deleteCommit"} => tick[x.k] = "deleted" \/ lock[x.k] = w

\* An opener of a node-bound session keeps its handle alive; a discard comes after the
\* handle is gone, so that no opener is left.
HandleOK(w, x, hand, par, chi) ==
    /\ x.op \in Opening /\ Owner[x.s] # NoNode => At[w] = Owner[x.s] /\ hand[x.s] # "none"
    /\ x.op \in {"discard", "discardParent"} =>
           Owner[x.s] # NoNode /\ hand[x.s] = "none" /\ par[x.s] # "unborn"
    /\ x.op = "discardParent" => \A t \in Targets : chi[x.s][t] = "none"

TasksOK ==
    \A w \in Workers :
        /\ FieldsOK(task[w])
        /\ LockOK(w, task[w], locked, parent, ticket)
        /\ HandleOK(w, task[w], handle, parent, child)

\* What the tables say at any time.
RowsOK ==
    \A s \in Sessions :
        /\ handle[s] # "none" => parent[s] # "unborn"
        /\ \A t \in Targets :
            /\ child[s][t] = "open" => parent[s] = "open"
            /\ child[s][t] = "ended" => parent[s] \in {"ended", "deleted"}
            /\ child[s][t] = "none" => by[s][t] = NoTicket
            /\ by[s][t] # NoTicket => ticket[by[s][t]] # "deleted"

Inv == TypeOK /\ TasksOK /\ RowsOK /\ NobodyOverlooked

-----------------------------------------------------------------------------
(* Tasks and locks.                                                        *)

\* What a worker becomes, and that the others stay.
LEMMA GotoIs ==
    ASSUME task \in [Workers -> Tasks], NEW w \in Workers, NEW r \in Tasks,
           task' = [task EXCEPT ![w] = r]
    PROVE  /\ task' \in [Workers -> Tasks]
           /\ task'[w] = r
           /\ \A v \in Workers : v # w => task'[v] = task[v]
  OBVIOUS

LEMMA IdleIsTask == Idle \in Tasks
  BY DEF Idle, Tasks, Ops

\* An idle task needs nothing.
LEMMA IdleOK ==
    ASSUME NEW w, NEW r, r.op \notin Opening \cup {"endLocked", "discard", "discardParent",
               "delete", "deleteCollect", "deleteCommit"}, r.then \in Resumed
    PROVE  /\ FieldsOK(r)
           /\ \A lock, par, tick : LockOK(w, r, lock, par, tick)
           /\ \A hand, par, chi : HandleOK(w, r, hand, par, chi)
  BY DEF FieldsOK, LockOK, HandleOK, Opening

\* A release frees only the locks of the worker itself.
LEMMA ReleasesOwn ==
    ASSUME TypeOK, NEW w \in Workers, Releases(w)
    PROVE  /\ locked' \in [Rows -> Workers \cup {Nobody}]
           /\ \A x \in Rows : locked[x] # w => locked'[x] = locked[x]
  BY DEF TypeOK, Releases, Unlocked

\* A lock is taken only from nobody, or from oneself.
LEMMA TakesFree ==
    ASSUME TypeOK, NEW w \in Workers, NEW x \in Rows, Takes(w, x)
    PROVE  /\ locked' \in [Rows -> Workers \cup {Nobody}]
           /\ locked'[x] = w /\ locked[x] \in {Nobody, w}
           /\ \A y \in Rows : y # x => locked'[y] = locked[y]
  BY DEF TypeOK, Takes

-----------------------------------------------------------------------------
(* Steps that change only what a task does.                                *)

LEMMA TaskStep ==
    ASSUME ConstantsOK, Inv, NEW w \in Workers, NEW r \in Tasks,
           task' = [task EXCEPT ![w] = r],
           UNCHANGED <<tables, locked, handle>>,
           cookie' \in [Sessions -> {"none", "unsaved", "saved"}],
           node' \in [Nodes -> {"gone", "fresh", "late"}],
           up' \in [Nodes -> {"new", "up", "down"}],
           losses' \in 0..Losses,
           FieldsOK(r), LockOK(w, r, locked, parent, ticket), HandleOK(w, r, handle, parent, child),
           r.op = "deleteCommit" => Admitted(r.k) \subseteq r.todo
    PROVE  Inv'
<1> USE DEF tables
<1>1. /\ task' \in [Workers -> Tasks] /\ task'[w] = r
      /\ \A v \in Workers : v # w => task'[v] = task[v]
  BY GotoIs DEF Inv, TypeOK
<1>2. TypeOK'
  BY <1>1 DEF Inv, TypeOK, Ledger!LedgerTypeOK, Ledger!UserRows, Ledger!TargetRows, Ledger!TicketRows
<1>3. RowsOK'
  BY DEF Inv, RowsOK
<1>4. TasksOK'
  <2> SUFFICES ASSUME NEW v \in Workers
               PROVE  /\ FieldsOK(task'[v])
                      /\ LockOK(v, task'[v], locked, parent, ticket)
                      /\ HandleOK(v, task'[v], handle, parent, child)
    BY DEF TasksOK
  <2> QED
    BY <1>1 DEF Inv, TasksOK
<1>5. NobodyOverlooked'
  BY <1>1 DEF Inv, NobodyOverlooked, Admitted
<1> QED
  BY <1>2, <1>3, <1>4, <1>5 DEF Inv

\* A task that ends sessions holds no lock and needs no field but its list.
LEMMA EndingIs ==
    ASSUME NEW S \in SUBSET Sessions, NEW then \in Resumed,
           NEW r, r = [Idle EXCEPT !.op = "ending", !.todo = S, !.then = then]
    PROVE  r \in Tasks /\ r.op = "ending" /\ r.then \in Resumed
  BY DEF Idle, Tasks, Ops, Resumed

LEMMA EndsStep ==
    ASSUME ConstantsOK, Inv, NEW w \in Workers, NEW S \in SUBSET Sessions, NEW then \in Resumed,
           Ends(w, S, then), UNCHANGED <<tables, locked, handle, cookie, node, up, losses>>
    PROVE  Inv'
<1> DEFINE r == [Idle EXCEPT !.op = "ending", !.todo = S, !.then = then]
<1>1. r \in Tasks /\ r.op = "ending" /\ r.then \in Resumed
  BY EndingIs
<1>2. task' = [task EXCEPT ![w] = r]
  BY DEF Ends, Goto
<1> HIDE DEF r
<1>3. /\ FieldsOK(r) /\ LockOK(w, r, locked, parent, ticket)
      /\ HandleOK(w, r, handle, parent, child)
  BY <1>1, IdleOK DEF Opening
<1>4. /\ cookie' \in [Sessions -> {"none", "unsaved", "saved"}]
      /\ node' \in [Nodes -> {"gone", "fresh", "late"}]
      /\ up' \in [Nodes -> {"new", "up", "down"}]
      /\ losses' \in 0..Losses
  BY DEF Inv, TypeOK
<1> QED
  BY <1>1, <1>2, <1>3, <1>4, TaskStep

\* A worker that goes on to a statement that needs nothing.
LEMMA RestStep ==
    ASSUME ConstantsOK, Inv, NEW w \in Workers, NEW r \in Tasks, Goto(w, r),
           r.op \notin Opening \cup {"endLocked", "discard", "discardParent",
               "delete", "deleteCollect", "deleteCommit"}, r.then \in Resumed,
           UNCHANGED <<tables, locked, handle, cookie, up, losses>>,
           node' \in [Nodes -> {"gone", "fresh", "late"}]
    PROVE  Inv'
<1>1. /\ FieldsOK(r) /\ LockOK(w, r, locked, parent, ticket)
      /\ HandleOK(w, r, handle, parent, child)
  BY IdleOK
<1>2. /\ cookie' \in [Sessions -> {"none", "unsaved", "saved"}]
      /\ up' \in [Nodes -> {"new", "up", "down"}]
      /\ losses' \in 0..Losses
  BY DEF Inv, TypeOK
<1> QED
  BY <1>1, <1>2, TaskStep DEF Goto

LEMMA KeepsClose ==
    ASSUME ConstantsOK, Inv, NEW w \in Workers, NEW S \in SUBSET Sessions, Close(w, S)
    PROVE  Inv'
<1>1. OpenMatching(S) \in SUBSET Sessions /\ "idle" \in Resumed
  BY DEF OpenMatching, Resumed
<1> QED
  BY <1>1, EndsStep DEF Close

LEMMA KeepsSweepExpired ==
    ASSUME ConstantsOK, Inv, NEW w \in Workers, SweepExpired(w)
    PROVE  Inv'
<1> DEFINE S == UNION {Admitted(k) : k \in {j \in Tickets : ticket[j] = "past"}}
<1>1. OpenMatching(S) \in SUBSET Sessions /\ "idle" \in Resumed
  BY DEF OpenMatching, Admitted, Resumed
<1>2. Ends(w, OpenMatching(S), "idle") /\ UNCHANGED <<tables, locked, handle, cookie, node, up, losses>>
  BY DEF SweepExpired
<1> HIDE DEF S
<1> QED
  BY <1>1, <1>2, EndsStep

LEMMA KeepsReapOwned ==
    ASSUME ConstantsOK, Inv, NEW w \in Workers, ReapOwned(w)
    PROVE  Inv'
<1> DEFINE S == IF Bails(task[w].live) THEN {} ELSE OpenMatching(BoundElsewhere(task[w].live))
<1>1. S \in SUBSET Sessions /\ "reapCookies" \in Resumed
  BY DEF OpenMatching, BoundElsewhere, Resumed
<1>2. Ends(w, S, "reapCookies") /\ UNCHANGED <<tables, locked, handle, cookie, node, up, losses>>
  BY DEF ReapOwned
<1> HIDE DEF S
<1> QED
  BY <1>1, <1>2, EndsStep

LEMMA KeepsReapCookies ==
    ASSUME ConstantsOK, Inv, NEW w \in Workers, ReapCookies(w)
    PROVE  Inv'
<1> DEFINE S == OpenMatching({s \in Sessions : Owner[s] = NoNode /\ cookie[s] = "none"})
<1>1. S \in SUBSET Sessions /\ "reapChildren" \in Resumed
  BY DEF OpenMatching, Resumed
<1>2. Ends(w, S, "reapChildren") /\ UNCHANGED <<tables, locked, handle, cookie, node, up, losses>>
  BY DEF ReapCookies
<1> HIDE DEF S
<1> QED
  BY <1>1, <1>2, EndsStep

LEMMA KeepsShutdown ==
    ASSUME ConstantsOK, Inv, NEW w \in Workers, Shutdown(w)
    PROVE  Inv'
<1> DEFINE S == OpenMatching({s \in Sessions : Owner[s] = At[w]})
<1>1. S \in SUBSET Sessions /\ "leaveChildren" \in Resumed
  BY DEF OpenMatching, Resumed
<1>2. Ends(w, S, "leaveChildren") /\ UNCHANGED <<tables, locked, handle, cookie, node, up, losses>>
  BY DEF Shutdown
<1> HIDE DEF S
<1> QED
  BY <1>1, <1>2, EndsStep

LEMMA KeepsEndDone ==
    ASSUME ConstantsOK, Inv, NEW w \in Workers, EndDone(w)
    PROVE  Inv'
<1> DEFINE r == [Idle EXCEPT !.op = task[w].then]
<1>1. task[w].then \in Resumed
  BY DEF Inv, TasksOK, FieldsOK
<1>2. r \in Tasks /\ r.op \in Resumed /\ r.then = "idle"
  BY <1>1 DEF Idle, Tasks, Ops, Resumed
<1>3. Goto(w, r) /\ UNCHANGED <<tables, locked, handle, cookie, node, up, losses>>
  BY DEF EndDone
<1>4. node' \in [Nodes -> {"gone", "fresh", "late"}]
  BY <1>3 DEF Inv, TypeOK
<1> HIDE DEF r
<1>5. r.op \notin Opening \cup {"endLocked", "discard", "discardParent",
               "delete", "deleteCollect", "deleteCommit"} /\ r.then \in Resumed
  BY <1>2 DEF Opening, Resumed
<1> QED
  BY <1>2, <1>3, <1>4, <1>5, RestStep

LEMMA KeepsReap ==
    ASSUME ConstantsOK, Inv, NEW w \in Workers, Reap(w)
    PROVE  Inv'
<1> DEFINE r == [Idle EXCEPT !.op = "reapLive"]
<1>1. r \in Tasks /\ r.op = "reapLive" /\ r.then = "idle"
  BY DEF Idle, Tasks, Ops
<1>2. Goto(w, r) /\ UNCHANGED <<tables, locked, handle, cookie, up, losses>>
  BY DEF Reap
<1>3. node' \in [Nodes -> {"gone", "fresh", "late"}]
  BY DEF Reap, Inv, TypeOK
<1> HIDE DEF r
<1> QED
  BY <1>1, <1>2, <1>3, RestStep DEF Opening, Resumed

LEMMA KeepsReapReadsLive ==
    ASSUME ConstantsOK, Inv, NEW w \in Workers, ReapReadsLive(w)
    PROVE  Inv'
<1> DEFINE r == [task[w] EXCEPT !.op = "reapOwned", !.live = {n \in Nodes : node[n] # "gone"}]
<1>1. task[w] \in Tasks /\ task[w].then \in Resumed
  BY DEF Inv, TypeOK, TasksOK, FieldsOK
<1>2. r \in Tasks /\ r.op = "reapOwned" /\ r.then \in Resumed
  BY <1>1 DEF Tasks, Ops
<1>3. Goto(w, r) /\ UNCHANGED <<tables, locked, handle, cookie, node, up, losses>>
  BY DEF ReapReadsLive
<1>4. node' \in [Nodes -> {"gone", "fresh", "late"}]
  BY <1>3 DEF Inv, TypeOK
<1> HIDE DEF r
<1> QED
  BY <1>2, <1>3, <1>4, RestStep DEF Opening

LEMMA KeepsBeginOpen ==
    ASSUME ConstantsOK, Inv, NEW w \in Workers, NEW s \in Sessions, NEW t \in Targets,
           NEW k \in Tickets \cup {NoTicket}, BeginOpen(w, s, t, k)
    PROVE  Inv'
<1> DEFINE r == [Idle EXCEPT !.op = "open", !.s = s, !.t = t, !.k = k]
<1>1. r \in Tasks /\ r.op = "open" /\ r.s = s /\ r.t = t /\ r.then = "idle"
  BY DEF Idle, Tasks, Ops
<1>2. task' = [task EXCEPT ![w] = r] /\ UNCHANGED <<tables, locked, handle, cookie, node, up, losses>>
  BY DEF BeginOpen, Goto
<1> HIDE DEF r
<1>3. FieldsOK(r) /\ LockOK(w, r, locked, parent, ticket) /\ HandleOK(w, r, handle, parent, child)
  BY <1>1 DEF FieldsOK, LockOK, HandleOK, Opening, Resumed, BeginOpen, Serves
<1>4. /\ cookie' \in [Sessions -> {"none", "unsaved", "saved"}]
      /\ node' \in [Nodes -> {"gone", "fresh", "late"}]
      /\ up' \in [Nodes -> {"new", "up", "down"}]
      /\ losses' \in 0..Losses
  BY <1>2 DEF Inv, TypeOK
<1> QED
  BY <1>1, <1>2, <1>3, <1>4, TaskStep

LEMMA KeepsBeginDelete ==
    ASSUME ConstantsOK, Inv, NEW w \in Workers, NEW k \in Tickets, BeginDelete(w, k)
    PROVE  Inv'
<1> DEFINE r == [Idle EXCEPT !.op = "delete", !.k = k]
<1>1. r \in Tasks /\ r.op = "delete" /\ r.k = k /\ r.then = "idle"
  BY DEF Idle, Tasks, Ops
<1>2. task' = [task EXCEPT ![w] = r] /\ UNCHANGED <<tables, locked, handle, cookie, node, up, losses>>
  BY DEF BeginDelete, Goto
<1> HIDE DEF r
<1>3. FieldsOK(r) /\ LockOK(w, r, locked, parent, ticket) /\ HandleOK(w, r, handle, parent, child)
  BY <1>1 DEF FieldsOK, LockOK, HandleOK, Opening, Resumed
<1>4. /\ cookie' \in [Sessions -> {"none", "unsaved", "saved"}]
      /\ node' \in [Nodes -> {"gone", "fresh", "late"}]
      /\ up' \in [Nodes -> {"new", "up", "down"}]
      /\ losses' \in 0..Losses
  BY <1>2 DEF Inv, TypeOK
<1> QED
  BY <1>1, <1>2, <1>3, <1>4, TaskStep

\* The sessions that the ticket has admitted are collected under its lock.
LEMMA KeepsDeleteCollects ==
    ASSUME ConstantsOK, Inv, NEW w \in Workers, DeleteCollects(w)
    PROVE  Inv'
<1> DEFINE r == [task[w] EXCEPT !.op = "deleteCommit", !.todo = Admitted(task[w].k)]
<1>1. task[w] \in Tasks /\ task[w].op = "deleteCollect" /\ FieldsOK(task[w])
      /\ LockOK(w, task[w], locked, parent, ticket) /\ Admitted(task[w].k) \in SUBSET Sessions
  BY DEF Inv, TypeOK, TasksOK, DeleteCollects, Is, Admitted
<1>2. /\ r \in Tasks /\ r.op = "deleteCommit" /\ r.k = task[w].k /\ r.then = task[w].then
      /\ r.todo = Admitted(r.k)
  BY <1>1 DEF Tasks, Ops
<1>3. task' = [task EXCEPT ![w] = r] /\ UNCHANGED <<tables, locked, handle, cookie, node, up, losses>>
  BY DEF DeleteCollects, Goto
<1> HIDE DEF r
<1>4. FieldsOK(r) /\ LockOK(w, r, locked, parent, ticket) /\ HandleOK(w, r, handle, parent, child)
  BY <1>1, <1>2 DEF FieldsOK, LockOK, HandleOK, Opening
<1>5. /\ cookie' \in [Sessions -> {"none", "unsaved", "saved"}]
      /\ node' \in [Nodes -> {"gone", "fresh", "late"}]
      /\ up' \in [Nodes -> {"new", "up", "down"}]
      /\ losses' \in 0..Losses
  BY <1>3 DEF Inv, TypeOK
<1>6. r.op = "deleteCommit" => Admitted(r.k) \subseteq r.todo
  BY <1>2
<1> QED
  BY <1>2, <1>3, <1>4, <1>5, <1>6, TaskStep

-----------------------------------------------------------------------------
(* Steps that take or release locks.                                       *)

\* Whoever keeps its locks keeps what they protect.
LEMMA LockKept ==
    ASSUME NEW v \in Workers, NEW x \in Tasks, NEW lock, FieldsOK(x),
           LockOK(v, x, locked, parent, ticket), \A y \in Rows : locked[y] = v => lock[y] = v
    PROVE  LockOK(v, x, lock, parent, ticket)
  BY DEF LockOK, FieldsOK, Opening, Tasks, Rows

LEMMA LockStep ==
    ASSUME ConstantsOK, Inv, NEW w \in Workers, NEW r \in Tasks, Goto(w, r),
           locked' \in [Rows -> Workers \cup {Nobody}],
           \A v \in Workers, y \in Rows : v # w /\ locked[y] = v => locked'[y] = v,
           UNCHANGED <<tables, handle, cookie, node, up>>, losses' \in 0..Losses,
           FieldsOK(r), LockOK(w, r, locked', parent, ticket), HandleOK(w, r, handle, parent, child),
           r.op # "deleteCommit"
    PROVE  Inv'
<1> USE DEF tables
<1>1. /\ task' \in [Workers -> Tasks] /\ task'[w] = r
      /\ \A v \in Workers : v # w => task'[v] = task[v]
  BY GotoIs DEF Inv, TypeOK, Goto
<1>2. TypeOK'
  BY <1>1 DEF Inv, TypeOK, Ledger!LedgerTypeOK, Ledger!UserRows, Ledger!TargetRows, Ledger!TicketRows
<1>3. RowsOK'
  BY DEF Inv, RowsOK
<1>4. TasksOK'
  <2> SUFFICES ASSUME NEW v \in Workers
               PROVE  /\ FieldsOK(task'[v])
                      /\ LockOK(v, task'[v], locked', parent, ticket)
                      /\ HandleOK(v, task'[v], handle, parent, child)
    BY DEF TasksOK
  <2>1. CASE v = w
    BY <1>1, <2>1
  <2>2. CASE v # w
    <3>1. /\ task[v] \in Tasks /\ FieldsOK(task[v]) /\ LockOK(v, task[v], locked, parent, ticket)
          /\ HandleOK(v, task[v], handle, parent, child)
      BY DEF Inv, TypeOK, TasksOK
    <3>2. LockOK(v, task[v], locked', parent, ticket)
      BY <2>2, <3>1, LockKept
    <3> QED
      BY <1>1, <2>2, <3>1, <3>2
  <2> QED
    BY <2>1, <2>2
<1>5. NobodyOverlooked'
  BY <1>1 DEF Inv, NobodyOverlooked, Admitted
<1> QED
  BY <1>2, <1>3, <1>4, <1>5 DEF Inv

\* A free row is locked, and the task goes on.
LEMMA TakeStep ==
    ASSUME ConstantsOK, Inv, NEW w \in Workers, NEW r \in Tasks, NEW x \in Rows,
           Goto(w, r), locked[x] = Nobody, Takes(w, x),
           UNCHANGED <<tables, handle, cookie, node, up, losses>>,
           FieldsOK(r), LockOK(w, r, locked', parent, ticket), HandleOK(w, r, handle, parent, child),
           r.op # "deleteCommit"
    PROVE  Inv'
<1>1. /\ locked' \in [Rows -> Workers \cup {Nobody}]
      /\ \A y \in Rows : y # x => locked'[y] = locked[y]
  BY TakesFree DEF Inv
<1>2. \A v \in Workers, y \in Rows : v # w /\ locked[y] = v => locked'[y] = v
  BY <1>1 DEF ConstantsOK
<1>3. losses' \in 0..Losses
  BY DEF Inv, TypeOK
<1> QED
  BY <1>1, <1>2, <1>3, LockStep

\* A transaction that rolls back releases its locks and changes no table.
LEMMA RollbackStep ==
    ASSUME ConstantsOK, Inv, NEW w \in Workers, Goto(w, Idle), Releases(w),
           UNCHANGED <<tables, handle, cookie, node, up>>, losses' \in 0..Losses
    PROVE  Inv'
<1>1. /\ locked' \in [Rows -> Workers \cup {Nobody}]
      /\ \A v \in Workers, y \in Rows : v # w /\ locked[y] = v => locked'[y] = v
  BY ReleasesOwn DEF Inv
<1>2. Idle.op = "idle" /\ Idle.then = "idle"
  BY DEF Idle
<1>3. FieldsOK(Idle) /\ LockOK(w, Idle, locked', parent, ticket) /\ HandleOK(w, Idle, handle, parent, child)
  BY <1>2, IdleOK DEF Opening, Resumed
<1> QED
  BY <1>1, <1>2, <1>3, IdleIsTask, LockStep

LEMMA KeepsFails ==
    ASSUME ConstantsOK, Inv, NEW w \in Workers, Fails(w)
    PROVE  Inv'
<1>1. losses' \in 0..Losses
  BY DEF Fails, Inv, TypeOK, ConstantsOK
<1> QED
  BY <1>1, RollbackStep DEF Fails

LEMMA KeepsOpenLocksParent ==
    ASSUME ConstantsOK, Inv, NEW w \in Workers, OpenLocksParent(w)
    PROVE  Inv'
<1> DEFINE s == task[w].s
           op == IF task[w].k = NoTicket THEN "openInsert" ELSE "openTicket"
           r == [task[w] EXCEPT !.op = op]
<1>1. /\ task[w] \in Tasks /\ task[w].op = "open" /\ FieldsOK(task[w])
      /\ HandleOK(w, task[w], handle, parent, child)
  BY DEF Inv, TypeOK, TasksOK, OpenLocksParent, Is
<1>2. s \in Sessions /\ s \in Rows /\ task[w].t \in Targets /\ task[w].k \in Tickets \cup {NoTicket}
  BY <1>1 DEF FieldsOK, Opening, Rows, Tasks
<1>3. CASE parent[s] # "open" /\ Goto(w, Idle) /\ UNCHANGED locked
  <2>1. Idle.op = "idle" /\ Idle.then = "idle"
    BY DEF Idle
  <2>2. UNCHANGED <<tables, locked, handle, cookie, up, losses>> /\ node' \in [Nodes -> {"gone", "fresh", "late"}]
    BY <1>3 DEF OpenLocksParent, Inv, TypeOK
  <2> QED
    BY <1>3, <2>1, <2>2, RestStep, IdleIsTask DEF Opening, Resumed
<1>4. CASE parent[s] = "open" /\ Takes(w, s) /\ Goto(w, r)
  <2>1. /\ r \in Tasks /\ r.op = op /\ r.s = s /\ r.t = task[w].t /\ r.k = task[w].k
        /\ r.then = task[w].then
    BY <1>1 DEF Tasks, Ops
  <2>2. op \in {"openInsert", "openTicket"} /\ (op = "openInsert" <=> r.k = NoTicket)
    BY <1>2, <2>1
  <2>3. locked[s] = Nobody /\ UNCHANGED <<tables, handle, cookie, node, up, losses>>
    BY DEF OpenLocksParent
  <2>4. locked'[s] = w
    BY <1>2, <1>4, TakesFree DEF Inv
  <2> HIDE DEF r, op
  <2>5. FieldsOK(r)
    BY <1>1, <1>2, <2>1, <2>2 DEF FieldsOK, Opening
  <2>6. LockOK(w, r, locked', parent, ticket)
    BY <1>4, <2>1, <2>2, <2>4 DEF LockOK
  <2>7. HandleOK(w, r, handle, parent, child)
    BY <1>1, <2>1, <2>2 DEF HandleOK, Opening
  <2>8. r.op # "deleteCommit"
    BY <2>1, <2>2
  <2> QED
    BY <1>2, <1>4, <2>1, <2>3, <2>5, <2>6, <2>7, <2>8, TakeStep
<1> QED
  BY <1>3, <1>4 DEF OpenLocksParent

LEMMA KeepsOpenLocksTicket ==
    ASSUME ConstantsOK, Inv, NEW w \in Workers, OpenLocksTicket(w)
    PROVE  Inv'
<1> DEFINE s == task[w].s
           k == task[w].k
           r == [task[w] EXCEPT !.op = "openInsert"]
<1>1. /\ task[w] \in Tasks /\ task[w].op = "openTicket" /\ FieldsOK(task[w])
      /\ LockOK(w, task[w], locked, parent, ticket) /\ HandleOK(w, task[w], handle, parent, child)
  BY DEF Inv, TypeOK, TasksOK, OpenLocksTicket, Is
<1>2. s \in Sessions /\ s \in Rows /\ task[w].t \in Targets /\ k \in Tickets /\ k \in Rows
  BY <1>1 DEF FieldsOK, Opening, Rows
<1>3. CASE Goto(w, Idle) /\ Releases(w)
  <2>1. losses' \in 0..Losses /\ UNCHANGED <<tables, handle, cookie, node, up>>
    BY DEF OpenLocksTicket, Inv, TypeOK
  <2> QED
    BY <1>3, <2>1, RollbackStep
<1>4. CASE TicketValid(k) /\ Takes(w, k) /\ Goto(w, r)
  <2>1. /\ r \in Tasks /\ r.op = "openInsert" /\ r.s = s /\ r.t = task[w].t /\ r.k = k
        /\ r.then = task[w].then
    BY <1>1 DEF Tasks, Ops
  <2>2. locked[k] = Nobody /\ UNCHANGED <<tables, handle, cookie, node, up, losses>>
    BY DEF OpenLocksTicket
  <2>3. locked[s] = w /\ parent[s] = "open"
    BY <1>1 DEF LockOK
  <2>4. locked'[k] = w /\ locked'[s] = w
    BY <1>2, <1>4, <2>3, TakesFree DEF Inv
  <2> HIDE DEF r
  <2>5. FieldsOK(r)
    BY <1>1, <1>2, <2>1 DEF FieldsOK, Opening
  <2>6. LockOK(w, r, locked', parent, ticket)
    BY <1>4, <2>1, <2>3, <2>4 DEF LockOK, TicketValid
  <2>7. HandleOK(w, r, handle, parent, child)
    BY <1>1, <2>1 DEF HandleOK, Opening
  <2> QED
    BY <1>2, <1>4, <2>1, <2>2, <2>5, <2>6, <2>7, TakeStep
<1> QED
  BY <1>3, <1>4 DEF OpenLocksTicket

LEMMA KeepsEndLocks ==
    ASSUME ConstantsOK, Inv, NEW w \in Workers, EndLocks(w)
    PROVE  Inv'
<1>1. task[w] \in Tasks /\ task[w].op = "ending" /\ FieldsOK(task[w])
  BY DEF Inv, TypeOK, TasksOK, EndLocks, Is
<1>2. UNCHANGED <<tables, handle, cookie, node, up, losses>>
  BY DEF EndLocks
<1>3. PICK s \in task[w].todo :
        /\ locked[s] = Nobody
        /\ \/ Goto(w, [task[w] EXCEPT !.todo = @ \ {s}]) /\ UNCHANGED locked
           \/ /\ ~Ended(s) /\ Takes(w, s)
              /\ Goto(w, [task[w] EXCEPT !.op = "endLocked", !.s = s])
  BY DEF EndLocks
<1>4. s \in Sessions /\ s \in Rows
  BY <1>1 DEF Tasks, Rows
<1>5. CASE Goto(w, [task[w] EXCEPT !.todo = @ \ {s}]) /\ UNCHANGED locked
  <2> DEFINE r == [task[w] EXCEPT !.todo = @ \ {s}]
  <2>1. r \in Tasks /\ r.op = "ending" /\ r.then \in Resumed
    BY <1>1 DEF Tasks, Ops, FieldsOK
  <2>2. node' \in [Nodes -> {"gone", "fresh", "late"}]
    BY <1>2 DEF Inv, TypeOK
  <2>3. Goto(w, r)
    BY <1>5
  <2> HIDE DEF r
  <2> QED
    BY <1>2, <1>5, <2>1, <2>2, <2>3, RestStep DEF Opening
<1>6. CASE ~Ended(s) /\ Takes(w, s) /\ Goto(w, [task[w] EXCEPT !.op = "endLocked", !.s = s])
  <2> DEFINE r == [task[w] EXCEPT !.op = "endLocked", !.s = s]
  <2>1. r \in Tasks /\ r.op = "endLocked" /\ r.s = s /\ r.then \in Resumed
    BY <1>1, <1>4 DEF Tasks, Ops, FieldsOK
  <2>2. Goto(w, r) /\ parent[s] = "open"
    BY <1>6 DEF Ended
  <2>3. locked'[s] = w
    BY <1>4, <1>6, TakesFree DEF Inv
  <2> HIDE DEF r
  <2>4. FieldsOK(r) /\ LockOK(w, r, locked', parent, ticket) /\ HandleOK(w, r, handle, parent, child)
    BY <1>4, <2>1, <2>2, <2>3 DEF FieldsOK, LockOK, HandleOK, Opening
  <2> QED
    BY <1>2, <1>3, <1>4, <1>6, <2>1, <2>2, <2>4, TakeStep
<1> QED
  BY <1>3, <1>5, <1>6

LEMMA KeepsDeleteLocks ==
    ASSUME ConstantsOK, Inv, NEW w \in Workers, DeleteLocks(w)
    PROVE  Inv'
<1> DEFINE k == task[w].k
           r == [task[w] EXCEPT !.op = "deleteCollect"]
<1>1. task[w] \in Tasks /\ task[w].op = "delete" /\ FieldsOK(task[w])
  BY DEF Inv, TypeOK, TasksOK, DeleteLocks, Is
<1>2. k \in Tickets /\ k \in Rows
  BY <1>1 DEF FieldsOK, Rows
<1>3. r \in Tasks /\ r.op = "deleteCollect" /\ r.k = k /\ r.then \in Resumed
  BY <1>1 DEF Tasks, Ops, FieldsOK
<1>4. /\ locked[k] = Nobody /\ Goto(w, r)
      /\ UNCHANGED <<tables, handle, cookie, node, up, losses>>
      /\ \/ ticket[k] = "deleted" /\ UNCHANGED locked
         \/ Takes(w, k)
  BY DEF DeleteLocks
<1>5. losses' \in 0..Losses
  BY <1>4 DEF Inv, TypeOK
<1> HIDE DEF r
<1>6. FieldsOK(r) /\ HandleOK(w, r, handle, parent, child)
  BY <1>2, <1>3 DEF FieldsOK, HandleOK, Opening
<1>7. CASE ticket[k] = "deleted" /\ UNCHANGED locked
  <2>1. LockOK(w, r, locked', parent, ticket)
    BY <1>3, <1>7 DEF LockOK
  <2>2. locked' \in [Rows -> Workers \cup {Nobody}]
    BY <1>7 DEF Inv, TypeOK
  <2>3. \A v \in Workers, y \in Rows : v # w /\ locked[y] = v => locked'[y] = v
    BY <1>7
  <2> QED
    BY <1>3, <1>4, <1>5, <1>6, <2>1, <2>2, <2>3, LockStep
<1>8. CASE Takes(w, k)
  <2>1. locked'[k] = w
    BY <1>2, <1>8, TakesFree DEF Inv
  <2>2. LockOK(w, r, locked', parent, ticket)
    BY <1>3, <2>1 DEF LockOK
  <2> QED
    BY <1>2, <1>3, <1>4, <1>6, <1>8, <2>2, TakeStep
<1> QED
  BY <1>4, <1>7, <1>8

-----------------------------------------------------------------------------
(* Steps that change the tables.                                           *)

\* The invariant after a step, from what it says of the tables, of the task that acted
\* and of the others.
LEMMA InvAfter ==
    ASSUME ConstantsOK, Inv, TypeOK', RowsOK', NEW w \in Workers, NEW r \in Tasks, Goto(w, r),
           FieldsOK(r), LockOK(w, r, locked', parent', ticket'), HandleOK(w, r, handle', parent', child'),
           \A v \in Workers : v # w =>
               /\ LockOK(v, task[v], locked', parent', ticket')
               /\ HandleOK(v, task[v], handle', parent', child'),
           NobodyOverlooked'
    PROVE  Inv'
<1>1. /\ task'[w] = r
      /\ \A v \in Workers : v # w => task'[v] = task[v]
  BY GotoIs DEF Inv, TypeOK, Goto
<1>2. TasksOK'
  <2> SUFFICES ASSUME NEW v \in Workers
               PROVE  /\ FieldsOK(task'[v])
                      /\ LockOK(v, task'[v], locked', parent', ticket')
                      /\ HandleOK(v, task'[v], handle', parent', child')
    BY DEF TasksOK
  <2>1. FieldsOK(task[v])
    BY DEF Inv, TasksOK
  <2> QED
    BY <1>1, <2>1
<1> QED
  BY <1>2 DEF Inv

\* A step that leaves every task as it is.
LEMMA QuietAfter ==
    ASSUME Inv, TypeOK', RowsOK', UNCHANGED task,
           \A v \in Workers :
               /\ LockOK(v, task[v], locked', parent', ticket')
               /\ HandleOK(v, task[v], handle', parent', child'),
           NobodyOverlooked'
    PROVE  Inv'
  BY DEF Inv, TasksOK

\* What the type of the tables says, without the ledger's names.
LEMMA TableTypes ==
    ASSUME TypeOK
    PROVE
        /\ parent \in [Sessions -> {"unborn", "open", "ended", "deleted"}]
        /\ child \in [Sessions -> [Targets -> {"none", "open", "ended"}]]
        /\ by \in [Sessions -> [Targets -> Tickets \cup {NoTicket}]]
        /\ ticket \in [Tickets -> {"valid", "due", "past", "deleted"}]
        /\ locked \in [Rows -> Workers \cup {Nobody}]
        /\ task \in [Workers -> Tasks]
        /\ handle \in [Sessions -> {"none", "live", "provisional"}]
        /\ cookie \in [Sessions -> {"none", "unsaved", "saved"}]
        /\ node \in [Nodes -> {"gone", "fresh", "late"}]
        /\ up \in [Nodes -> {"new", "up", "down"}]
        /\ losses \in 0..Losses
  BY DEF TypeOK, Ledger!LedgerTypeOK, Ledger!UserRows, Ledger!TargetRows, Ledger!TicketRows

\* What a task of the invariant is.
LEMMA TaskFacts ==
    ASSUME Inv, NEW v \in Workers
    PROVE  /\ task[v] \in Tasks
           /\ FieldsOK(task[v])
           /\ LockOK(v, task[v], locked, parent, ticket)
           /\ HandleOK(v, task[v], handle, parent, child)
  BY DEF Inv, TypeOK, TasksOK

LEMMA KeepsRegister ==
    ASSUME ConstantsOK, Inv, NEW w \in Workers, NEW s \in Sessions, Register(w, s)
    PROVE  Inv'
<1>1. TypeOK
  BY DEF Inv
<1>2. PICK h \in IF Owner[s] = NoNode THEN {"none"} ELSE {"live", "provisional"} :
        handle' = [handle EXCEPT ![s] = h]
  BY DEF Register
<1>3. /\ parent[s] = "unborn" /\ parent' = [parent EXCEPT ![s] = "open"]
      /\ cookie' = [cookie EXCEPT ![s] = IF Owner[s] = NoNode THEN "unsaved" ELSE @]
      /\ UNCHANGED <<child, by, ticket, locked, task, node, up, losses>>
  BY DEF Register
<1>4. TypeOK'
  BY <1>1, <1>2, <1>3, TableTypes
      DEF TypeOK, Ledger!LedgerTypeOK, Ledger!UserRows, Ledger!TargetRows, Ledger!TicketRows
<1>5. handle[s] = "none" /\ \A t \in Targets : child[s][t] = "none"
  BY <1>1, <1>3, TableTypes DEF Inv, RowsOK
<1>6. RowsOK'
  BY <1>1, <1>2, <1>3, <1>5, TableTypes DEF Inv, RowsOK
<1>7. ASSUME NEW v \in Workers
      PROVE  /\ LockOK(v, task[v], locked', parent', ticket')
             /\ HandleOK(v, task[v], handle', parent', child')
  <2>1. /\ FieldsOK(task[v]) /\ LockOK(v, task[v], locked, parent, ticket)
        /\ HandleOK(v, task[v], handle, parent, child)
    BY TaskFacts
  <2>2. LockOK(v, task[v], locked', parent', ticket')
    BY <1>1, <1>3, <2>1, TableTypes DEF LockOK, FieldsOK, Opening
  <2>3. HandleOK(v, task[v], handle', parent', child')
    BY <1>1, <1>2, <1>3, <1>5, <2>1, TableTypes DEF HandleOK, FieldsOK, Opening
  <2> QED
    BY <2>2, <2>3
<1>8. NobodyOverlooked'
  BY <1>3 DEF Inv, NobodyOverlooked, Admitted
<1> QED
  BY <1>3, <1>4, <1>6, <1>7, <1>8, QuietAfter

LEMMA KeepsConfirm ==
    ASSUME ConstantsOK, Inv, NEW s \in Sessions, Confirm(s)
    PROVE  Inv'
<1>1. TypeOK
  BY DEF Inv
<1>2. /\ handle[s] = "provisional" /\ handle' = [handle EXCEPT ![s] = "live"]
      /\ UNCHANGED <<parent, child, by, ticket, locked, task, cookie, node, up, losses>>
  BY DEF Confirm, tables
<1>3. TypeOK'
  BY <1>1, <1>2, TableTypes
      DEF TypeOK, Ledger!LedgerTypeOK, Ledger!UserRows, Ledger!TargetRows, Ledger!TicketRows
<1>4. RowsOK'
  BY <1>1, <1>2, TableTypes DEF Inv, RowsOK
<1>5. ASSUME NEW v \in Workers
      PROVE  /\ LockOK(v, task[v], locked', parent', ticket')
             /\ HandleOK(v, task[v], handle', parent', child')
  <2>1. /\ FieldsOK(task[v]) /\ LockOK(v, task[v], locked, parent, ticket)
        /\ HandleOK(v, task[v], handle, parent, child)
    BY TaskFacts
  <2> QED
    BY <1>1, <1>2, <2>1, TableTypes DEF LockOK, HandleOK, FieldsOK, Opening
<1>6. NobodyOverlooked'
  BY <1>2 DEF Inv, NobodyOverlooked, Admitted
<1> QED
  BY <1>2, <1>3, <1>4, <1>5, <1>6, QuietAfter

\* Cookies, heartbeats and the clock of the grace concern neither tables nor tasks.
LEMMA KeepsAside ==
    ASSUME ConstantsOK, Inv, UNCHANGED <<parent, child, by, ticket, locked, task, handle>>,
           cookie' \in [Sessions -> {"none", "unsaved", "saved"}],
           node' \in [Nodes -> {"gone", "fresh", "late"}],
           up' \in [Nodes -> {"new", "up", "down"}],
           losses' \in 0..Losses
    PROVE  Inv'
<1>1. TypeOK'
  BY TableTypes DEF Inv,
      TypeOK, Ledger!LedgerTypeOK, Ledger!UserRows, Ledger!TargetRows, Ledger!TicketRows
<1>2. RowsOK' /\ TasksOK' /\ NobodyOverlooked'
  BY DEF Inv, RowsOK, TasksOK, NobodyOverlooked, Admitted
<1> QED
  BY <1>1, <1>2 DEF Inv

LEMMA KeepsCookie ==
    ASSUME ConstantsOK, Inv, NEW s \in Sessions, SaveCookie(s) \/ Rotate(s) \/ GraceEnds(s)
    PROVE  Inv'
<1>1. /\ cookie' \in [Sessions -> {"none", "unsaved", "saved"}]
      /\ UNCHANGED <<parent, child, by, ticket, locked, task, handle, node, up, losses>>
  BY TableTypes DEF Inv, SaveCookie, Rotate, GraceEnds, tables
<1>2. /\ node \in [Nodes -> {"gone", "fresh", "late"}] /\ up \in [Nodes -> {"new", "up", "down"}]
      /\ losses \in 0..Losses
  BY TableTypes DEF Inv
<1> QED
  BY <1>1, <1>2, KeepsAside

LEMMA KeepsHeartbeat ==
    ASSUME ConstantsOK, Inv, NEW n \in Nodes, Heartbeat(n) \/ FallsBehind(n)
    PROVE  Inv'
<1>1. UNCHANGED <<parent, child, by, ticket, locked, task, handle, cookie>>
  BY DEF Heartbeat, FallsBehind, tables
<1>2. /\ node \in [Nodes -> {"gone", "fresh", "late"}] /\ up \in [Nodes -> {"new", "up", "down"}]
      /\ losses \in 0..Losses /\ cookie \in [Sessions -> {"none", "unsaved", "saved"}]
      /\ Losses \in Nat
  BY TableTypes DEF Inv, ConstantsOK
<1>3. /\ node' \in [Nodes -> {"gone", "fresh", "late"}] /\ up' \in [Nodes -> {"new", "up", "down"}]
  BY <1>2 DEF Heartbeat, FallsBehind
<1>4. losses' \in 0..Losses
  <2>1. losses' = losses \/ (losses' = losses + 1 /\ losses < Losses)
    BY DEF Heartbeat, FallsBehind
  <2> QED
    BY <1>2, <2>1
<1> QED
  BY <1>1, <1>2, <1>3, <1>4, KeepsAside

LEMMA KeepsTimePasses ==
    ASSUME ConstantsOK, Inv, NEW k \in Tickets, TimePasses(k)
    PROVE  Inv'
<1>1. TypeOK
  BY DEF Inv
<1>2. /\ ticket[k] \in {"valid", "due"}
      /\ ticket' = [ticket EXCEPT ![k] = IF @ = "valid" THEN "due" ELSE "past"]
      /\ UNCHANGED <<parent, child, by, locked, task, handle, cookie, node, up, losses>>
  BY DEF TimePasses
<1>3. TypeOK' /\ \A j \in Tickets : ticket'[j] = "deleted" <=> ticket[j] = "deleted"
  BY <1>1, <1>2, TableTypes
      DEF TypeOK, Ledger!LedgerTypeOK, Ledger!UserRows, Ledger!TargetRows, Ledger!TicketRows
<1>4. RowsOK'
  BY <1>1, <1>2, <1>3, TableTypes DEF Inv, RowsOK
<1>5. ASSUME NEW v \in Workers
      PROVE  /\ LockOK(v, task[v], locked', parent', ticket')
             /\ HandleOK(v, task[v], handle', parent', child')
  <2>1. /\ task[v] \in Tasks /\ FieldsOK(task[v]) /\ LockOK(v, task[v], locked, parent, ticket)
        /\ HandleOK(v, task[v], handle, parent, child)
    BY TaskFacts
  <2> QED
    BY <1>1, <1>2, <1>3, <2>1, TableTypes DEF LockOK, HandleOK, FieldsOK, Opening, Tasks
<1>6. NobodyOverlooked'
  BY <1>2 DEF Inv, NobodyOverlooked, Admitted
<1> QED
  BY <1>2, <1>3, <1>4, <1>5, <1>6, QuietAfter

\* The row is inserted under the locks of its session and of its ticket.
LEMMA KeepsOpenCommits ==
    ASSUME ConstantsOK, Inv, NEW w \in Workers, OpenCommits(w)
    PROVE  Inv'
<1> DEFINE s == task[w].s
           t == task[w].t
           k == task[w].k
<1>1. TypeOK
  BY DEF Inv
<1>2. /\ task[w] \in Tasks /\ task[w].op = "openInsert" /\ FieldsOK(task[w])
      /\ LockOK(w, task[w], locked, parent, ticket) /\ HandleOK(w, task[w], handle, parent, child)
  BY TaskFacts DEF OpenCommits, Is
<1>3. /\ s \in Sessions /\ t \in Targets /\ k \in Tickets \cup {NoTicket}
      /\ locked[s] = w /\ parent[s] = "open"
      /\ k # NoTicket => locked[k] = w /\ ticket[k] # "deleted"
      /\ Owner[s] # NoNode => handle[s] # "none"
  BY <1>2 DEF FieldsOK, LockOK, HandleOK, Opening, Tasks
<1>4. /\ child' = [child EXCEPT ![s][t] = IF @ = "none" THEN "open" ELSE @]
      /\ by' = [by EXCEPT ![s][t] = IF child[s][t] = "none" THEN k ELSE @]
      /\ Releases(w) /\ Goto(w, Idle)
      /\ UNCHANGED <<parent, ticket, handle, cookie, node, up, losses>>
  BY DEF OpenCommits
<1>5. /\ locked' \in [Rows -> Workers \cup {Nobody}]
      /\ \A v \in Workers, y \in Rows : v # w /\ locked[y] = v => locked'[y] = v
  BY <1>1, <1>4, ReleasesOwn
<1>6. task' \in [Workers -> Tasks] /\ task'[w] = Idle /\ \A v \in Workers : v # w => task'[v] = task[v]
  BY <1>1, <1>4, IdleIsTask, GotoIs DEF TypeOK, Goto
<1>7. /\ child' \in [Sessions -> [Targets -> {"none", "open", "ended"}]]
      /\ by' \in [Sessions -> [Targets -> Tickets \cup {NoTicket}]]
      /\ \A a \in Sessions, b \in Targets : a # s \/ b # t => child'[a][b] = child[a][b] /\ by'[a][b] = by[a][b]
      /\ child[s][t] # "none" => child'[s][t] = child[s][t] /\ by'[s][t] = by[s][t]
      /\ child[s][t] = "none" => child'[s][t] = "open" /\ by'[s][t] = k
  BY <1>1, <1>3, <1>4, TableTypes
<1> HIDE DEF s, t, k
<1>8. TypeOK'
  BY <1>1, <1>4, <1>5, <1>6, <1>7, TableTypes
      DEF TypeOK, Ledger!LedgerTypeOK, Ledger!UserRows, Ledger!TargetRows, Ledger!TicketRows
<1>9. RowsOK'
  <2> SUFFICES ASSUME NEW a \in Sessions, NEW b \in Targets
               PROVE  /\ handle[a] # "none" => parent[a] # "unborn"
                      /\ child'[a][b] = "open" => parent[a] = "open"
                      /\ child'[a][b] = "ended" => parent[a] \in {"ended", "deleted"}
                      /\ child'[a][b] = "none" => by'[a][b] = NoTicket
                      /\ by'[a][b] # NoTicket => ticket[by'[a][b]] # "deleted"
    <3>1. \A a \in Sessions : handle[a] # "none" => parent[a] # "unborn"
      BY DEF Inv, RowsOK
    <3> QED
      BY <1>4, <3>1 DEF RowsOK
  <2>1. /\ handle[a] # "none" => parent[a] # "unborn"
        /\ child[a][b] = "open" => parent[a] = "open"
        /\ child[a][b] = "ended" => parent[a] \in {"ended", "deleted"}
        /\ child[a][b] = "none" => by[a][b] = NoTicket
        /\ by[a][b] # NoTicket => ticket[by[a][b]] # "deleted"
    BY DEF Inv, RowsOK
  <2>2. CASE a = s /\ b = t /\ child[s][t] = "none"
    BY <1>3, <1>7, <2>1, <2>2
  <2>3. CASE ~(a = s /\ b = t /\ child[s][t] = "none")
    <3>1. child'[a][b] = child[a][b] /\ by'[a][b] = by[a][b]
      BY <1>7, <2>3
    <3> QED
      BY <2>1, <3>1
  <2> QED
    BY <2>2, <2>3
<1>10. FieldsOK(Idle) /\ LockOK(w, Idle, locked', parent', ticket') /\ HandleOK(w, Idle, handle', parent', child')
  <2>1. Idle.op = "idle" /\ Idle.then = "idle"
    BY DEF Idle
  <2> QED
    BY <2>1, IdleOK DEF Opening, Resumed
<1>11. ASSUME NEW v \in Workers, v # w
       PROVE  /\ LockOK(v, task[v], locked', parent', ticket')
              /\ HandleOK(v, task[v], handle', parent', child')
  <2>1. /\ task[v] \in Tasks /\ FieldsOK(task[v]) /\ LockOK(v, task[v], locked, parent, ticket)
        /\ HandleOK(v, task[v], handle, parent, child)
    BY TaskFacts
  <2>2. LockOK(v, task[v], locked', parent, ticket)
    BY <1>5, <1>11, <2>1, LockKept
  <2>3. HandleOK(v, task[v], handle, parent, child')
    <3>1. SUFFICES ASSUME task[v].op = "discardParent" 
                   PROVE  \A b \in Targets : child'[task[v].s][b] = "none"
      BY <2>1 DEF HandleOK
    <3>2. /\ task[v].s \in Sessions /\ Owner[task[v].s] # NoNode /\ handle[task[v].s] = "none"
          /\ \A b \in Targets : child[task[v].s][b] = "none"
      BY <2>1, <3>1 DEF HandleOK, FieldsOK
    <3>3. task[v].s # s
      BY <1>3, <3>2
    <3> QED
      BY <1>7, <3>2, <3>3
  <2> QED
    BY <1>4, <2>2, <2>3
<1>12. NobodyOverlooked'
  <2> SUFFICES ASSUME NEW v \in Workers, task'[v].op = "deleteCommit", NEW a \in Sessions,
                      NEW b \in Targets, child'[a][b] = "open", by'[a][b] = task'[v].k
               PROVE  a \in task'[v].todo
    BY DEF NobodyOverlooked, Admitted
  <2>1. v # w /\ task'[v] = task[v]
    BY <1>6 DEF Idle
  <2>2. /\ task[v].k \in Tickets
        /\ ticket[task[v].k] = "deleted" \/ locked[task[v].k] = v
    BY <2>1, TaskFacts DEF FieldsOK, LockOK
  <2>3. ~(a = s /\ b = t /\ child[s][t] = "none")
    BY <1>3, <1>7, <2>1, <2>2 DEF ConstantsOK
  <2>4. child[a][b] = "open" /\ by[a][b] = task[v].k
    BY <1>7, <2>1, <2>3
  <2> QED
    BY <2>1, <2>4 DEF Inv, NobodyOverlooked, Admitted
<1> QED
  BY <1>4, <1>8, <1>9, <1>10, <1>11, <1>12, IdleIsTask, InvAfter

\* A session ends under its lock, and its target sessions with it.
LEMMA KeepsEndCommits ==
    ASSUME ConstantsOK, Inv, NEW w \in Workers, EndCommits(w)
    PROVE  Inv'
<1> DEFINE s == task[w].s
           r == [task[w] EXCEPT !.op = "ending", !.s = Nobody, !.todo = @ \ {s}]
<1>1. TypeOK
  BY DEF Inv
<1>2. /\ task[w] \in Tasks /\ task[w].op = "endLocked" /\ FieldsOK(task[w])
      /\ LockOK(w, task[w], locked, parent, ticket)
  BY TaskFacts DEF EndCommits, Is
<1>3. s \in Sessions /\ s \in Rows /\ locked[s] = w /\ parent[s] = "open"
  BY <1>2 DEF FieldsOK, LockOK, Rows
<1>4. /\ parent' = [parent EXCEPT ![s] = "ended"]
      /\ child' = [child EXCEPT ![s] = [t \in Targets |-> IF @[t] = "open" THEN "ended" ELSE @[t]]]
      /\ cookie' = [cookie EXCEPT ![s] = "none"]
      /\ Releases(w) /\ Goto(w, r)
      /\ UNCHANGED <<by, ticket, handle, node, up, losses>>
  BY DEF EndCommits, TargetsEnded
<1>5. /\ locked' \in [Rows -> Workers \cup {Nobody}]
      /\ \A v \in Workers, y \in Rows : v # w /\ locked[y] = v => locked'[y] = v
  BY <1>1, <1>4, ReleasesOwn
<1>6. r \in Tasks /\ r.op = "ending" /\ r.then \in Resumed
  BY <1>2 DEF Tasks, Ops, FieldsOK
<1> HIDE DEF r
<1>7. task' \in [Workers -> Tasks] /\ task'[w] = r /\ \A v \in Workers : v # w => task'[v] = task[v]
  BY <1>1, <1>4, <1>6, GotoIs DEF TypeOK, Goto
<1>8. /\ parent' \in [Sessions -> {"unborn", "open", "ended", "deleted"}]
      /\ child' \in [Sessions -> [Targets -> {"none", "open", "ended"}]]
      /\ parent'[s] = "ended" /\ \A a \in Sessions : a # s => parent'[a] = parent[a]
      /\ \A a \in Sessions, b \in Targets : a # s => child'[a][b] = child[a][b]
      /\ \A b \in Targets : child'[s][b] = IF child[s][b] = "open" THEN "ended" ELSE child[s][b]
  BY <1>1, <1>3, <1>4, TableTypes
<1> HIDE DEF s
<1>9. TypeOK'
  BY <1>1, <1>4, <1>5, <1>7, <1>8, TableTypes
      DEF TypeOK, Ledger!LedgerTypeOK, Ledger!UserRows, Ledger!TargetRows, Ledger!TicketRows
<1>10. RowsOK'
  BY <1>1, <1>3, <1>4, <1>8, TableTypes DEF Inv, RowsOK
<1>11. FieldsOK(r) /\ LockOK(w, r, locked', parent', ticket') /\ HandleOK(w, r, handle', parent', child')
  BY <1>6, IdleOK DEF Opening
<1>12. ASSUME NEW v \in Workers, v # w
       PROVE  /\ LockOK(v, task[v], locked', parent', ticket')
              /\ HandleOK(v, task[v], handle', parent', child')
  <2>1. /\ task[v] \in Tasks /\ FieldsOK(task[v]) /\ LockOK(v, task[v], locked, parent, ticket)
        /\ HandleOK(v, task[v], handle, parent, child)
    BY TaskFacts
  <2>2. LockOK(v, task[v], locked', parent, ticket)
    BY <1>5, <1>12, <2>1, LockKept
  <2>3. LockOK(v, task[v], locked', parent', ticket)
    <3>1. task[v].op \in {"openTicket", "openInsert", "endLocked"} => task[v].s \in Sessions /\ task[v].s # s
      BY <1>3, <1>12, <2>1 DEF LockOK, FieldsOK, Opening
    <3> QED
      BY <1>8, <2>2, <3>1 DEF LockOK
  <2>4. HandleOK(v, task[v], handle, parent', child')
    BY <1>8, <2>1 DEF HandleOK, FieldsOK, Opening
  <2> QED
    BY <1>4, <2>3, <2>4
<1>13. NobodyOverlooked'
  <2> SUFFICES ASSUME NEW v \in Workers, task'[v].op = "deleteCommit", NEW a \in Sessions,
                      NEW b \in Targets, child'[a][b] = "open", by'[a][b] = task'[v].k
               PROVE  a \in task'[v].todo
    BY DEF NobodyOverlooked, Admitted
  <2>1. v # w /\ task'[v] = task[v]
    BY <1>6, <1>7
  <2>2. child[a][b] = "open" /\ by[a][b] = task[v].k
    BY <1>4, <1>8, <2>1
  <2> QED
    BY <2>1, <2>2 DEF Inv, NobodyOverlooked, Admitted
<1> QED
  BY <1>4, <1>6, <1>9, <1>10, <1>11, <1>12, <1>13, InvAfter

\* A handle is dropped when no opener uses it; an unfinished login is then discarded.
LEMMA KeepsDropHandle ==
    ASSUME ConstantsOK, Inv, NEW w \in Workers, NEW s \in Sessions, DropHandle(w, s)
    PROVE  Inv'
<1>1. TypeOK
  BY DEF Inv
<1>2. /\ At[w] = Owner[s] /\ handle[s] \in {"live", "provisional"}
      /\ \A v \in Workers : task[v].s # s \/ task[v].op \notin Opening
      /\ handle' = [handle EXCEPT ![s] = "none"]
      /\ UNCHANGED <<parent, child, by, ticket, locked, cookie, node, up, losses>>
  BY DEF DropHandle, Opening, tables
<1>3. PICK r \in Tasks :
        /\ Goto(w, r) /\ r.then = "idle"
        /\ (r.op = "discard" /\ r.s = s) \/ r.op = "ending"
  <2> DEFINE d == [Idle EXCEPT !.op = "discard", !.s = s]
             e == [Idle EXCEPT !.op = "ending", !.todo = {s}, !.then = "idle"]
  <2>1. d \in Tasks /\ d.then = "idle" /\ d.op = "discard" /\ d.s = s
    BY DEF Idle, Tasks, Ops
  <2>2. e \in Tasks /\ e.then = "idle" /\ e.op = "ending"
    BY DEF Idle, Tasks, Ops
  <2>3. Goto(w, d) \/ Goto(w, e)
    BY DEF DropHandle, Ends
  <2> HIDE DEF d, e
  <2> QED
    BY <2>1, <2>2, <2>3
<1>4. task' \in [Workers -> Tasks] /\ task'[w] = r /\ \A v \in Workers : v # w => task'[v] = task[v]
  BY <1>1, <1>3, GotoIs DEF TypeOK, Goto
<1>5. handle' \in [Sessions -> {"none", "live", "provisional"}]
  BY <1>1, <1>2, TableTypes
<1>6. TypeOK'
  BY <1>1, <1>2, <1>4, <1>5, TableTypes
      DEF TypeOK, Ledger!LedgerTypeOK, Ledger!UserRows, Ledger!TargetRows, Ledger!TicketRows
<1>7. \A a \in Sessions : handle'[a] # "none" => handle[a] # "none" /\ a # s
  BY <1>1, <1>2, TableTypes
<1>8. RowsOK'
  BY <1>2, <1>7 DEF Inv, RowsOK
<1>9. parent[s] # "unborn" /\ Owner[s] # NoNode /\ handle'[s] = "none"
  BY <1>1, <1>2, TableTypes DEF Inv, RowsOK, ConstantsOK
<1>10. FieldsOK(r) /\ LockOK(w, r, locked', parent', ticket') /\ HandleOK(w, r, handle', parent', child')
  BY <1>2, <1>3, <1>9 DEF FieldsOK, LockOK, HandleOK, Opening, Resumed
<1>11. ASSUME NEW v \in Workers, v # w
       PROVE  /\ LockOK(v, task[v], locked', parent', ticket')
              /\ HandleOK(v, task[v], handle', parent', child')
  <2>1. /\ FieldsOK(task[v]) /\ LockOK(v, task[v], locked, parent, ticket)
        /\ HandleOK(v, task[v], handle, parent, child)
    BY TaskFacts
  <2>2. \A a \in Sessions : a # s => handle'[a] = handle[a]
    BY <1>1, <1>2, TableTypes
  <2>3. HandleOK(v, task[v], handle', parent, child)
    BY <1>2, <1>9, <2>1, <2>2 DEF HandleOK, FieldsOK, Opening
  <2> QED
    BY <1>2, <2>1, <2>3
<1>12. NobodyOverlooked'
  BY <1>2, <1>3, <1>4 DEF Inv, NobodyOverlooked, Admitted
<1> QED
  BY <1>3, <1>6, <1>8, <1>10, <1>11, <1>12, InvAfter

LEMMA KeepsDiscardTargets ==
    ASSUME ConstantsOK, Inv, NEW w \in Workers, DiscardTargets(w)
    PROVE  Inv'
<1> DEFINE s == task[w].s
           r == [task[w] EXCEPT !.op = "discardParent"]
<1>1. TypeOK
  BY DEF Inv
<1>2. /\ task[w] \in Tasks /\ task[w].op = "discard" /\ FieldsOK(task[w])
      /\ HandleOK(w, task[w], handle, parent, child)
  BY TaskFacts DEF DiscardTargets, Is
<1>3. s \in Sessions /\ Owner[s] # NoNode /\ handle[s] = "none" /\ parent[s] # "unborn"
  BY <1>2 DEF FieldsOK, HandleOK
<1>4. /\ child' = [child EXCEPT ![s] = [t \in Targets |-> "none"]]
      /\ by' = [by EXCEPT ![s] = [t \in Targets |-> NoTicket]]
      /\ Goto(w, r)
      /\ UNCHANGED <<parent, ticket, locked, handle, cookie, node, up, losses>>
  BY DEF DiscardTargets
<1>5. r \in Tasks /\ r.op = "discardParent" /\ r.s = s /\ r.then \in Resumed
  BY <1>2 DEF Tasks, Ops, FieldsOK
<1> HIDE DEF r
<1>6. task' \in [Workers -> Tasks] /\ task'[w] = r /\ \A v \in Workers : v # w => task'[v] = task[v]
  BY <1>1, <1>4, <1>5, GotoIs DEF TypeOK, Goto
<1>7. /\ child' \in [Sessions -> [Targets -> {"none", "open", "ended"}]]
      /\ by' \in [Sessions -> [Targets -> Tickets \cup {NoTicket}]]
      /\ \A a \in Sessions, b \in Targets : a # s => child'[a][b] = child[a][b] /\ by'[a][b] = by[a][b]
      /\ \A b \in Targets : child'[s][b] = "none" /\ by'[s][b] = NoTicket
  BY <1>1, <1>3, <1>4, TableTypes
<1> HIDE DEF s
<1>8. TypeOK'
  BY <1>1, <1>4, <1>6, <1>7, TableTypes
      DEF TypeOK, Ledger!LedgerTypeOK, Ledger!UserRows, Ledger!TargetRows, Ledger!TicketRows
<1>9. RowsOK'
  BY <1>1, <1>3, <1>4, <1>7, TableTypes DEF Inv, RowsOK
<1>10. FieldsOK(r) /\ LockOK(w, r, locked', parent', ticket') /\ HandleOK(w, r, handle', parent', child')
  BY <1>3, <1>4, <1>5, <1>7 DEF FieldsOK, LockOK, HandleOK, Opening
<1>11. ASSUME NEW v \in Workers, v # w
       PROVE  /\ LockOK(v, task[v], locked', parent', ticket')
              /\ HandleOK(v, task[v], handle', parent', child')
  <2>1. /\ FieldsOK(task[v]) /\ LockOK(v, task[v], locked, parent, ticket)
        /\ HandleOK(v, task[v], handle, parent, child)
    BY TaskFacts
  <2> QED
    BY <1>4, <1>7, <2>1 DEF HandleOK, FieldsOK
<1>12. NobodyOverlooked'
  <2> SUFFICES ASSUME NEW v \in Workers, task'[v].op = "deleteCommit", NEW a \in Sessions,
                      NEW b \in Targets, child'[a][b] = "open", by'[a][b] = task'[v].k
               PROVE  a \in task'[v].todo
    BY DEF NobodyOverlooked, Admitted
  <2>1. v # w /\ task'[v] = task[v]
    BY <1>5, <1>6
  <2>2. child[a][b] = "open" /\ by[a][b] = task[v].k
    BY <1>7, <2>1
  <2> QED
    BY <2>1, <2>2 DEF Inv, NobodyOverlooked, Admitted
<1> QED
  BY <1>4, <1>5, <1>8, <1>9, <1>10, <1>11, <1>12, InvAfter

\* A user session is deleted when it has no target session left and nobody locks it.
LEMMA ParentDeleted ==
    ASSUME ConstantsOK, Inv, NEW s \in Sessions, locked[s] = Nobody, parent[s] # "unborn",
           \A t \in Targets : child[s][t] = "none",
           parent' = [parent EXCEPT ![s] = "deleted"],
           UNCHANGED <<child, by, ticket, locked, handle, cookie, node, up, losses>>,
           task' \in [Workers -> Tasks]
    PROVE  /\ TypeOK' /\ RowsOK'
           /\ \A v \in Workers : /\ LockOK(v, task[v], locked', parent', ticket')
                                 /\ HandleOK(v, task[v], handle', parent', child')
<1>1. TypeOK
  BY DEF Inv
<1>2. /\ parent' \in [Sessions -> {"unborn", "open", "ended", "deleted"}]
      /\ parent'[s] = "deleted" /\ \A a \in Sessions : a # s => parent'[a] = parent[a]
  BY <1>1, TableTypes
<1>3. TypeOK'
  BY <1>1, <1>2, TableTypes
      DEF TypeOK, Ledger!LedgerTypeOK, Ledger!UserRows, Ledger!TargetRows, Ledger!TicketRows
<1>4. RowsOK'
  BY <1>2 DEF Inv, RowsOK
<1>5. ASSUME NEW v \in Workers
      PROVE  /\ LockOK(v, task[v], locked', parent', ticket')
             /\ HandleOK(v, task[v], handle', parent', child')
  <2>1. /\ FieldsOK(task[v]) /\ LockOK(v, task[v], locked, parent, ticket)
        /\ HandleOK(v, task[v], handle, parent, child)
    BY TaskFacts
  <2>2. task[v].op \in {"openTicket", "openInsert", "endLocked"} => task[v].s \in Sessions /\ task[v].s # s
    BY <2>1 DEF LockOK, FieldsOK, Opening, ConstantsOK
  <2>3. LockOK(v, task[v], locked, parent', ticket)
    BY <1>2, <2>1, <2>2 DEF LockOK
  <2>4. HandleOK(v, task[v], handle, parent', child)
    BY <1>2, <2>1 DEF HandleOK, FieldsOK
  <2> QED
    BY <2>3, <2>4
<1> QED
  BY <1>3, <1>4, <1>5

LEMMA KeepsDiscardParent ==
    ASSUME ConstantsOK, Inv, NEW w \in Workers, DiscardParent(w)
    PROVE  Inv'
<1> DEFINE s == task[w].s
<1>1. TypeOK
  BY DEF Inv
<1>2. task[w].op = "discardParent" /\ FieldsOK(task[w]) /\ HandleOK(w, task[w], handle, parent, child)
  BY TaskFacts DEF DiscardParent, Is
<1>3. s \in Sessions /\ parent[s] # "unborn" /\ \A t \in Targets : child[s][t] = "none"
  BY <1>2 DEF FieldsOK, HandleOK
<1>4. /\ locked[s] = Nobody /\ parent' = [parent EXCEPT ![s] = "deleted"] /\ Goto(w, Idle)
      /\ UNCHANGED <<child, by, ticket, locked, handle, cookie, node, up, losses>>
  BY DEF DiscardParent
<1>5. task' \in [Workers -> Tasks] /\ task'[w] = Idle /\ \A v \in Workers : v # w => task'[v] = task[v]
  BY <1>1, <1>4, IdleIsTask, GotoIs DEF TypeOK, Goto
<1>6. /\ TypeOK' /\ RowsOK'
      /\ \A v \in Workers : /\ LockOK(v, task[v], locked', parent', ticket')
                            /\ HandleOK(v, task[v], handle', parent', child')
  BY <1>3, <1>4, <1>5, ParentDeleted
<1>7. Idle.op = "idle" /\ Idle.then = "idle"
  BY DEF Idle
<1>8. FieldsOK(Idle) /\ LockOK(w, Idle, locked', parent', ticket') /\ HandleOK(w, Idle, handle', parent', child')
  BY <1>7, IdleOK DEF Opening, Resumed
<1>9. NobodyOverlooked'
  BY <1>4, <1>5, <1>7 DEF Inv, NobodyOverlooked, Admitted
<1> QED
  BY <1>4, <1>6, <1>8, <1>9, IdleIsTask, InvAfter

LEMMA KeepsCleanParent ==
    ASSUME ConstantsOK, Inv, NEW w \in Workers, NEW s \in Sessions, CleanParent(w, s)
    PROVE  Inv'
<1>1. /\ locked[s] = Nobody /\ parent[s] = "ended" /\ parent' = [parent EXCEPT ![s] = "deleted"]
      /\ \A t \in Targets : child[s][t] = "none"
      /\ UNCHANGED <<child, by, ticket, locked, task, handle, cookie, node, up, losses>>
  BY DEF CleanParent, Unreferenced
<1>2. task' \in [Workers -> Tasks]
  BY <1>1 DEF Inv, TypeOK
<1>3. /\ TypeOK' /\ RowsOK'
      /\ \A v \in Workers : /\ LockOK(v, task[v], locked', parent', ticket')
                            /\ HandleOK(v, task[v], handle', parent', child')
  BY <1>1, <1>2, ParentDeleted
<1>4. NobodyOverlooked'
  BY <1>1 DEF Inv, NobodyOverlooked, Admitted
<1> QED
  BY <1>1, <1>3, <1>4, QuietAfter

\* Ended target sessions go, and with them every target session of their user session.
LEMMA CleanIsForget ==
    ASSUME Inv, NEW w \in Workers, NEW s \in Sessions, CleanTargets(w, s)
    PROVE  /\ child' = [child EXCEPT ![s] = [t \in Targets |-> "none"]]
           /\ by' = [by EXCEPT ![s] = [t \in Targets |-> NoTicket]]
<1>1. PICK e \in Targets : child[s][e] = "ended"
  BY DEF CleanTargets
<1>2. parent[s] # "open"
  BY <1>1 DEF Inv, RowsOK
<1>3. \A t \in Targets : child[s][t] # "open"
  BY <1>2 DEF Inv, RowsOK
<1>4. /\ child \in [Sessions -> [Targets -> {"none", "open", "ended"}]]
      /\ by \in [Sessions -> [Targets -> Tickets \cup {NoTicket}]]
  BY TableTypes DEF Inv
<1>5. \A t \in Targets : child[s][t] \in {"none", "ended"}
  BY <1>3, <1>4
<1>6. [t \in Targets |-> IF child[s][t] = "ended" THEN "none" ELSE child[s][t]] = [t \in Targets |-> "none"]
  BY <1>5
<1>7. \A t \in Targets : child[s][t] # "ended" => by[s][t] = NoTicket
  BY <1>5 DEF Inv, RowsOK
<1>8. [t \in Targets |-> IF child[s][t] = "ended" THEN NoTicket ELSE by[s][t]] = [t \in Targets |-> NoTicket]
  BY <1>7
<1>9. /\ child' = [child EXCEPT ![s] = [t \in Targets |-> IF @[t] = "ended" THEN "none" ELSE @[t]]]
      /\ by' = [by EXCEPT ![s] = [t \in Targets |-> IF child[s][t] = "ended" THEN NoTicket ELSE @[t]]]
  BY DEF CleanTargets
<1>10. child' = [child EXCEPT ![s] = [t \in Targets |-> "none"]]
  BY <1>4, <1>6, <1>9
<1>11. by' = [by EXCEPT ![s] = [t \in Targets |-> IF child[s][t] = "ended" THEN NoTicket ELSE by[s][t]]]
  BY <1>4, <1>9
<1>12. by' = [by EXCEPT ![s] = [t \in Targets |-> NoTicket]]
  BY <1>8, <1>11
<1> QED
  BY <1>10, <1>12

LEMMA KeepsCleanTargets ==
    ASSUME ConstantsOK, Inv, NEW w \in Workers, NEW s \in Sessions, CleanTargets(w, s)
    PROVE  Inv'
<1>1. TypeOK
  BY DEF Inv
<1>2. /\ child' = [child EXCEPT ![s] = [t \in Targets |-> "none"]]
      /\ by' = [by EXCEPT ![s] = [t \in Targets |-> NoTicket]]
  BY CleanIsForget
<1>3. UNCHANGED <<parent, ticket, locked, task, handle, cookie, node, up, losses>>
  BY DEF CleanTargets
<1>4. /\ child' \in [Sessions -> [Targets -> {"none", "open", "ended"}]]
      /\ by' \in [Sessions -> [Targets -> Tickets \cup {NoTicket}]]
      /\ \A a \in Sessions, b \in Targets : a # s => child'[a][b] = child[a][b] /\ by'[a][b] = by[a][b]
      /\ \A b \in Targets : child'[s][b] = "none" /\ by'[s][b] = NoTicket
  BY <1>1, <1>2, TableTypes
<1>5. TypeOK'
  BY <1>1, <1>3, <1>4, TableTypes
      DEF TypeOK, Ledger!LedgerTypeOK, Ledger!UserRows, Ledger!TargetRows, Ledger!TicketRows
<1>6. RowsOK'
  <2> SUFFICES ASSUME NEW a \in Sessions, NEW b \in Targets
               PROVE  /\ child'[a][b] = "open" => parent[a] = "open"
                      /\ child'[a][b] = "ended" => parent[a] \in {"ended", "deleted"}
                      /\ child'[a][b] = "none" => by'[a][b] = NoTicket
                      /\ by'[a][b] # NoTicket => ticket[by'[a][b]] # "deleted"
    BY <1>3 DEF Inv, RowsOK
  <2>1. CASE a = s
    BY <1>4, <2>1
  <2>2. CASE a # s
    BY <1>4, <2>2 DEF Inv, RowsOK
  <2> QED
    BY <2>1, <2>2
<1>7. ASSUME NEW v \in Workers
      PROVE  /\ LockOK(v, task[v], locked', parent', ticket')
             /\ HandleOK(v, task[v], handle', parent', child')
  <2>1. /\ FieldsOK(task[v]) /\ LockOK(v, task[v], locked, parent, ticket)
        /\ HandleOK(v, task[v], handle, parent, child)
    BY TaskFacts
  <2> QED
    BY <1>3, <1>4, <2>1 DEF HandleOK, FieldsOK
<1>8. NobodyOverlooked'
  <2> SUFFICES ASSUME NEW v \in Workers, task[v].op = "deleteCommit", NEW a \in Sessions,
                      NEW b \in Targets, child'[a][b] = "open", by'[a][b] = task[v].k
               PROVE  a \in task[v].todo
    BY <1>3 DEF NobodyOverlooked, Admitted
  <2>1. child[a][b] = "open" /\ by[a][b] = task[v].k
    BY <1>4
  <2> QED
    BY <2>1 DEF Inv, NobodyOverlooked, Admitted
<1> QED
  BY <1>3, <1>5, <1>6, <1>7, <1>8, QuietAfter

\* A ticket is deleted under its lock: no opener that uses it is under way.
LEMMA KeepsDeleteCommits ==
    ASSUME ConstantsOK, Inv, NEW w \in Workers, DeleteCommits(w)
    PROVE  Inv'
<1> DEFINE k == task[w].k
           r == [Idle EXCEPT !.op = "ending", !.todo = OpenMatching(task[w].todo), !.then = "idle"]
<1>1. TypeOK
  BY DEF Inv
<1>2. /\ task[w] \in Tasks /\ task[w].op = "deleteCommit" /\ FieldsOK(task[w])
      /\ LockOK(w, task[w], locked, parent, ticket)
  BY TaskFacts DEF DeleteCommits, Is
<1>3. k \in Tickets /\ k # NoTicket /\ (ticket[k] = "deleted" \/ locked[k] = w)
  BY <1>2 DEF FieldsOK, LockOK, ConstantsOK
<1>4. /\ ticket' = [ticket EXCEPT ![k] = "deleted"]
      /\ by' = [s \in Sessions |-> [t \in Targets |-> IF by[s][t] = k THEN NoTicket ELSE by[s][t]]]
      /\ Releases(w) /\ Goto(w, r)
      /\ UNCHANGED <<parent, child, handle, cookie, node, up, losses>>
  BY DEF DeleteCommits, Ends
<1>5. /\ locked' \in [Rows -> Workers \cup {Nobody}]
      /\ \A v \in Workers, y \in Rows : v # w /\ locked[y] = v => locked'[y] = v
  BY <1>1, <1>4, ReleasesOwn
<1>6. r \in Tasks /\ r.op = "ending" /\ r.then \in Resumed
  <2>1. OpenMatching(task[w].todo) \in SUBSET Sessions
    BY <1>2 DEF Tasks, OpenMatching
  <2> QED
    BY <2>1, EndingIs DEF Resumed
<1> HIDE DEF r
<1>7. task' \in [Workers -> Tasks] /\ task'[w] = r /\ \A v \in Workers : v # w => task'[v] = task[v]
  BY <1>1, <1>4, <1>6, GotoIs DEF TypeOK, Goto
<1>8. /\ ticket' \in [Tickets -> {"valid", "due", "past", "deleted"}]
      /\ ticket'[k] = "deleted" /\ \A j \in Tickets : j # k => ticket'[j] = ticket[j]
  BY <1>1, <1>3, <1>4, TableTypes
<1>9. /\ by' \in [Sessions -> [Targets -> Tickets \cup {NoTicket}]]
      /\ \A a \in Sessions, b \in Targets : by'[a][b] = IF by[a][b] = k THEN NoTicket ELSE by[a][b]
  BY <1>1, <1>3, <1>4, TableTypes
<1> HIDE DEF k
<1>10. TypeOK'
  BY <1>1, <1>4, <1>5, <1>7, <1>8, <1>9, TableTypes
      DEF TypeOK, Ledger!LedgerTypeOK, Ledger!UserRows, Ledger!TargetRows, Ledger!TicketRows
<1>11. RowsOK'
  <2> SUFFICES ASSUME NEW a \in Sessions
               PROVE  /\ handle[a] # "none" => parent[a] # "unborn"
                      /\ \A b \in Targets :
                          /\ child[a][b] = "open" => parent[a] = "open"
                          /\ child[a][b] = "ended" => parent[a] \in {"ended", "deleted"}
                          /\ child[a][b] = "none" => by'[a][b] = NoTicket
                          /\ by'[a][b] # NoTicket => ticket'[by'[a][b]] # "deleted"
    BY <1>4 DEF RowsOK
  <2>1. \A b \in Targets : by[a][b] \in Tickets \cup {NoTicket}
    BY <1>1, TableTypes
  <2> QED
    BY <1>8, <1>9, <2>1 DEF Inv, RowsOK
<1>12. FieldsOK(r) /\ LockOK(w, r, locked', parent', ticket') /\ HandleOK(w, r, handle', parent', child')
  BY <1>6, IdleOK DEF Opening
<1>13. ASSUME NEW v \in Workers, v # w
       PROVE  /\ LockOK(v, task[v], locked', parent', ticket')
              /\ HandleOK(v, task[v], handle', parent', child')
  <2>1. /\ task[v] \in Tasks /\ FieldsOK(task[v]) /\ LockOK(v, task[v], locked, parent, ticket)
        /\ HandleOK(v, task[v], handle, parent, child)
    BY TaskFacts
  <2>2. LockOK(v, task[v], locked', parent, ticket)
    BY <1>5, <1>13, <2>1, LockKept
  <2>3. LockOK(v, task[v], locked', parent, ticket')
    <3>1. task[v].op = "openInsert" /\ task[v].k # NoTicket => task[v].k \in Tickets /\ task[v].k # k
      BY <1>3, <1>13, <2>1 DEF LockOK, Tasks
    <3>2. task[v].op \in {"deleteCollect", "deleteCommit"} => task[v].k \in Tickets
      BY <2>1 DEF FieldsOK
    <3> QED
      BY <1>8, <2>2, <3>1, <3>2 DEF LockOK
  <2> QED
    BY <1>4, <2>1, <2>3
<1>14. NobodyOverlooked'
  <2> SUFFICES ASSUME NEW v \in Workers, task'[v].op = "deleteCommit", NEW a \in Sessions,
                      NEW b \in Targets, child'[a][b] = "open", by'[a][b] = task'[v].k
               PROVE  a \in task'[v].todo
    BY DEF NobodyOverlooked, Admitted
  <2>1. v # w /\ task'[v] = task[v]
    BY <1>6, <1>7
  <2>2. task[v].k \in Tickets /\ task[v].k # NoTicket
    BY <2>1, TaskFacts DEF FieldsOK, ConstantsOK
  <2>3. child[a][b] = "open" /\ by[a][b] = task[v].k
    BY <1>4, <1>9, <2>1, <2>2
  <2> QED
    BY <2>1, <2>3 DEF Inv, NobodyOverlooked, Admitted
<1> QED
  BY <1>4, <1>6, <1>10, <1>11, <1>12, <1>13, <1>14, InvAfter

\* "a safety net that nothing needs": no ended session has an open target session.
LEMMA NetIsEmpty ==
    ASSUME Inv, NEW w \in Workers, EndChildren(w)
    PROVE  UNCHANGED child
<1>1. child \in [Sessions -> [Targets -> {"none", "open", "ended"}]]
  BY TableTypes DEF Inv
<1>2. \A s \in Sessions : parent[s] = "ended" => \A t \in Targets : child[s][t] # "open"
  BY DEF Inv, RowsOK
<1>3. ASSUME NEW s \in Sessions, parent[s] = "ended"
      PROVE  TargetsEnded(s)[s] = child[s]
  <2>1. TargetsEnded(s)[s] = [t \in Targets |-> IF child[s][t] = "open" THEN "ended" ELSE child[s][t]]
    BY <1>1 DEF TargetsEnded
  <2>2. [t \in Targets |-> IF child[s][t] = "open" THEN "ended" ELSE child[s][t]] = [t \in Targets |-> child[s][t]]
    BY <1>2, <1>3
  <2> QED
    BY <1>1, <2>1, <2>2
<1>4. child' = [s \in Sessions |-> IF parent[s] = "ended" THEN TargetsEnded(s)[s] ELSE child[s]]
  BY DEF EndChildren
<1>5. child' = [s \in Sessions |-> child[s]]
  BY <1>3, <1>4
<1> QED
  BY <1>1, <1>5

LEMMA KeepsEndChildren ==
    ASSUME ConstantsOK, Inv, NEW w \in Workers, EndChildren(w)
    PROVE  Inv'
<1> DEFINE r == [Idle EXCEPT !.op = "leave"]
<1>1. UNCHANGED <<tables, locked, handle, cookie, node, up, losses>>
  BY NetIsEmpty DEF EndChildren, tables
<1>2. Idle.op = "idle" /\ Idle.then = "idle"
  BY DEF Idle
<1>3. r \in Tasks /\ r.op = "leave" /\ r.then = "idle"
  BY DEF Idle, Tasks, Ops
<1>4. Goto(w, Idle) \/ Goto(w, r)
  BY DEF EndChildren
<1>5. node' \in [Nodes -> {"gone", "fresh", "late"}]
  BY <1>1, TableTypes DEF Inv
<1> HIDE DEF r
<1>6. CASE Goto(w, Idle)
  BY <1>1, <1>2, <1>5, <1>6, IdleIsTask, RestStep DEF Opening, Resumed
<1>7. CASE Goto(w, r)
  BY <1>1, <1>3, <1>5, <1>7, RestStep DEF Opening, Resumed
<1> QED
  BY <1>4, <1>6, <1>7

\* A node goes, with its tasks, their locks and its handles; what others hold stays.
LEMMA KeepsExits ==
    ASSUME ConstantsOK, Inv, NEW n \in Nodes, Exits(n),
           UNCHANGED <<parent, child, by, ticket, cookie, losses>>,
           node' \in [Nodes -> {"gone", "fresh", "late"}]
    PROVE  Inv'
<1>1. TypeOK
  BY DEF Inv
<1>2. /\ task' \in [Workers -> Tasks]
      /\ \A v \in Workers : IF At[v] = n THEN task'[v] = Idle ELSE task'[v] = task[v]
  BY <1>1, IdleIsTask, TableTypes DEF Exits
<1>3. /\ locked' \in [Rows -> Workers \cup {Nobody}]
      /\ \A v \in Workers, y \in Rows : At[v] # n /\ locked[y] = v => locked'[y] = v
  BY <1>1, TableTypes DEF Exits
<1>4. /\ handle' \in [Sessions -> {"none", "live", "provisional"}]
      /\ \A s \in Sessions : handle'[s] = IF Owner[s] = n THEN "none" ELSE handle[s]
      /\ up' \in [Nodes -> {"new", "up", "down"}]
  BY <1>1, TableTypes DEF Exits
<1>5. TypeOK'
  BY <1>1, <1>2, <1>3, <1>4, TableTypes
      DEF TypeOK, Ledger!LedgerTypeOK, Ledger!UserRows, Ledger!TargetRows, Ledger!TicketRows
<1>6. RowsOK'
  BY <1>4 DEF Inv, RowsOK
<1>7. Idle.op = "idle" /\ Idle.then = "idle"
  BY DEF Idle
<1>8. TasksOK'
  <2> SUFFICES ASSUME NEW v \in Workers
               PROVE  /\ FieldsOK(task'[v])
                      /\ LockOK(v, task'[v], locked', parent, ticket)
                      /\ HandleOK(v, task'[v], handle', parent, child)
    BY DEF TasksOK
  <2>1. CASE At[v] = n
    BY <1>2, <1>7, <2>1, IdleOK DEF Opening, Resumed
  <2>2. CASE At[v] # n
    <3>1. /\ task[v] \in Tasks /\ FieldsOK(task[v]) /\ LockOK(v, task[v], locked, parent, ticket)
          /\ HandleOK(v, task[v], handle, parent, child)
      BY TaskFacts
    <3>2. LockOK(v, task[v], locked', parent, ticket)
      BY <1>3, <2>2, <3>1, LockKept
    <3>3. HandleOK(v, task[v], handle', parent, child)
      BY <1>4, <2>2, <3>1 DEF HandleOK, FieldsOK, Opening
    <3> QED
      BY <1>2, <2>2, <3>1, <3>2, <3>3
  <2> QED
    BY <2>1, <2>2
<1>9. NobodyOverlooked'
  BY <1>2, <1>7 DEF Inv, NobodyOverlooked, Admitted
<1> QED
  BY <1>5, <1>6, <1>8, <1>9 DEF Inv

LEMMA KeepsLeave ==
    ASSUME ConstantsOK, Inv, NEW w \in Workers, Leave(w)
    PROVE  Inv'
<1>1. At[w] \in Nodes
  BY DEF ConstantsOK
<1>2. /\ node' \in [Nodes -> {"gone", "fresh", "late"}] /\ Exits(At[w])
      /\ UNCHANGED <<parent, child, by, ticket, cookie, losses>>
  BY TableTypes DEF Inv, Leave, tables
<1> QED
  BY <1>1, <1>2, KeepsExits

LEMMA KeepsCrash ==
    ASSUME ConstantsOK, Inv, NEW n \in Nodes, Crash(n)
    PROVE  Inv'
<1>1. /\ node' \in [Nodes -> {"gone", "fresh", "late"}] /\ Exits(n)
      /\ UNCHANGED <<parent, child, by, ticket, cookie, losses>>
  BY TableTypes DEF Inv, Crash, tables
<1> QED
  BY <1>1, KeepsExits

-----------------------------------------------------------------------------
(* The invariant holds.                                                    *)

LEMMA InitInv ==
    ASSUME ConstantsOK, Init
    PROVE  Inv
<1>1. Idle.op = "idle" /\ Idle.then = "idle" /\ Idle \in Tasks
  BY IdleIsTask DEF Idle
<1>2. \A w \in Workers : task[w] = Idle
  BY DEF Init
<1>3. TypeOK
  BY <1>1 DEF Init, TypeOK, Ledger!LedgerTypeOK, Ledger!UserRows, Ledger!TargetRows,
      Ledger!TicketRows, ConstantsOK, Rows
<1>4. RowsOK
  BY DEF Init, RowsOK
<1>5. TasksOK
  BY <1>1, <1>2, IdleOK DEF TasksOK, Opening, Resumed
<1>6. NobodyOverlooked
  BY <1>1, <1>2 DEF NobodyOverlooked
<1> QED
  BY <1>3, <1>4, <1>5, <1>6 DEF Inv

LEMMA StartsInv ==
    ASSUME ConstantsOK, Inv, NEW w \in Workers, Starts(w)
    PROVE  Inv'
<1>1. CASE Reap(w) \/ Shutdown(w) \/ SweepExpired(w)
  BY <1>1, KeepsReap, KeepsShutdown, KeepsSweepExpired
<1>2. ASSUME NEW s \in Sessions, Register(w, s) \/ DropHandle(w, s) \/ CleanTargets(w, s) \/ CleanParent(w, s)
      PROVE  Inv'
  BY <1>2, KeepsRegister, KeepsDropHandle, KeepsCleanTargets, KeepsCleanParent
<1>3. ASSUME NEW s \in Sessions, NEW t \in Targets, NEW k \in Tickets \cup {NoTicket}, BeginOpen(w, s, t, k)
      PROVE  Inv'
  BY <1>3, KeepsBeginOpen
<1>4. ASSUME NEW k \in Tickets, BeginDelete(w, k) PROVE Inv'
  BY <1>4, KeepsBeginDelete
<1>5. ASSUME NEW S \in SUBSET Sessions, Close(w, S) PROVE Inv'
  BY <1>5, KeepsClose
<1> QED
  BY <1>1, <1>2, <1>3, <1>4, <1>5 DEF Starts

LEMMA ProceedsInv ==
    ASSUME ConstantsOK, Inv, NEW w \in Workers, Proceeds(w)
    PROVE  Inv'
<1>1. CASE OpenLocksParent(w) \/ OpenLocksTicket(w) \/ OpenCommits(w)
  BY <1>1, KeepsOpenLocksParent, KeepsOpenLocksTicket, KeepsOpenCommits
<1>2. CASE EndLocks(w) \/ EndCommits(w) \/ EndDone(w)
  BY <1>2, KeepsEndLocks, KeepsEndCommits, KeepsEndDone
<1>3. CASE DiscardTargets(w) \/ DiscardParent(w)
  BY <1>3, KeepsDiscardTargets, KeepsDiscardParent
<1>4. CASE DeleteLocks(w) \/ DeleteCollects(w) \/ DeleteCommits(w)
  BY <1>4, KeepsDeleteLocks, KeepsDeleteCollects, KeepsDeleteCommits
<1>5. CASE ReapReadsLive(w) \/ ReapOwned(w) \/ ReapCookies(w) \/ EndChildren(w) \/ Leave(w)
  BY <1>5, KeepsReapReadsLive, KeepsReapOwned, KeepsReapCookies, KeepsEndChildren, KeepsLeave
<1> QED
  BY <1>1, <1>2, <1>3, <1>4, <1>5 DEF Proceeds

LEMMA NextInv ==
    ASSUME ConstantsOK, Inv, [Next]_vars
    PROVE  Inv'
<1>1. CASE UNCHANGED vars
  <2>1. TypeOK'
    BY <1>1 DEF Inv, TypeOK, Ledger!LedgerTypeOK, vars, tables
  <2>2. RowsOK' /\ TasksOK' /\ NobodyOverlooked'
    BY <1>1 DEF Inv, RowsOK, TasksOK, NobodyOverlooked, Admitted, vars, tables
  <2> QED
    BY <2>1, <2>2 DEF Inv
<1>2. ASSUME NEW w \in Workers, Starts(w) \/ Proceeds(w) \/ Fails(w) PROVE Inv'
  BY <1>2, StartsInv, ProceedsInv, KeepsFails
<1>3. ASSUME NEW s \in Sessions, Confirm(s) \/ SaveCookie(s) \/ Rotate(s) \/ GraceEnds(s) PROVE Inv'
  BY <1>3, KeepsConfirm, KeepsCookie
<1>4. ASSUME NEW k \in Tickets, TimePasses(k) PROVE Inv'
  BY <1>4, KeepsTimePasses
<1>5. ASSUME NEW n \in Nodes, Heartbeat(n) \/ FallsBehind(n) \/ Crash(n) PROVE Inv'
  BY <1>5, KeepsHeartbeat, KeepsCrash
<1> QED
  BY <1>1, <1>2, <1>3, <1>4, <1>5 DEF Next

LEMMA Invariance ==
    ASSUME ConstantsOK
    PROVE  Spec => []Inv
<1>1. Init => Inv
  BY InitInv
<1>2. Inv /\ [Next]_vars => Inv'
  BY NextInv
<1> QED
  BY <1>1, <1>2, PTL DEF Spec

-----------------------------------------------------------------------------
(* Every step is one step of the ledger, or none.                          *)

\* The statements that write the tables, one ledger operation each.
LEMMA OpenIsLedger ==
    ASSUME ConstantsOK, Inv, NEW w \in Workers, OpenCommits(w)
    PROVE  Ledger!LedgerNext
<1> DEFINE s == task[w].s
           t == task[w].t
           k == task[w].k
<1>1. task[w] \in Tasks /\ task[w].op = "openInsert" /\ FieldsOK(task[w]) /\ LockOK(w, task[w], locked, parent, ticket)
  BY TaskFacts DEF OpenCommits, Is
<1>2. /\ s \in Sessions /\ t \in Targets /\ k \in Tickets \cup {NoTicket} /\ parent[s] = "open"
      /\ k # NoTicket => ticket[k] # "deleted"
  BY <1>1 DEF FieldsOK, LockOK, Opening, Tasks
<1>3. Ledger!OpenTarget(s, t, k)
  BY <1>2 DEF OpenCommits, Ledger!OpenTarget, Ledger!OpenRow, Ledger!Admits
<1> HIDE DEF s, t, k
<1> QED
  BY <1>2, <1>3 DEF Ledger!LedgerNext

LEMMA EndIsLedger ==
    ASSUME ConstantsOK, Inv, NEW w \in Workers, EndCommits(w)
    PROVE  Ledger!LedgerNext
<1> DEFINE s == task[w].s
<1>1. task[w].op = "endLocked" /\ FieldsOK(task[w]) /\ LockOK(w, task[w], locked, parent, ticket)
  BY TaskFacts DEF EndCommits, Is
<1>2. s \in Sessions /\ parent[s] = "open"
  BY <1>1 DEF FieldsOK, LockOK
<1>3. Ledger!End(s)
  BY <1>2 DEF EndCommits, TargetsEnded, Ledger!End, Ledger!EndRow
<1> HIDE DEF s
<1> QED
  BY <1>2, <1>3 DEF Ledger!LedgerNext

LEMMA DiscardIsLedger ==
    ASSUME ConstantsOK, Inv, NEW w \in Workers, DiscardTargets(w) \/ DiscardParent(w)
    PROVE  Ledger!LedgerNext \/ UNCHANGED Ledger!ledger
<1> DEFINE s == task[w].s
<1>1. CASE DiscardTargets(w)
  <2>1. s \in Sessions
    BY <1>1, TaskFacts DEF DiscardTargets, Is, FieldsOK
  <2>2. Ledger!ForgetTargets(s)
    BY <1>1 DEF DiscardTargets, Ledger!ForgetTargets, Ledger!Forgets
  <2> HIDE DEF s
  <2> QED
    BY <2>1, <2>2 DEF Ledger!LedgerNext
<1>2. CASE DiscardParent(w)
  <2>1. task[w].op = "discardParent" /\ FieldsOK(task[w]) /\ HandleOK(w, task[w], handle, parent, child)
    BY <1>2, TaskFacts DEF DiscardParent, Is
  <2>2. s \in Sessions /\ parent[s] # "unborn" /\ \A t \in Targets : child[s][t] = "none"
    BY <2>1 DEF FieldsOK, HandleOK
  <2>3. parent \in [Sessions -> {"unborn", "open", "ended", "deleted"}]
    BY TableTypes DEF Inv
  <2>4. parent' = [parent EXCEPT ![s] = "deleted"] /\ UNCHANGED <<child, by, ticket>>
    BY <1>2 DEF DiscardParent
  <2> HIDE DEF s
  <2>5. CASE parent[s] = "deleted"
    <3>1. parent' = parent
      BY <2>2, <2>3, <2>4, <2>5
    <3> QED
      BY <2>4, <3>1 DEF Ledger!ledger
  <2>6. CASE parent[s] # "deleted"
    <3>1. Ledger!Forget(s)
      BY <2>2, <2>3, <2>4, <2>6 DEF Ledger!Forget
    <3> QED
      BY <2>2, <3>1 DEF Ledger!LedgerNext
  <2> QED
    BY <2>5, <2>6
<1> QED
  BY <1>1, <1>2

LEMMA DeleteIsLedger ==
    ASSUME ConstantsOK, Inv, NEW w \in Workers, DeleteCommits(w)
    PROVE  Ledger!LedgerNext \/ UNCHANGED Ledger!ledger
<1> DEFINE k == task[w].k
<1>1. k \in Tickets /\ k # NoTicket
  BY TaskFacts DEF DeleteCommits, Is, FieldsOK, ConstantsOK
<1>2. /\ ticket' = [ticket EXCEPT ![k] = "deleted"] /\ UNCHANGED <<parent, child>>
      /\ by' = [s \in Sessions |-> [t \in Targets |-> IF by[s][t] = k THEN NoTicket ELSE by[s][t]]]
  BY DEF DeleteCommits
<1> HIDE DEF k
<1>3. CASE ticket[k] = "deleted"
  <2>1. /\ by \in [Sessions -> [Targets -> Tickets \cup {NoTicket}]]
        /\ ticket \in [Tickets -> {"valid", "due", "past", "deleted"}]
    BY TableTypes DEF Inv
  <2>2. \A s \in Sessions, t \in Targets : by[s][t] # k
    BY <1>1, <1>3 DEF Inv, RowsOK
  <2>3. \A s \in Sessions : [t \in Targets |-> IF by[s][t] = k THEN NoTicket ELSE by[s][t]] = by[s]
    BY <2>1, <2>2
  <2>4. by' = by
    BY <1>2, <2>1, <2>3
  <2>5. ticket' = ticket
    BY <1>1, <1>2, <1>3, <2>1
  <2> QED
    BY <1>2, <2>4, <2>5 DEF Ledger!ledger
<1>4. CASE ticket[k] # "deleted"
  <2>1. Ledger!DeleteTicket(k)
    BY <1>2, <1>4 DEF Ledger!DeleteTicket, Ledger!TicketRow
  <2> QED
    BY <1>1, <2>1 DEF Ledger!LedgerNext
<1> QED
  BY <1>3, <1>4

LEMMA StartsLedger ==
    ASSUME ConstantsOK, Inv, NEW w \in Workers, Starts(w)
    PROVE  Ledger!LedgerNext \/ UNCHANGED Ledger!ledger
<1>1. CASE Reap(w) \/ Shutdown(w) \/ SweepExpired(w)
  BY <1>1 DEF Reap, Shutdown, SweepExpired, tables, Ledger!ledger
<1>2. ASSUME NEW s \in Sessions, Register(w, s) PROVE Ledger!LedgerNext
  <2>1. Ledger!Register(s)
    BY <1>2 DEF Register, Ledger!Register
  <2> QED
    BY <2>1 DEF Ledger!LedgerNext
<1>3. ASSUME NEW s \in Sessions, DropHandle(w, s) PROVE UNCHANGED Ledger!ledger
  BY <1>3 DEF DropHandle, tables, Ledger!ledger
<1>4. ASSUME NEW s \in Sessions, CleanTargets(w, s) PROVE Ledger!LedgerNext
  <2>1. UNCHANGED <<parent, ticket>>
    BY <1>4 DEF CleanTargets
  <2>2. Ledger!ForgetTargets(s)
    BY <1>4, <2>1, CleanIsForget DEF Ledger!ForgetTargets, Ledger!Forgets
  <2> QED
    BY <2>2 DEF Ledger!LedgerNext
<1>5. ASSUME NEW s \in Sessions, CleanParent(w, s) PROVE Ledger!LedgerNext
  <2>1. Ledger!Forget(s)
    BY <1>5 DEF CleanParent, Unreferenced, Ledger!Forget
  <2> QED
    BY <2>1 DEF Ledger!LedgerNext
<1>6. ASSUME NEW s \in Sessions, NEW t \in Targets, NEW k \in Tickets \cup {NoTicket}, BeginOpen(w, s, t, k)
      PROVE  UNCHANGED Ledger!ledger
  BY <1>6 DEF BeginOpen, tables, Ledger!ledger
<1>7. ASSUME NEW k \in Tickets, BeginDelete(w, k) PROVE UNCHANGED Ledger!ledger
  BY <1>7 DEF BeginDelete, tables, Ledger!ledger
<1>8. ASSUME NEW S \in SUBSET Sessions, Close(w, S) PROVE UNCHANGED Ledger!ledger
  BY <1>8 DEF Close, tables, Ledger!ledger
<1> QED
  BY <1>1, <1>2, <1>3, <1>4, <1>5, <1>6, <1>7, <1>8 DEF Starts

LEMMA ProceedsLedger ==
    ASSUME ConstantsOK, Inv, NEW w \in Workers, Proceeds(w)
    PROVE  Ledger!LedgerNext \/ UNCHANGED Ledger!ledger
<1>1. CASE OpenCommits(w) \/ EndCommits(w) \/ DiscardTargets(w) \/ DiscardParent(w) \/ DeleteCommits(w)
  BY <1>1, OpenIsLedger, EndIsLedger, DiscardIsLedger, DeleteIsLedger
<1>2. CASE OpenLocksParent(w) \/ OpenLocksTicket(w) \/ EndLocks(w) \/ EndDone(w)
  BY <1>2 DEF OpenLocksParent, OpenLocksTicket, EndLocks, EndDone, tables, Ledger!ledger
<1>3. CASE DeleteLocks(w) \/ DeleteCollects(w) \/ ReapReadsLive(w) \/ ReapOwned(w) \/ ReapCookies(w) \/ Leave(w)
  BY <1>3 DEF DeleteLocks, DeleteCollects, ReapReadsLive, ReapOwned, ReapCookies, Leave, tables, Ledger!ledger
<1>4. CASE EndChildren(w)
  BY <1>4, NetIsEmpty DEF EndChildren, Ledger!ledger
<1> QED
  BY <1>1, <1>2, <1>3, <1>4 DEF Proceeds

LEMMA NextLedger ==
    ASSUME ConstantsOK, Inv, [Next]_vars
    PROVE  [Ledger!LedgerNext]_(Ledger!ledger)
<1>1. CASE UNCHANGED vars
  BY <1>1 DEF vars, tables, Ledger!ledger
<1>2. ASSUME NEW w \in Workers, Starts(w) \/ Proceeds(w) \/ Fails(w)
      PROVE  Ledger!LedgerNext \/ UNCHANGED Ledger!ledger
  <2>1. CASE Fails(w)
    BY <2>1 DEF Fails, tables, Ledger!ledger
  <2> QED
    BY <1>2, <2>1, StartsLedger, ProceedsLedger
<1>3. ASSUME NEW s \in Sessions, Confirm(s) \/ SaveCookie(s) \/ Rotate(s) \/ GraceEnds(s)
      PROVE  UNCHANGED Ledger!ledger
  BY <1>3 DEF Confirm, SaveCookie, Rotate, GraceEnds, tables, Ledger!ledger
<1>4. ASSUME NEW k \in Tickets, TimePasses(k) PROVE Ledger!LedgerNext
  <2>1. Ledger!TimePasses(k)
    BY <1>4 DEF TimePasses, Ledger!TimePasses
  <2> QED
    BY <2>1 DEF Ledger!LedgerNext
<1>5. ASSUME NEW n \in Nodes, Heartbeat(n) \/ FallsBehind(n) \/ Crash(n) PROVE UNCHANGED Ledger!ledger
  BY <1>5 DEF Heartbeat, FallsBehind, Crash, tables, Ledger!ledger
<1> QED
  BY <1>1, <1>2, <1>3, <1>4, <1>5 DEF Next

-----------------------------------------------------------------------------
(* Theorems.                                                               *)

\* The state of the tables, the locks and the tasks is what TypeOK says.
THEOREM SessionsTypes ==
    ASSUME ConstantsOK
    PROVE  Spec => []TypeOK
<1>1. Inv => TypeOK
  BY DEF Inv
<1> QED
  BY <1>1, Invariance, PTL

\* No target access reads as open past its parent, whatever transactions, failures, deaths
\* and discards interleave: end_children_of_ended_parents never finds anything to do.
THEOREM NoneOutlivesItsParent ==
    ASSUME ConstantsOK
    PROVE  Spec => []WithinParent
<1>1. Inv => WithinParent
  BY DEF Inv, RowsOK, WithinParent, Ledger!WithinParent
<1> QED
  BY <1>1, Invariance, PTL

\* Deleting a ticket overlooks no session: between the collection and the commit of
\* delete_ticket_closing_sessions nobody is admitted by the ticket, for any number of
\* sessions, nodes and deletions at once.
THEOREM DeletionOverlooksNobody ==
    ASSUME ConstantsOK
    PROVE  Spec => []NobodyOverlooked
<1>1. Inv => NobodyOverlooked
  BY DEF Inv
<1> QED
  BY <1>1, Invariance, PTL

\* The transactions of the code, and its statements outside them, implement the ledger:
\* every step of every node is one operation of SessionLedger or leaves the tables alone.
THEOREM TransactionsImplementLedger ==
    ASSUME ConstantsOK
    PROVE  Spec => ImplementsLedger
<1>1. Init => Ledger!Init
  BY DEF Init, Ledger!Init
<1>2. Inv /\ [Next]_vars => [Ledger!LedgerNext]_(Ledger!ledger)
  BY NextLedger
<1> QED
  BY <1>1, <1>2, Invariance, PTL DEF Spec, ImplementsLedger, Ledger!LedgerSpec
===========================================================================
