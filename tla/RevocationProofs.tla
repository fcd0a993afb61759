-------------------------- MODULE RevocationProofs --------------------------
(***************************************************************************)
(* A revocation cannot be lost, for every number of sessions, users,       *)
(* targets, tickets, nodes, administrators, failures and lost posts, while *)
(* no node has died.                                                       *)
(***************************************************************************)
EXTENDS Revocation, TLAPS

-----------------------------------------------------------------------------
(* The inductive invariant.                                                *)

\* What a worker does, and what it goes on with.
Ops == {"idle", "take", "changes", "singles", "roles", "recheck", "judge", "revoke", "peers"}
Phases == {"idle", "take", "changes", "singles", "roles"}
Task == [op : Ops, phase : Phases, change : SUBSET Pairs, rows : SUBSET Sessions,
         ids : SUBSET Sessions, left : SUBSET Sessions,
         onError : {"report", "change", "closes", "chunk"}, admitted : SUBSET Sessions,
         changes : SUBSET SUBSET Pairs, closes : SUBSET Sessions]

\* A record of a task has something in a field only where the task comes back to it.
ShapeOK(x) ==
    /\ x.changes # {} => x.phase = "changes"
    /\ x.closes # {} => x.phase = "singles"
    /\ x.op \in {"changes", "singles"} => x.phase = x.op
    /\ x.op \in {"idle", "take", "roles"} => x.phase \notin {"changes", "singles"}
    /\ x.admitted # {} => x.op \in {"recheck", "judge", "revoke", "peers"}
    /\ x.ids # {} => x.op \in {"judge", "revoke", "peers"}
    /\ x.rows # {} => x.op = "judge"
    /\ x.left # {} => x.op = "revoke"
    /\ x.left \subseteq x.ids
    /\ x.op \in {"recheck", "judge"} => x.onError = "change"
    /\ x.op = "judge" => \A s \in x.rows \cup x.ids : Pair(s) \in x.change
    /\ x.op = "revoke" /\ x.onError = "change" => \A s \in x.ids : Pair(s) \in x.change
    /\ x.op = "revoke" /\ x.onError = "chunk" => x.phase = "roles" /\ x.admitted = {}

\* A task has s before it by id and comes back to it after a failure,
ByName(x, s) ==
    \/ s \in x.admitted \cup x.closes
    \/ s \in x.left /\ x.onError \in {"closes", "chunk"}

\* or has a change before it that s is part of.
ByChange(x, s) ==
    \/ x.op = "recheck" /\ Pair(s) \in x.change
    \/ s \in x.rows
    \/ x.op = "judge" /\ s \in x.ids
    \/ s \in x.left /\ x.onError = "change"
    \/ \E change \in x.changes : Pair(s) \in change

\* The judgement of a change is no help to a session that a ticket admitted.
Lists(x, s) == ByName(x, s) \/ (Card[s] = NoTicket /\ ByChange(x, s))

\* The sweep of node n will come to s.
Queued(n, s) ==
    \/ s \in closes[n]
    \/ Card[s] = NoTicket /\ \E change \in changes[n] : Pair(s) \in change
    \/ Card[s] = NoTicket /\ Pair(s) \in lapsed \ swept[n]

Sweeping == {At[w] : w \in Sweepers}

OnList(s) ==
    \/ \E w \in Workers : Lists(task[w], s)
    \/ \E n \in Sweeping : Queued(n, s)

\* What the rows say of the sessions that are to be ended.
RowsOK ==
    /\ \A s \in Sessions, t \in Targets : child[s][t] # "none" => t = Goal[s]
    /\ \A s \in Sessions, t \in Targets : child[s][t] = "open" => parent[s] = "open"
    /\ \A s \in owed : Open(s)
    /\ \A s \in Sessions : Open(s) =>
        by[s][Goal[s]] = Card[s] \/ (by[s][Goal[s]] = NoTicket /\ s \in owed)

\* What is known of the rights that are gone.
RightsOK ==
    /\ \A s \in owed : Card[s] = NoTicket => Pair(s) \notin access
    /\ lapsed \cap access = {}
    /\ \A n \in Nodes : swept[n] \subseteq lapsed

TasksOK == task \in [Workers -> Task] /\ \A w \in Workers : ShapeOK(task[w])

\* While no node has died, whoever is to be ended is on a list.
ListsOK == up = Nodes => \A s \in owed : OnList(s)

Inv == TypeOK /\ TasksOK /\ RowsOK /\ RightsOK /\ ListsOK

-----------------------------------------------------------------------------
(* Types.                                                                  *)

\* The fields of a task.
LEMMA TaskFields ==
    ASSUME NEW x \in Task
    PROVE  /\ x.op \in Ops /\ x.phase \in Phases /\ x.change \subseteq Pairs
           /\ x.rows \subseteq Sessions /\ x.ids \subseteq Sessions /\ x.left \subseteq Sessions
           /\ x.onError \in {"report", "change", "closes", "chunk"}
           /\ x.admitted \subseteq Sessions /\ x.closes \subseteq Sessions
           /\ x.changes \subseteq SUBSET Pairs
BY DEF Task

\* A worker at rest has nothing before it.
LEMMA IdleTask ==
    /\ Idle \in Task
    /\ Idle.op = "idle" /\ Idle.phase = "idle" /\ Idle.change = {} /\ Idle.rows = {}
    /\ Idle.ids = {} /\ Idle.left = {} /\ Idle.onError = "report" /\ Idle.admitted = {}
    /\ Idle.changes = {} /\ Idle.closes = {}
BY DEF Idle, Task, Ops, Phases

\* What Closing makes of a record.
LEMMA ClosingTask ==
    ASSUME NEW x \in Task, NEW ids \in SUBSET Sessions,
           NEW onError \in {"report", "change", "closes", "chunk"}
    PROVE  LET y == Closing(x, ids, onError) IN
           /\ y \in Task
           /\ y.op = "revoke" /\ y.ids = ids /\ y.left = ids /\ y.onError = onError
           /\ y.phase = x.phase /\ y.change = x.change /\ y.rows = x.rows
           /\ y.admitted = x.admitted /\ y.changes = x.changes /\ y.closes = x.closes
BY DEF Closing, Task, Ops

\* A record that has nothing before it but what it comes back to.
Fresh(x, phase, more, names) ==
    /\ x \in Task /\ x.phase = phase /\ x.changes = more /\ x.closes = names
    /\ x.change = {} /\ x.rows = {} /\ x.ids = {} /\ x.left = {} /\ x.admitted = {}

\* An idle record, with a phase to come back to, is one.
LEMMA FreshTask ==
    ASSUME NEW phase \in Phases, NEW more \in SUBSET SUBSET Pairs, NEW names \in SUBSET Sessions
    PROVE  Fresh([Idle EXCEPT !.phase = phase, !.changes = more, !.closes = names],
                 phase, more, names)
BY DEF Idle, Task, Ops, Phases, Fresh

\* What Admitting makes of it.
LEMMA AdmittingTask ==
    ASSUME NEW phase \in Phases, NEW more, NEW names, NEW x, Fresh(x, phase, more, names),
           more # {} => phase = "changes", names # {} => phase = "singles",
           NEW ids \in SUBSET Sessions
    PROVE  /\ Admitting(x, ids) \in Task /\ ShapeOK(Admitting(x, ids))
           /\ Admitting(x, ids).changes = more /\ Admitting(x, ids).closes = names
           /\ ids # {} => Admitting(x, ids).left = ids /\ Admitting(x, ids).onError = "closes"
<1> DEFINE y == Admitting(x, ids)
<1>2. CASE ids = {}
  <2>1. y = [x EXCEPT !.op = x.phase]
    BY <1>2 DEF Admitting
  <2>2. /\ y \in Task /\ y.op = phase /\ y.phase = phase /\ y.changes = more
        /\ y.closes = names /\ y.rows = {} /\ y.ids = {} /\ y.left = {} /\ y.admitted = {}
    <3> HIDE DEF y
    <3> QED
      BY <2>1 DEF Task, Ops, Phases, Fresh
  <2> HIDE DEF y
  <2>3. ShapeOK(y)
    BY <2>2 DEF ShapeOK, Phases
  <2> QED
    BY <1>2, <2>2, <2>3 DEF y
<1>3. CASE ids # {}
  <2> DEFINE z == [x EXCEPT !.admitted = {}]
  <2>1. Fresh(z, phase, more, names)
    BY DEF Fresh, Task
  <2>2. y = Closing(z, ids, "closes")
    BY <1>3 DEF Admitting
  <2> HIDE DEF z, y
  <2>3. /\ y \in Task /\ y.op = "revoke" /\ y.ids = ids /\ y.left = ids /\ y.onError = "closes"
        /\ y.phase = phase /\ y.rows = {} /\ y.admitted = {} /\ y.changes = more
        /\ y.closes = names
    BY <2>1, <2>2, ClosingTask DEF Fresh
  <2>4. ShapeOK(y)
    BY <2>3 DEF ShapeOK
  <2> QED
    BY <2>3, <2>4 DEF y
<1> QED
  BY <1>2, <1>3

\* A task that has closed its sessions, or could not, keeps the rest before it.
LEMMA ContinueTask ==
    ASSUME TasksOK, NEW w \in Workers
    PROVE  /\ Continue(w) \in Task /\ ShapeOK(Continue(w))
           /\ Continue(w).changes = task[w].changes /\ Continue(w).closes = task[w].closes
           /\ task[w].admitted # {} =>
                Continue(w).left = task[w].admitted /\ Continue(w).onError = "closes"
<1> DEFINE x == task[w]
           z == [Idle EXCEPT !.phase = x.phase, !.changes = x.changes, !.closes = x.closes]
<1>1. x \in Task /\ ShapeOK(x)
  BY DEF TasksOK
<1>2. /\ x.phase \in Phases /\ x.changes \in SUBSET SUBSET Pairs
      /\ x.closes \in SUBSET Sessions /\ x.admitted \in SUBSET Sessions
  BY <1>1, TaskFields
<1>3. (x.changes # {} => x.phase = "changes") /\ (x.closes # {} => x.phase = "singles")
  BY <1>1 DEF ShapeOK
<1>4. Fresh(z, x.phase, x.changes, x.closes)
  BY <1>2, FreshTask
<1>5. Continue(w) = Admitting(z, x.admitted)
  BY DEF Continue
<1> HIDE DEF x, z
<1> QED
  BY <1>2, <1>3, <1>4, <1>5, AdmittingTask DEF x

\* So whoever it has before it by name, or by a change it has not taken up, it still has.
LEMMA ContinueLists ==
    ASSUME TasksOK, NEW w \in Workers, NEW s \in Sessions
    PROVE  /\ s \in task[w].admitted \cup task[w].closes => Lists(Continue(w), s)
           /\ Card[s] = NoTicket /\ (\E change \in task[w].changes : Pair(s) \in change)
                => Lists(Continue(w), s)
BY ContinueTask DEF Lists, ByName, ByChange

-----------------------------------------------------------------------------
(* What a step has to respect.                                             *)

\* A worker goes on to y: whoever it had before it, it still has or has queued, and so
\* for whoever was queued or has just become one to be ended.
LEMMA TaskTo ==
    ASSUME ConstantsOK, TasksOK, ListsOK, NEW w \in Workers, NEW y \in Task, ShapeOK(y),
           Goto(w, y), up' = up,
           \A s \in owed' \cap owed : Lists(task[w], s)
                => Lists(y, s) \/ \E n \in Sweeping : Queued(n, s)',
           \A s \in owed' \cap owed, n \in Sweeping : Queued(n, s) => Lists(y, s) \/ Queued(n, s)',
           \A s \in owed' \ owed : Lists(y, s) \/ \E n \in Sweeping : Queued(n, s)'
    PROVE  TasksOK' /\ ListsOK'
<1>1. task' = [task EXCEPT ![w] = y] /\ task \in [Workers -> Task]
  BY DEF Goto, TasksOK
<1>2. TasksOK'
  BY <1>1 DEF TasksOK
<1>3. task'[w] = y /\ \A v \in Workers \ {w} : task'[v] = task[v]
  BY <1>1
<1>4. Sweeping' = Sweeping
  BY DEF Sweeping
<1>5. ASSUME up' = Nodes, NEW s \in owed' PROVE OnList(s)'
  <2>1. CASE s \notin owed
    BY <1>3, <1>4, <2>1 DEF OnList
  <2>2. CASE s \in owed
    <3>1. OnList(s)
      BY <1>5, <2>2 DEF ListsOK
    <3>2. CASE \E n \in Sweeping : Queued(n, s)
      BY <1>3, <1>4, <2>2, <3>2 DEF OnList
    <3>3. CASE \E v \in Workers \ {w} : Lists(task[v], s)
      BY <1>3, <3>3 DEF OnList
    <3>4. CASE Lists(task[w], s)
      BY <1>3, <1>4, <2>2, <3>4 DEF OnList
    <3> QED
      BY <3>1, <3>2, <3>3, <3>4 DEF OnList
  <2> QED
    BY <2>1, <2>2
<1> QED
  BY <1>2, <1>5 DEF ListsOK

\* Rows and rights that nobody touches.
LEMMA QuietRows ==
    ASSUME RowsOK, RightsOK, UNCHANGED <<ledger, roles, owed>>,
           \A n \in Nodes : swept'[n] \subseteq lapsed
    PROVE  RowsOK' /\ RightsOK'
BY DEF RowsOK, RightsOK, Open, ledger, roles

\* A step of a worker that touches neither.
LEMMA WorkerStep ==
    ASSUME ConstantsOK, Inv, NEW w \in Workers, NEW y \in Task, ShapeOK(y), Goto(w, y),
           UNCHANGED <<ledger, roles, up, owed>>,
           swept' \in [Nodes -> SUBSET Pairs], \A n \in Nodes : swept'[n] \subseteq lapsed,
           conn' \in [Sessions -> {"none", "login", "authorised", "live", "closing", "gone"}],
           changes' \in [Nodes -> SUBSET SUBSET Pairs], closes' \in [Nodes -> SUBSET Sessions],
           \A s \in owed : Lists(task[w], s) => Lists(y, s) \/ \E n \in Sweeping : Queued(n, s)',
           \A s \in owed, n \in Sweeping : Queued(n, s) => Lists(y, s) \/ Queued(n, s)'
    PROVE  Inv'
<1>1. TypeOK'
  BY DEF Inv, TypeOK, LedgerTypeOK, ledger, roles
<1>2. RowsOK' /\ RightsOK'
  BY QuietRows DEF Inv
<1>3. TasksOK' /\ ListsOK'
  BY TaskTo DEF Inv
<1> QED
  BY <1>1, <1>2, <1>3 DEF Inv

\* One that touches no queue either.
LEMMA QuietStep ==
    ASSUME ConstantsOK, Inv, NEW w \in Workers, NEW y \in Task, ShapeOK(y), Goto(w, y),
           UNCHANGED <<ledger, roles, swept, queues, up, owed>>,
           conn' \in [Sessions -> {"none", "login", "authorised", "live", "closing", "gone"}],
           \A s \in owed : Lists(task[w], s) => Lists(y, s)
    PROVE  Inv'
<1>1. \A n, s : Queued(n, s)' <=> Queued(n, s)
  BY DEF Queued, roles, queues
<1>2. /\ swept' \in [Nodes -> SUBSET Pairs] /\ \A n \in Nodes : swept'[n] \subseteq lapsed
      /\ changes' \in [Nodes -> SUBSET SUBSET Pairs] /\ closes' \in [Nodes -> SUBSET Sessions]
  BY DEF Inv, TypeOK, RightsOK, queues
<1> QED
  BY <1>1, <1>2, WorkerStep

\* Whom a task has before it, by what it does.
LEMMA ListsByOp ==
    ASSUME NEW x, ShapeOK(x), NEW s, Lists(x, s)
    PROVE  /\ x.op \notin {"idle", "take", "roles"}
           /\ x.op = "changes" => Card[s] = NoTicket /\ \E change \in x.changes : Pair(s) \in change
           /\ x.op = "singles" => s \in x.closes
           /\ x.op = "peers" \/ (x.op = "revoke" /\ x.left = {}) =>
                \/ s \in x.admitted \cup x.closes
                \/ Card[s] = NoTicket /\ \E change \in x.changes : Pair(s) \in change
BY DEF ShapeOK, Lists, ByName, ByChange

\* The task of a worker, and what is known of it.
LEMMA TaskKnown ==
    ASSUME Inv, NEW w \in Workers
    PROVE  /\ task[w] \in Task /\ ShapeOK(task[w]) /\ owed \subseteq Sessions
           /\ conn \in [Sessions -> {"none", "login", "authorised", "live", "closing", "gone"}]
BY DEF Inv, TasksOK, TypeOK

-----------------------------------------------------------------------------
(* Closing sessions.                                                       *)

\* An administrator's close is promised to nobody.
LEMMA AdminCloses ==
    ASSUME ConstantsOK, Inv, NEW w \in Workers, NEW s \in Sessions, AdminClose(w, {s})
    PROVE  Inv'
<1> DEFINE y == Closing(Idle, {s}, "report")
<1>1. /\ y \in Task /\ y.op = "revoke" /\ y.ids = {s} /\ y.left = {s} /\ y.onError = "report"
      /\ y.rows = {} /\ y.admitted = {} /\ y.changes = {} /\ y.closes = {}
  BY IdleTask, ClosingTask
<1>2. /\ task[w].op = "idle" /\ Goto(w, y) /\ conn' = conn
      /\ UNCHANGED <<ledger, roles, swept, queues, up, owed>>
  BY DEF AdminClose, Is
<1> HIDE DEF y
<1>3. ShapeOK(y)
  BY <1>1 DEF ShapeOK
<1>4. \A r \in owed : ~Lists(task[w], r)
  BY <1>2, TaskKnown, ListsByOp
<1> QED
  BY <1>1, <1>2, <1>3, <1>4, TaskKnown, QuietStep

\* Telling the local sessions leaves the rest of the task before it,
LEMMA LocalCloses ==
    ASSUME ConstantsOK, Inv, NEW w \in Workers, CloseLocal(w)
    PROVE  Inv'
<1> DEFINE x == task[w]
           y == [x EXCEPT !.op = "peers"]
<1>0. x \in Task /\ ShapeOK(x)
  BY TaskKnown
<1>1. /\ x.op = "revoke" /\ x.left = {} /\ Goto(w, y)
      /\ UNCHANGED <<ledger, roles, swept, queues, up, owed>>
  BY DEF CloseLocal, Is
<1>2. conn' \in [Sessions -> {"none", "login", "authorised", "live", "closing", "gone"}]
  BY TaskKnown DEF CloseLocal, Told
<1>3. /\ y \in Task /\ y.op = "peers" /\ y.phase = x.phase /\ y.rows = x.rows /\ y.ids = x.ids
      /\ y.left = {} /\ y.admitted = x.admitted /\ y.changes = x.changes /\ y.closes = x.closes
  BY <1>0, <1>1 DEF Task, Ops
<1> HIDE DEF x, y
<1>4. ShapeOK(y)
  BY <1>0, <1>1, <1>3 DEF ShapeOK
<1>5. \A s \in owed : Lists(x, s) => Lists(y, s)
  BY <1>0, <1>1, <1>3, ListsByOp DEF Lists, ByName, ByChange
<1> QED
  BY <1>1, <1>2, <1>3, <1>4, <1>5, QuietStep DEF x

\* and so does telling the other nodes.
LEMMA PeersClose ==
    ASSUME ConstantsOK, Inv, NEW w \in Workers, ClosePeers(w)
    PROVE  Inv'
<1>1. /\ task[w].op = "peers" /\ Goto(w, Continue(w))
      /\ UNCHANGED <<ledger, roles, swept, queues, up, owed>>
  BY DEF ClosePeers, Is
<1>2. conn' \in [Sessions -> {"none", "login", "authorised", "live", "closing", "gone"}]
  BY TaskKnown DEF ClosePeers, Told
<1>3. \A s \in owed : Lists(task[w], s) => Lists(Continue(w), s)
  BY <1>1, TaskKnown, ListsByOp, ContinueLists DEF Inv
<1> QED
  BY <1>1, <1>2, <1>3, ContinueTask, QuietStep DEF Inv

-----------------------------------------------------------------------------
(* Judging a change.                                                       *)

\* The select of a re-check finds every session that is owed an end by its change,
LEMMA Selects ==
    ASSUME ConstantsOK, Inv, NEW w \in Workers, Select(w)
    PROVE  Inv'
<1> DEFINE x == task[w]
           rows == Affected(x.change)
           y == [x EXCEPT !.op = "judge", !.rows = rows]
<1>0. x \in Task /\ ShapeOK(x) /\ owed \subseteq Sessions
  BY TaskKnown
<1>1. /\ x.op = "recheck" /\ Goto(w, y) /\ conn' = conn
      /\ UNCHANGED <<ledger, roles, swept, queues, up, owed>>
  BY DEF Select, Is
<1>2. rows \subseteq Sessions /\ \A s \in rows : Pair(s) \in x.change
  BY DEF Affected
<1>3. \A s \in owed : Card[s] = NoTicket /\ Pair(s) \in x.change => s \in rows
  BY <1>0 DEF Inv, RowsOK, Affected
<1> HIDE DEF rows
<1>4. /\ y \in Task /\ y.op = "judge" /\ y.phase = x.phase /\ y.rows = rows /\ y.ids = x.ids
      /\ y.left = x.left /\ y.admitted = x.admitted /\ y.changes = x.changes
      /\ y.closes = x.closes /\ y.onError = x.onError /\ y.change = x.change
  BY <1>0, <1>2 DEF Task, Ops
<1> HIDE DEF x, y
<1>5. ShapeOK(y)
  BY <1>0, <1>1, <1>2, <1>4 DEF ShapeOK
<1>6. \A s \in owed : Lists(x, s) => Lists(y, s)
  BY <1>0, <1>1, <1>3, <1>4 DEF Lists, ByName, ByChange, ShapeOK
<1> QED
  BY <1>1, <1>4, <1>5, <1>6, TaskKnown, QuietStep DEF x

\* no verdict lets one of them go,
LEMMA Judges ==
    ASSUME ConstantsOK, Inv, NEW w \in Workers, Judge(w)
    PROVE  Inv'
<1> DEFINE x == task[w]
<1>0. x \in Task /\ ShapeOK(x) /\ owed \subseteq Sessions
  BY TaskKnown
<1>1. /\ x.op = "judge" /\ conn' = conn
      /\ UNCHANGED <<ledger, roles, swept, queues, up, owed>>
  BY DEF Judge, Is
<1>2. PICK pair \in {Pair(s) : s \in x.rows}, fails \in {FALSE, failures < Failures} :
        Goto(w, [x EXCEPT !.rows = @ \ {s \in x.rows : Pair(s) = pair},
                          !.ids = IF pair \in access /\ ~fails THEN @
                                  ELSE @ \cup {s \in x.rows : Pair(s) = pair}])
  BY DEF Judge
<1> DEFINE those == {s \in x.rows : Pair(s) = pair}
           rows == x.rows \ those
           ids == IF pair \in access /\ ~fails THEN x.ids ELSE x.ids \cup those
           y == [x EXCEPT !.rows = rows, !.ids = ids]
<1>3. Goto(w, y)
  BY <1>2
<1>4. /\ rows \subseteq x.rows /\ ids \subseteq x.ids \cup x.rows /\ x.ids \subseteq ids
      /\ \A s \in x.rows : Pair(s) \notin access => s \in rows \cup ids
  OBVIOUS
<1> HIDE DEF rows, ids
<1>5. /\ y \in Task /\ y.op = x.op /\ y.phase = x.phase /\ y.rows = rows /\ y.ids = ids
      /\ y.left = x.left /\ y.admitted = x.admitted /\ y.changes = x.changes
      /\ y.closes = x.closes /\ y.onError = x.onError /\ y.change = x.change
  BY <1>0, <1>4 DEF Task
<1> HIDE DEF x, y
<1>6. ShapeOK(y)
  BY <1>0, <1>1, <1>4, <1>5 DEF ShapeOK
<1>7. \A s \in owed : Card[s] = NoTicket => Pair(s) \notin access
  BY DEF Inv, RightsOK
<1>8. \A s \in owed : Lists(x, s) => Lists(y, s)
  BY <1>1, <1>4, <1>5, <1>7 DEF Lists, ByName, ByChange
<1> QED
  BY <1>1, <1>3, <1>5, <1>6, <1>8, TaskKnown, QuietStep DEF x

\* and the judged ones are revoked.
LEMMA JudgedOnes ==
    ASSUME ConstantsOK, Inv, NEW w \in Workers, Judged(w)
    PROVE  Inv'
<1> DEFINE x == task[w]
           y == Closing(x, x.ids, "change")
<1>0. x \in Task /\ ShapeOK(x) /\ owed \subseteq Sessions
  BY TaskKnown
<1>1. /\ x.op = "judge" /\ x.rows = {} /\ conn' = conn
      /\ UNCHANGED <<ledger, roles, swept, queues, up, owed>>
  BY DEF Judged, Is
<1>2. CASE x.ids = {}
  <2>1. Goto(w, Continue(w))
    BY <1>2 DEF Judged
  <2>2. \A s \in owed : Lists(x, s) => Lists(Continue(w), s)
    <3>1. x.left = {}
      BY <1>0, <1>1 DEF ShapeOK
    <3> QED
      BY <1>0, <1>1, <1>2, <3>1, ContinueLists DEF Inv, Lists, ByName, ByChange
  <2> QED
    BY <1>1, <2>1, <2>2, TaskKnown, ContinueTask, QuietStep DEF Inv
<1>3. CASE x.ids # {}
  <2>1. Goto(w, y)
    BY <1>3 DEF Judged
  <2>2. x.ids \in SUBSET Sessions
    BY <1>0, TaskFields
  <2>3. /\ y \in Task
        /\ y.op = "revoke" /\ y.ids = x.ids /\ y.left = x.ids /\ y.onError = "change"
        /\ y.phase = x.phase /\ y.change = x.change /\ y.rows = x.rows
        /\ y.admitted = x.admitted /\ y.changes = x.changes /\ y.closes = x.closes
    BY <1>0, <2>2, ClosingTask
  <2> HIDE DEF x, y
  <2>4. ShapeOK(y)
    BY <1>0, <1>1, <2>3 DEF ShapeOK
  <2>5. \A s \in owed : Lists(x, s) => Lists(y, s)
    BY <1>0, <1>1, <2>3 DEF Lists, ByName, ByChange, ShapeOK
  <2> QED
    BY <1>1, <2>1, <2>3, <2>4, <2>5, TaskKnown, QuietStep DEF x
<1> QED
  BY <1>2, <1>3

-----------------------------------------------------------------------------
(* The sweep, and failures.                                                *)

\* The sweep of expired tickets begins one's round.
LEMMA TicketSweeps ==
    ASSUME ConstantsOK, Inv, NEW w \in Workers, SweepTickets(w)
    PROVE  Inv'
<1> DEFINE z == [Idle EXCEPT !.phase = "take"]
<1>1. /\ task[w].op = "idle" /\ conn' = conn
      /\ UNCHANGED <<ledger, roles, swept, queues, up, owed>>
  BY DEF SweepTickets, Is
<1>2. PICK ids \in {{}, AdmittedBy(Expired)} : Goto(w, Admitting(z, ids))
  BY DEF SweepTickets
<1>3. ids \in SUBSET Sessions
  BY DEF AdmittedBy
<1>4. Fresh(z, "take", {}, {})
  BY DEF Fresh, Idle, Task, Ops, Phases
<1> HIDE DEF z
<1>5. Admitting(z, ids) \in Task /\ ShapeOK(Admitting(z, ids))
  BY <1>3, <1>4, AdmittingTask DEF Phases
<1>6. \A r \in owed : ~Lists(task[w], r)
  BY <1>1, TaskKnown, ListsByOp
<1> QED
  BY <1>1, <1>2, <1>5, <1>6, TaskKnown, QuietStep

\* The changes that were queued are before the sweep now,
LEMMA ChangesTaken ==
    ASSUME ConstantsOK, Inv, NEW w \in Workers, TakeChanges(w)
    PROVE  Inv'
<1> DEFINE n == At[w]
           more == changes[n]
           y == [Idle EXCEPT !.op = "changes", !.phase = "changes", !.changes = more]
<1>1. /\ task[w].op = "take" /\ conn' = conn /\ Goto(w, y)
      /\ changes' = [changes EXCEPT ![n] = {}]
      /\ UNCHANGED <<ledger, roles, swept, closes, up, owed>>
  BY DEF TakeChanges, Is
<1>2. n \in Nodes /\ more \in SUBSET SUBSET Pairs /\ changes \in [Nodes -> SUBSET SUBSET Pairs]
  BY DEF ConstantsOK, Inv, TypeOK
<1> HIDE DEF more
<1>3. /\ y \in Task /\ y.op = "changes" /\ y.phase = "changes" /\ y.changes = more
      /\ y.rows = {} /\ y.ids = {} /\ y.left = {} /\ y.admitted = {} /\ y.closes = {}
  BY <1>2 DEF Idle, Task, Ops, Phases
<1> HIDE DEF y
<1>4. ShapeOK(y)
  BY <1>3 DEF ShapeOK
<1>5. \A r \in owed : ~Lists(task[w], r)
  BY <1>1, TaskKnown, ListsByOp
<1>6. ASSUME NEW s \in owed, NEW m \in Sweeping, Queued(m, s) PROVE Lists(y, s) \/ Queued(m, s)'
  <2>1. m \in Nodes
    BY DEF Sweeping, ConstantsOK, Workers
  <2>2. CASE m = n
    BY <1>1, <1>3, <1>6, <2>2 DEF Queued, Lists, ByChange, roles, more
  <2>3. CASE m # n
    BY <1>1, <1>2, <1>6, <2>1, <2>3 DEF Queued, roles
  <2> QED
    BY <2>2, <2>3
<1>7. changes' \in [Nodes -> SUBSET SUBSET Pairs]
  BY <1>1, <1>2
<1> QED
  BY <1>1, <1>3, <1>4, <1>5, <1>6, <1>7, TaskKnown, WorkerStep DEF Inv, TypeOK, RightsOK

\* and one after the other is judged again.
LEMMA ChangesRetried ==
    ASSUME ConstantsOK, Inv, NEW w \in Workers, RetryChange(w)
    PROVE  Inv'
<1> DEFINE x == task[w]
<1>0. x \in Task /\ ShapeOK(x)
  BY TaskKnown
<1>1. /\ x.op = "changes" /\ conn' = conn
      /\ UNCHANGED <<ledger, roles, swept, queues, up, owed>>
  BY DEF RetryChange, Is
<1>2. PICK change \in x.changes :
        Goto(w, [x EXCEPT !.op = "recheck", !.change = change, !.onError = "change",
                          !.changes = @ \ {change}])
  BY DEF RetryChange
<1> DEFINE rest == x.changes \ {change}
           y == [x EXCEPT !.op = "recheck", !.change = change, !.onError = "change",
                          !.changes = rest]
<1>3. Goto(w, y)
  BY <1>2
<1>4. change \subseteq Pairs /\ rest \in SUBSET SUBSET Pairs
  BY <1>0, TaskFields
<1>5. x.changes = rest \cup {change}
  OBVIOUS
<1> HIDE DEF rest
<1>6. /\ y \in Task /\ y.op = "recheck" /\ y.phase = x.phase /\ y.rows = x.rows /\ y.ids = x.ids
      /\ y.left = x.left /\ y.admitted = x.admitted /\ y.changes = rest
      /\ y.closes = x.closes /\ y.onError = "change" /\ y.change = change
  BY <1>0, <1>4 DEF Task, Ops
<1> HIDE DEF x, y
<1>7. ShapeOK(y)
  BY <1>0, <1>1, <1>5, <1>6 DEF ShapeOK
<1>8. \A s \in owed : Lists(x, s) => Lists(y, s)
  BY <1>0, <1>1, <1>5, <1>6, ListsByOp DEF Lists, ByName, ByChange
<1> QED
  BY <1>1, <1>3, <1>6, <1>7, <1>8, TaskKnown, QuietStep DEF x

\* The closes that were queued are tried as one,
LEMMA ClosesTaken ==
    ASSUME ConstantsOK, Inv, NEW w \in Workers, TakeCloses(w)
    PROVE  Inv'
<1> DEFINE n == At[w]
           ids == closes[n]
           z == [Idle EXCEPT !.phase = "roles"]
           y == IF ids = {} THEN [Idle EXCEPT !.op = "roles"] ELSE Closing(z, ids, "chunk")
<1>1. /\ task[w].op = "changes" /\ task[w].changes = {} /\ conn' = conn /\ Goto(w, y)
      /\ closes' = [closes EXCEPT ![n] = {}]
      /\ UNCHANGED <<ledger, roles, swept, changes, up, owed>>
  BY DEF TakeCloses, Is
<1>2. n \in Nodes /\ ids \in SUBSET Sessions /\ closes \in [Nodes -> SUBSET Sessions]
  BY DEF ConstantsOK, Inv, TypeOK
<1>z. /\ z \in Task /\ z.phase = "roles" /\ z.change = {} /\ z.rows = {}
      /\ z.admitted = {} /\ z.changes = {} /\ z.closes = {}
  BY DEF Idle, Task, Ops, Phases
<1> HIDE DEF ids, z
<1>3. y \in Task /\ ShapeOK(y) /\ (ids # {} => y.left = ids /\ y.onError = "chunk")
  <2>1. CASE ids = {}
    <3>1. y = [Idle EXCEPT !.op = "roles"]
      BY <2>1
    <3>2. /\ y \in Task /\ y.op = "roles" /\ y.phase = "idle" /\ y.changes = {}
          /\ y.rows = {} /\ y.ids = {} /\ y.left = {} /\ y.admitted = {} /\ y.closes = {}
      BY <3>1 DEF Idle, Task, Ops, Phases
    <3> HIDE DEF y
    <3> QED
      BY <2>1, <3>2 DEF ShapeOK
  <2>2. CASE ids # {}
    <3>1. y = Closing(z, ids, "chunk")
      BY <2>2
    <3> HIDE DEF y
    <3>2. /\ y \in Task /\ y.op = "revoke" /\ y.ids = ids /\ y.left = ids /\ y.onError = "chunk"
          /\ y.phase = "roles" /\ y.rows = {} /\ y.admitted = {} /\ y.changes = {}
          /\ y.closes = {}
      BY <1>2, <1>z, <3>1, ClosingTask
    <3> QED
      BY <3>2 DEF ShapeOK
  <2> QED
    BY <2>1, <2>2
<1> HIDE DEF y
<1>5. \A r \in owed : ~Lists(task[w], r)
  BY <1>1, TaskKnown, ListsByOp
<1>6. ASSUME NEW s \in owed, NEW m \in Sweeping, Queued(m, s) PROVE Lists(y, s) \/ Queued(m, s)'
  <2>1. m \in Nodes
    BY DEF Sweeping, ConstantsOK, Workers
  <2>2. CASE m = n
    BY <1>1, <1>3, <1>6, <2>2 DEF Queued, Lists, ByName, roles, ids
  <2>3. CASE m # n
    BY <1>1, <1>2, <1>6, <2>1, <2>3 DEF Queued, roles
  <2> QED
    BY <2>2, <2>3
<1>7. closes' \in [Nodes -> SUBSET Sessions]
  BY <1>1, <1>2
<1> QED
  BY <1>1, <1>3, <1>5, <1>6, <1>7, TaskKnown, WorkerStep DEF Inv, TypeOK, RightsOK

\* then one by one.
LEMMA ClosesRetried ==
    ASSUME ConstantsOK, Inv, NEW w \in Workers, RetryClose(w)
    PROVE  Inv'
<1> DEFINE x == task[w]
<1>0. x \in Task /\ ShapeOK(x)
  BY TaskKnown
<1>1. /\ x.op = "singles" /\ conn' = conn
      /\ UNCHANGED <<ledger, roles, swept, queues, up, owed>>
  BY DEF RetryClose, Is
<1>2. CASE x.closes = {} /\ Goto(w, [Idle EXCEPT !.op = "roles"])
  <2> DEFINE y == [Idle EXCEPT !.op = "roles"]
  <2>1. /\ y \in Task /\ y.op = "roles" /\ y.phase = "idle" /\ y.changes = {}
        /\ y.rows = {} /\ y.ids = {} /\ y.left = {} /\ y.admitted = {} /\ y.closes = {}
    BY DEF Idle, Task, Ops, Phases
  <2>2. Goto(w, y)
    BY <1>2
  <2> HIDE DEF x, y
  <2>3. ShapeOK(y)
    BY <2>1 DEF ShapeOK
  <2>4. \A s \in owed : ~Lists(x, s)
    BY <1>0, <1>1, <1>2, ListsByOp
  <2> QED
    BY <1>1, <2>1, <2>2, <2>3, <2>4, TaskKnown, QuietStep DEF x
<1>3. ASSUME NEW s \in x.closes,
             Goto(w, Closing([x EXCEPT !.closes = @ \ {s}], {s}, "closes"))
      PROVE  Inv'
  <2> DEFINE rest == x.closes \ {s}
             z == [x EXCEPT !.closes = rest]
             y == Closing(z, {s}, "closes")
  <2>1. Goto(w, y)
    BY <1>3
  <2>2. rest \in SUBSET Sessions /\ {s} \in SUBSET Sessions /\ x.closes = rest \cup {s}
    BY <1>0, TaskFields
  <2> HIDE DEF rest
  <2>3. /\ z \in Task /\ z.closes = rest /\ z.phase = x.phase /\ z.rows = x.rows
        /\ z.admitted = x.admitted /\ z.changes = x.changes
    BY <1>0, <2>2 DEF Task
  <2> HIDE DEF z
  <2>4. /\ y \in Task /\ y.op = "revoke" /\ y.ids = {s} /\ y.left = {s} /\ y.onError = "closes"
        /\ y.phase = x.phase /\ y.rows = x.rows /\ y.admitted = x.admitted
        /\ y.changes = x.changes /\ y.closes = rest
    BY <2>2, <2>3, ClosingTask
  <2> HIDE DEF x, y
  <2>5. ShapeOK(y)
    BY <1>0, <1>1, <2>2, <2>4 DEF ShapeOK
  <2>6. \A r \in owed : Lists(x, r) => Lists(y, r)
    BY <1>0, <1>1, <2>2, <2>4, ListsByOp DEF Lists, ByName
  <2> QED
    BY <1>1, <2>1, <2>4, <2>5, <2>6, TaskKnown, QuietStep DEF x
<1> QED
  BY <1>2, <1>3 DEF RetryClose

\* An expiry that the sweep has marked is before it.
LEMMA RoleSweeps ==
    ASSUME ConstantsOK, Inv, NEW w \in Workers, SweepRoles(w)
    PROVE  Inv'
<1> DEFINE n == At[w]
           users == {pair[1] : pair \in lapsed \ swept[n]}
           change == users \X Targets
           z == [Idle EXCEPT !.op = "recheck", !.change = change, !.onError = "change"]
<1>1. /\ task[w].op = "roles" /\ conn' = conn
      /\ UNCHANGED <<ledger, roles, queues, up, owed>>
  BY DEF SweepRoles, Is
<1>2. PICK fails \in {FALSE, failures < Failures} :
        /\ swept' = [swept EXCEPT ![n] = Mark(fails, @)]
        /\ Goto(w, IF fails \/ users = {} THEN Idle ELSE z)
  BY DEF SweepRoles
<1>3. /\ n \in Nodes /\ swept \in [Nodes -> SUBSET Pairs] /\ lapsed \subseteq Pairs
      /\ \A m \in Nodes : swept[m] \subseteq lapsed
  BY DEF ConstantsOK, Inv, TypeOK, RightsOK
<1>4. change \subseteq Pairs
  BY <1>3 DEF Pairs
<1>5. \A s \in Sessions : Pair(s) \in lapsed \ swept[n] => users # {} /\ Pair(s) \in change
  BY DEF Pair, ConstantsOK
<1> HIDE DEF change
<1>6. /\ z \in Task /\ z.op = "recheck" /\ z.phase = "idle" /\ z.changes = {} /\ z.closes = {}
      /\ z.rows = {} /\ z.ids = {} /\ z.left = {} /\ z.admitted = {}
      /\ z.onError = "change" /\ z.change = change
  BY <1>4 DEF Idle, Task, Ops, Phases
<1> HIDE DEF users, z
<1>7. ShapeOK(z) /\ ShapeOK(Idle)
  BY <1>6, IdleTask DEF ShapeOK
<1>8. \A r \in owed : ~Lists(task[w], r)
  BY <1>1, TaskKnown, ListsByOp
<1>9. swept' \in [Nodes -> SUBSET Pairs] /\ \A m \in Nodes : swept'[m] \subseteq lapsed
  BY <1>2, <1>3 DEF Mark
<1>10. ASSUME NEW s \in owed, NEW m \in Sweeping, Queued(m, s),
              NEW y, y = IF fails \/ users = {} THEN Idle ELSE z
       PROVE  Lists(y, s) \/ Queued(m, s)'
  <2>1. m \in Nodes /\ s \in Sessions
    BY TaskKnown DEF Sweeping, ConstantsOK, Workers
  <2>2. CASE m # n \/ fails
    <3>1. swept'[m] = swept[m]
      BY <1>2, <1>3, <2>1, <2>2 DEF Mark
    <3> QED
      BY <1>1, <1>10, <3>1 DEF Queued, roles, queues
  <2>3. CASE m = n /\ ~fails
    <3>1. CASE s \in closes[n] \/ (Card[s] = NoTicket /\ \E ch \in changes[n] : Pair(s) \in ch)
      BY <1>1, <2>3, <3>1 DEF Queued, queues
    <3>2. CASE Card[s] = NoTicket /\ Pair(s) \in lapsed \ swept[n]
      <4>1. y = z /\ Pair(s) \in change
        BY <1>5, <1>10, <2>1, <2>3, <3>2
      <4> QED
        BY <1>6, <3>2, <4>1 DEF Lists, ByChange
    <3> QED
      BY <1>10, <2>3, <3>1, <3>2 DEF Queued
  <2> QED
    BY <2>2, <2>3
<1>11. changes' \in [Nodes -> SUBSET SUBSET Pairs] /\ closes' \in [Nodes -> SUBSET Sessions]
  BY <1>1 DEF Inv, TypeOK, queues
<1>12. PICK y : y = IF fails \/ users = {} THEN Idle ELSE z
  OBVIOUS
<1>13. Goto(w, y) /\ y \in Task /\ ShapeOK(y)
  BY <1>2, <1>6, <1>7, <1>12, IdleTask
<1>14. \A s \in owed, m \in Sweeping : Queued(m, s) => Lists(y, s) \/ Queued(m, s)'
  BY <1>10, <1>12
<1> QED
  BY <1>1, <1>8, <1>9, <1>11, <1>13, <1>14, TaskKnown, WorkerStep

\* A failure queues what the task had before it, or leaves it there.
LEMMA Failing ==
    ASSUME ConstantsOK, Inv, NEW w \in Workers, Fails(w)
    PROVE  Inv'
<1> DEFINE x == task[w]
           n == At[w]
           single == [Idle EXCEPT !.op = "singles", !.phase = "singles", !.closes = x.ids]
           y == IF x.onError = "chunk" THEN single ELSE Continue(w)
<1>0. x \in Task /\ ShapeOK(x) /\ owed \subseteq Sessions
  BY TaskKnown
<1>1. /\ x.op = "recheck" \/ (x.op = "revoke" /\ x.left # {})
      /\ changes' = [changes EXCEPT ![n] = IF x.onError = "change" THEN @ \cup {x.change} ELSE @]
      /\ closes' = [closes EXCEPT ![n] = QueuedCloses(x, @)]
      /\ Goto(w, y) /\ conn' = conn
      /\ UNCHANGED <<ledger, roles, swept, up, owed>>
  BY DEF Fails, Is
<1>2. /\ n \in Nodes /\ n \in Sweeping
      /\ changes \in [Nodes -> SUBSET SUBSET Pairs] /\ closes \in [Nodes -> SUBSET Sessions]
  BY DEF ConstantsOK, Inv, TypeOK, Sweeping, Workers
<1>3. x.ids \subseteq Sessions /\ x.change \subseteq Pairs
  BY <1>0, TaskFields
<1>4. changes' \in [Nodes -> SUBSET SUBSET Pairs] /\ closes' \in [Nodes -> SUBSET Sessions]
  BY <1>1, <1>2, <1>3 DEF QueuedCloses
<1>5. \A s \in owed, m \in Sweeping : Queued(m, s) => Queued(m, s)'
  <2>1. \A m \in Sweeping : m \in Nodes
    BY DEF Sweeping, ConstantsOK, Workers
  <2>2. \A m \in Sweeping : changes[m] \subseteq changes'[m] /\ closes[m] \subseteq closes'[m]
    BY <1>1, <1>2, <2>1 DEF QueuedCloses
  <2> QED
    BY <1>1, <2>2 DEF Queued, roles
<1>6. /\ x.onError = "change" => x.change \in changes'[n]
      /\ x.onError = "closes" => x.ids \subseteq closes'[n]
  BY <1>1, <1>2 DEF QueuedCloses
<1>7. CASE x.onError = "chunk"
  <2> DEFINE ids == x.ids
  <2>1. y = [Idle EXCEPT !.op = "singles", !.phase = "singles", !.closes = ids] /\ ids \subseteq Sessions
    BY <1>3, <1>7
  <2>2. ids = x.ids
    OBVIOUS
  <2> HIDE DEF ids, y
  <2>3. /\ y \in Task /\ y.op = "singles" /\ y.phase = "singles" /\ y.changes = {}
        /\ y.rows = {} /\ y.ids = {} /\ y.left = {} /\ y.admitted = {} /\ y.closes = ids
    BY <2>1 DEF Idle, Task, Ops, Phases
  <2>4. ShapeOK(y)
    BY <2>3 DEF ShapeOK
  <2>5. \A s \in owed : Lists(x, s) => Lists(y, s)
    BY <1>0, <1>1, <1>7, <2>2, <2>3 DEF ShapeOK, Lists, ByName, ByChange
  <2> QED
    BY <1>1, <1>4, <1>5, <2>3, <2>4, <2>5, TaskKnown, WorkerStep DEF Inv, TypeOK, RightsOK
<1>8. CASE x.onError # "chunk"
  <2>1. y = Continue(w)
    BY <1>8
  <2>2. y \in Task /\ ShapeOK(y)
    BY <2>1, ContinueTask DEF Inv
  <2>3. ASSUME NEW s \in owed, Lists(x, s) PROVE Lists(y, s) \/ Queued(n, s)'
    <3>1. CASE s \in x.admitted \cup x.closes
      BY <1>0, <2>1, <3>1, ContinueLists DEF Inv
    <3>2. CASE Card[s] = NoTicket /\ \E change \in x.changes : Pair(s) \in change
      BY <1>0, <2>1, <3>2, ContinueLists DEF Inv
    <3>3. CASE s \in x.left /\ x.onError = "closes"
      <4>1. s \in x.ids
        BY <1>0, <3>3 DEF ShapeOK
      <4> QED
        BY <1>6, <3>3, <4>1 DEF Queued
    <3>4. CASE /\ Card[s] = NoTicket
               /\ \/ x.op = "recheck" /\ Pair(s) \in x.change
                  \/ s \in x.left /\ x.onError = "change"
      <4>1. x.onError = "change" /\ Pair(s) \in x.change
        BY <1>0, <1>1, <3>4 DEF ShapeOK
      <4> QED
        BY <1>6, <3>4, <4>1 DEF Queued
    <3>5. s \notin x.rows /\ x.op # "judge"
      BY <1>0, <1>1 DEF ShapeOK
    <3> QED
      BY <1>8, <2>3, <3>1, <3>2, <3>3, <3>4, <3>5 DEF Lists, ByName, ByChange
  <2> HIDE DEF y
  <2> QED
    BY <1>1, <1>2, <1>4, <1>5, <2>2, <2>3, TaskKnown, WorkerStep DEF Inv, TypeOK, RightsOK
<1> QED
  BY <1>7, <1>8

-----------------------------------------------------------------------------
(* Connections, rows and time.                                             *)

\* A step of a connection or of the clock adds nobody to those to be ended.
LEMMA Elsewhere ==
    ASSUME Inv, UNCHANGED <<roles, swept, task, queues, up>>, owed' \subseteq owed
    PROVE  TasksOK' /\ RightsOK' /\ ListsOK'
<1>1. TasksOK'
  BY DEF Inv, TasksOK
<1>2. RightsOK'
  BY DEF Inv, RightsOK, roles
<1>3. \A s : OnList(s)' <=> OnList(s)
  BY DEF OnList, Queued, Sweeping, roles, queues
<1>4. ListsOK'
  BY <1>3 DEF Inv, ListsOK
<1> QED
  BY <1>1, <1>2, <1>4

\* A session that ends is open no more, and nobody owes it anything.
LEMMA EndedRows ==
    ASSUME ConstantsOK, Inv, NEW s \in Sessions, Ends(s), owed' = owed \ {s}
    PROVE  RowsOK' /\ LedgerTypeOK'
<1>1. LedgerTypeOK /\ RowsOK /\ Goal \in [Sessions -> Targets]
  BY DEF Inv, TypeOK, ConstantsOK
<1>2. CASE parent[s] # "open"
  <2>1. UNCHANGED <<parent, child, by, ticket>>
    BY <1>2 DEF Ends, ledger
  <2>2. ~Open(s)
    BY <1>2 DEF Open
  <2>3. RowsOK'
    BY <1>1, <2>1, <2>2 DEF RowsOK, Open
  <2> QED
    BY <1>1, <2>1, <2>3 DEF LedgerTypeOK
<1>3. CASE parent[s] = "open"
  <2>1. /\ parent' = [parent EXCEPT ![s] = "ended"] /\ by' = by /\ ticket' = ticket
        /\ child' = [child EXCEPT ![s] =
                        [t \in Targets |-> IF child[s][t] = "open" THEN "ended" ELSE child[s][t]]]
    BY <1>3 DEF Ends, End, EndRow
  <2>2. LedgerTypeOK'
    BY <1>1, <2>1 DEF LedgerTypeOK, UserRows, TargetRows
  <2>3. /\ parent'[s] = "ended"
        /\ \A t \in Targets : child'[s][t] # "open" /\ (child'[s][t] # "none" => child[s][t] # "none")
        /\ \A r \in Sessions \ {s} : parent'[r] = parent[r] /\ child'[r] = child[r]
    BY <1>1, <2>1 DEF LedgerTypeOK
  <2>4. ~Open(s)' /\ \A r \in Sessions \ {s} : Open(r)' <=> Open(r)
    BY <2>3 DEF Open
  <2>5. /\ \A r \in Sessions, t \in Targets : child'[r][t] # "none" => t = Goal[r]
        /\ \A r \in Sessions, t \in Targets : child'[r][t] = "open" => parent'[r] = "open"
    BY <1>1, <2>3 DEF RowsOK
  <2>6. \A r \in owed' : Open(r)'
    BY <1>1, <2>4 DEF RowsOK, Inv, TypeOK
  <2>7. \A r \in Sessions : Open(r)' =>
            by'[r][Goal[r]] = Card[r] \/ (by'[r][Goal[r]] = NoTicket /\ r \in owed')
    BY <1>1, <2>1, <2>4 DEF RowsOK
  <2> QED
    BY <2>2, <2>5, <2>6, <2>7 DEF RowsOK
<1> QED
  BY <1>2, <1>3

\* A client that leaves, or is told to.
LEMMA Disconnected ==
    ASSUME ConstantsOK, Inv, NEW s \in Sessions, Disconnect(s)
    PROVE  Inv'
<1>1. /\ Ends(s) /\ owed' = owed \ {s} /\ UNCHANGED <<roles, swept, task, queues, up>>
      /\ conn' = [conn EXCEPT ![s] = "gone"]
  BY DEF Disconnect
<1>2. RowsOK' /\ LedgerTypeOK'
  BY <1>1, EndedRows
<1>3. TasksOK' /\ RightsOK' /\ ListsOK'
  BY <1>1, Elsewhere
<1>4. TypeOK'
  BY <1>1, <1>2 DEF Inv, TypeOK, roles, queues
<1> QED
  BY <1>2, <1>3, <1>4 DEF Inv

\* The session of a dead node.
LEMMA ReapedOnes ==
    ASSUME ConstantsOK, Inv, NEW s \in Sessions, Reaped(s)
    PROVE  Inv'
<1>1. /\ Ends(s) /\ owed' = owed \ {s} /\ UNCHANGED <<roles, swept, task, queues, up>>
      /\ conn' = conn
  BY DEF Reaped, Ends, End
<1>2. RowsOK' /\ LedgerTypeOK'
  BY <1>1, EndedRows
<1>3. TasksOK' /\ RightsOK' /\ ListsOK'
  BY <1>1, Elsewhere
<1>4. TypeOK'
  BY <1>1, <1>2 DEF Inv, TypeOK, roles, queues
<1> QED
  BY <1>2, <1>3, <1>4 DEF Inv

\* A row that begins has nothing inside.
LEMMA Connects ==
    ASSUME ConstantsOK, Inv, NEW s \in Sessions, Connect(s)
    PROVE  Inv'
<1>1. /\ parent[s] = "unborn" /\ parent' = [parent EXCEPT ![s] = "open"]
      /\ UNCHANGED <<child, by, ticket>> /\ conn' = [conn EXCEPT ![s] = "login"]
      /\ UNCHANGED <<roles, swept, task, queues, up, owed>>
  BY DEF Connect, Register
<1>2. LedgerTypeOK /\ RowsOK /\ owed \subseteq Sessions /\ Goal \in [Sessions -> Targets]
  BY DEF Inv, TypeOK, ConstantsOK
<1>3. \A r \in Sessions : Open(r)' <=> Open(r)
  BY <1>1, <1>2 DEF Open, RowsOK, LedgerTypeOK
<1>4. RowsOK'
  BY <1>1, <1>2, <1>3 DEF RowsOK, LedgerTypeOK
<1>5. TasksOK' /\ RightsOK' /\ ListsOK'
  BY <1>1, Elsewhere
<1>6. TypeOK'
  BY <1>1 DEF Inv, TypeOK, LedgerTypeOK, UserRows, roles, queues
<1> QED
  BY <1>4, <1>5, <1>6 DEF Inv

\* A connection is let through or not: the rows stay.
LEMMA Authorises ==
    ASSUME ConstantsOK, Inv, NEW s \in Sessions, Authorise(s)
    PROVE  Inv'
<1>1. /\ UNCHANGED <<ledger, roles, swept, task, queues, up, owed>>
      /\ conn' = [conn EXCEPT ![s] = IF Authorised(s) THEN "authorised" ELSE "closing"]
  BY DEF Authorise
<1>2. RowsOK'
  BY <1>1, QuietRows DEF Inv, RightsOK
<1>3. TasksOK' /\ RightsOK' /\ ListsOK'
  BY <1>1, Elsewhere
<1>4. TypeOK'
  BY <1>1 DEF Inv, TypeOK, LedgerTypeOK, ledger, roles, queues
<1> QED
  BY <1>2, <1>3, <1>4 DEF Inv

\* A row inside a session names the ticket it was opened with.
LEMMA TargetStarts ==
    ASSUME ConstantsOK, Inv, NEW s \in Sessions, StartTarget(s)
    PROVE  Inv'
<1>1. /\ UNCHANGED <<roles, swept, task, queues, up, owed>>
      /\ conn' \in [Sessions -> {"none", "login", "authorised", "live", "closing", "gone"}]
  BY DEF StartTarget, Inv, TypeOK
<1>2. TasksOK' /\ RightsOK' /\ ListsOK'
  BY <1>1, Elsewhere
<1>3. LedgerTypeOK /\ RowsOK /\ owed \subseteq Sessions /\ Goal \in [Sessions -> Targets]
      /\ Card \in [Sessions -> Tickets \cup {NoTicket}]
  BY DEF Inv, TypeOK, ConstantsOK
<1>4. CASE UNCHANGED ledger
  <2>1. RowsOK' /\ LedgerTypeOK'
    BY <1>1, <1>3, <1>4 DEF RowsOK, Open, LedgerTypeOK, ledger
  <2> QED
    BY <1>1, <1>2, <2>1 DEF Inv, TypeOK, roles, queues
<1>5. CASE OpenTarget(s, Goal[s], Card[s])
  <2> DEFINE t == Goal[s]
             k == Card[s]
  <2>1. /\ parent[s] = "open" /\ UNCHANGED <<parent, ticket>>
        /\ child' = [child EXCEPT ![s][t] = IF child[s][t] = "none" THEN "open" ELSE child[s][t]]
        /\ by' = [by EXCEPT ![s][t] = IF child[s][t] = "none" THEN k ELSE by[s][t]]
    BY <1>5 DEF OpenTarget, OpenRow
  <2>2. t \in Targets /\ k \in Tickets \cup {NoTicket}
    BY <1>3
  <2>3. LedgerTypeOK'
    BY <1>3, <2>1, <2>2 DEF LedgerTypeOK, TargetRows
  <2>4. /\ child'[s][t] = IF child[s][t] = "none" THEN "open" ELSE child[s][t]
        /\ by'[s][t] = IF child[s][t] = "none" THEN k ELSE by[s][t]
        /\ \A q \in Targets \ {t} : child'[s][q] = child[s][q]
        /\ \A r \in Sessions \ {s} : child'[r] = child[r] /\ by'[r] = by[r]
    BY <1>3, <2>1, <2>2 DEF LedgerTypeOK
  <2>5. \A r \in Sessions \ {s} : Open(r)' <=> Open(r)
    BY <2>1, <2>4 DEF Open
  <2>6. Open(s) => Open(s)' /\ by'[s][t] = by[s][t]
    BY <2>1, <2>4 DEF Open
  <2>7. Open(s)' => Open(s) \/ by'[s][t] = k
    BY <2>1, <2>4 DEF Open
  <2>8. /\ \A r \in Sessions, q \in Targets : child'[r][q] # "none" => q = Goal[r]
        /\ \A r \in Sessions, q \in Targets : child'[r][q] = "open" => parent'[r] = "open"
    BY <1>3, <2>1, <2>2, <2>4 DEF RowsOK
  <2>9. \A r \in owed' : Open(r)'
    BY <1>1, <1>3, <2>5, <2>6 DEF RowsOK
  <2>10. \A r \in Sessions : Open(r)' =>
            by'[r][Goal[r]] = Card[r] \/ (by'[r][Goal[r]] = NoTicket /\ r \in owed')
    BY <1>1, <1>3, <2>4, <2>5, <2>6, <2>7 DEF RowsOK
  <2>11. RowsOK'
    BY <2>8, <2>9, <2>10 DEF RowsOK
  <2> QED
    BY <1>1, <1>2, <2>3, <2>11 DEF Inv, TypeOK, roles, queues
<1> QED
  BY <1>4, <1>5 DEF StartTarget

\* A ticket comes to its expiry: the sweep is to find it.
LEMMA ClockTicks ==
    ASSUME ConstantsOK, Inv, NEW k \in Tickets, Clock(k)
    PROVE  Inv'
<1>1. /\ UNCHANGED <<parent, child, by, roles, swept, conn, task, queues, up, owed>>
      /\ ticket' = [ticket EXCEPT ![k] = IF @ = "valid" THEN "due" ELSE "past"]
  BY DEF Clock, TimePasses
<1>2. RowsOK'
  BY <1>1 DEF Inv, RowsOK, Open
<1>3. TasksOK' /\ RightsOK' /\ ListsOK'
  BY <1>1, Elsewhere
<1>4. TypeOK'
  BY <1>1 DEF Inv, TypeOK, LedgerTypeOK, TicketRows, roles, queues
<1> QED
  BY <1>2, <1>3, <1>4 DEF Inv

\* A node that dies takes its lists with it; whoever was on them is out of this claim.
LEMMA Crashes ==
    ASSUME ConstantsOK, Inv, NEW n \in Nodes, Crash(n)
    PROVE  Inv'
<1>1. /\ n \in up /\ up' = up \ {n} /\ UNCHANGED <<ledger, roles, swept, owed>>
      /\ conn' = [s \in Sessions |-> IF On[s] = n /\ conn[s] # "none" THEN "gone" ELSE conn[s]]
      /\ task' = [w \in Workers |-> IF At[w] = n THEN Idle ELSE task[w]]
      /\ changes' = [changes EXCEPT ![n] = {}] /\ closes' = [closes EXCEPT ![n] = {}]
  BY DEF Crash
<1>2. RowsOK' /\ RightsOK'
  BY <1>1, QuietRows DEF Inv, RightsOK
<1>3. TypeOK'
  BY <1>1 DEF Inv, TypeOK, LedgerTypeOK, ledger, roles
<1>4. ShapeOK(Idle)
  BY IdleTask DEF ShapeOK
<1>5. TasksOK'
  BY <1>1, <1>4, IdleTask DEF Inv, TasksOK
<1>6. ListsOK'
  BY <1>1 DEF ListsOK
<1> QED
  BY <1>2, <1>3, <1>5, <1>6 DEF Inv

-----------------------------------------------------------------------------
(* Taking access away.                                                     *)

\* One session is ended; the task has the others before it.
LEMMA Revokes ==
    ASSUME ConstantsOK, Inv, NEW w \in Workers, Revoke(w)
    PROVE  Inv'
<1> DEFINE x == task[w]
<1>0. x \in Task /\ ShapeOK(x) /\ x.left \subseteq Sessions
  BY TaskKnown, TaskFields
<1>1. x.op = "revoke" /\ UNCHANGED <<roles, swept, conn, queues, up>>
  BY DEF Revoke, Is
<1>2. PICK s \in x.left : Ends(s) /\ owed' = owed \ {s} /\ Goto(w, [x EXCEPT !.left = @ \ {s}])
  BY DEF Revoke
<1> DEFINE rest == x.left \ {s}
           y == [x EXCEPT !.left = rest]
<1>3. Goto(w, y) /\ rest \subseteq x.left /\ \A r \in owed' : r \in x.left => r \in rest
  BY <1>2
<1> HIDE DEF rest
<1>4. /\ y \in Task /\ y.op = "revoke" /\ y.phase = x.phase /\ y.rows = x.rows /\ y.ids = x.ids
      /\ y.left = rest /\ y.admitted = x.admitted /\ y.changes = x.changes
      /\ y.closes = x.closes /\ y.onError = x.onError /\ y.change = x.change
  BY <1>0, <1>1, <1>3 DEF Task, Ops
<1>5. RowsOK' /\ LedgerTypeOK'
  BY <1>0, <1>2, EndedRows
<1> HIDE DEF x, y
<1>6. ShapeOK(y)
  BY <1>0, <1>1, <1>3, <1>4 DEF ShapeOK
<1>7. \A r \in owed' : Lists(x, r) => Lists(y, r)
  BY <1>1, <1>3, <1>4 DEF Lists, ByName, ByChange
<1>8. \A n, r : Queued(n, r)' <=> Queued(n, r)
  BY <1>1 DEF Queued, roles, queues
<1>9. owed' \ owed = {}
  BY <1>2
<1>10. TasksOK' /\ ListsOK'
  BY <1>1, <1>3, <1>4, <1>6, <1>7, <1>8, <1>9, TaskTo DEF x, Inv
<1>11. RightsOK' /\ TypeOK'
  BY <1>1, <1>2, <1>5 DEF Inv, RightsOK, TypeOK, roles, queues
<1> QED
  BY <1>5, <1>10, <1>11 DEF Inv

\* An open session that lost a right came by a role, unless it is to be ended anyway.
LEMMA AffectedOnes ==
    ASSUME ConstantsOK, Inv, NEW pairs
    PROVE  /\ Affected(pairs) \subseteq Sessions
           /\ \A s \in Affected(pairs) : Open(s) /\ Pair(s) \in pairs
                                         /\ (s \notin owed => Card[s] = NoTicket)
BY DEF Affected, Inv, RowsOK

\* Rights are lost.
LEMMA RightsLost ==
    ASSUME ConstantsOK, Inv, NEW lost, access' = access \ lost, lapsed' \subseteq lapsed \cup lost,
           swept' = swept, lapsed \subseteq lapsed', UNCHANGED ledger,
           owed' = owed \cup Affected(lost)
    PROVE  RightsOK' /\ RowsOK'
<1>1. RightsOK'
  BY AffectedOnes DEF Inv, RightsOK
<1>2. \A s : Open(s)' <=> Open(s)
  BY DEF Open, ledger
<1>3. RowsOK'
  BY <1>2, AffectedOnes DEF Inv, RowsOK, ledger
<1> QED
  BY <1>1, <1>3

\* A role is taken: the worker has the change before it.
LEMMA TakesAway ==
    ASSUME ConstantsOK, Inv, NEW w \in Workers, NEW change \in AccessChanges,
           NEW lost, TakeAway(w, change, lost)
    PROVE  Inv'
<1> DEFINE y == [Idle EXCEPT !.op = "recheck", !.change = change, !.onError = "change"]
<1>1. /\ task[w].op = "idle" /\ lost \subseteq change /\ access' = access \ lost
      /\ owed' = owed \cup Affected(lost) /\ Goto(w, y)
      /\ UNCHANGED <<ledger, lapsed, swept, conn, queues, up>>
  BY DEF TakeAway, Is
<1>2. change \subseteq Pairs
  BY DEF AccessChanges, Pairs
<1>3. /\ y \in Task /\ y.op = "recheck" /\ y.phase = "idle" /\ y.changes = {} /\ y.closes = {}
      /\ y.rows = {} /\ y.ids = {} /\ y.left = {} /\ y.admitted = {}
      /\ y.onError = "change" /\ y.change = change
  BY <1>2 DEF Idle, Task, Ops, Phases
<1> HIDE DEF y
<1>4. ShapeOK(y)
  BY <1>3 DEF ShapeOK
<1>5. \A r \in owed : ~Lists(task[w], r)
  BY <1>1, TaskKnown, ListsByOp
<1>6. \A n, r : Queued(n, r)' <=> Queued(n, r)
  BY <1>1 DEF Queued, queues
<1>7. \A s \in owed' \ owed : Lists(y, s)
  BY <1>1, <1>3, AffectedOnes DEF Lists, ByChange
<1>8. TasksOK' /\ ListsOK'
  BY <1>1, <1>3, <1>4, <1>5, <1>6, <1>7, TaskTo DEF Inv
<1>9. RightsOK' /\ RowsOK'
  BY <1>1, RightsLost
<1>10. TypeOK'
  BY <1>1, AffectedOnes DEF Inv, TypeOK, LedgerTypeOK, ledger, queues
<1> QED
  BY <1>8, <1>9, <1>10 DEF Inv

\* A role assignment expires: the next sweep of a node that has not seen it finds it.
LEMMA Lapses ==
    ASSUME ConstantsOK, Inv, NEW pair \in Pairs, Lapse(pair)
    PROVE  Inv'
<1>1. /\ pair \in access /\ access' = access \ {pair} /\ lapsed' = lapsed \cup {pair}
      /\ owed' = owed \cup Affected({pair})
      /\ UNCHANGED <<ledger, swept, conn, task, queues, up>>
  BY DEF Lapse
<1>2. RightsOK' /\ RowsOK'
  BY <1>1, RightsLost
<1>3. TypeOK'
  BY <1>1, AffectedOnes DEF Inv, TypeOK, LedgerTypeOK, ledger, queues
<1>4. TasksOK'
  BY <1>1 DEF Inv, TasksOK
<1>5. PICK m \in Sweeping : m \in Nodes
  BY DEF Sweeping, ConstantsOK, Workers
<1>6. pair \notin swept[m]
  BY <1>1, <1>5 DEF Inv, RightsOK
<1>7. \A s \in owed' \ owed : Queued(m, s)'
  BY <1>1, <1>6, AffectedOnes DEF Queued
<1>8. \A n, s : Queued(n, s) => Queued(n, s)'
  BY <1>1 DEF Queued, queues
<1>9. \A s : OnList(s) => OnList(s)'
  BY <1>1, <1>8 DEF OnList, Sweeping
<1>10. \A s \in owed' \ owed : OnList(s)'
  BY <1>5, <1>7 DEF OnList, Sweeping
<1>11. ListsOK'
  BY <1>1, <1>9, <1>10 DEF Inv, ListsOK
<1> QED
  BY <1>2, <1>3, <1>4, <1>11 DEF Inv

\* A right that is granted again forgives the sessions that came by it, and no others.
LEMMA Grants ==
    ASSUME ConstantsOK, Inv, NEW w \in Workers, NEW pair \in Pairs, Grant(w, pair)
    PROVE  Inv'
<1>1. /\ access' = access \cup {pair} /\ lapsed' = lapsed \ {pair}
      /\ swept' = [n \in Nodes |-> swept[n] \ {pair}]
      /\ owed' = {s \in owed : Pair(s) # pair \/ Card[s] # NoTicket}
      /\ UNCHANGED <<ledger, conn, task, queues, up>>
  BY DEF Grant
<1>2. TypeOK'
  BY <1>1 DEF Inv, TypeOK, LedgerTypeOK, ledger, queues
<1>3. TasksOK'
  BY <1>1 DEF Inv, TasksOK
<1>4. RightsOK'
  BY <1>1 DEF Inv, RightsOK
<1>5. \A s : Open(s)' <=> Open(s)
  BY <1>1 DEF Open, ledger
<1>6. RowsOK'
  BY <1>1, <1>5 DEF Inv, RowsOK, ledger
<1>7. Sweeping' = Sweeping /\ Sweeping \subseteq Nodes
  BY DEF Sweeping, ConstantsOK, Workers
<1>8. \A s \in owed', n \in Sweeping : Queued(n, s) => Queued(n, s)'
  BY <1>1, <1>7 DEF Queued, queues
<1>9. \A s \in owed' : OnList(s) => OnList(s)'
  BY <1>1, <1>7, <1>8 DEF OnList
<1>10. ListsOK'
  BY <1>1, <1>9 DEF Inv, ListsOK
<1> QED
  BY <1>2, <1>3, <1>4, <1>6, <1>10 DEF Inv

\* The sessions a ticket admitted.
LEMMA AdmittedOnes ==
    ASSUME ConstantsOK, Inv, NEW k \in Tickets
    PROVE  /\ AdmittedBy({k}) \subseteq Sessions
           /\ \A s \in AdmittedBy({k}) : Open(s) /\ Card[s] = k
           /\ \A s \in Sessions : Open(s) /\ by[s][Goal[s]] = k => s \in AdmittedBy({k})
BY DEF AdmittedBy, Inv, RowsOK, Open, ConstantsOK

\* A ticket is deleted: its sessions name it no more, and are among those to be ended.
LEMMA TicketGone ==
    ASSUME ConstantsOK, Inv, NEW k \in Tickets, DeleteTicket(k), NEW more \in SUBSET Sessions,
           \A s \in more : Open(s), owed' = owed \cup AdmittedBy({k}) \cup more
    PROVE  RowsOK' /\ LedgerTypeOK'
<1>1. LedgerTypeOK /\ RowsOK /\ owed \subseteq Sessions /\ Goal \in [Sessions -> Targets]
  BY DEF Inv, TypeOK, ConstantsOK
<1>2. /\ ticket' = [ticket EXCEPT ![k] = "deleted"] /\ UNCHANGED <<parent, child>>
      /\ by' = [s \in Sessions |-> [t \in Targets |-> IF by[s][t] = k THEN NoTicket ELSE by[s][t]]]
  BY DEF DeleteTicket, TicketRow
<1>3. LedgerTypeOK'
  BY <1>1, <1>2 DEF LedgerTypeOK, TicketRows
<1>4. \A s : Open(s)' <=> Open(s)
  BY <1>2 DEF Open
<1>5. \A s \in Sessions : by'[s][Goal[s]] = IF by[s][Goal[s]] = k THEN NoTicket ELSE by[s][Goal[s]]
  BY <1>1, <1>2
<1>6. \A s \in owed' : Open(s)'
  BY <1>1, <1>4, AdmittedOnes DEF RowsOK
<1>7. \A s \in Sessions : Open(s)' =>
          by'[s][Goal[s]] = Card[s] \/ (by'[s][Goal[s]] = NoTicket /\ s \in owed')
  BY <1>1, <1>4, <1>5, AdmittedOnes DEF RowsOK
<1>8. RowsOK'
  BY <1>1, <1>2, <1>6, <1>7 DEF RowsOK
<1> QED
  BY <1>3, <1>8

\* A ticket is deleted: the worker has its sessions before it, by name.
LEMMA TicketDropped ==
    ASSUME ConstantsOK, Inv, NEW w \in Workers, NEW k \in Tickets, DropTicket(w, k)
    PROVE  Inv'
<1> DEFINE ids == AdmittedBy({k})
           y == Admitting(Idle, ids)
<1>1. /\ task[w].op = "idle" /\ DeleteTicket(k) /\ owed' = owed \cup ids /\ Goto(w, y)
      /\ UNCHANGED <<roles, swept, conn, queues, up>>
  BY DEF DropTicket, Is
<1>2. ids \in SUBSET Sessions /\ \A s \in ids : Open(s) /\ Card[s] = k
  BY AdmittedOnes
<1>3. Fresh(Idle, "idle", {}, {})
  BY IdleTask DEF Fresh
<1>4. RowsOK' /\ LedgerTypeOK'
  <2>1. {} \in SUBSET Sessions /\ owed' = owed \cup AdmittedBy({k}) \cup {}
    BY <1>1
  <2> QED
    BY <1>1, <2>1, TicketGone
<1> HIDE DEF ids
<1>5. /\ y \in Task /\ ShapeOK(y) /\ (ids # {} => y.left = ids /\ y.onError = "closes")
  BY <1>2, <1>3, AdmittingTask DEF Phases
<1> HIDE DEF y
<1>6. \A r \in owed : ~Lists(task[w], r)
  BY <1>1, TaskKnown, ListsByOp
<1>7. \A n, r : Queued(n, r)' <=> Queued(n, r)
  BY <1>1 DEF Queued, queues, roles
<1>8. \A s \in owed' \ owed : Lists(y, s)
  BY <1>1, <1>5 DEF Lists, ByName
<1>9. TasksOK' /\ ListsOK'
  BY <1>1, <1>5, <1>6, <1>7, <1>8, TaskTo DEF Inv
<1>10. RightsOK'
  BY <1>1, <1>2 DEF Inv, RightsOK, roles, ConstantsOK
<1>11. TypeOK'
  BY <1>1, <1>2, <1>4 DEF Inv, TypeOK, roles, queues
<1> QED
  BY <1>4, <1>9, <1>10, <1>11 DEF Inv

\* A target is deleted, and its ticket: those that came by a role are judged, the others
\* are before the worker by name.
LEMMA TargetDropped ==
    ASSUME ConstantsOK, Inv, NEW w \in Workers, NEW t \in Targets, NEW k \in Tickets,
           DropTarget(w, t, k)
    PROVE  Inv'
<1> DEFINE ids == AdmittedBy({k})
           lost == Users \X {t}
           y == [Idle EXCEPT !.op = "recheck", !.change = lost, !.onError = "change",
                             !.admitted = ids]
<1>1. /\ task[w].op = "idle" /\ DeleteTicket(k) /\ access' = access \ lost
      /\ owed' = owed \cup ids \cup Affected(lost) /\ Goto(w, y)
      /\ UNCHANGED <<lapsed, swept, conn, queues, up>>
  BY DEF DropTarget, Is
<1>2. ids \in SUBSET Sessions /\ \A s \in ids : Open(s) /\ Card[s] = k
  BY AdmittedOnes
<1>3. lost \subseteq Pairs
  BY DEF Pairs
<1>4. Affected(lost) \in SUBSET Sessions /\ \A s \in Affected(lost) : Open(s)
  BY AffectedOnes
<1>5. RowsOK' /\ LedgerTypeOK'
  BY <1>1, <1>4, TicketGone
<1> HIDE DEF ids, lost
<1>6. /\ y \in Task /\ y.op = "recheck" /\ y.phase = "idle" /\ y.changes = {} /\ y.closes = {}
      /\ y.rows = {} /\ y.ids = {} /\ y.left = {} /\ y.admitted = ids
      /\ y.onError = "change" /\ y.change = lost
  BY <1>2, <1>3 DEF Idle, Task, Ops, Phases
<1> HIDE DEF y
<1>7. ShapeOK(y)
  BY <1>6 DEF ShapeOK
<1>8. \A r \in owed : ~Lists(task[w], r)
  BY <1>1, TaskKnown, ListsByOp
<1>9. \A n, r : Queued(n, r)' <=> Queued(n, r)
  BY <1>1 DEF Queued, queues
<1>10. \A s \in owed' \ owed : Lists(y, s)
  BY <1>1, <1>6, AffectedOnes DEF Lists, ByName, ByChange
<1>11. TasksOK' /\ ListsOK'
  BY <1>1, <1>6, <1>7, <1>8, <1>9, <1>10, TaskTo DEF Inv
<1>12. \A s \in owed' : Card[s] = NoTicket => Pair(s) \notin access'
  <2>1. k # NoTicket
    BY DEF ConstantsOK
  <2>2. \A s \in Affected(lost) : Pair(s) \in lost
    BY AffectedOnes
  <2> QED
    BY <1>1, <1>2, <2>1, <2>2 DEF Inv, RightsOK
<1>13. RightsOK'
  BY <1>1, <1>12 DEF Inv, RightsOK
<1>14. TypeOK'
  BY <1>1, <1>2, <1>4, <1>5 DEF Inv, TypeOK, queues
<1> QED
  BY <1>5, <1>11, <1>13, <1>14 DEF Inv

-----------------------------------------------------------------------------
(* The result.                                                             *)

\* At the start nobody is owed anything.
LEMMA Starts ==
    ASSUME ConstantsOK, RevocationInit
    PROVE  Inv
<1>1. TypeOK
  BY DEF RevocationInit, Init, ConstantsOK, TypeOK, LedgerTypeOK, UserRows, TargetRows, TicketRows
<1>2. ShapeOK(Idle)
  BY IdleTask DEF ShapeOK
<1>3. TasksOK
  BY <1>2, IdleTask DEF RevocationInit, TasksOK
<1>4. RowsOK
  BY DEF RevocationInit, Init, RowsOK, Open, ConstantsOK
<1>5. RightsOK /\ ListsOK
  BY DEF RevocationInit, RightsOK, ListsOK
<1> QED
  BY <1>1, <1>3, <1>4, <1>5 DEF Inv

\* Every step respects the invariant.
LEMMA Steps ==
    ASSUME ConstantsOK, Inv, [Next]_vars
    PROVE  Inv'
<1>1. CASE UNCHANGED vars
  <2>1. \A s : OnList(s)' <=> OnList(s)
    BY <1>1 DEF vars, OnList, Queued, Sweeping, roles, queues
  <2>2. ListsOK'
    BY <1>1, <2>1 DEF Inv, ListsOK, vars
  <2>3. TypeOK'
    BY <1>1 DEF Inv, TypeOK, LedgerTypeOK, vars, ledger, roles, queues
  <2>4. TasksOK' /\ RowsOK' /\ RightsOK'
    BY <1>1 DEF Inv, TasksOK, RowsOK, RightsOK, Open, vars, ledger, roles
  <2> QED
    BY <2>2, <2>3, <2>4 DEF Inv
<1>2. ASSUME NEW s \in Sessions,
             Connect(s) \/ Authorise(s) \/ StartTarget(s) \/ Disconnect(s) \/ Reaped(s)
      PROVE  Inv'
  BY <1>2, Connects, Authorises, TargetStarts, Disconnected, ReapedOnes
<1>3. ASSUME NEW w \in Admins, Begins(w) PROVE Inv'
  <2>1. w \in Workers
    BY DEF Workers
  <2> QED
    BY <1>3, <2>1, TakesAway, Grants, TicketDropped, TargetDropped, AdminCloses DEF Begins
<1>4. ASSUME NEW w \in Workers, Proceeds(w) \/ Fails(w) \/ SweepTickets(w) PROVE Inv'
  BY <1>4, Revokes, LocalCloses, PeersClose, Selects, Judges, JudgedOnes, ChangesTaken,
     ChangesRetried, ClosesTaken, ClosesRetried, RoleSweeps, Failing, TicketSweeps DEF Proceeds
<1>5. ASSUME NEW k \in Tickets, Clock(k) PROVE Inv'
  BY <1>5, ClockTicks
<1>6. ASSUME NEW pair \in Pairs, Lapse(pair) PROVE Inv'
  BY <1>6, Lapses
<1>7. ASSUME NEW n \in Nodes, Crash(n) PROVE Inv'
  BY <1>7, Crashes
<1> QED
  BY <1>1, <1>2, <1>3, <1>4, <1>5, <1>6, <1>7 DEF Next

\* Whoever is on a list while no node has died is pending.
LEMMA ListedArePending ==
    ASSUME ConstantsOK, NEW s, OnList(s), up = Nodes
    PROVE  Pending(s)
<1>1. CASE \E w \in Workers : Lists(task[w], s)
  BY <1>1 DEF Pending, Carries, Lists, ByName, ByChange
<1>2. CASE \E n \in Sweeping : Queued(n, s)
  <2>1. Sweeping \subseteq up
    BY DEF Sweeping, ConstantsOK, Workers
  <2> QED
    BY <1>2, <2>1 DEF Pending, Queued, Sweeping
<1> QED
  BY <1>1, <1>2 DEF OnList

\* A revocation cannot be lost while every node runs: whichever statements fail, whichever
\* posts do not arrive and however administrators, sweeps and clients interleave, a session
\* that was open when its access was taken is ended, or on the list of a task, of a queue
\* or of the next sweep (close_sessions_no_longer_authorised, push_closes,
\* retry_pending_revocations).
THEOREM RevocationsAreKept ==
    ASSUME ConstantsOK
    PROVE  Spec => [](up = Nodes => NothingLost)
<1>1. RevocationInit => Inv
  BY Starts
<1>2. Inv /\ [Next]_vars => Inv'
  BY Steps
<1>3. Inv => (up = Nodes => NothingLost)
  BY ListedArePending DEF Inv, ListsOK, NothingLost
<1> QED
  BY <1>1, <1>2, <1>3, PTL DEF Spec
=============================================================================
