-------------------------- MODULE ApprovalsProofs --------------------------
(***************************************************************************)
(* What Approvals guarantees for every number of sessions, askers,         *)
(* administrators, tickets and uses: the types; where the uses of a ticket *)
(* are (the account of a session holds a use exactly while its question    *)
(* may still admit somebody); and who gets past the gate (never more       *)
(* sessions of a ticket than it has uses, nobody on a question that        *)
(* expired, and, as long as rows outlive their sessions, nobody without a  *)
(* decision that covers the target).                                       *)
(***************************************************************************)
EXTENDS Approvals, FiniteSetTheorems, TLAPS

USE DEF Jobs

-----------------------------------------------------------------------------
(* Types of the values that actions put together.                          *)

\* A task that is not running, or has just been spawned, is well-typed.
LEMMA TaskTypes ==
    /\ Idle \in Job
    /\ \A s \in Sessions : ConsumeTask(s) \in Job
    /\ \A s \in Sessions, to \in UNANSWERED : CloseTask(s, to) \in Job
BY DEF Idle, Job, ConsumeTask, CloseTask, JobPcs, UNANSWERED, DECIDED, Scopes

\* The pc moves and nothing else does.
LEMMA GotoType ==
    ASSUME TypeOK, NEW a \in Askers, NEW pc \in AskerPcs, Goto(a, pc)
    PROVE  asker' \in [Askers -> Asker]
BY DEF TypeOK, Goto, Asker

\* A call that ends forgets its locals.
LEMMA EndsType ==
    ASSUME TypeOK, NEW a \in Askers, NEW out \in Outcomes, Ends(a, out)
    PROVE  asker' \in [Askers -> Asker]
BY DEF TypeOK, Ends, Asker, Unasked, AskerPcs, Guarded, UNANSWERED

\* A call that returns may spawn the drop of its guard.
LEMMA ReturnType ==
    ASSUME TypeOK, NEW a \in Askers, NEW out \in Outcomes, NEW task \in Job,
           Return(a, out, task)
    PROVE  asker' \in [Askers -> Asker] /\ job' \in [Jobs -> Job]
<1>1. asker' \in [Askers -> Asker]
  BY EndsType DEF Return
<1>2. job' \in [Jobs -> Job]
  BY DEF TypeOK, Return
<1> QED
  BY <1>1, <1>2

\* The guard's close task is well-typed.
LEMMA ClosingType ==
    ASSUME TypeOK, NEW a \in Askers
    PROVE  Closing(a) \in Job
<1>1. SessionOf[a] \in Sessions /\ asker[a].closeAs \in UNANSWERED
  BY ConstantTypes DEF TypeOK, Asker
<1> QED
  BY <1>1, TaskTypes DEF Closing

\* The end of upsert_request keeps the types.
LEMMA AdvertisedType ==
    ASSUME TypeOK, row' \in [Sessions -> Row], NEW a \in Askers, Advertised(a)
    PROVE  asker' \in [Askers -> Asker] /\ job' \in [Jobs -> Job]
<1>1. CASE a \in Blocking
  <2>1. SessionOf[a] \in Sessions
    BY ConstantTypes
  <2>2. row'[SessionOf[a]].started \in Nat
    BY <2>1 DEF Row
  <2>3. asker' \in [Askers -> Asker]
    BY <1>1, <2>2 DEF Advertised, TypeOK, Asker, AskerPcs, Guarded
  <2> QED
    BY <1>1, <2>3 DEF Advertised, TypeOK
<1>2. CASE a \notin Blocking
  BY <1>2, ReturnType, TaskTypes DEF Advertised, Outcomes
<1> QED
  BY <1>1, <1>2

\* So does the end of a pass that found nothing to reopen.
LEMMA NotUnansweredType ==
    ASSUME TypeOK, row' \in [Sessions -> Row], NEW a \in Askers, NotUnanswered(a)
    PROVE  asker' \in [Askers -> Asker] /\ job' \in [Jobs -> Job]
<1>1. CASE asker[a].again
  BY <1>1, AdvertisedType DEF NotUnanswered
<1>2. CASE ~asker[a].again
  BY <1>2, GotoType DEF NotUnanswered, AskerPcs, Guarded, TypeOK
<1> QED
  BY <1>1, <1>2

\* A row that is asked is a row.
LEMMA AskType ==
    ASSUME TypeOK, NEW s \in Sessions, Ask(s)
    PROVE  row' \in [Sessions -> Row]
<1> DEFINE Asked(n) == [NoRow EXCEPT !.status = "pending", !.started = n]
<1>1. NoRow \in Row
  BY DEF Row, NoRow, Scopes
<1>2. ASSUME NEW n \in Nat PROVE Asked(n) \in Row
  BY <1>1 DEF Row
<1>3. row \in [Sessions -> Row] /\ row[s].started + 1 \in Nat
  BY DEF TypeOK, Row
<1>4. row' = [row EXCEPT ![s] = Asked(row[s].started + 1)]
  BY DEF Ask
<1> HIDE DEF Asked
<1> QED
  BY <1>2, <1>3, <1>4

\* A row that is settled is a row.
LEMMA SettleType ==
    ASSUME TypeOK, NEW s \in Sessions, NEW to \in UNANSWERED \cup DECIDED,
           NEW scope \in Scopes, Settle(s, to, scope)
    PROVE  row' \in [Sessions -> Row]
<1> DEFINE fresh == scope \in {"target", "all_targets"}
           r == [row[s] EXCEPT !.status = to, !.scope = scope, !.fresh = fresh]
<1>1. row \in [Sessions -> Row] /\ row[s] \in Row
  BY DEF TypeOK
<1>2. fresh \in BOOLEAN
  OBVIOUS
<1>3. row' = [row EXCEPT ![s] = r]
  BY DEF Settle
<1> HIDE DEF fresh
<1>4. r \in Row
  BY <1>1, <1>2 DEF Row
<1> HIDE DEF r
<1> QED
  BY <1>1, <1>3, <1>4

\* Counters stay natural numbers.
LEMMA LedgerTypes ==
    ASSUME TypeOK, NEW t \in Tickets
    PROVE  /\ RefundUse(t) => /\ uses' \in [Tickets -> Nat]
                             /\ lost' \in [Tickets -> Nat]
                             /\ failures' \in Nat
           /\ CanSpend(t) => [uses EXCEPT ![t] = @ - 1] \in [Tickets -> Nat]
           /\ \A carries \in BOOLEAN :
                LoseUse(t, carries) => lost' \in [Tickets -> Nat]
BY DEF TypeOK, RefundUse, CanSpend, LoseUse

-----------------------------------------------------------------------------
(* Every action keeps the types.                                           *)

\* A login and the end of a session keep the types.
LEMMA SessionActionsType ==
    ASSUME TypeOK, NEW s \in Sessions,
           Authenticate(s) \/ EndSession(s)
    PROVE  TypeOK'
<1>1. CASE Authenticate(s)
  <2>1. CASE TicketOf[s] = NoTicket
    BY <1>1, <2>1 DEF TypeOK, Authenticate
  <2>2. CASE TicketOf[s] # NoTicket
    <3>1. TicketOf[s] \in Tickets
      BY <2>2, ConstantTypes
    <3>2. uses' \in [Tickets -> Nat]
      BY <1>1, <2>2, <3>1, LedgerTypes DEF Authenticate
    <3> QED
      BY <1>1, <2>2, <3>2 DEF TypeOK, Authenticate
  <2> QED
    BY <2>1, <2>2
<1>2. CASE EndSession(s)
  <2>1. CloseTask(s, "abandoned") \in Job
    BY TaskTypes DEF UNANSWERED
  <2> QED
    BY <1>2, <2>1 DEF TypeOK, EndSession, aux
<1> QED
  BY <1>1, <1>2

\* The ticket of an asker's session is a ticket, or there is none.
LEMMA TicketOfAsker ==
    ASSUME NEW a \in Askers
    PROVE  /\ SessionOf[a] \in Sessions
           /\ TicketOf[SessionOf[a]] \in Tickets \cup {NoTicket}
BY ConstantTypes

\* The end of a close keeps the types.
LEMMA ClosedType ==
    ASSUME TypeOK, NEW a \in Askers, NEW closed \in BOOLEAN, Closed(a, closed)
    PROVE  asker' \in [Askers -> Asker] /\ job' \in [Jobs -> Job]
<1>1. CASE a \notin Blocking
  BY <1>1, GotoType DEF Closed, AskerPcs, Guarded, TypeOK
<1>2. CASE a \in Blocking /\ closed
  BY <1>2, ReturnType, ClosingType DEF Closed, Outcomes
<1>3. CASE a \in Blocking /\ ~closed
  BY <1>3, GotoType DEF Closed, AskerPcs, Guarded, TypeOK
<1> QED
  BY <1>1, <1>2, <1>3

\* Taking note of a decision keeps the types.
LEMMA DecidedType ==
    ASSUME TypeOK, NEW a \in Askers, Decided(a)
    PROVE  asker' \in [Askers -> Asker] /\ job' \in [Jobs -> Job]
<1>1. ConsumeTask(SessionOf[a]) \in Job
  BY TaskTypes, TicketOfAsker
<1>2. CASE row[SessionOf[a]].status = "approved"
  <2>1. asker' \in [Askers -> Asker]
    BY <1>2, GotoType DEF Decided, AskerPcs
  <2> QED
    BY <1>1, <1>2, <2>1 DEF Decided, TypeOK
<1>3. CASE row[SessionOf[a]].status # "approved"
  BY <1>1, <1>3, ReturnType DEF Decided, Outcomes
<1> QED
  BY <1>2, <1>3

\* The steps that begin a call keep the types.
LEMMA BeginningsType ==
    ASSUME TypeOK, NEW a \in Askers,
           Begin(a) \/ Find(a) \/ Consume(a)
    PROVE  TypeOK'
<1>1. CASE Begin(a)
  <2>1. PICK pc \in AskerPcs : Goto(a, pc)
    BY <1>1 DEF Begin, AskerPcs, Guarded
  <2>2. asker' \in [Askers -> Asker]
    BY <2>1, GotoType
  <2> QED
    BY <1>1, <2>2 DEF TypeOK, Begin, aux
<1>2. CASE Find(a)
  <2>1. \/ Return(a, "pending", Idle)
        \/ UNCHANGED job /\ \E pc \in AskerPcs : Goto(a, pc)
    BY <1>2 DEF Find, AskerPcs, Guarded
  <2>2. asker' \in [Askers -> Asker] /\ job' \in [Jobs -> Job]
    BY <2>1, GotoType, ReturnType, TaskTypes DEF Outcomes, TypeOK
  <2> QED
    BY <1>2, <2>2 DEF TypeOK, Find, aux
<1>3. CASE Consume(a)
  <2>1. \/ Return(a, "refused", Idle)
        \/ UNCHANGED job /\ \E pc \in AskerPcs : Goto(a, pc)
    BY <1>3 DEF Consume, AskerPcs
  <2>2. asker' \in [Askers -> Asker] /\ job' \in [Jobs -> Job]
    BY <2>1, GotoType, ReturnType, TaskTypes DEF Outcomes, TypeOK
  <2>3. row' \in [Sessions -> Row]
    <3> DEFINE s == SessionOf[a]
               c == row[s].status # "none"
               r == [row[s] EXCEPT !.consumed = c]
    <3>1. row \in [Sessions -> Row] /\ s \in Sessions
      BY TicketOfAsker DEF TypeOK
    <3>2. row' = [row EXCEPT ![s] = r]
      BY <1>3 DEF Consume
    <3>3. c \in BOOLEAN
      OBVIOUS
    <3> HIDE DEF s, c
    <3>4. r \in Row
      BY <3>1, <3>3 DEF Row
    <3> HIDE DEF r
    <3> QED
      BY <3>1, <3>2, <3>4
  <2> QED
    BY <1>3, <2>2, <2>3 DEF TypeOK, Consume, aux
<1> QED
  BY <1>1, <1>2, <1>3

\* The statements of upsert_request keep the types.
LEMMA UpsertType ==
    ASSUME TypeOK, NEW a \in Askers,
           \/ Refresh(a) \/ Lookup(a) \/ Spend(a) \/ Exhausted(a)
           \/ Reopen(a) \/ GiveBack(a) \/ Insert(a)
    PROVE  TypeOK'
<1> DEFINE s == SessionOf[a]
           t == TicketOf[s]
<1>s. s \in Sessions /\ t \in Tickets \cup {NoTicket}
  BY TicketOfAsker
<1>r. row \in [Sessions -> Row]
  BY DEF TypeOK
<1> DEFINE Locals == asker' \in [Askers -> Asker] /\ job' \in [Jobs -> Job]
<1>g. ASSUME NEW pc \in AskerPcs, Goto(a, pc), UNCHANGED job PROVE Locals
  BY <1>g, GotoType DEF TypeOK
<1>1. CASE Refresh(a)
  <2>1. row' = row /\ (Advertised(a) \/ (UNCHANGED job /\ \E pc \in AskerPcs : Goto(a, pc)))
    BY <1>1 DEF Refresh, AskerPcs, Guarded
  <2>2. Locals
    BY <1>g, <1>r, <2>1, AdvertisedType
  <2> QED
    BY <1>1, <2>1, <2>2 DEF TypeOK, Refresh, aux
<1>2. CASE Lookup(a)
  <2>1. row' = row /\ (NotUnanswered(a) \/ (UNCHANGED job /\ \E pc \in AskerPcs : Goto(a, pc)))
    BY <1>2 DEF Lookup, AskerPcs, Guarded
  <2>2. Locals
    BY <1>g, <1>r, <2>1, NotUnansweredType
  <2> QED
    BY <1>2, <2>1, <2>2 DEF TypeOK, Lookup, aux
<1>3. CASE Spend(a)
  <2>1. \/ Return(a, "refused", Closing(a))
        \/ UNCHANGED job /\ \E pc \in AskerPcs : Goto(a, pc)
    BY <1>3 DEF Spend, AskerPcs, Guarded
  <2>2. Locals
    BY <1>g, <2>1, ReturnType, ClosingType DEF Outcomes
  <2>3. uses' \in [Tickets -> Nat]
    <3>1. CASE UNCHANGED uses
      BY <3>1 DEF TypeOK
    <3>2. CASE CanSpend(t) /\ uses' = [uses EXCEPT ![t] = @ - 1]
      <4>1. CASE t \in Tickets
        BY <3>2, <4>1, LedgerTypes
      <4>2. CASE t \notin Tickets
        <5> HIDE DEF t
        <5> QED
          BY <3>2, <4>2 DEF TypeOK
      <4> QED
        BY <4>1, <4>2
    <3> QED
      BY <1>3, <3>1, <3>2 DEF Spend
  <2> QED
    BY <1>3, <2>2, <2>3 DEF TypeOK, Spend, aux
<1>4. CASE Exhausted(a)
  <2>1. row' = row /\ (Advertised(a) \/ Return(a, "refused", Closing(a)))
    BY <1>4 DEF Exhausted
  <2>2. Locals
    BY <1>r, <2>1, AdvertisedType, ReturnType, ClosingType DEF Outcomes
  <2> QED
    BY <1>4, <2>1, <2>2 DEF TypeOK, Exhausted, aux
<1>5. CASE Reopen(a)
  <2>1. \/ Ask(s) /\ Advertised(a)
        \/ row' = row /\ NotUnanswered(a)
        \/ row' = row /\ UNCHANGED job /\ \E pc \in AskerPcs : Goto(a, pc)
    BY <1>5 DEF Reopen, AskerPcs, Guarded
  <2>2. row' \in [Sessions -> Row]
    BY <1>r, <1>s, <2>1, AskType
  <2>3. Locals
    BY <1>g, <2>1, <2>2, AdvertisedType, NotUnansweredType
  <2>4. paid' \in [Sessions -> BOOLEAN]
    <3> DEFINE b == t # NoTicket
    <3>1. paid' = paid \/ paid' = [paid EXCEPT ![s] = b]
      BY <1>5 DEF Reopen
    <3>2. b \in BOOLEAN
      OBVIOUS
    <3> HIDE DEF b, s
    <3> QED
      BY <1>s, <3>1, <3>2 DEF TypeOK
  <2> QED
    BY <1>5, <2>2, <2>3, <2>4 DEF TypeOK, Reopen
<1>6. CASE GiveBack(a)
  <2>1. row' = row /\ NotUnanswered(a) /\ RefundUse(t)
    BY <1>6 DEF GiveBack
  <2>2. Locals
    BY <1>r, <2>1, NotUnansweredType
  <2>3. uses' \in [Tickets -> Nat] /\ lost' \in [Tickets -> Nat] /\ failures' \in Nat
    BY <1>s, <2>1 DEF RefundUse, TypeOK
  <2> QED
    BY <1>6, <2>1, <2>2, <2>3 DEF TypeOK, GiveBack
<1>7. CASE Insert(a)
  <2>1. CASE Ask(s) /\ Advertised(a)
    <3>1. row' \in [Sessions -> Row]
      BY <1>s, <2>1, AskType
    <3>2. Locals
      BY <2>1, <3>1, AdvertisedType
    <3> QED
      BY <1>7, <3>1, <3>2 DEF TypeOK, Insert, aux
  <2>2. CASE /\ asker' = [asker EXCEPT ![a].pc = "refresh", ![a].again = TRUE]
             /\ UNCHANGED <<row, job>>
    <3> DEFINE loc == [asker[a] EXCEPT !.pc = "refresh", !.again = TRUE]
    <3>2. asker \in [Askers -> Asker] /\ loc \in Asker
      BY DEF TypeOK, Asker, AskerPcs, Guarded
    <3>3. asker' = [asker EXCEPT ![a] = loc]
      BY <2>2
    <3> HIDE DEF loc
    <3>1. asker' \in [Askers -> Asker]
      BY <3>2, <3>3
    <3> QED
      BY <1>7, <2>2, <3>1 DEF TypeOK, Insert, aux
  <2> QED
    BY <1>7, <2>1, <2>2 DEF Insert
<1> QED
  BY <1>1, <1>2, <1>3, <1>4, <1>5, <1>6, <1>7

\* Waiting for a decision, and giving up, keep the types.
LEMMA WaitingType ==
    ASSUME TypeOK, NEW a \in Askers,
           \/ PollRow(a) \/ Deadline(a) \/ ReadToClose(a)
           \/ SettleTimedOut(a) \/ RefundTimedOut(a) \/ Reread(a)
    PROVE  TypeOK'
<1> DEFINE s == SessionOf[a]
           t == TicketOf[s]
           Locals == asker' \in [Askers -> Asker] /\ job' \in [Jobs -> Job]
<1>s. s \in Sessions /\ t \in Tickets \cup {NoTicket}
  BY TicketOfAsker
<1>a. asker \in [Askers -> Asker] /\ asker[a] \in Asker /\ row \in [Sessions -> Row]
  BY DEF TypeOK
<1>1. CASE PollRow(a)
  <2>1. Decided(a) \/ Return(a, "expired", Closing(a))
    BY <1>1 DEF PollRow
  <2>2. Locals
    BY <2>1, DecidedType, ReturnType, ClosingType DEF Outcomes
  <2> QED
    BY <1>1, <2>2 DEF TypeOK, PollRow, aux
<1>2. CASE Deadline(a)
  <2> DEFINE loc == [asker[a] EXCEPT !.pc = "close", !.closeAs = "timed_out"]
  <2>1. loc \in Asker
    BY <1>a DEF Asker, AskerPcs, Guarded, UNANSWERED
  <2>2. asker' = [asker EXCEPT ![a] = loc]
    BY <1>2 DEF Deadline
  <2> HIDE DEF loc
  <2>3. asker' \in [Askers -> Asker]
    BY <1>a, <2>1, <2>2
  <2> QED
    BY <1>2, <2>3 DEF TypeOK, Deadline, aux
<1>3. CASE ReadToClose(a)
  <2> DEFINE n == row[s].started
             loc == [asker[a] EXCEPT !.pc = "settle", !.read = n]
  <2>1. (asker' = [asker EXCEPT ![a] = loc] /\ UNCHANGED job) \/ Closed(a, FALSE)
    BY <1>3 DEF ReadToClose
  <2>2. n \in Nat
    BY <1>a, <1>s DEF Row
  <2> HIDE DEF n
  <2>3. loc \in Asker
    BY <1>a, <2>2 DEF Asker, AskerPcs, Guarded
  <2> HIDE DEF loc
  <2>4. Locals
    <3>1. CASE asker' = [asker EXCEPT ![a] = loc] /\ UNCHANGED job
      BY <1>a, <2>3, <3>1 DEF TypeOK
    <3>2. CASE Closed(a, FALSE)
      BY <3>2, ClosedType
    <3> QED
      BY <2>1, <3>1, <3>2
  <2> QED
    BY <1>3, <2>4 DEF TypeOK, ReadToClose, aux
<1>4. CASE SettleTimedOut(a)
  <2>1. /\ row' = row \/ Settle(s, "timed_out", "none")
        /\ paid' = paid \/ paid' = [paid EXCEPT ![s] = FALSE]
        /\ \/ \E pc \in AskerPcs : Goto(a, pc) /\ UNCHANGED job
           \/ \E closed \in BOOLEAN : Closed(a, closed)
    BY <1>4 DEF SettleTimedOut, AskerPcs, Guarded
  <2>2. row' \in [Sessions -> Row]
    BY <1>a, <1>s, <2>1, SettleType DEF UNANSWERED, Scopes
  <2>3. paid' \in [Sessions -> BOOLEAN]
    BY <2>1 DEF TypeOK
  <2>4. Locals
    BY <2>1, GotoType, ClosedType DEF TypeOK
  <2> QED
    BY <1>4, <2>2, <2>3, <2>4 DEF TypeOK, SettleTimedOut
<1>5. CASE RefundTimedOut(a)
  <2>1. RefundUse(t) /\ Closed(a, TRUE)
    BY <1>5 DEF RefundTimedOut
  <2>2. uses' \in [Tickets -> Nat] /\ lost' \in [Tickets -> Nat] /\ failures' \in Nat
    BY <1>s, <2>1 DEF RefundUse, TypeOK
  <2>3. Locals
    BY <2>1, ClosedType
  <2> QED
    BY <1>5, <2>2, <2>3 DEF TypeOK, RefundTimedOut
<1>6. CASE Reread(a)
  <2>1. Decided(a) \/ Return(a, "expired", Closing(a))
    BY <1>6 DEF Reread
  <2>2. Locals
    BY <2>1, DecidedType, ReturnType, ClosingType DEF Outcomes
  <2> QED
    BY <1>6, <2>2 DEF TypeOK, Reread, aux
<1> QED
  BY <1>1, <1>2, <1>3, <1>4, <1>5, <1>6

\* The ways a call ends keep the types.
LEMMA EndingsType ==
    ASSUME TypeOK, NEW a \in Askers,
           Admit(a) \/ FailReopen(a) \/ Cancel(a) \/ Crash(a)
    PROVE  TypeOK'
<1> DEFINE t == TicketOf[SessionOf[a]]
<1>1. asker' \in [Askers -> Asker]
  BY EndsType DEF Admit, FailReopen, Return, Cancel, Crash, Outcomes
<1>2. CASE Admit(a)
  BY <1>1, <1>2, TicketOfAsker DEF TypeOK, Admit, aux
<1>3. ASSUME NEW carries, LoseUse(t, carries) PROVE lost' \in [Tickets -> Nat]
  BY <1>3, TicketOfAsker DEF TypeOK, LoseUse
<1>4. CASE Cancel(a)
  <2>1. job' \in [Jobs -> Job]
    BY <1>4, ClosingType DEF Cancel, TypeOK
  <2>2. lost' \in [Tickets -> Nat]
    BY <1>3, <1>4 DEF Cancel
  <2> QED
    BY <1>1, <1>4, <2>1, <2>2 DEF TypeOK, Cancel
<1>5. CASE Crash(a)
  <2>1. lost' \in [Tickets -> Nat]
    BY <1>3, <1>5 DEF Crash
  <2> QED
    BY <1>1, <1>5, <2>1 DEF TypeOK, Crash
<1>6. CASE FailReopen(a)
  <2>1. RefundUse(t) /\ Return(a, "failed", Closing(a))
    BY <1>6 DEF FailReopen
  <2>2. uses' \in [Tickets -> Nat] /\ lost' \in [Tickets -> Nat] /\ failures' \in Nat
    BY <2>1, TicketOfAsker DEF RefundUse, TypeOK
  <2>3. job' \in [Jobs -> Job]
    BY <2>1, ReturnType, ClosingType DEF Outcomes
  <2> QED
    BY <1>1, <1>6, <2>2, <2>3 DEF TypeOK, FailReopen
<1> QED
  BY <1>2, <1>4, <1>5, <1>6

\* A task's snapshot and what is left of it are well-typed.
LEMMA ContinueType ==
    ASSUME TypeOK, NEW j \in Jobs
    PROVE  /\ \A whom \in SUBSET Sessions : Snapshot(whom) \in SUBSET (Sessions \X Nat)
           /\ \A todo \in SUBSET (Sessions \X Nat) : Continue(j, todo) \in Job
<1>1. ASSUME NEW whom \in SUBSET Sessions
      PROVE  Snapshot(whom) \in SUBSET (Sessions \X Nat)
  <2>1. \A s \in whom : row[s].started \in Nat
    BY DEF TypeOK, Row
  <2> QED
    BY <2>1 DEF Snapshot
<1>2. ASSUME NEW todo \in SUBSET (Sessions \X Nat) PROVE Continue(j, todo) \in Job
  <2>1. job[j] \in Job /\ Idle \in Job
    BY TaskTypes DEF TypeOK
  <2>2. [job[j] EXCEPT !.pc = "settle", !.whom = {}, !.todo = todo, !.back = NoTicket] \in Job
    BY <2>1 DEF Job, JobPcs
  <2> QED
    BY <2>1, <2>2 DEF Continue
<1> QED
  BY <1>1, <1>2

\* Reading the questions to settle keeps the types.
LEMMA ReadingsType ==
    ASSUME TypeOK
    PROVE  /\ \A j \in Jobs : ReadPending(j) => TypeOK'
           /\ \A j \in Admins, s \in Sessions, to \in DECIDED, scope \in Scopes :
                Answer(j, s, to, scope) => TypeOK'
           /\ Reap => TypeOK'
<1> DEFINE Task(to, scope, todo) ==
             [Idle EXCEPT !.pc = "settle", !.to = to, !.scope = scope, !.todo = todo]
<1>t. ASSUME NEW to \in UNANSWERED \cup DECIDED, NEW scope \in Scopes,
             NEW todo \in SUBSET (Sessions \X Nat)
      PROVE  Task(to, scope, todo) \in Job
  BY TaskTypes DEF Job, JobPcs
<1>j. job \in [Jobs -> Job]
  BY DEF TypeOK
<1>1. ASSUME NEW j \in Jobs, ReadPending(j) PROVE TypeOK'
  <2>1. job[j].whom \in SUBSET Sessions
    BY <1>j DEF Job
  <2>2. Continue(j, Snapshot(job[j].whom)) \in Job
    BY <2>1, ContinueType
  <2> QED
    BY <1>1, <2>2 DEF TypeOK, ReadPending, aux
<1>2. ASSUME NEW j \in Admins, NEW s \in Sessions, NEW to \in DECIDED,
             NEW scope \in Scopes, Answer(j, s, to, scope)
      PROVE  TypeOK'
  <2>1. Snapshot({s}) \in SUBSET (Sessions \X Nat)
    BY ContinueType
  <2>2. Task(to, scope, Snapshot({s})) \in Job
    BY <1>t, <2>1
  <2>3. job' = [job EXCEPT ![j] = Task(to, scope, Snapshot({s}))]
    BY <1>2 DEF Answer
  <2> HIDE DEF Task
  <2>4. job' \in [Jobs -> Job]
    BY <1>j, <2>2, <2>3
  <2> QED
    BY <1>2, <2>4 DEF TypeOK, Answer, aux
<1>3. ASSUME Reap PROVE TypeOK'
  <2> DEFINE stale == Snapshot({s \in Sessions : row[s].age >= 2})
             task == [Idle EXCEPT !.pc = "settle", !.todo = stale]
  <2>1. stale \in SUBSET (Sessions \X Nat)
    BY ContinueType
  <2>2. job' = [job EXCEPT ![Reaper] = task]
    BY <1>3 DEF Reap
  <2> HIDE DEF stale
  <2>3. task \in Job
    BY <2>1, TaskTypes DEF Job, JobPcs
  <2> HIDE DEF task
  <2>4. job' \in [Jobs -> Job]
    BY <1>j, <2>2, <2>3
  <2> QED
    BY <1>3, <2>4 DEF TypeOK, Reap, aux
<1> QED
  BY <1>1, <1>2, <1>3

\* Settling the questions of a snapshot keeps the types.
LEMMA SettlingType ==
    ASSUME TypeOK, NEW j \in Jobs, NEW s \in Sessions, NEW n \in Nat, SettleNext(j, s, n)
    PROVE  TypeOK'
<1> DEFINE to == job[j].to
           rest == job[j].todo \ {<<s, n>>}
           owed == [job[j] EXCEPT !.pc = "refund", !.todo = rest, !.back = TicketOf[s]]
<1>1. /\ job \in [Jobs -> Job] /\ job[j] \in Job
      /\ to \in UNANSWERED \cup DECIDED /\ job[j].scope \in Scopes
      /\ rest \in SUBSET (Sessions \X Nat)
  BY DEF TypeOK, Job
<1>2. Continue(j, rest) \in Job
  BY <1>1, ContinueType
<1>3. owed \in Job
  BY <1>1, ConstantTypes DEF Job, JobPcs
<1>4. job' \in [Jobs -> Job]
  <2>1. job' = [job EXCEPT ![j] = Continue(j, rest)] \/ job' = [job EXCEPT ![j] = owed]
    BY DEF SettleNext
  <2> HIDE DEF rest, owed
  <2> QED
    BY <1>1, <1>2, <1>3, <2>1
<1>5. row' \in [Sessions -> Row]
  <2>1. row' = row \/ Settle(s, to, job[j].scope)
    BY DEF SettleNext
  <2> QED
    BY <1>1, <2>1, SettleType DEF TypeOK
<1>6. paid' \in [Sessions -> BOOLEAN]
  BY DEF SettleNext, TypeOK
<1>7. verdict' \in [Sessions -> DECIDED \cup {"none"}] /\ answered' \in [Sessions -> Nat]
  BY DEF SettleNext, TypeOK
<1> QED
  BY <1>4, <1>5, <1>6, <1>7 DEF TypeOK, SettleNext

\* The other steps of a task keep the types.
LEMMA TasksType ==
    ASSUME TypeOK, NEW j \in Jobs,
           Refund(j) \/ MarkConsumed(j) \/ FailTask(j)
    PROVE  TypeOK'
<1>1. job \in [Jobs -> Job] /\ job[j] \in Job /\ Idle \in Job
  BY TaskTypes DEF TypeOK
<1>2. CASE Refund(j)
  <2>1. job[j].todo \in SUBSET (Sessions \X Nat)
    BY <1>1 DEF Job
  <2>2. Continue(j, job[j].todo) \in Job
    BY <2>1, ContinueType
  <2>3. RefundUse(job[j].back)
    BY <1>2 DEF Refund
  <2>4. uses' \in [Tickets -> Nat] /\ lost' \in [Tickets -> Nat] /\ failures' \in Nat
    BY <2>3 DEF RefundUse, TypeOK
  <2> QED
    BY <1>2, <2>2, <2>4 DEF TypeOK, Refund
<1>3. CASE MarkConsumed(j)
  <2> DEFINE Seen(s) == [row[s] EXCEPT !.consumed = TRUE]
  <2>1. \A s \in Sessions : row[s] \in Row /\ Seen(s) \in Row
    BY DEF TypeOK, Row
  <2>2. row' = [s \in Sessions |-> IF s \in job[j].whom /\ row[s].status # "none"
                                   THEN Seen(s) ELSE row[s]]
    BY <1>3 DEF MarkConsumed
  <2> HIDE DEF Seen
  <2>3. row' \in [Sessions -> Row]
    BY <2>1, <2>2
  <2> QED
    BY <1>1, <1>3, <2>3 DEF TypeOK, MarkConsumed, aux
<1>4. CASE FailTask(j)
  <2>1. ASSUME NEW t \in Tickets \cup {NoTicket}, NEW carries, LoseUse(t, carries)
        PROVE  lost' \in [Tickets -> Nat]
    BY <2>1 DEF TypeOK, LoseUse
  <2>3. job[j].back \in Tickets \cup {NoTicket}
    BY <1>1 DEF Job
  <2>2. lost' \in [Tickets -> Nat]
    BY <1>4, <2>1, <2>3 DEF FailTask
  <2> QED
    BY <1>1, <1>4, <2>2 DEF TypeOK, FailTask
<1> QED
  BY <1>2, <1>3, <1>4

\* Time and retention keep the types.
LEMMA ClockType ==
    ASSUME TypeOK, NEW s \in Sessions, Tick(s) \/ Forget(s) \/ Purge(s)
    PROVE  TypeOK'
<1>1. row \in [Sessions -> Row] /\ row[s] \in Row
  BY DEF TypeOK
<1>2. PICK r \in Row : row' = [row EXCEPT ![s] = r]
  <2>1. CASE Tick(s)
    <3> DEFINE older == IF ~IsPending(s) THEN 3 ELSE IF row[s].age = 0 THEN 1 ELSE 2
               r == [row[s] EXCEPT !.age = older]
    <3>1. older \in 0..3
      OBVIOUS
    <3>2. row' = [row EXCEPT ![s] = r]
      BY <2>1 DEF Tick
    <3> HIDE DEF older
    <3>3. r \in Row
      BY <1>1, <3>1 DEF Row
    <3> QED
      BY <3>2, <3>3
  <2>2. CASE Forget(s)
    <3>1. [row[s] EXCEPT !.fresh = FALSE] \in Row
      BY <1>1 DEF Row
    <3> QED
      BY <2>2, <3>1 DEF Forget
  <2>3. CASE Purge(s)
    <3>1. row[s].started \in Nat /\ NoRow \in Row
      BY <1>1 DEF Row, NoRow, Scopes
    <3>2. [NoRow EXCEPT !.started = row[s].started] \in Row
      BY <3>1 DEF Row
    <3> QED
      BY <2>3, <3>2 DEF Purge
  <2> QED
    BY <2>1, <2>2, <2>3
<1>3. row' \in [Sessions -> Row]
  BY <1>1, <1>2
<1>4. UNCHANGED <<session, admitted, uses, asker, job, failures, aux>>
  BY DEF Tick, Forget, Purge
<1> QED
  BY <1>3, <1>4 DEF TypeOK, aux

\* The initial state is well-typed.
LEMMA InitType == Init => TypeOK
<1> SUFFICES ASSUME Init PROVE TypeOK
  OBVIOUS
<1>1. NoRow \in Row
  BY DEF Row, NoRow, Scopes
<1>2. Unasked \in Asker
  BY DEF Unasked, Asker, AskerPcs, UNANSWERED, Outcomes
<1>3. Idle \in Job
  BY TaskTypes
<1> QED
  BY <1>1, <1>2, <1>3, ConstantTypes DEF Init, TypeOK

\* Every step keeps the types.
LEMMA NextType ==
    ASSUME TypeOK, [Next]_vars
    PROVE  TypeOK'
<1>1. CASE UNCHANGED vars
  BY <1>1 DEF TypeOK, vars
<1>2. ASSUME NEW s \in Sessions,
             Authenticate(s) \/ EndSession(s) \/ Tick(s) \/ Forget(s) \/ Purge(s)
      PROVE  TypeOK'
  BY <1>2, SessionActionsType, ClockType
<1>3. ASSUME NEW a \in Askers, Begin(a) \/ AskerStep(a) \/ FailReopen(a) \/ Cancel(a) \/ Crash(a)
      PROVE  TypeOK'
  BY <1>3, BeginningsType, UpsertType, WaitingType, EndingsType DEF AskerStep
<1>4. ASSUME NEW j \in Jobs, TaskStep(j) \/ FailTask(j) PROVE TypeOK'
  <2>1. CASE \E snapshot \in job[j].todo : SettleNext(j, snapshot[1], snapshot[2])
    <3>1. PICK snapshot \in job[j].todo : SettleNext(j, snapshot[1], snapshot[2])
      BY <2>1
    <3>2. snapshot \in Sessions \X Nat
      BY DEF TypeOK, Job
    <3>3. snapshot[1] \in Sessions /\ snapshot[2] \in Nat
      BY <3>2
    <3> QED
      BY <3>1, <3>3, SettlingType
  <2> QED
    BY <1>4, <2>1, ReadingsType, TasksType DEF TaskStep
<1>5. ASSUME NEW j \in Admins, NEW s \in Sessions,
             \/ Answer(j, s, "rejected", "none")
             \/ \E g \in Grants : Answer(j, s, "approved", g)
      PROVE  TypeOK'
  BY <1>5, ReadingsType, ConstantTypes DEF DECIDED, Scopes
<1>6. CASE Reap
  BY <1>6, ReadingsType
<1> QED
  BY <1>1, <1>2, <1>3, <1>4, <1>5, <1>6 DEF Next

\* Whatever the nodes, the administrators and the reaper do to the tables and
\* to each other, every variable keeps its type; uses_left in particular never
\* goes below zero (spend_use).
THEOREM TypeCorrect == Spec => []TypeOK
BY InitType, NextType, PTL DEF Spec

-----------------------------------------------------------------------------
(* What may happen to the row of a question.                               *)

\* The columns of a row the theorems below speak about, and what is known of them.
Columns(s) == <<row[s].status, row[s].started, row[s].scope, verdict[s], answered[s]>>

\* Each step either leaves these columns of a row alone, or somebody who is asking
\* asks on a row nobody decided, or a pending one is closed or answered, or the row
\* is deleted while nobody is asking.
LEMMA RowSteps ==
    ASSUME TypeOK, [Next]_vars, NEW s \in Sessions
    PROVE  \/ Columns(s)' = Columns(s)
           \/ /\ row[s].status \notin DECIDED /\ row'[s].status = "pending"
              /\ row'[s].started = row[s].started + 1 /\ verdict'[s] = verdict[s]
              /\ Asking(s)
           \/ /\ row[s].status = "pending" /\ row'[s].status \in UNANSWERED
              /\ row'[s].started = row[s].started /\ verdict'[s] = verdict[s]
           \/ /\ row[s].status = "pending" /\ row'[s].status \in DECIDED
              /\ row'[s].started = row[s].started /\ answered'[s] = row[s].started
              /\ verdict'[s] = row'[s].status
           \/ /\ row'[s].status = "none"
              /\ row'[s].started = row[s].started /\ verdict'[s] = verdict[s]
              /\ ~Asking(s) /\ (PurgeLive \/ session[s] = "ended")
<1> DEFINE Kept == Columns(s)' = Columns(s)
           Asked == /\ row[s].status \notin DECIDED /\ row'[s].status = "pending"
                    /\ row'[s].started = row[s].started + 1 /\ verdict'[s] = verdict[s]
                    /\ Asking(s)
           Closed_ == /\ row[s].status = "pending" /\ row'[s].status \in UNANSWERED
                      /\ row'[s].started = row[s].started /\ verdict'[s] = verdict[s]
           Answered_ == /\ row[s].status = "pending" /\ row'[s].status \in DECIDED
                        /\ row'[s].started = row[s].started
                        /\ answered'[s] = row[s].started /\ verdict'[s] = row'[s].status
           Deleted == /\ row'[s].status = "none"
                      /\ row'[s].started = row[s].started /\ verdict'[s] = verdict[s]
                      /\ ~Asking(s) /\ (PurgeLive \/ session[s] = "ended")
           Good == Kept \/ Asked \/ Closed_ \/ Answered_ \/ Deleted
<1> SUFFICES Good
  OBVIOUS
<1>r. /\ row \in [Sessions -> Row] /\ answered \in [Sessions -> Nat]
      /\ verdict \in [Sessions -> DECIDED \cup {"none"}]
  BY DEF TypeOK
<1>k. ASSUME row' = row, answered' = answered, verdict' = verdict PROVE Good
  BY <1>k DEF Columns
<1>a. ASSUME NEW r \in Sessions, Ask(r), row[r].status \notin DECIDED, Asking(r),
             answered' = answered, verdict' = verdict
      PROVE  Good
  <2>1. row' = [row EXCEPT ![r] = [NoRow EXCEPT !.status = "pending",
                                               !.started = row[r].started + 1]]
    BY <1>a DEF Ask
  <2>2. CASE r = s
    BY <1>a, <1>r, <2>1, <2>2 DEF NoRow
  <2>3. CASE r # s
    BY <1>a, <1>r, <2>1, <2>3 DEF Columns
  <2> QED
    BY <2>2, <2>3
<1>1. CASE UNCHANGED vars
  BY <1>1, <1>k DEF vars
<1>2. ASSUME NEW r \in Sessions, Authenticate(r) \/ EndSession(r) PROVE Good
  BY <1>2, <1>k DEF Authenticate, EndSession, aux
<1>3. ASSUME NEW r \in Sessions, Tick(r) \/ Forget(r) PROVE Good
  <2>1. CASE r = s
    BY <1>3, <1>r, <2>1 DEF Tick, Forget, aux, Columns, Row
  <2>2. CASE r # s
    BY <1>3, <1>r, <2>2 DEF Tick, Forget, aux, Columns
  <2> QED
    BY <2>1, <2>2
<1>4. ASSUME NEW r \in Sessions, Purge(r) PROVE Good
  <2>1. CASE r = s
    <3>1. /\ row' = [row EXCEPT ![s] = [NoRow EXCEPT !.started = row[s].started]]
          /\ verdict' = verdict
      BY <1>4, <2>1 DEF Purge, aux
    <3>2. ~Asking(s) /\ (PurgeLive \/ session[s] = "ended")
      BY <1>4, <2>1 DEF Purge, Asking
    <3> DEFINE n == row[s].started
    <3> HIDE DEF n
    <3> QED
      BY <1>r, <3>1, <3>2 DEF NoRow, n
  <2>2. CASE r # s
    BY <1>4, <1>r, <2>2 DEF Purge, aux, Columns
  <2> QED
    BY <2>1, <2>2
<1>5. ASSUME NEW a \in Askers, Consume(a) PROVE Good
  <2>1. row' = [row EXCEPT ![SessionOf[a]].consumed = row[SessionOf[a]].status # "none"]
        /\ answered' = answered /\ verdict' = verdict
    BY <1>5 DEF Consume, aux
  <2> DEFINE c == row[SessionOf[a]].status # "none"
  <2> HIDE DEF c
  <2>2. CASE SessionOf[a] = s
    BY <1>r, <2>1, <2>2 DEF Columns, Row
  <2>3. CASE SessionOf[a] # s
    BY <1>r, <2>1, <2>3 DEF Columns
  <2> QED
    BY <2>2, <2>3
<1>6. ASSUME NEW a \in Askers, Reopen(a) \/ Insert(a) PROVE Good
  <2>1. \/ row' = row
        \/ Ask(SessionOf[a]) /\ row[SessionOf[a]].status \notin DECIDED
    BY <1>6 DEF Reopen, Insert, UNANSWERED, DECIDED
  <2>2. answered' = answered /\ verdict' = verdict /\ Asking(SessionOf[a])
    BY <1>6 DEF Reopen, Insert, aux, Asking
  <2> QED
    BY <1>a, <1>k, <2>1, <2>2, TicketOfAsker
<1>7. ASSUME NEW a \in Askers, SettleTimedOut(a) PROVE Good
  <2> DEFINE r == SessionOf[a]
  <2>1. answered' = answered /\ verdict' = verdict /\ r \in Sessions
    BY <1>7, TicketOfAsker DEF SettleTimedOut
  <2>2. row' = row \/ (IsPending(r) /\ Settle(r, "timed_out", "none"))
    BY <1>7 DEF SettleTimedOut, Moves
  <2>3. CASE IsPending(r) /\ Settle(r, "timed_out", "none")
    <3> HIDE DEF r
    <3>1. CASE r = s
      BY <1>r, <2>1, <2>3, <3>1 DEF Settle, IsPending, Row, UNANSWERED
    <3>2. CASE r # s
      BY <1>r, <2>1, <2>3, <3>2 DEF Settle, Columns
    <3> QED
      BY <3>1, <3>2
  <2> QED
    BY <1>k, <2>1, <2>2, <2>3
<1>8. ASSUME NEW j \in Jobs, NEW r \in Sessions, NEW n \in Nat, SettleNext(j, r, n) PROVE Good
  <2>1. CASE ~Moves(r, n)
    BY <1>8, <1>k, <2>1 DEF SettleNext
  <2>2. CASE Moves(r, n)
    <3> DEFINE to == job[j].to
    <3>1. /\ Settle(r, to, job[j].scope)
          /\ answered' = IF to \in DECIDED THEN [answered EXCEPT ![r] = n] ELSE answered
          /\ verdict' = IF to \in DECIDED THEN [verdict EXCEPT ![r] = to] ELSE verdict
      BY <1>8, <2>2 DEF SettleNext
    <3>2. to \in UNANSWERED \cup DECIDED
      BY DEF TypeOK, Job
    <3>3. row[r].status = "pending" /\ row[r].started = n
      BY <2>2 DEF Moves, IsPending
    <3> HIDE DEF to
    <3>4. CASE r = s
      BY <1>r, <3>1, <3>2, <3>3, <3>4 DEF Settle, Row
    <3>5. CASE r # s
      BY <1>r, <3>1, <3>5 DEF Settle, Columns
    <3> QED
      BY <3>4, <3>5
  <2> QED
    BY <2>1, <2>2
<1>9. ASSUME NEW j \in Jobs, MarkConsumed(j) PROVE Good
  <2>1. /\ row'[s] = IF s \in job[j].whom /\ row[s].status # "none"
                     THEN [row[s] EXCEPT !.consumed = TRUE] ELSE row[s]
        /\ answered' = answered /\ verdict' = verdict
    BY <1>9 DEF MarkConsumed, aux
  <2> QED
    BY <1>r, <2>1 DEF Columns, Row
<1>10. ASSUME NEW a \in Askers,
              \/ Begin(a) \/ FailReopen(a) \/ Cancel(a) \/ Crash(a) \/ Find(a)
              \/ Refresh(a) \/ Lookup(a) \/ Spend(a) \/ Exhausted(a) \/ GiveBack(a)
              \/ PollRow(a) \/ Deadline(a) \/ ReadToClose(a) \/ RefundTimedOut(a)
              \/ Reread(a) \/ Admit(a)
       PROVE  Good
  <2>1. row' = row /\ answered' = answered /\ verdict' = verdict
    BY <1>10 DEF Begin, FailReopen, Cancel, Crash, Find, Refresh, Lookup, Spend, Exhausted,
                 GiveBack, PollRow, Deadline, ReadToClose, RefundTimedOut, Reread, Admit, aux
  <2> QED
    BY <1>k, <2>1
<1>11. ASSUME NEW j \in Jobs, ReadPending(j) \/ Refund(j) \/ FailTask(j) PROVE Good
  BY <1>11, <1>k DEF ReadPending, Refund, FailTask, aux
<1>12. ASSUME NEW j, NEW r, NEW to, NEW g, Answer(j, r, to, g) PROVE Good
  BY <1>12, <1>k DEF Answer, aux
<1>13. CASE Reap
  BY <1>13, <1>k DEF Reap, aux
<1>14. ASSUME NEW j \in Jobs, TaskStep(j) PROVE Good
  <2>1. CASE \E snapshot \in job[j].todo : SettleNext(j, snapshot[1], snapshot[2])
    <3>1. PICK snapshot \in job[j].todo : SettleNext(j, snapshot[1], snapshot[2])
      BY <2>1
    <3>2. snapshot \in Sessions \X Nat
      BY DEF TypeOK, Job
    <3>3. snapshot[1] \in Sessions /\ snapshot[2] \in Nat
      BY <3>2
    <3> QED
      BY <1>8, <3>1, <3>3
  <2> QED
    BY <1>9, <1>11, <1>14, <2>1 DEF TaskStep
<1> HIDE DEF Good
<1>15. ASSUME NEW a \in Askers, Begin(a) \/ AskerStep(a) \/ FailReopen(a) \/ Cancel(a) \/ Crash(a)
       PROVE  Good
  BY <1>5, <1>6, <1>7, <1>10, <1>15 DEF AskerStep
<1>16. CASE \E j \in Admins, r \in Sessions :
              \/ Answer(j, r, "rejected", "none")
              \/ \E g \in Grants : Answer(j, r, "approved", g)
  BY <1>12, <1>16
<1> QED
  BY <1>1, <1>2, <1>3, <1>4, <1>11, <1>13, <1>14, <1>15, <1>16 DEF Next

\* A decision, once on the row, is never changed: no late close, lost race,
\* reopen or second administrator overwrites it (StatusTransition's filters).
THEOREM DecisionsAreFinal == Spec => DecisionFinal
<1> DEFINE Final == \A s \in Sessions :
             row[s].status \in DECIDED => row'[s].status \in {row[s].status, "none"}
<1>1. ASSUME TypeOK, [Next]_vars PROVE Final
  BY <1>1, RowSteps DEF Columns, DECIDED, UNANSWERED
<1>2. ASSUME TypeOK, [Next]_vars PROVE [Final]_vars
  BY <1>1, <1>2
<1> QED
  BY <1>2, TypeCorrect, PTL DEF Spec, DecisionFinal

\* A decision lands on the question its author was looking at, however often
\* the row was closed and reopened in between (the Started filter).
THEOREM AnswersMeetTheirQuestion == Spec => []AnsweredAsSeen
<1>1. Init => AnsweredAsSeen
  BY DEF Init, AnsweredAsSeen, NoRow, DECIDED
<1>2. ASSUME TypeOK, AnsweredAsSeen, [Next]_vars PROVE AnsweredAsSeen'
  BY <1>2, RowSteps DEF AnsweredAsSeen, Columns, DECIDED, UNANSWERED
<1> QED
  BY <1>1, <1>2, TypeCorrect, PTL DEF Spec

-----------------------------------------------------------------------------
(* Where the uses of a ticket are.                                          *)

-----------------------------------------------------------------------------
(* What a step of an asker does, seen from outside.                        *)

\* Asker a goes to one of pcs; of the others' state nothing moves, and its own
\* task is left alone, spawned, or over.
Move(a, pcs) ==
    /\ asker'[a].pc \in pcs
    /\ \A b \in Askers \ {a} : asker'[b] = asker[b]
    /\ \A j \in Jobs \ {a} : job'[j] = job[j]
    /\ job'[a].pc \in {job[a].pc, "idle", "read", "consume"}
    /\ asker'[a].pc # "done" => job'[a].pc \in {job[a].pc, "consume"}

\* The building blocks of the actions are moves.
LEMMA GotoMove ==
    ASSUME TypeOK, NEW a \in Askers, NEW pc \in AskerPcs, Goto(a, pc), UNCHANGED job
    PROVE  Move(a, {pc})
BY DEF TypeOK, Goto, Move, Asker

\* So is the end of a call.
LEMMA EndsMove ==
    ASSUME TypeOK, NEW a \in Askers, NEW out, Ends(a, out),
           job' = job \/ \E task \in Job : task.pc \in {"idle", "read", "consume"}
                                           /\ job' = [job EXCEPT ![a] = task]
    PROVE  Move(a, {"done"})
<1>1. asker'[a].pc = "done"
  BY DEF Ends, Unasked, TypeOK
<1>2. \A b \in Askers \ {a} : asker'[b] = asker[b]
  BY DEF Ends, TypeOK
<1>3. /\ \A j \in Jobs \ {a} : job'[j] = job[j]
      /\ job'[a].pc \in {job[a].pc, "idle", "read", "consume"}
  BY DEF TypeOK
<1> QED
  BY <1>1, <1>2, <1>3 DEF Move

\* The pcs of the tasks that a call may leave behind.
LEMMA TaskPcs ==
    ASSUME TypeOK, NEW a \in Askers
    PROVE  /\ Idle.pc = "idle"
           /\ Closing(a).pc = "read"
           /\ ConsumeTask(SessionOf[a]).pc = "consume"
BY DEF Idle, Closing, CloseTask, ConsumeTask

\* A return is a move.
LEMMA ReturnMove ==
    ASSUME TypeOK, NEW a \in Askers, NEW out, NEW task \in Job,
           task.pc \in {"idle", "read", "consume"}, Return(a, out, task)
    PROVE  Move(a, {"done"})
BY EndsMove DEF Return

\* The end of upsert_request is a move.
LEMMA AdvertisedMove ==
    ASSUME TypeOK, NEW a \in Askers, Advertised(a)
    PROVE  Move(a, {"wait", "done"})
<1>1. CASE a \in Blocking
  <2>1. /\ asker' = [asker EXCEPT ![a].pc = "wait", ![a].since = row'[SessionOf[a]].started]
        /\ job' = job
    BY <1>1 DEF Advertised
  <2>2. asker'[a].pc = "wait" /\ \A b \in Askers \ {a} : asker'[b] = asker[b]
    BY <2>1 DEF TypeOK, Asker
  <2> QED
    BY <2>1, <2>2 DEF Move
<1>2. CASE a \notin Blocking
  BY <1>2, ReturnMove, TaskTypes, TaskPcs DEF Advertised, Move
<1> QED
  BY <1>1, <1>2

\* So is the end of a pass that found nothing to reopen,
LEMMA NotUnansweredMove ==
    ASSUME TypeOK, NEW a \in Askers, NotUnanswered(a)
    PROVE  Move(a, {"insert", "wait", "done"})
<1>1. CASE asker[a].again
  BY <1>1, AdvertisedMove DEF NotUnanswered, Move
<1>2. CASE ~asker[a].again
  BY <1>2, GotoMove DEF NotUnanswered, AskerPcs, Guarded, Move
<1> QED
  BY <1>1, <1>2

\* the end of a close,
LEMMA ClosedMove ==
    ASSUME TypeOK, NEW a \in Askers, NEW closed \in BOOLEAN, Closed(a, closed)
    PROVE  Move(a, {"refresh", "reread", "done"})
<1>1. CASE Return(a, "expired", Closing(a))
  BY <1>1, ReturnMove, ClosingType, TaskPcs DEF Move
<1>2. CASE UNCHANGED job /\ (Goto(a, "refresh") \/ Goto(a, "reread"))
  BY <1>2, GotoMove DEF AskerPcs, Guarded, Move
<1> QED
  BY <1>1, <1>2 DEF Closed

\* and taking note of a decision.
LEMMA DecidedMove ==
    ASSUME TypeOK, NEW a \in Askers, Decided(a)
    PROVE  /\ Move(a, {"admit", "done"})
           /\ asker'[a].pc = "admit" => row[SessionOf[a]].status = "approved"
<1> DEFINE s == SessionOf[a]
<1>1. ConsumeTask(s) \in Job /\ ConsumeTask(s).pc = "consume"
  BY TaskTypes, TaskPcs, TicketOfAsker
<1>2. CASE row[s].status = "approved"
  <2>1. Goto(a, "admit") /\ job' = [job EXCEPT ![a] = ConsumeTask(s)]
    BY <1>2 DEF Decided
  <2>2. asker'[a].pc = "admit" /\ \A b \in Askers \ {a} : asker'[b] = asker[b]
    BY <2>1 DEF Goto, TypeOK, Asker
  <2> DEFINE task == ConsumeTask(s)
  <2>4. job' = [job EXCEPT ![a] = task] /\ task.pc = "consume"
    BY <1>1, <2>1
  <2>5. job \in [Jobs -> Job] /\ a \in Jobs
    BY DEF TypeOK
  <2> HIDE DEF task
  <2>3. /\ \A j \in Jobs \ {a} : job'[j] = job[j]
        /\ job'[a].pc = "consume"
    BY <2>4, <2>5
  <2> QED
    BY <1>2, <2>2, <2>3 DEF Move
<1>3. CASE row[s].status # "approved"
  <2>1. Move(a, {"done"})
    BY <1>1, <1>3, ReturnMove DEF Decided
  <2> QED
    BY <2>1 DEF Move
<1> QED
  BY <1>2, <1>3

-----------------------------------------------------------------------------
(* The effect of every step on what the invariants mention.                *)

Untouched == UNCHANGED <<session, admitted, uses, row, failures, aux>>
SameStatus == \A r \in Sessions : row'[r].status = row[r].status

\* Steps that only read the tables.
LEMMA ReadingEffects ==
    ASSUME TypeOK, NEW a \in Askers
    PROVE  LET s == SessionOf[a] IN
           /\ Begin(a) => /\ Untouched
                          /\ session[s] = "open" /\ asker[a].pc = "start"
                          /\ Move(a, {"admit", "refresh", "find"})
                          /\ asker'[a].pc = "admit" =>
                                s \notin Gated \/ admitted[s] \/ Remembered(s)
                          /\ s \notin Gated => asker'[a].pc = "admit"
           /\ Find(a) => /\ Untouched
                         /\ asker[a].pc = "find"
                         /\ Move(a, {"done", "close", "grant", "deny", "refresh"})
                         /\ asker'[a].pc = "grant" => row[s].status = "approved"
           /\ Refresh(a) => /\ Untouched
                            /\ asker[a].pc = "refresh"
                            /\ Move(a, {"wait", "done", "reopen", "lookup"})
                            /\ asker'[a].pc = "reopen" => TicketOf[s] = NoTicket
           /\ Lookup(a) => /\ Untouched
                           /\ asker[a].pc = "lookup"
                           /\ Move(a, {"spend", "insert", "wait", "done"})
           /\ Exhausted(a) => /\ Untouched
                              /\ asker[a].pc = "exhausted"
                              /\ Move(a, {"wait", "done"})
           /\ PollRow(a) \/ Reread(a) =>
                /\ Untouched
                /\ asker[a].pc \in {"wait", "reread"}
                /\ Move(a, {"admit", "done"})
                /\ asker'[a].pc = "admit" => row[s].status = "approved"
           /\ Deadline(a) => Untouched /\ asker[a].pc = "wait" /\ Move(a, {"close"})
           /\ ReadToClose(a) => /\ Untouched
                                /\ asker[a].pc = "close"
                                /\ Move(a, {"settle", "refresh", "reread", "done"})
<1> DEFINE s == SessionOf[a]
<1>r. ASSUME Return(a, "pending", Idle) \/ Return(a, "refused", Closing(a))
                \/ Return(a, "expired", Closing(a))
      PROVE  Move(a, {"done"})
  BY <1>r, ReturnMove, TaskTypes, TaskPcs, ClosingType
<1>1. ASSUME Begin(a)
      PROVE  /\ Untouched
             /\ session[s] = "open" /\ asker[a].pc = "start"
             /\ Move(a, {"admit", "refresh", "find"})
             /\ asker'[a].pc = "admit" => s \notin Gated \/ admitted[s] \/ Remembered(s)
             /\ s \notin Gated => asker'[a].pc = "admit"
  <2>1. CASE s \notin Gated \/ admitted[s] \/ Remembered(s)
    <3>1. Move(a, {"admit"})
      BY <1>1, <2>1, GotoMove DEF Begin, AskerPcs
    <3> QED
      BY <1>1, <2>1, <3>1 DEF Begin, Untouched, Move
  <2>2. CASE ~(s \notin Gated \/ admitted[s] \/ Remembered(s))
    <3>1. Move(a, {"refresh"}) \/ Move(a, {"find"})
      BY <1>1, <2>2, GotoMove DEF Begin, AskerPcs, Guarded
    <3> QED
      BY <1>1, <2>2, <3>1 DEF Begin, Untouched, Move
  <2> QED
    BY <2>1, <2>2
<1>2. ASSUME Find(a)
      PROVE  /\ Untouched
             /\ asker[a].pc = "find"
             /\ Move(a, {"done", "close", "grant", "deny", "refresh"})
             /\ asker'[a].pc = "grant" => row[s].status = "approved"
  <2>1. \/ Move(a, {"done"}) \/ Move(a, {"close"}) \/ Move(a, {"deny"}) \/ Move(a, {"refresh"})
        \/ Move(a, {"grant"}) /\ row[s].status = "approved"
    <3>1. CASE Return(a, "pending", Idle)
      BY <1>r, <3>1
    <3>2. CASE ~Return(a, "pending", Idle)
      <4>1. /\ UNCHANGED job
            /\ \/ Goto(a, "close") \/ Goto(a, "deny") \/ Goto(a, "refresh")
               \/ Goto(a, "grant") /\ row[s].status = "approved"
        BY <1>2, <3>2 DEF Find
      <4> QED
        BY <4>1, GotoMove DEF AskerPcs, Guarded
    <3> QED
      BY <3>1, <3>2
  <2> QED
    BY <1>2, <2>1 DEF Find, Untouched, Move
<1>3. ASSUME Refresh(a)
      PROVE  /\ Untouched
             /\ asker[a].pc = "refresh"
             /\ Move(a, {"wait", "done", "reopen", "lookup"})
             /\ asker'[a].pc = "reopen" => TicketOf[s] = NoTicket
  <2>1. \/ Move(a, {"wait", "done"}) \/ Move(a, {"lookup"})
        \/ Move(a, {"reopen"}) /\ TicketOf[s] = NoTicket
    <3>1. \/ Advertised(a)
          \/ UNCHANGED job /\ Goto(a, "lookup")
          \/ UNCHANGED job /\ Goto(a, "reopen") /\ TicketOf[s] = NoTicket
      BY <1>3 DEF Refresh
    <3> QED
      BY <3>1, AdvertisedMove, GotoMove DEF AskerPcs, Guarded
  <2> QED
    BY <1>3, <2>1 DEF Refresh, Untouched, Move
<1>4. ASSUME Lookup(a)
      PROVE  /\ Untouched /\ asker[a].pc = "lookup"
             /\ Move(a, {"spend", "insert", "wait", "done"})
  <2>1. Move(a, {"spend"}) \/ Move(a, {"insert", "wait", "done"})
    BY <1>4, GotoMove, NotUnansweredMove DEF Lookup, AskerPcs, Guarded
  <2> QED
    BY <1>4, <2>1 DEF Lookup, Untouched, Move
<1>5. ASSUME Exhausted(a)
      PROVE  Untouched /\ asker[a].pc = "exhausted" /\ Move(a, {"wait", "done"})
  <2>1. Move(a, {"done"}) \/ Move(a, {"wait", "done"})
    BY <1>5, <1>r, AdvertisedMove DEF Exhausted
  <2> QED
    BY <1>5, <2>1 DEF Exhausted, Untouched, Move
<1>6. ASSUME PollRow(a) \/ Reread(a)
      PROVE  /\ Untouched
             /\ asker[a].pc \in {"wait", "reread"}
             /\ Move(a, {"admit", "done"})
             /\ asker'[a].pc = "admit" => row[s].status = "approved"
  <2>1. \/ Move(a, {"done"})
        \/ /\ Move(a, {"admit", "done"})
           /\ asker'[a].pc = "admit" => row[s].status = "approved"
    BY <1>6, <1>r, DecidedMove DEF PollRow, Reread
  <2> QED
    BY <1>6, <2>1 DEF PollRow, Reread, Untouched, Move
<1>7. ASSUME Deadline(a)
      PROVE  Untouched /\ asker[a].pc = "wait" /\ Move(a, {"close"})
  <2>1. asker'[a].pc = "close" /\ \A b \in Askers \ {a} : asker'[b] = asker[b]
    BY <1>7 DEF Deadline, TypeOK, Asker
  <2> QED
    BY <1>7, <2>1 DEF Deadline, Untouched, Move
<1>8. ASSUME ReadToClose(a)
      PROVE  /\ Untouched /\ asker[a].pc = "close"
             /\ Move(a, {"settle", "refresh", "reread", "done"})
  <2>1. CASE Closed(a, FALSE)
    BY <1>8, <2>1, ClosedMove DEF ReadToClose, Untouched, Move
  <2>2. CASE ~Closed(a, FALSE)
    <3>1. /\ asker' = [asker EXCEPT ![a].pc = "settle", ![a].read = row[s].started]
          /\ job' = job
      BY <1>8, <2>2 DEF ReadToClose
    <3>2. asker'[a].pc = "settle" /\ \A b \in Askers \ {a} : asker'[b] = asker[b]
      BY <3>1 DEF TypeOK, Asker
    <3> QED
      BY <1>8, <3>1, <3>2 DEF ReadToClose, Untouched, Move
  <2> QED
    BY <2>1, <2>2
<1> QED
  BY <1>1, <1>2, <1>3, <1>4, <1>5, <1>6, <1>7, <1>8

\* The status of s becomes `to`, that of no other row changes.
Becomes(s, to) ==
    /\ row'[s].status = to
    /\ \A r \in Sessions \ {s} : row'[r].status = row[r].status

\* Asking and settling change one status.
LEMMA StatusChanges ==
    ASSUME TypeOK, NEW s \in Sessions
    PROVE  /\ Ask(s) => Becomes(s, "pending")
           /\ \A to \in UNANSWERED \cup DECIDED : \A scope : Settle(s, to, scope) => Becomes(s, to)
<1>r. row \in [Sessions -> Row]
  BY DEF TypeOK
<1>1. ASSUME Ask(s) PROVE Becomes(s, "pending")
  <2> DEFINE n == row[s].started + 1
             r == [NoRow EXCEPT !.status = "pending", !.started = n]
  <2>1. row' = [row EXCEPT ![s] = r]
    BY <1>1 DEF Ask
  <2>2. r.status = "pending"
    BY DEF NoRow
  <2> HIDE DEF r
  <2> QED
    BY <1>r, <2>1, <2>2 DEF Becomes
<1>2. ASSUME NEW to \in UNANSWERED \cup DECIDED, NEW scope, Settle(s, to, scope)
      PROVE  Becomes(s, to)
  <2> DEFINE fresh == scope \in {"target", "all_targets"}
             r == [row[s] EXCEPT !.status = to, !.scope = scope, !.fresh = fresh]
  <2>1. row' = [row EXCEPT ![s] = r]
    BY <1>2 DEF Settle
  <2> HIDE DEF fresh
  <2>2. r.status = to
    BY <1>r DEF Row
  <2> HIDE DEF r
  <2> QED
    BY <1>r, <2>1, <2>2 DEF Becomes
<1> QED
  BY <1>1, <1>2

\* A use comes back, or is lost.
Returned(t) ==
    \/ uses' = [uses EXCEPT ![t] = @ + 1] /\ lost' = lost
    \/ lost' = [lost EXCEPT ![t] = @ + 1] /\ uses' = uses

\* Steps that write a row, spend a use or return one.
LEMMA WritingEffects ==
    ASSUME TypeOK, NEW a \in Askers
    PROVE  LET s == SessionOf[a]
               t == TicketOf[s]
           IN
           /\ Consume(a) => /\ UNCHANGED <<session, admitted, uses, lost, paid>> /\ SameStatus
                            /\ asker[a].pc \in {"grant", "deny"}
                            /\ Move(a, {"admit", "done"})
                            /\ asker'[a].pc = "admit" => asker[a].pc = "grant"
           /\ Spend(a) => /\ UNCHANGED <<session, admitted, lost, paid, row>>
                          /\ asker[a].pc = "spend"
                          /\ \/ /\ CanSpend(t) /\ uses' = [uses EXCEPT ![t] = @ - 1]
                                /\ Move(a, {"reopen"})
                             \/ uses' = uses /\ Move(a, {"done", "exhausted"})
           /\ Reopen(a) => /\ UNCHANGED <<session, admitted, uses, lost>>
                           /\ asker[a].pc = "reopen"
                           /\ \/ /\ row[s].status \in UNANSWERED /\ Becomes(s, "pending")
                                 /\ paid' = [paid EXCEPT ![s] = t # NoTicket]
                                 /\ Move(a, {"wait", "done"})
                              \/ UNCHANGED <<row, paid>> /\ t # NoTicket /\ Move(a, {"giveback"})
                              \/ /\ UNCHANGED <<row, paid>> /\ t = NoTicket
                                 /\ Move(a, {"insert", "wait", "done"})
           /\ GiveBack(a) => /\ UNCHANGED <<session, admitted, row, paid>>
                             /\ asker[a].pc = "giveback" /\ Returned(t)
                             /\ Move(a, {"insert", "wait", "done"})
           /\ Insert(a) => /\ UNCHANGED <<session, admitted, uses, lost, paid>>
                           /\ asker[a].pc = "insert"
                           /\ \/ /\ row[s].status = "none" /\ Becomes(s, "pending")
                                 /\ Move(a, {"wait", "done"})
                              \/ row' = row /\ Move(a, {"refresh"})
<1> DEFINE s == SessionOf[a]
           t == TicketOf[s]
<1>s. s \in Sessions
  BY TicketOfAsker
<1>1. ASSUME Consume(a)
      PROVE  /\ UNCHANGED <<session, admitted, uses, lost, paid>> /\ SameStatus
             /\ asker[a].pc \in {"grant", "deny"}
             /\ Move(a, {"admit", "done"})
             /\ asker'[a].pc = "admit" => asker[a].pc = "grant"
  <2>1. SameStatus
    <3> DEFINE c == row[s].status # "none"
    <3>1. row' = [row EXCEPT ![s].consumed = c] /\ row \in [Sessions -> Row]
      BY <1>1 DEF Consume, TypeOK
    <3> HIDE DEF c
    <3> QED
      BY <3>1 DEF SameStatus, Row
  <2>2. Move(a, {"done"}) \/ (Move(a, {"admit"}) /\ asker[a].pc = "grant")
    BY <1>1, GotoMove, ReturnMove, TaskTypes, TaskPcs DEF Consume, AskerPcs
  <2> QED
    BY <1>1, <2>1, <2>2 DEF Consume, Move, aux
<1>2. ASSUME Spend(a)
      PROVE  /\ UNCHANGED <<session, admitted, lost, paid, row>>
             /\ asker[a].pc = "spend"
             /\ \/ /\ CanSpend(t) /\ uses' = [uses EXCEPT ![t] = @ - 1]
                   /\ Move(a, {"reopen"})
                \/ uses' = uses /\ Move(a, {"done", "exhausted"})
  <2>1. CASE CanSpend(t)
    <3>1. Move(a, {"reopen"})
      BY <1>2, <2>1, GotoMove DEF Spend, AskerPcs, Guarded
    <3> QED
      BY <1>2, <2>1, <3>1 DEF Spend, aux
  <2>2. CASE ~CanSpend(t)
    <3>1. Move(a, {"done"}) \/ Move(a, {"exhausted"})
      BY <1>2, <2>2, GotoMove, ReturnMove, ClosingType, TaskPcs DEF Spend, AskerPcs, Guarded
    <3> QED
      BY <1>2, <2>2, <3>1 DEF Spend, aux, Move
  <2> QED
    BY <2>1, <2>2
<1>3. ASSUME Reopen(a)
      PROVE  /\ UNCHANGED <<session, admitted, uses, lost>>
             /\ asker[a].pc = "reopen"
             /\ \/ /\ row[s].status \in UNANSWERED /\ Becomes(s, "pending")
                   /\ paid' = [paid EXCEPT ![s] = t # NoTicket]
                   /\ Move(a, {"wait", "done"})
                \/ UNCHANGED <<row, paid>> /\ t # NoTicket /\ Move(a, {"giveback"})
                \/ /\ UNCHANGED <<row, paid>> /\ t = NoTicket
                   /\ Move(a, {"insert", "wait", "done"})
  <2>1. CASE row[s].status \in UNANSWERED
    <3>1. Ask(s) /\ Advertised(a) /\ paid' = [paid EXCEPT ![s] = t # NoTicket]
      BY <1>3, <2>1 DEF Reopen
    <3> QED
      BY <1>3, <1>s, <2>1, <3>1, StatusChanges, AdvertisedMove DEF Reopen
  <2>2. CASE row[s].status \notin UNANSWERED /\ t # NoTicket
    <3>1. Move(a, {"giveback"})
      BY <1>3, <2>2, GotoMove DEF Reopen, AskerPcs, Guarded
    <3> QED
      BY <1>3, <2>2, <3>1 DEF Reopen
  <2>3. CASE row[s].status \notin UNANSWERED /\ t = NoTicket
    <3>1. Move(a, {"insert", "wait", "done"})
      BY <1>3, <2>3, NotUnansweredMove DEF Reopen
    <3> QED
      BY <1>3, <2>3, <3>1 DEF Reopen
  <2> QED
    BY <2>1, <2>2, <2>3
<1>4. ASSUME GiveBack(a)
      PROVE  /\ UNCHANGED <<session, admitted, row, paid>>
             /\ asker[a].pc = "giveback" /\ Returned(t)
             /\ Move(a, {"insert", "wait", "done"})
  BY <1>4, NotUnansweredMove DEF GiveBack, RefundUse, Returned
<1>5. ASSUME Insert(a)
      PROVE  /\ UNCHANGED <<session, admitted, uses, lost, paid>>
             /\ asker[a].pc = "insert"
             /\ \/ /\ row[s].status = "none" /\ Becomes(s, "pending")
                   /\ Move(a, {"wait", "done"})
                \/ row' = row /\ Move(a, {"refresh"})
  <2>1. CASE row[s].status = "none"
    BY <1>5, <1>s, <2>1, StatusChanges, AdvertisedMove DEF Insert, aux
  <2>2. CASE row[s].status # "none"
    <3>1. /\ asker' = [asker EXCEPT ![a].pc = "refresh", ![a].again = TRUE]
          /\ row' = row /\ job' = job
      BY <1>5, <2>2 DEF Insert
    <3>2. asker'[a].pc = "refresh" /\ \A b \in Askers \ {a} : asker'[b] = asker[b]
      BY <3>1 DEF TypeOK, Asker
    <3> QED
      BY <1>5, <3>1, <3>2 DEF Insert, aux, Move
  <2> QED
    BY <2>1, <2>2
<1> QED
  BY <1>1, <1>2, <1>3, <1>4, <1>5

\* Steps that close a question, and the ends of a call.
LEMMA ClosingEffects ==
    ASSUME TypeOK, NEW a \in Askers
    PROVE  LET s == SessionOf[a]
               t == TicketOf[s]
               carries == asker[a].pc \in Holding \cup {"refund"}
           IN
           /\ SettleTimedOut(a) =>
                /\ UNCHANGED <<session, admitted, uses, lost>>
                /\ asker[a].pc = "settle"
                /\ \/ UNCHANGED <<row, paid>> /\ Move(a, {"refresh", "reread", "done"})
                   \/ /\ row[s].status = "pending" /\ Becomes(s, "timed_out")
                      /\ \/ /\ t # NoTicket /\ paid' = [paid EXCEPT ![s] = FALSE]
                            /\ Move(a, {"refund"})
                         \/ t = NoTicket /\ paid' = paid /\ Move(a, {"refresh", "reread", "done"})
           /\ RefundTimedOut(a) => /\ UNCHANGED <<session, admitted, row, paid>>
                                   /\ asker[a].pc = "refund" /\ Returned(t)
                                   /\ Move(a, {"refresh", "reread", "done"})
           /\ Admit(a) => /\ UNCHANGED <<session, uses, row, lost, paid>>
                          /\ asker[a].pc = "admit" /\ Move(a, {"done"})
                          /\ admitted' = admitted \/ admitted' = [admitted EXCEPT ![s] = TRUE]
           /\ Cancel(a) \/ Crash(a) \/ FailReopen(a) =>
                /\ UNCHANGED <<session, admitted, row, paid>>
                /\ asker[a].pc \notin {"start", "done"} /\ Move(a, {"done"})
                /\ IF carries /\ t # NoTicket THEN Returned(t) ELSE UNCHANGED <<uses, lost>>
<1> DEFINE s == SessionOf[a]
           t == TicketOf[s]
           carries == asker[a].pc \in Holding \cup {"refund"}
<1>s. s \in Sessions
  BY TicketOfAsker
<1>1. ASSUME SettleTimedOut(a)
      PROVE  /\ UNCHANGED <<session, admitted, uses, lost>>
             /\ asker[a].pc = "settle"
             /\ \/ UNCHANGED <<row, paid>> /\ Move(a, {"refresh", "reread", "done"})
                \/ /\ row[s].status = "pending" /\ Becomes(s, "timed_out")
                   /\ \/ /\ t # NoTicket /\ paid' = [paid EXCEPT ![s] = FALSE]
                         /\ Move(a, {"refund"})
                      \/ t = NoTicket /\ paid' = paid /\ Move(a, {"refresh", "reread", "done"})
  <2>0. UNCHANGED <<session, admitted, uses, lost>> /\ asker[a].pc = "settle"
    BY <1>1 DEF SettleTimedOut
  <2>1. CASE ~Moves(s, asker[a].read)
    BY <1>1, <2>0, <2>1, ClosedMove DEF SettleTimedOut
  <2>2. CASE Moves(s, asker[a].read)
    <3>1. row[s].status = "pending" /\ Becomes(s, "timed_out")
      BY <1>1, <1>s, <2>2, StatusChanges DEF SettleTimedOut, Moves, IsPending, UNANSWERED
    <3>2. CASE t # NoTicket
      <4>1. Goto(a, "refund") /\ UNCHANGED job /\ paid' = [paid EXCEPT ![s] = FALSE]
        BY <1>1, <2>2, <3>2 DEF SettleTimedOut, Refunds
      <4> QED
        BY <2>0, <3>1, <3>2, <4>1, GotoMove DEF AskerPcs, Guarded
    <3>3. CASE t = NoTicket
      BY <1>1, <2>0, <2>2, <3>1, <3>3, ClosedMove DEF SettleTimedOut, Refunds
    <3> QED
      BY <3>2, <3>3
  <2> QED
    BY <2>1, <2>2
<1>2. ASSUME RefundTimedOut(a)
      PROVE  /\ UNCHANGED <<session, admitted, row, paid>>
             /\ asker[a].pc = "refund" /\ Returned(t)
             /\ Move(a, {"refresh", "reread", "done"})
  BY <1>2, ClosedMove DEF RefundTimedOut, RefundUse, Returned
<1>3. ASSUME Admit(a)
      PROVE  /\ UNCHANGED <<session, uses, row, lost, paid>>
             /\ asker[a].pc = "admit" /\ Move(a, {"done"})
             /\ admitted' = admitted \/ admitted' = [admitted EXCEPT ![s] = TRUE]
  BY <1>3, EndsMove DEF Admit, aux
<1>4. ASSUME Cancel(a) \/ Crash(a) \/ FailReopen(a)
      PROVE  /\ UNCHANGED <<session, admitted, row, paid>>
             /\ asker[a].pc \notin {"start", "done"} /\ Move(a, {"done"})
             /\ IF carries /\ t # NoTicket THEN Returned(t) ELSE UNCHANGED <<uses, lost>>
  <2>1. Move(a, {"done"})
    <3>1. Closing(a) \in Job /\ Closing(a).pc = "read"
      BY ClosingType, TaskPcs
    <3>2. \E out : Ends(a, out)
      BY <1>4 DEF Cancel, Crash, FailReopen, Return
    <3>3. job' = job \/ job' = [job EXCEPT ![a] = Closing(a)]
      BY <1>4 DEF Cancel, Crash, FailReopen, Return
    <3> QED
      BY <3>1, <3>2, <3>3, EndsMove
  <2>2. UNCHANGED <<session, admitted, row, paid>> /\ asker[a].pc \notin {"start", "done"}
    BY <1>4 DEF Cancel, Crash, FailReopen
  <2>3. CASE FailReopen(a)
    <3>1. carries /\ t # NoTicket
      BY <2>3 DEF FailReopen, Holding
    <3>2. Returned(t)
      BY <2>3 DEF FailReopen, RefundUse, Returned
    <3> QED
      BY <2>1, <2>2, <3>1, <3>2
  <2>4. CASE Cancel(a) \/ Crash(a)
    <3>1. uses' = uses /\ LoseUse(t, carries)
      BY <2>4 DEF Cancel, Crash
    <3> HIDE DEF carries
    <3> QED
      BY <2>1, <2>2, <3>1 DEF LoseUse, Returned
  <2> QED
    BY <1>4, <2>3, <2>4
<1> QED
  BY <1>1, <1>2, <1>3, <1>4

\* Task j goes to one of pcs, and of the others' state nothing moves.
TaskMove(j, pcs) ==
    /\ job'[j].pc \in pcs
    /\ \A k \in Jobs \ {j} : job'[k] = job[k]
    /\ UNCHANGED <<session, admitted, asker>>

\* What is left of a snapshot.
LEMMA ContinuePcs ==
    ASSUME TypeOK, NEW j \in Jobs, NEW todo
    PROVE  Continue(j, todo).pc \in {"idle", "settle"}
<1>1. job[j] \in Job
  BY DEF TypeOK
<1> QED
  BY <1>1 DEF Continue, Idle, Job

\* The steps of a task.
LEMMA TaskEffects ==
    ASSUME TypeOK, NEW j \in Jobs
    PROVE  /\ ReadPending(j) => /\ UNCHANGED <<uses, lost, paid, row>>
                                /\ job[j].pc = "read" /\ TaskMove(j, {"idle", "settle"})
           /\ Refund(j) => /\ UNCHANGED <<paid, row>> /\ Returned(job[j].back)
                           /\ job[j].pc = "refund" /\ TaskMove(j, {"idle", "settle"})
           /\ MarkConsumed(j) => /\ UNCHANGED <<uses, lost, paid>> /\ SameStatus
                                 /\ job[j].pc = "consume" /\ TaskMove(j, {"idle"})
           /\ FailTask(j) =>
                /\ UNCHANGED <<paid, row>>
                /\ job[j].pc # "idle" /\ TaskMove(j, {"idle"})
                /\ IF job[j].pc = "refund" /\ job[j].back # NoTicket
                   THEN Returned(job[j].back) ELSE UNCHANGED <<uses, lost>>
           /\ \A s \in Sessions, n \in Nat : SettleNext(j, s, n) =>
                /\ UNCHANGED <<uses, lost>> /\ job[j].pc = "settle"
                /\ \/ UNCHANGED <<row, paid>> /\ TaskMove(j, {"idle", "settle"})
                   \/ /\ row[s].status = "pending" /\ Becomes(s, job[j].to)
                      /\ \/ /\ job[j].to # "approved" /\ TicketOf[s] # NoTicket
                            /\ paid' = [paid EXCEPT ![s] = FALSE]
                            /\ TaskMove(j, {"refund"}) /\ job'[j].back = TicketOf[s]
                         \/ /\ job[j].to = "approved" \/ TicketOf[s] = NoTicket
                            /\ paid' = paid /\ TaskMove(j, {"idle", "settle"})
<1>j. job \in [Jobs -> Job] /\ Idle.pc = "idle"
  BY DEF TypeOK, Idle
<1>t. ASSUME NEW task, NEW pcs, task.pc \in pcs, job' = [job EXCEPT ![j] = task],
             UNCHANGED <<session, admitted, asker>>
      PROVE  TaskMove(j, pcs) /\ job'[j] = task
  BY <1>t, <1>j DEF TaskMove
<1>1. ASSUME ReadPending(j)
      PROVE  /\ UNCHANGED <<uses, lost, paid, row>>
             /\ job[j].pc = "read" /\ TaskMove(j, {"idle", "settle"})
  BY <1>1, <1>t, ContinuePcs DEF ReadPending, aux
<1>2. ASSUME Refund(j)
      PROVE  /\ UNCHANGED <<paid, row>> /\ Returned(job[j].back)
             /\ job[j].pc = "refund" /\ TaskMove(j, {"idle", "settle"})
  <2>1. TaskMove(j, {"idle", "settle"})
    BY <1>2, <1>t, ContinuePcs DEF Refund
  <2> QED
    BY <1>2, <2>1 DEF Refund, RefundUse, Returned
<1>3. ASSUME MarkConsumed(j)
      PROVE  /\ UNCHANGED <<uses, lost, paid>> /\ SameStatus
             /\ job[j].pc = "consume" /\ TaskMove(j, {"idle"})
  <2>1. SameStatus
    BY <1>3 DEF MarkConsumed, SameStatus, TypeOK, Row
  <2>2. TaskMove(j, {"idle"})
    BY <1>3, <1>j, <1>t DEF MarkConsumed
  <2> QED
    BY <1>3, <2>1, <2>2 DEF MarkConsumed, aux
<1>4. ASSUME FailTask(j)
      PROVE  /\ UNCHANGED <<paid, row>>
             /\ job[j].pc # "idle" /\ TaskMove(j, {"idle"})
             /\ IF job[j].pc = "refund" /\ job[j].back # NoTicket
                THEN Returned(job[j].back) ELSE UNCHANGED <<uses, lost>>
  <2>1. TaskMove(j, {"idle"})
    BY <1>4, <1>j, <1>t DEF FailTask
  <2> DEFINE carries == job[j].pc = "refund"
  <2>2. uses' = uses /\ LoseUse(job[j].back, carries)
    BY <1>4 DEF FailTask
  <2>3. IF carries /\ job[j].back # NoTicket
        THEN Returned(job[j].back) ELSE UNCHANGED <<uses, lost>>
    <3> HIDE DEF carries
    <3> QED
      BY <2>2 DEF LoseUse, Returned
  <2> QED
    BY <1>4, <2>1, <2>3 DEF FailTask
<1>5. ASSUME NEW s \in Sessions, NEW n \in Nat, SettleNext(j, s, n)
      PROVE  /\ UNCHANGED <<uses, lost>> /\ job[j].pc = "settle"
             /\ \/ UNCHANGED <<row, paid>> /\ TaskMove(j, {"idle", "settle"})
                \/ /\ row[s].status = "pending" /\ Becomes(s, job[j].to)
                   /\ \/ /\ job[j].to # "approved" /\ TicketOf[s] # NoTicket
                         /\ paid' = [paid EXCEPT ![s] = FALSE]
                         /\ TaskMove(j, {"refund"}) /\ job'[j].back = TicketOf[s]
                      \/ /\ job[j].to = "approved" \/ TicketOf[s] = NoTicket
                         /\ paid' = paid /\ TaskMove(j, {"idle", "settle"})
  <2> DEFINE rest == job[j].todo \ {<<s, n>>}
             owed == [job[j] EXCEPT !.pc = "refund", !.todo = rest, !.back = TicketOf[s]]
  <2>0. /\ UNCHANGED <<uses, lost>> /\ job[j].pc = "settle"
        /\ UNCHANGED <<session, admitted, asker>>
    BY <1>5 DEF SettleNext
  <2>c. ASSUME job' = [job EXCEPT ![j] = Continue(j, rest)]
        PROVE  TaskMove(j, {"idle", "settle"})
    BY <1>t, <2>0, <2>c, ContinuePcs
  <2>1. CASE ~Moves(s, n)
    BY <1>5, <2>0, <2>1, <2>c DEF SettleNext
  <2>2. CASE Moves(s, n)
    <3>1. job[j].to \in UNANSWERED \cup DECIDED
      BY <1>j DEF Job
    <3>2. row[s].status = "pending" /\ Becomes(s, job[j].to)
      BY <1>5, <2>2, <3>1, StatusChanges DEF SettleNext, Moves, IsPending
    <3>3. CASE Refunds(s, job[j].to)
      <4>1. job' = [job EXCEPT ![j] = owed] /\ paid' = [paid EXCEPT ![s] = FALSE]
        BY <1>5, <2>2, <3>3 DEF SettleNext
      <4>2. owed.pc = "refund" /\ owed.back = TicketOf[s]
        BY <1>j DEF Job
      <4> HIDE DEF owed
      <4>3. TaskMove(j, {"refund"}) /\ job'[j].back = TicketOf[s]
        BY <1>t, <2>0, <4>1, <4>2
      <4> QED
        BY <2>0, <3>2, <3>3, <4>1, <4>3 DEF Refunds
    <3>4. CASE ~Refunds(s, job[j].to)
      <4>1. job' = [job EXCEPT ![j] = Continue(j, rest)] /\ paid' = paid
        BY <1>5, <2>2, <3>4 DEF SettleNext
      <4> QED
        BY <2>0, <2>c, <3>2, <3>4, <4>1 DEF Refunds
    <3> QED
      BY <3>3, <3>4
  <2> QED
    BY <2>1, <2>2
<1> QED
  BY <1>1, <1>2, <1>3, <1>4, <1>5

-----------------------------------------------------------------------------
(* The account of a session.                                               *)

\* What a step has to respect for the accounts to stay in order.
LEMMA AccountsKept ==
    ASSUME TypeOK, Accounts, session' = session,
           \A b \in Askers : /\ asker[b].pc = "start" /\ asker'[b].pc # "start"
                                  => session[SessionOf[b]] = "open"
                             /\ asker[b].pc = "done" => asker'[b].pc = "done"
                             /\ asker'[b].pc # "done" => job'[b].pc \in {"idle", "consume"},
           \A s \in Sessions : session[s] # "ended" => job'[s].pc = "idle",
           \A s \in Sessions :
             \/ row'[s].status = row[s].status /\ paid'[s] = paid[s]
             \/ TicketOf[s] = NoTicket
             \/ row'[s].status \in {"pending", "approved"} /\ paid'[s] /\ session[s] # "new"
             \/ /\ row'[s].status \in UNANSWERED \cup {"rejected"} /\ ~paid'[s]
                /\ session[s] # "new"
    PROVE  Accounts'
<1>1. ASSUME NEW s \in Sessions, Asking(s)' PROVE Asking(s) \/ session[s] = "open"
  BY <1>1 DEF Asking
<1>2. ASSUME NEW s \in Sessions, TicketOf[s] # NoTicket
      PROVE  /\ session'[s] = "new" => ~paid'[s] /\ row'[s].status = "none"
             /\ row'[s].status \in {"pending", "approved"} => paid'[s]
             /\ row'[s].status \in UNANSWERED \cup {"rejected"} => ~paid'[s]
             /\ row'[s].status = "none" /\ (session'[s] = "open" \/ Asking(s)') => paid'[s]
  <2>1. CASE row'[s].status = row[s].status /\ paid'[s] = paid[s]
    BY <1>1, <1>2, <2>1 DEF Accounts
  <2>2. CASE row'[s].status \in {"pending", "approved"} /\ paid'[s] /\ session[s] # "new"
    BY <2>2 DEF UNANSWERED
  <2>3. CASE /\ row'[s].status \in UNANSWERED \cup {"rejected"} /\ ~paid'[s]
             /\ session[s] # "new"
    BY <2>3 DEF UNANSWERED
  <2> QED
    BY <1>2, <2>1, <2>2, <2>3
<1>3. ASSUME NEW b \in Askers
      PROVE  /\ asker'[b].pc # "start" => session'[SessionOf[b]] # "new"
             /\ asker'[b].pc # "done" => job'[b].pc \in {"idle", "consume"}
  BY DEF Accounts
<1>4. \A s \in Sessions : session'[s] # "ended" => job'[s].pc = "idle"
  OBVIOUS
<1> QED
  BY <1>2, <1>3, <1>4 DEF Accounts

\* The row of s and its account, before and after, fit together.
Fits(s) ==
    \/ row'[s].status = row[s].status /\ paid'[s] = paid[s]
    \/ TicketOf[s] = NoTicket
    \/ row'[s].status \in {"pending", "approved"} /\ paid'[s] /\ session[s] # "new"
    \/ /\ row'[s].status \in UNANSWERED \cup {"rejected"} /\ ~paid'[s]
       /\ session[s] # "new"

\* A step of an asker that fits keeps the accounts.
LEMMA AskerKeepsAccounts ==
    ASSUME TypeOK, Accounts, NEW a \in Askers, NEW pcs, Move(a, pcs), "start" \notin pcs,
           session' = session, asker[a].pc # "done",
           asker[a].pc = "start" => session[SessionOf[a]] = "open",
           \A s \in Sessions : Fits(s)
    PROVE  Accounts'
<1>1. \A b \in Askers : /\ asker[b].pc = "start" /\ asker'[b].pc # "start"
                              => session[SessionOf[b]] = "open"
                        /\ asker[b].pc = "done" => asker'[b].pc = "done"
                        /\ asker'[b].pc # "done" => job'[b].pc \in {"idle", "consume"}
  BY DEF Accounts, Move
<1>2. \A s \in Sessions : session[s] # "ended" => job'[s].pc = "idle"
  BY JobsDisjoint DEF Accounts, Move
<1> QED
  BY <1>1, <1>2, AccountsKept DEF Fits

\* A step of a task that fits keeps the accounts.
LEMMA TaskKeepsAccounts ==
    ASSUME TypeOK, Accounts, NEW j \in Jobs, NEW pcs, TaskMove(j, pcs),
           job[j].pc # "idle", job[j].pc = "consume" => pcs = {"idle"},
           \A s \in Sessions : Fits(s)
    PROVE  Accounts'
<1>1. \A b \in Askers : /\ asker[b].pc = "start" /\ asker'[b].pc # "start"
                              => session[SessionOf[b]] = "open"
                        /\ asker[b].pc = "done" => asker'[b].pc = "done"
                        /\ asker'[b].pc # "done" => job'[b].pc \in {"idle", "consume"}
  BY DEF Accounts, TaskMove
<1>2. \A s \in Sessions : session[s] # "ended" => job'[s].pc = "idle"
  BY DEF Accounts, TaskMove
<1>3. session' = session
  BY DEF TaskMove
<1> QED
  BY <1>1, <1>2, <1>3, AccountsKept DEF Fits

\* A step that leaves statuses and accounts alone, or changes one row, fits.
LEMMA Fitting ==
    ASSUME TypeOK
    PROVE  /\ SameStatus /\ paid' = paid => \A s \in Sessions : Fits(s)
           /\ row' = row /\ paid' = paid => \A s \in Sessions : Fits(s)
           /\ \A r \in Sessions : \A to :
                /\ Becomes(r, to) /\ session[r] # "new"
                /\ \A s \in Sessions \ {r} : paid'[s] = paid[s]
                /\ \/ TicketOf[r] = NoTicket
                   \/ to \in {"pending", "approved"} /\ paid'[r]
                   \/ to \in UNANSWERED \cup {"rejected"} /\ ~paid'[r]
                => \A s \in Sessions : Fits(s)
BY DEF SameStatus, Fits, Becomes

\* The accounts of a system that has not started are in order.
LEMMA InitAccounts == Init => Accounts
<1> SUFFICES ASSUME Init PROVE Accounts
  OBVIOUS
<1>1. NoRow.status = "none" /\ Unasked.pc = "start" /\ Idle.pc = "idle"
  BY DEF NoRow, Unasked, Idle
<1>2. \A s \in Sessions : /\ session[s] = "new" /\ ~paid[s] /\ row[s].status = "none"
                          /\ job[s].pc = "idle"
  BY <1>1 DEF Init
<1>3. \A a \in Askers : asker[a].pc = "start" /\ job[a].pc = "idle"
  BY <1>1 DEF Init
<1> QED
  BY <1>2, <1>3 DEF Accounts, Asking, UNANSWERED

\* Every step of an asker keeps the accounts.
LEMMA AskersKeepAccounts ==
    ASSUME TypeOK, Accounts, NEW a \in Askers,
           Begin(a) \/ AskerStep(a) \/ FailReopen(a) \/ Cancel(a) \/ Crash(a)
    PROVE  Accounts'
<1> DEFINE s == SessionOf[a]
<1>s. s \in Sessions /\ paid \in [Sessions -> BOOLEAN]
  BY TicketOfAsker DEF TypeOK
<1>n. asker[a].pc # "start" => session[s] # "new"
  BY DEF Accounts
<1>1. CASE Begin(a)
  BY <1>1, ReadingEffects, Fitting, AskerKeepsAccounts DEF Untouched, aux
<1>2. CASE Find(a)
  BY <1>2, ReadingEffects, Fitting, AskerKeepsAccounts DEF Untouched, aux
<1>3. CASE Refresh(a)
  BY <1>3, ReadingEffects, Fitting, AskerKeepsAccounts DEF Untouched, aux
<1>4. CASE Lookup(a)
  BY <1>4, ReadingEffects, Fitting, AskerKeepsAccounts DEF Untouched, aux
<1>5. CASE Exhausted(a)
  BY <1>5, ReadingEffects, Fitting, AskerKeepsAccounts DEF Untouched, aux
<1>6. CASE PollRow(a) \/ Reread(a)
  BY <1>6, ReadingEffects, Fitting, AskerKeepsAccounts DEF Untouched, aux
<1>7. CASE Deadline(a)
  BY <1>7, ReadingEffects, Fitting, AskerKeepsAccounts DEF Untouched, aux
<1>8. CASE ReadToClose(a)
  BY <1>8, ReadingEffects, Fitting, AskerKeepsAccounts DEF Untouched, aux
<1>9. CASE Consume(a)
  BY <1>9, WritingEffects, Fitting, AskerKeepsAccounts
<1>10. CASE Spend(a)
  BY <1>10, WritingEffects, Fitting, AskerKeepsAccounts
<1>11. CASE GiveBack(a)
  BY <1>11, WritingEffects, Fitting, AskerKeepsAccounts
<1>12. CASE RefundTimedOut(a)
  BY <1>12, ClosingEffects, Fitting, AskerKeepsAccounts
<1>13. CASE Admit(a)
  BY <1>13, ClosingEffects, Fitting, AskerKeepsAccounts
<1>14. CASE Cancel(a) \/ Crash(a) \/ FailReopen(a)
  BY <1>14, ClosingEffects, Fitting, AskerKeepsAccounts
<1>15. CASE Reopen(a)
  <2>1. session' = session /\ asker[a].pc = "reopen"
    BY <1>15, WritingEffects
  <2>2. CASE UNCHANGED <<row, paid>>
    BY <1>15, <2>1, <2>2, WritingEffects, Fitting, AskerKeepsAccounts
  <2>3. CASE /\ Becomes(s, "pending") /\ Move(a, {"wait", "done"})
             /\ paid' = [paid EXCEPT ![s] = TicketOf[s] # NoTicket]
    <3> DEFINE b == TicketOf[s] # NoTicket
    <3>1. paid'[s] = b /\ \A r \in Sessions \ {s} : paid'[r] = paid[r]
      <4>1. paid' = [paid EXCEPT ![s] = b]
        BY <2>3
      <4> HIDE DEF b, s
      <4> QED
        BY <1>s, <4>1
    <3>2. \A r \in Sessions : Fits(r)
      BY <1>n, <1>s, <2>1, <2>3, <3>1, Fitting
    <3> QED
      BY <2>1, <2>3, <3>2, AskerKeepsAccounts
  <2> QED
    BY <1>15, <2>2, <2>3, WritingEffects
<1>16. CASE Insert(a)
  <2>1. session' = session /\ asker[a].pc = "insert" /\ paid' = paid
    BY <1>16, WritingEffects
  <2>2. CASE row' = row /\ Move(a, {"refresh"})
    BY <2>1, <2>2, Fitting, AskerKeepsAccounts
  <2>3. CASE row[s].status = "none" /\ Becomes(s, "pending") /\ Move(a, {"wait", "done"})
    <3>1. TicketOf[s] # NoTicket => paid[s]
      BY <1>s, <2>1, <2>3 DEF Accounts, Asking
    <3>2. \A r \in Sessions : Fits(r)
      BY <1>n, <1>s, <2>1, <2>3, <3>1, Fitting
    <3> QED
      BY <2>1, <2>3, <3>2, AskerKeepsAccounts
  <2> QED
    BY <1>16, <2>2, <2>3, WritingEffects
<1>17. CASE SettleTimedOut(a)
  <2>1. session' = session /\ asker[a].pc = "settle"
    BY <1>17, ClosingEffects
  <2>2. CASE UNCHANGED <<row, paid>> /\ Move(a, {"refresh", "reread", "done"})
    BY <2>1, <2>2, Fitting, AskerKeepsAccounts
  <2>3. CASE /\ Becomes(s, "timed_out")
             /\ \/ paid' = [paid EXCEPT ![s] = FALSE] /\ Move(a, {"refund"})
                \/ TicketOf[s] = NoTicket /\ paid' = paid /\ Move(a, {"refresh", "reread", "done"})
    <3>1. \A r \in Sessions : Fits(r)
      BY <1>n, <1>s, <2>1, <2>3, Fitting DEF UNANSWERED
    <3> QED
      BY <2>1, <2>3, <3>1, AskerKeepsAccounts
  <2> QED
    BY <1>17, <2>2, <2>3, ClosingEffects
<1> QED
  BY <1>1, <1>2, <1>3, <1>4, <1>5, <1>6, <1>7, <1>8, <1>9, <1>10, <1>11, <1>12, <1>13,
     <1>14, <1>15, <1>16, <1>17 DEF AskerStep

\* Every step of a task keeps the accounts.
LEMMA TasksKeepAccounts ==
    ASSUME TypeOK, Accounts, NEW j \in Jobs
    PROVE  /\ ReadPending(j) \/ Refund(j) \/ MarkConsumed(j) \/ FailTask(j) => Accounts'
           /\ \A s \in Sessions, n \in Nat : SettleNext(j, s, n) => Accounts'
<1>1. ASSUME ReadPending(j) PROVE Accounts'
  BY <1>1, TaskEffects, Fitting, TaskKeepsAccounts
<1>2. ASSUME Refund(j) PROVE Accounts'
  BY <1>2, TaskEffects, Fitting, TaskKeepsAccounts
<1>3. ASSUME MarkConsumed(j) PROVE Accounts'
  BY <1>3, TaskEffects, Fitting, TaskKeepsAccounts
<1>4. ASSUME FailTask(j) PROVE Accounts'
  BY <1>4, TaskEffects, Fitting, TaskKeepsAccounts
<1>5. ASSUME NEW s \in Sessions, NEW n \in Nat, SettleNext(j, s, n) PROVE Accounts'
  <2>1. job[j].pc = "settle" /\ paid \in [Sessions -> BOOLEAN] /\ job \in [Jobs -> Job]
    BY <1>5, TaskEffects DEF TypeOK
  <2>2. CASE UNCHANGED <<row, paid>> /\ TaskMove(j, {"idle", "settle"})
    BY <2>1, <2>2, Fitting, TaskKeepsAccounts
  <2>3. CASE /\ row[s].status = "pending" /\ Becomes(s, job[j].to)
             /\ \/ /\ job[j].to # "approved" /\ TicketOf[s] # NoTicket
                   /\ paid' = [paid EXCEPT ![s] = FALSE] /\ TaskMove(j, {"refund"})
                \/ /\ job[j].to = "approved" \/ TicketOf[s] = NoTicket
                   /\ paid' = paid /\ TaskMove(j, {"idle", "settle"})
    <3>1. job[j].to \in UNANSWERED \cup DECIDED
      BY <2>1 DEF Job
    <3>2. TicketOf[s] # NoTicket => session[s] # "new" /\ paid[s]
      BY <2>3 DEF Accounts
    <3>3. \A r \in Sessions : Fits(r)
      <4>1. CASE TicketOf[s] = NoTicket
        BY <2>1, <2>3, <4>1 DEF Fits, Becomes
      <4>2. CASE TicketOf[s] # NoTicket
        BY <2>1, <2>3, <3>1, <3>2, <4>2, Fitting DEF DECIDED
      <4> QED
        BY <4>1, <4>2
    <3> QED
      BY <2>1, <2>3, <3>3, TaskKeepsAccounts
  <2> QED
    BY <1>5, <2>2, <2>3, TaskEffects
<1> QED
  BY <1>1, <1>2, <1>3, <1>4, <1>5

\* Logins, ends of sessions, answers, the reaper, the clock and retention.
LEMMA OthersKeepAccounts ==
    ASSUME TypeOK, Accounts, PurgeLive = FALSE
    PROVE  /\ \A s \in Sessions : /\ Authenticate(s) => Accounts'
                                  /\ EndSession(s) => Accounts'
                                  /\ Tick(s) \/ Forget(s) => Accounts'
                                  /\ Purge(s) => Accounts'
           /\ \A j \in Admins : \A s, to, scope : Answer(j, s, to, scope) => Accounts'
           /\ Reap => Accounts'
<1>t. /\ session \in [Sessions -> {"new", "open", "ended"}]
      /\ row \in [Sessions -> Row] /\ job \in [Jobs -> Job]
      /\ paid \in [Sessions -> BOOLEAN]
  BY DEF TypeOK
<1>1. ASSUME NEW s \in Sessions, Authenticate(s) PROVE Accounts'
  <2>1. /\ session[s] = "new" /\ session' = [session EXCEPT ![s] = "open"]
        /\ UNCHANGED <<row, asker, job>>
        /\ IF TicketOf[s] = NoTicket THEN paid' = paid ELSE paid' = [paid EXCEPT ![s] = TRUE]
    BY <1>1 DEF Authenticate
  <2>2. \A r \in Sessions : Asking(r)' = Asking(r)
    BY <2>1 DEF Asking
  <2>3. TicketOf[s] # NoTicket => row[s].status = "none"
    BY <2>1 DEF Accounts
  <2>4. ASSUME NEW r \in Sessions, TicketOf[r] # NoTicket
        PROVE  /\ session'[r] = "new" => ~paid'[r] /\ row'[r].status = "none"
               /\ row'[r].status \in {"pending", "approved"} => paid'[r]
               /\ row'[r].status \in UNANSWERED \cup {"rejected"} => ~paid'[r]
               /\ row'[r].status = "none" /\ (session'[r] = "open" \/ Asking(r)') => paid'[r]
    <3>1. CASE r = s
      BY <1>t, <2>1, <2>3, <2>4, <3>1 DEF UNANSWERED
    <3>2. CASE r # s
      BY <1>t, <2>1, <2>2, <2>4, <3>2 DEF Accounts
    <3> QED
      BY <3>1, <3>2
  <2>5. ASSUME NEW b \in Askers
        PROVE  /\ asker'[b].pc # "start" => session'[SessionOf[b]] # "new"
               /\ asker'[b].pc # "done" => job'[b].pc \in {"idle", "consume"}
    BY <1>t, <2>1, TicketOfAsker DEF Accounts
  <2>6. \A r \in Sessions : session'[r] # "ended" => job'[r].pc = "idle"
    BY <1>t, <2>1 DEF Accounts
  <2> QED
    BY <2>4, <2>5, <2>6 DEF Accounts
<1>2. ASSUME NEW s \in Sessions, EndSession(s) PROVE Accounts'
  <2> DEFINE task == CloseTask(s, "abandoned")
  <2>1. /\ session[s] = "open" /\ session' = [session EXCEPT ![s] = "ended"]
        /\ UNCHANGED <<row, asker, paid>> /\ job' = [job EXCEPT ![s] = task]
    BY <1>2 DEF EndSession, aux
  <2>2. \A r \in Sessions : Asking(r)' = Asking(r)
    BY <2>1 DEF Asking
  <2>3. ASSUME NEW r \in Sessions, TicketOf[r] # NoTicket
        PROVE  /\ session'[r] = "new" => ~paid'[r] /\ row'[r].status = "none"
               /\ row'[r].status \in {"pending", "approved"} => paid'[r]
               /\ row'[r].status \in UNANSWERED \cup {"rejected"} => ~paid'[r]
               /\ row'[r].status = "none" /\ (session'[r] = "open" \/ Asking(r)') => paid'[r]
    BY <1>t, <2>1, <2>2, <2>3 DEF Accounts
  <2> HIDE DEF task
  <2>4. ASSUME NEW b \in Askers
        PROVE  /\ asker'[b].pc # "start" => session'[SessionOf[b]] # "new"
               /\ asker'[b].pc # "done" => job'[b].pc \in {"idle", "consume"}
    BY <1>t, <2>1, TicketOfAsker, JobsDisjoint DEF Accounts
  <2>5. \A r \in Sessions : session'[r] # "ended" => job'[r].pc = "idle"
    BY <1>t, <2>1 DEF Accounts
  <2> QED
    BY <2>3, <2>4, <2>5 DEF Accounts
<1>3. ASSUME NEW s \in Sessions, Tick(s) \/ Forget(s) PROVE Accounts'
  <2>1. SameStatus
    BY <1>3, <1>t DEF Tick, Forget, SameStatus, Row
  <2>2. UNCHANGED <<session, asker, job, paid>>
    BY <1>3 DEF Tick, Forget, aux
  <2>3. \A r \in Sessions : Fits(r)
    BY <2>1, <2>2, Fitting
  <2> QED
    BY <2>2, <2>3, AccountsKept DEF Fits, Accounts
<1>4. ASSUME NEW s \in Sessions, Purge(s) PROVE Accounts'
  <2>1. /\ session[s] = "ended" /\ UNCHANGED <<session, asker, job, paid>>
        /\ \A a \in Askers : SessionOf[a] = s => asker[a].pc \in {"start", "done"}
    BY <1>4 DEF Purge, aux
  <2>2. Becomes(s, "none")
    <3> DEFINE r == [NoRow EXCEPT !.started = row[s].started]
    <3>1. row' = [row EXCEPT ![s] = r] /\ r.status = "none"
      BY <1>4 DEF Purge, NoRow
    <3> HIDE DEF r
    <3> QED
      BY <1>t, <3>1 DEF Becomes
  <2>3. \A r \in Sessions : Asking(r)' = Asking(r)
    BY <2>1 DEF Asking
  <2>4. ~Asking(s)
    BY <2>1 DEF Asking
  <2>5. ASSUME NEW r \in Sessions, TicketOf[r] # NoTicket
        PROVE  /\ session'[r] = "new" => ~paid'[r] /\ row'[r].status = "none"
               /\ row'[r].status \in {"pending", "approved"} => paid'[r]
               /\ row'[r].status \in UNANSWERED \cup {"rejected"} => ~paid'[r]
               /\ row'[r].status = "none" /\ (session'[r] = "open" \/ Asking(r)') => paid'[r]
    <3>1. CASE r = s
      BY <2>1, <2>2, <2>3, <2>4, <3>1 DEF Becomes, UNANSWERED
    <3>2. CASE r # s
      BY <2>1, <2>2, <2>3, <2>5, <3>2 DEF Becomes, Accounts
    <3> QED
      BY <3>1, <3>2
  <2> QED
    BY <2>1, <2>5 DEF Accounts
<1>5. ASSUME NEW j \in Admins \cup {Reaper}, NEW task, job[j].pc = "idle",
             job' = [job EXCEPT ![j] = task], UNCHANGED <<session, row, asker, aux>>
      PROVE  Accounts'
  <2>1. \A k \in Askers \cup Sessions : job'[k] = job[k]
    BY <1>5, <1>t, JobsDisjoint
  <2>2. \A r \in Sessions : Fits(r)
    BY <1>5, Fitting DEF aux
  <2> QED
    BY <1>5, <2>1, <2>2, AccountsKept DEF Fits, Accounts
<1>6. ASSUME NEW j \in Admins, NEW s, NEW to, NEW scope, Answer(j, s, to, scope) PROVE Accounts'
  BY <1>5, <1>6 DEF Answer
<1>7. ASSUME Reap PROVE Accounts'
  BY <1>5, <1>7 DEF Reap
<1> QED
  BY <1>1, <1>2, <1>3, <1>4, <1>6, <1>7

\* Every step keeps the accounts, as long as retention spares live sessions.
LEMMA NextAccounts ==
    ASSUME TypeOK, Accounts, PurgeLive = FALSE, [Next]_vars
    PROVE  Accounts'
<1>1. CASE UNCHANGED vars
  BY <1>1 DEF vars, Accounts, Asking
<1>2. ASSUME NEW j \in Jobs, TaskStep(j) \/ FailTask(j) PROVE Accounts'
  <2>1. CASE \E snapshot \in job[j].todo : SettleNext(j, snapshot[1], snapshot[2])
    <3>1. PICK snapshot \in job[j].todo : SettleNext(j, snapshot[1], snapshot[2])
      BY <2>1
    <3>2. snapshot \in Sessions \X Nat
      BY DEF TypeOK, Job
    <3>3. snapshot[1] \in Sessions /\ snapshot[2] \in Nat
      BY <3>2
    <3> QED
      BY <3>1, <3>3, TasksKeepAccounts
  <2> QED
    BY <1>2, <2>1, TasksKeepAccounts DEF TaskStep
<1> QED
  BY <1>1, <1>2, AskersKeepAccounts, OthersKeepAccounts DEF Next

\* The account of a ticket session is empty until the login and after a question
\* that ended without an approval, and holds a use whenever a question is live,
\* was approved or may still be asked for the first time.
THEOREM AccountsInOrder ==
    ASSUME PurgeLive = FALSE
    PROVE  Spec => []Accounts
<1>1. TypeOK /\ Accounts /\ [Next]_vars => Accounts'
  BY NextAccounts
<1> QED
  BY <1>1, InitAccounts, TypeCorrect, PTL DEF Spec

\* "A fresh question is paid for by the use taken at authentication": every
\* question that is live or approved has a use on account (poll_admin_approval).
THEOREM QuestionsArePaid ==
    ASSUME PurgeLive = FALSE
    PROVE  Spec => []PaidQuestion
<1>1. Accounts => PaidQuestion
  BY DEF Accounts, PaidQuestion
<1> QED
  BY <1>1, AccountsInOrder, PTL

-----------------------------------------------------------------------------
(* The ledger.                                                             *)

\* How much a condition counts.
One(b) == IF b THEN 1 ELSE 0

\* Adding an element to a finite set, or taking one out, as arithmetic.
LEMMA Counting ==
    ASSUME NEW S, NEW T, NEW x, IsFiniteSet(S), \A y : y # x => (y \in T <=> y \in S)
    PROVE  /\ Cardinality(S) \in Nat /\ Cardinality(T) \in Nat
           /\ Cardinality(T) = Cardinality(S) + One(x \in T) - One(x \in S)
<1>1. Cardinality(S) \in Nat
  BY FS_CardinalityType
<1>2. CASE x \in T
  <2>1. T = S \cup {x}
    BY <1>2
  <2>2. Cardinality(T) = IF x \in S THEN Cardinality(S) ELSE Cardinality(S) + 1
    BY <2>1, FS_AddElement
  <2> QED
    BY <1>1, <1>2, <2>2 DEF One
<1>3. CASE x \notin T
  <2>1. T = S \ {x}
    BY <1>3
  <2>2. Cardinality(T) = IF x \in S THEN Cardinality(S) - 1 ELSE Cardinality(S)
    BY <2>1, FS_RemoveElement
  <2>3. Cardinality(T) \in Nat
    BY <2>1, FS_RemoveElement, FS_CardinalityType
  <2> QED
    BY <1>1, <1>3, <2>2, <2>3 DEF One
<1> QED
  BY <1>2, <1>3

\* The places a use can be in are finite sets.
LEMMA PlacesFinite ==
    ASSUME NEW t
    PROVE  IsFiniteSet(OnAccount(t)) /\ IsFiniteSet(InHand(t)) /\ IsFiniteSet(Returning(t))
<1>1. IsFiniteSet(Jobs)
  <2>1. IsFiniteSet({Reaper})
    BY FS_Singleton
  <2>2. IsFiniteSet(Askers \cup Sessions)
    BY FS_Union, SessionsFinite, AskersFinite
  <2>3. IsFiniteSet((Askers \cup Sessions) \cup Admins)
    BY <2>2, FS_Union, JobsFinite
  <2> QED
    BY <2>1, <2>3, FS_Union
<1>2. OnAccount(t) \subseteq Sessions /\ InHand(t) \subseteq Askers /\ Returning(t) \subseteq Jobs
  BY DEF OnAccount, InHand, Returning
<1> QED
  BY <1>1, <1>2, FS_Subset, SessionsFinite, AskersFinite

\* A step of an asker keeps the ledger of t if what it moves between the account
\* of its session, its own hands, uses_left and the lost uses balances.
LEMMA AskerBalance ==
    ASSUME TypeOK, Accounts, TicketLedger, NEW t \in Tickets, TypeOK',
           NEW a \in Askers, NEW pcs, Move(a, pcs), asker[a].pc # "done",
           \A r \in Sessions \ {SessionOf[a]} : paid'[r] = paid[r],
           LET s == SessionOf[a]
               H == Holding \cup {"refund"}
           IN  uses'[t] + lost'[t] + One(TicketOf[s] = t /\ paid'[s])
                                   + One(TicketOf[s] = t /\ asker'[a].pc \in H)
             = uses[t] + lost[t] + One(TicketOf[s] = t /\ paid[s])
                                 + One(TicketOf[s] = t /\ asker[a].pc \in H)
    PROVE  uses'[t] + Cardinality(OnAccount(t)') + Cardinality(InHand(t)')
                    + Cardinality(Returning(t)') + lost'[t] = InitialUses[t]
<1> DEFINE s == SessionOf[a]
           H == Holding \cup {"refund"}
           p0 == One(TicketOf[s] = t /\ paid[s])
           p1 == One(TicketOf[s] = t /\ paid'[s])
           h0 == One(TicketOf[s] = t /\ asker[a].pc \in H)
           h1 == One(TicketOf[s] = t /\ asker'[a].pc \in H)
<1>s. s \in Sessions
  BY TicketOfAsker
<1>0. /\ p0 \in {0, 1} /\ p1 \in {0, 1} /\ h0 \in {0, 1} /\ h1 \in {0, 1}
      /\ uses'[t] + lost'[t] + p1 + h1 = uses[t] + lost[t] + p0 + h0
  BY DEF One
<1>1. /\ Cardinality(OnAccount(t)) \in Nat /\ Cardinality(OnAccount(t)') \in Nat
      /\ Cardinality(OnAccount(t)') = Cardinality(OnAccount(t)) + p1 - p0
  <2>1. /\ \A y : y # s => (y \in OnAccount(t)' <=> y \in OnAccount(t))
        /\ s \in OnAccount(t)' <=> (TicketOf[s] = t /\ paid'[s])
        /\ s \in OnAccount(t) <=> (TicketOf[s] = t /\ paid[s])
    BY <1>s DEF OnAccount
  <2>2. /\ Cardinality(OnAccount(t)) \in Nat /\ Cardinality(OnAccount(t)') \in Nat
        /\ Cardinality(OnAccount(t)') = Cardinality(OnAccount(t))
               + One(s \in OnAccount(t)') - One(s \in OnAccount(t))
    BY <2>1, PlacesFinite, Counting
  <2> QED
    BY <2>1, <2>2 DEF One
<1>2. /\ Cardinality(InHand(t)) \in Nat /\ Cardinality(InHand(t)') \in Nat
      /\ Cardinality(InHand(t)') = Cardinality(InHand(t)) + h1 - h0
  <2>1. /\ \A y : y # a => (y \in InHand(t)' <=> y \in InHand(t))
        /\ a \in InHand(t)' <=> (TicketOf[s] = t /\ asker'[a].pc \in H)
        /\ a \in InHand(t) <=> (TicketOf[s] = t /\ asker[a].pc \in H)
    BY DEF InHand, Move
  <2>2. /\ Cardinality(InHand(t)) \in Nat /\ Cardinality(InHand(t)') \in Nat
        /\ Cardinality(InHand(t)') = Cardinality(InHand(t))
               + One(a \in InHand(t)') - One(a \in InHand(t))
    BY <2>1, PlacesFinite, Counting
  <2> QED
    BY <2>1, <2>2 DEF One
<1>3. Returning(t)' = Returning(t) /\ Cardinality(Returning(t)) \in Nat
  <2>1. job[a].pc \in {"idle", "consume"}
    BY DEF Accounts
  <2>2. job[a].pc # "refund" /\ job'[a].pc # "refund"
    BY <2>1 DEF Move
  <2>3. \A j \in Jobs \ {a} : job'[j] = job[j]
    BY DEF Move
  <2> QED
    BY <2>2, <2>3, PlacesFinite, FS_CardinalityType DEF Returning
<1>4. /\ uses[t] \in Nat /\ lost[t] \in Nat /\ uses'[t] \in Nat /\ lost'[t] \in Nat
      /\ uses[t] + Cardinality(OnAccount(t)) + Cardinality(InHand(t))
           + Cardinality(Returning(t)) + lost[t] = InitialUses[t]
  BY DEF TypeOK, TicketLedger
<1> HIDE DEF p0, p1, h0, h1
<1> QED
  BY <1>0, <1>1, <1>2, <1>3, <1>4

\* The same for a step of a task that settles the question of s.
LEMMA TaskBalance ==
    ASSUME TypeOK, TicketLedger, NEW t \in Tickets, TypeOK',
           NEW j \in Jobs, NEW pcs, TaskMove(j, pcs), NEW s \in Sessions,
           \A r \in Sessions \ {s} : paid'[r] = paid[r],
           uses'[t] + lost'[t] + One(TicketOf[s] = t /\ paid'[s])
                               + One(job'[j].pc = "refund" /\ job'[j].back = t)
             = uses[t] + lost[t] + One(TicketOf[s] = t /\ paid[s])
                                 + One(job[j].pc = "refund" /\ job[j].back = t)
    PROVE  uses'[t] + Cardinality(OnAccount(t)') + Cardinality(InHand(t)')
                    + Cardinality(Returning(t)') + lost'[t] = InitialUses[t]
<1> DEFINE p0 == One(TicketOf[s] = t /\ paid[s])
           p1 == One(TicketOf[s] = t /\ paid'[s])
           r0 == One(job[j].pc = "refund" /\ job[j].back = t)
           r1 == One(job'[j].pc = "refund" /\ job'[j].back = t)
<1>0. /\ p0 \in {0, 1} /\ p1 \in {0, 1} /\ r0 \in {0, 1} /\ r1 \in {0, 1}
      /\ uses'[t] + lost'[t] + p1 + r1 = uses[t] + lost[t] + p0 + r0
  BY DEF One
<1>1. /\ Cardinality(OnAccount(t)) \in Nat /\ Cardinality(OnAccount(t)') \in Nat
      /\ Cardinality(OnAccount(t)') = Cardinality(OnAccount(t)) + p1 - p0
  <2>1. /\ \A y : y # s => (y \in OnAccount(t)' <=> y \in OnAccount(t))
        /\ s \in OnAccount(t)' <=> (TicketOf[s] = t /\ paid'[s])
        /\ s \in OnAccount(t) <=> (TicketOf[s] = t /\ paid[s])
    BY DEF OnAccount
  <2>2. /\ Cardinality(OnAccount(t)) \in Nat /\ Cardinality(OnAccount(t)') \in Nat
        /\ Cardinality(OnAccount(t)') = Cardinality(OnAccount(t))
               + One(s \in OnAccount(t)') - One(s \in OnAccount(t))
    BY <2>1, PlacesFinite, Counting
  <2> QED
    BY <2>1, <2>2 DEF One
<1>2. /\ Cardinality(Returning(t)) \in Nat /\ Cardinality(Returning(t)') \in Nat
      /\ Cardinality(Returning(t)') = Cardinality(Returning(t)) + r1 - r0
  <2>1. /\ \A y : y # j => (y \in Returning(t)' <=> y \in Returning(t))
        /\ j \in Returning(t)' <=> (job'[j].pc = "refund" /\ job'[j].back = t)
        /\ j \in Returning(t) <=> (job[j].pc = "refund" /\ job[j].back = t)
    BY DEF Returning, TaskMove
  <2>2. /\ Cardinality(Returning(t)) \in Nat /\ Cardinality(Returning(t)') \in Nat
        /\ Cardinality(Returning(t)') = Cardinality(Returning(t))
               + One(j \in Returning(t)') - One(j \in Returning(t))
    BY <2>1, PlacesFinite, Counting
  <2> QED
    BY <2>1, <2>2 DEF One
<1>3. InHand(t)' = InHand(t) /\ Cardinality(InHand(t)) \in Nat
  BY PlacesFinite, FS_CardinalityType DEF InHand, TaskMove
<1>4. /\ uses[t] \in Nat /\ lost[t] \in Nat /\ uses'[t] \in Nat /\ lost'[t] \in Nat
      /\ uses[t] + Cardinality(OnAccount(t)) + Cardinality(InHand(t))
           + Cardinality(Returning(t)) + lost[t] = InitialUses[t]
  BY DEF TypeOK, TicketLedger
<1> HIDE DEF p0, p1, r0, r1
<1> QED
  BY <1>0, <1>1, <1>2, <1>3, <1>4

\* A step of an asker that moves no use,
LEMMA AskerQuiet ==
    ASSUME TypeOK, TypeOK', Accounts, TicketLedger, NEW a \in Askers, NEW pcs, Move(a, pcs),
           asker[a].pc # "done", UNCHANGED <<uses, lost, paid>>,
           TicketOf[SessionOf[a]] # NoTicket =>
             (asker'[a].pc \in Holding \cup {"refund"} <=> asker[a].pc \in Holding \cup {"refund"})
    PROVE  TicketLedger'
<1>1. ASSUME NEW t \in Tickets
      PROVE  uses'[t] + Cardinality(OnAccount(t)') + Cardinality(InHand(t)')
                 + Cardinality(Returning(t)') + lost'[t] = InitialUses[t]
  <2> DEFINE s == SessionOf[a]
             H == Holding \cup {"refund"}
  <2>1. One(TicketOf[s] = t /\ asker'[a].pc \in H) = One(TicketOf[s] = t /\ asker[a].pc \in H)
    BY NoTicketIsNone DEF One
  <2>2. uses'[t] + lost'[t] + One(TicketOf[s] = t /\ paid'[s])
                            + One(TicketOf[s] = t /\ asker'[a].pc \in H)
      = uses[t] + lost[t] + One(TicketOf[s] = t /\ paid[s])
                          + One(TicketOf[s] = t /\ asker[a].pc \in H)
    BY <2>1
  <2> QED
    BY <2>2, AskerBalance
<1> QED
  BY <1>1 DEF TicketLedger

\* and one that gives back, or loses, the use it has in hand.
LEMMA AskerReturns ==
    ASSUME TypeOK, TypeOK', Accounts, TicketLedger, NEW a \in Askers, NEW pcs, Move(a, pcs),
           asker[a].pc \in Holding \cup {"refund"}, Returned(TicketOf[SessionOf[a]]), paid' = paid,
           asker'[a].pc \notin Holding \cup {"refund"}
    PROVE  TicketLedger'
<1> DEFINE s == SessionOf[a]
           u == TicketOf[s]
           H == Holding \cup {"refund"}
<1>1. ASSUME NEW t \in Tickets
      PROVE  uses'[t] + Cardinality(OnAccount(t)') + Cardinality(InHand(t)')
                 + Cardinality(Returning(t)') + lost'[t] = InitialUses[t]
  <2>1. uses \in [Tickets -> Nat] /\ lost \in [Tickets -> Nat]
    BY DEF TypeOK
  <2>2. uses'[t] + lost'[t] = uses[t] + lost[t] + One(u = t)
    <3>1. Returned(u)
      OBVIOUS
    <3> HIDE DEF u
    <3> QED
      BY <2>1, <3>1 DEF Returned, One
  <2>3. /\ One(u = t /\ asker'[a].pc \in H) = 0
        /\ One(u = t /\ asker[a].pc \in H) = One(u = t)
    BY DEF One
  <2>4. One(u = t /\ paid'[s]) = One(u = t /\ paid[s]) /\ One(u = t /\ paid[s]) \in {0, 1}
    BY DEF One
  <2>5. One(u = t) \in {0, 1} /\ uses'[t] \in Nat /\ lost'[t] \in Nat
    BY DEF One, TypeOK
  <2>6. uses'[t] + lost'[t] + One(u = t /\ paid'[s]) + One(u = t /\ asker'[a].pc \in H)
      = uses[t] + lost[t] + One(u = t /\ paid[s]) + One(u = t /\ asker[a].pc \in H)
    BY <2>1, <2>2, <2>3, <2>4, <2>5
  <2>7. asker[a].pc # "done"
    BY DEF Holding
  <2> QED
    BY <2>6, <2>7, AskerBalance
<1> QED
  BY <1>1 DEF TicketLedger

\* Every step of an asker keeps the ledger.
LEMMA AskersKeepLedger ==
    ASSUME TypeOK, TypeOK', Accounts, TicketLedger, NEW a \in Askers,
           Begin(a) \/ AskerStep(a) \/ FailReopen(a) \/ Cancel(a) \/ Crash(a)
    PROVE  TicketLedger'
<1> DEFINE s == SessionOf[a]
           u == TicketOf[s]
           H == Holding \cup {"refund"}
<1>s. s \in Sessions /\ paid \in [Sessions -> BOOLEAN]
  BY TicketOfAsker DEF TypeOK
<1>t. uses \in [Tickets -> Nat] /\ lost \in [Tickets -> Nat]
  BY DEF TypeOK
<1>1. CASE Begin(a)
  BY <1>1, ReadingEffects, AskerQuiet DEF Untouched, aux, Holding, Move
<1>2. CASE Find(a)
  BY <1>2, ReadingEffects, AskerQuiet DEF Untouched, aux, Holding, Move
<1>3. CASE Refresh(a)
  BY <1>3, ReadingEffects, AskerQuiet DEF Untouched, aux, Holding, Move
<1>4. CASE Lookup(a)
  BY <1>4, ReadingEffects, AskerQuiet DEF Untouched, aux, Holding, Move
<1>5. CASE Exhausted(a)
  BY <1>5, ReadingEffects, AskerQuiet DEF Untouched, aux, Holding, Move
<1>6. CASE PollRow(a) \/ Reread(a)
  BY <1>6, ReadingEffects, AskerQuiet DEF Untouched, aux, Holding, Move
<1>7. CASE Deadline(a)
  BY <1>7, ReadingEffects, AskerQuiet DEF Untouched, aux, Holding, Move
<1>8. CASE ReadToClose(a)
  BY <1>8, ReadingEffects, AskerQuiet DEF Untouched, aux, Holding, Move
<1>9. CASE Consume(a)
  BY <1>9, WritingEffects, AskerQuiet DEF Holding, Move
<1>10. CASE GiveBack(a)
  BY <1>10, WritingEffects, AskerReturns DEF Holding, Move
<1>11. CASE RefundTimedOut(a)
  BY <1>11, ClosingEffects, AskerReturns DEF Holding, Move
<1>12. CASE Admit(a)
  BY <1>12, ClosingEffects, AskerQuiet DEF Holding, Move
<1>13. CASE Insert(a)
  BY <1>13, WritingEffects, AskerQuiet DEF Holding, Move
<1>14. CASE Cancel(a) \/ Crash(a) \/ FailReopen(a)
  <2>1. CASE asker[a].pc \in H /\ u # NoTicket
    BY <1>14, <2>1, ClosingEffects, AskerReturns DEF Holding, Move
  <2>2. CASE ~(asker[a].pc \in H /\ u # NoTicket)
    BY <1>14, <2>2, ClosingEffects, AskerQuiet DEF Holding, Move
  <2> QED
    BY <2>1, <2>2
<1>15. CASE Spend(a)
  <2>1. CASE uses' = uses /\ Move(a, {"done", "exhausted"})
    BY <1>15, <2>1, WritingEffects, AskerQuiet DEF Holding, Move
  <2>2. CASE CanSpend(u) /\ uses' = [uses EXCEPT ![u] = @ - 1] /\ Move(a, {"reopen"})
    <3>1. asker[a].pc = "spend" /\ UNCHANGED <<lost, paid>> /\ asker'[a].pc = "reopen"
      BY <1>15, <2>2, WritingEffects DEF Move
    <3>2. ASSUME NEW t \in Tickets
          PROVE  uses'[t] + Cardinality(OnAccount(t)') + Cardinality(InHand(t)')
                     + Cardinality(Returning(t)') + lost'[t] = InitialUses[t]
      <4>1. uses'[t] = uses[t] - One(u = t) /\ lost'[t] = lost[t]
        <5> HIDE DEF u
        <5> QED
          BY <1>t, <2>2, <3>1 DEF One
      <4>2. /\ One(u = t /\ asker'[a].pc \in H) = One(u = t)
            /\ One(u = t /\ asker[a].pc \in H) = 0
        BY <3>1 DEF One, Holding
      <4>3. One(u = t /\ paid'[s]) = One(u = t /\ paid[s]) /\ One(u = t /\ paid[s]) \in {0, 1}
        BY <3>1 DEF One
      <4>4. One(u = t) \in {0, 1}
        BY DEF One
      <4>5. uses'[t] + lost'[t] + One(u = t /\ paid'[s]) + One(u = t /\ asker'[a].pc \in H)
          = uses[t] + lost[t] + One(u = t /\ paid[s]) + One(u = t /\ asker[a].pc \in H)
        BY <1>t, <4>1, <4>2, <4>3, <4>4
      <4> QED
        BY <2>2, <3>1, <4>5, AskerBalance
    <3> QED
      BY <3>2 DEF TicketLedger
  <2> QED
    BY <1>15, <2>1, <2>2, WritingEffects
<1>16. CASE Reopen(a)
  <2>0. asker[a].pc = "reopen" /\ UNCHANGED <<uses, lost>>
    BY <1>16, WritingEffects
  <2>1. CASE UNCHANGED paid /\ u # NoTicket /\ Move(a, {"giveback"})
    BY <2>0, <2>1, AskerQuiet DEF Holding, Move
  <2>2. CASE UNCHANGED paid /\ u = NoTicket /\ Move(a, {"insert", "wait", "done"})
    BY <2>0, <2>2, AskerQuiet DEF Holding, Move
  <2>3. CASE /\ row[s].status \in UNANSWERED /\ Move(a, {"wait", "done"})
             /\ paid' = [paid EXCEPT ![s] = u # NoTicket]
    <3>1. asker'[a].pc \notin H /\ asker[a].pc \in H
      BY <2>0, <2>3 DEF Move, Holding
    <3>2. u # NoTicket => ~paid[s]
      BY <1>s, <2>3 DEF Accounts
    <3>3. paid'[s] = (u # NoTicket) /\ \A r \in Sessions \ {s} : paid'[r] = paid[r]
      <4> DEFINE b == u # NoTicket
      <4>1. paid' = [paid EXCEPT ![s] = b]
        BY <2>3
      <4> HIDE DEF b, s
      <4>2. paid'[s] = b /\ \A r \in Sessions \ {s} : paid'[r] = paid[r]
        BY <1>s, <4>1
      <4> QED
        BY <4>2 DEF b
    <3>4. ASSUME NEW t \in Tickets
          PROVE  uses'[t] + Cardinality(OnAccount(t)') + Cardinality(InHand(t)')
                     + Cardinality(Returning(t)') + lost'[t] = InitialUses[t]
      <4>1. /\ One(u = t /\ paid'[s]) = One(u = t) /\ One(u = t /\ paid[s]) = 0
            /\ One(u = t /\ asker'[a].pc \in H) = 0
            /\ One(u = t /\ asker[a].pc \in H) = One(u = t)
        BY <3>1, <3>2, <3>3, NoTicketIsNone DEF One
      <4>2. One(u = t) \in {0, 1}
        BY DEF One
      <4>3. uses'[t] + lost'[t] + One(u = t /\ paid'[s]) + One(u = t /\ asker'[a].pc \in H)
          = uses[t] + lost[t] + One(u = t /\ paid[s]) + One(u = t /\ asker[a].pc \in H)
        BY <1>t, <2>0, <4>1, <4>2
      <4> QED
        BY <2>0, <2>3, <3>3, <4>3, AskerBalance
    <3> QED
      BY <3>4 DEF TicketLedger
  <2> QED
    BY <1>16, <2>1, <2>2, <2>3, WritingEffects
<1>17. CASE SettleTimedOut(a)
  <2>0. asker[a].pc = "settle" /\ UNCHANGED <<uses, lost>>
    BY <1>17, ClosingEffects
  <2>1. CASE UNCHANGED paid /\ Move(a, {"refresh", "reread", "done"})
    BY <2>0, <2>1, AskerQuiet DEF Holding, Move
  <2>2. CASE /\ row[s].status = "pending" /\ u # NoTicket /\ Move(a, {"refund"})
             /\ paid' = [paid EXCEPT ![s] = FALSE]
    <3>1. asker'[a].pc \in H /\ asker[a].pc \notin H
      BY <2>0, <2>2 DEF Move, Holding
    <3>2. paid[s] /\ ~paid'[s] /\ \A r \in Sessions \ {s} : paid'[r] = paid[r]
      BY <1>s, <2>2 DEF Accounts
    <3>3. ASSUME NEW t \in Tickets
          PROVE  uses'[t] + Cardinality(OnAccount(t)') + Cardinality(InHand(t)')
                     + Cardinality(Returning(t)') + lost'[t] = InitialUses[t]
      <4>1. /\ One(u = t /\ paid'[s]) = 0 /\ One(u = t /\ paid[s]) = One(u = t)
            /\ One(u = t /\ asker'[a].pc \in H) = One(u = t)
            /\ One(u = t /\ asker[a].pc \in H) = 0
        BY <3>1, <3>2 DEF One
      <4>2. One(u = t) \in {0, 1}
        BY DEF One
      <4>3. uses'[t] + lost'[t] + One(u = t /\ paid'[s]) + One(u = t /\ asker'[a].pc \in H)
          = uses[t] + lost[t] + One(u = t /\ paid[s]) + One(u = t /\ asker[a].pc \in H)
        BY <1>t, <2>0, <4>1, <4>2
      <4> QED
        BY <2>0, <2>2, <3>2, <4>3, AskerBalance
    <3> QED
      BY <3>3 DEF TicketLedger
  <2> QED
    BY <1>17, <2>1, <2>2, ClosingEffects
<1> QED
  BY <1>1, <1>2, <1>3, <1>4, <1>5, <1>6, <1>7, <1>8, <1>9, <1>10, <1>11, <1>12, <1>13,
     <1>14, <1>15, <1>16, <1>17 DEF AskerStep

\* A step of a task that moves no use,
LEMMA TaskQuiet ==
    ASSUME TypeOK, TypeOK', TicketLedger, NEW j \in Jobs, NEW pcs, TaskMove(j, pcs),
           job[j].pc # "refund", job'[j].pc # "refund", UNCHANGED <<uses, lost, paid>>
    PROVE  TicketLedger'
<1>1. ASSUME NEW t \in Tickets
      PROVE  OnAccount(t)' = OnAccount(t) /\ InHand(t)' = InHand(t) /\ Returning(t)' = Returning(t)
  BY DEF OnAccount, InHand, Returning, TaskMove
<1> QED
  BY <1>1 DEF TicketLedger

\* and one that returns, or loses, the use it carries.
LEMMA TaskReturns ==
    ASSUME TypeOK, TypeOK', TicketLedger, NEW j \in Jobs, NEW pcs, TaskMove(j, pcs),
           job[j].pc = "refund", job'[j].pc # "refund", paid' = paid,
           \/ Returned(job[j].back)
           \/ job[j].back = NoTicket /\ UNCHANGED <<uses, lost>>
    PROVE  TicketLedger'
<1> DEFINE u == job[j].back
<1>1. ASSUME NEW t \in Tickets
      PROVE  uses'[t] + Cardinality(OnAccount(t)') + Cardinality(InHand(t)')
                 + Cardinality(Returning(t)') + lost'[t] = InitialUses[t]
  <2>1. uses \in [Tickets -> Nat] /\ lost \in [Tickets -> Nat]
    BY DEF TypeOK
  <2>2. uses'[t] + lost'[t] = uses[t] + lost[t] + One(u = t)
    <3>1. Returned(u) \/ (u = NoTicket /\ UNCHANGED <<uses, lost>>)
      OBVIOUS
    <3> HIDE DEF u
    <3> QED
      BY <2>1, <3>1, NoTicketIsNone DEF Returned, One
  <2>3. OnAccount(t)' = OnAccount(t) /\ InHand(t)' = InHand(t)
    BY DEF OnAccount, InHand, TaskMove
  <2>4. /\ \A y : y # j => (y \in Returning(t)' <=> y \in Returning(t))
        /\ j \notin Returning(t)'
        /\ j \in Returning(t) <=> u = t
    BY DEF Returning, TaskMove
  <2>5. /\ Cardinality(Returning(t)) \in Nat /\ Cardinality(Returning(t)') \in Nat
        /\ Cardinality(Returning(t)') = Cardinality(Returning(t))
               + One(j \in Returning(t)') - One(j \in Returning(t))
    BY <2>4, PlacesFinite, Counting
  <2>6. One(j \in Returning(t)') = 0 /\ One(j \in Returning(t)) = One(u = t) /\ One(u = t) \in {0, 1}
    BY <2>4 DEF One
  <2>7. /\ uses[t] \in Nat /\ lost[t] \in Nat /\ uses'[t] \in Nat /\ lost'[t] \in Nat
        /\ Cardinality(OnAccount(t)) \in Nat /\ Cardinality(InHand(t)) \in Nat
        /\ uses[t] + Cardinality(OnAccount(t)) + Cardinality(InHand(t))
             + Cardinality(Returning(t)) + lost[t] = InitialUses[t]
    BY PlacesFinite, FS_CardinalityType DEF TypeOK, TicketLedger
  <2> HIDE DEF u
  <2> QED
    BY <2>2, <2>3, <2>5, <2>6, <2>7
<1> QED
  BY <1>1 DEF TicketLedger

\* Every step of a task keeps the ledger.
LEMMA TasksKeepLedger ==
    ASSUME TypeOK, TypeOK', Accounts, TicketLedger, NEW j \in Jobs
    PROVE  /\ ReadPending(j) \/ Refund(j) \/ MarkConsumed(j) \/ FailTask(j) => TicketLedger'
           /\ \A s \in Sessions, n \in Nat : SettleNext(j, s, n) => TicketLedger'
<1>1. ASSUME ReadPending(j) PROVE TicketLedger'
  BY <1>1, TaskEffects, TaskQuiet DEF TaskMove
<1>2. ASSUME Refund(j) PROVE TicketLedger'
  BY <1>2, TaskEffects, TaskReturns DEF TaskMove
<1>3. ASSUME MarkConsumed(j) PROVE TicketLedger'
  BY <1>3, TaskEffects, TaskQuiet DEF TaskMove
<1>4. ASSUME FailTask(j) PROVE TicketLedger'
  <2>1. CASE job[j].pc = "refund"
    BY <1>4, <2>1, TaskEffects, TaskReturns DEF TaskMove
  <2>2. CASE job[j].pc # "refund"
    BY <1>4, <2>2, TaskEffects, TaskQuiet DEF TaskMove
  <2> QED
    BY <2>1, <2>2
<1>5. ASSUME NEW s \in Sessions, NEW n \in Nat, SettleNext(j, s, n) PROVE TicketLedger'
  <2>1. job[j].pc = "settle" /\ UNCHANGED <<uses, lost>>
    BY <1>5, TaskEffects
  <2>2. CASE paid' = paid /\ TaskMove(j, {"idle", "settle"})
    BY <2>1, <2>2, TaskQuiet DEF TaskMove
  <2>3. CASE /\ row[s].status = "pending" /\ TicketOf[s] # NoTicket
             /\ paid' = [paid EXCEPT ![s] = FALSE]
             /\ TaskMove(j, {"refund"}) /\ job'[j].back = TicketOf[s]
    <3>1. paid[s] /\ ~paid'[s] /\ \A r \in Sessions \ {s} : paid'[r] = paid[r]
      BY <2>3 DEF Accounts, TypeOK
    <3>2. ASSUME NEW t \in Tickets
          PROVE  uses'[t] + Cardinality(OnAccount(t)') + Cardinality(InHand(t)')
                     + Cardinality(Returning(t)') + lost'[t] = InitialUses[t]
      <4>1. /\ One(TicketOf[s] = t /\ paid'[s]) = 0
            /\ One(TicketOf[s] = t /\ paid[s]) = One(TicketOf[s] = t)
            /\ One(job'[j].pc = "refund" /\ job'[j].back = t) = One(TicketOf[s] = t)
            /\ One(job[j].pc = "refund" /\ job[j].back = t) = 0
        BY <2>1, <2>3, <3>1 DEF One, TaskMove
      <4>2. One(TicketOf[s] = t) \in {0, 1} /\ uses[t] \in Nat /\ lost[t] \in Nat
        BY DEF One, TypeOK
      <4>3. uses'[t] + lost'[t] + One(TicketOf[s] = t /\ paid'[s])
                   + One(job'[j].pc = "refund" /\ job'[j].back = t)
          = uses[t] + lost[t] + One(TicketOf[s] = t /\ paid[s])
                   + One(job[j].pc = "refund" /\ job[j].back = t)
        BY <2>1, <4>1, <4>2
      <4> QED
        BY <2>3, <3>1, <4>3, TaskBalance
    <3> QED
      BY <3>2 DEF TicketLedger
  <2> QED
    BY <1>5, <2>2, <2>3, TaskEffects
<1> QED
  BY <1>1, <1>2, <1>3, <1>4, <1>5

\* Logins, ends of sessions, answers, the reaper, the clock and retention.
LEMMA OthersKeepLedger ==
    ASSUME TypeOK, TypeOK', Accounts, TicketLedger
    PROVE  /\ \A s \in Sessions : /\ Authenticate(s) => TicketLedger'
                                  /\ EndSession(s) => TicketLedger'
                                  /\ Tick(s) \/ Forget(s) \/ Purge(s) => TicketLedger'
           /\ \A j \in Admins : \A s, to, scope : Answer(j, s, to, scope) => TicketLedger'
           /\ Reap => TicketLedger'
<1>j. job \in [Jobs -> Job] /\ paid \in [Sessions -> BOOLEAN]
  BY DEF TypeOK
<1>q. ASSUME NEW j \in Jobs, NEW task, job[j].pc = "idle", task.pc # "refund",
             job' = [job EXCEPT ![j] = task], UNCHANGED <<uses, lost, paid, asker>>
      PROVE  TicketLedger'
  <2>1. ASSUME NEW t \in Tickets
        PROVE  OnAccount(t)' = OnAccount(t) /\ InHand(t)' = InHand(t) /\ Returning(t)' = Returning(t)
    BY <1>q, <1>j DEF OnAccount, InHand, Returning
  <2> QED
    BY <1>q, <2>1 DEF TicketLedger
<1>1. ASSUME NEW s \in Sessions, Authenticate(s) PROVE TicketLedger'
  <2> DEFINE u == TicketOf[s]
  <2>1. session[s] = "new" /\ UNCHANGED <<asker, job, lost>>
    BY <1>1 DEF Authenticate
  <2>2. ASSUME NEW t \in Tickets
        PROVE  /\ InHand(t)' = InHand(t) /\ Returning(t)' = Returning(t)
    BY <2>1 DEF InHand, Returning
  <2>3. CASE u = NoTicket
    <3>1. UNCHANGED <<uses, paid>>
      BY <1>1, <2>3 DEF Authenticate
    <3>2. ASSUME NEW t \in Tickets PROVE OnAccount(t)' = OnAccount(t)
      BY <3>1 DEF OnAccount
    <3> QED
      BY <2>1, <2>2, <3>1, <3>2 DEF TicketLedger
  <2>4. CASE u # NoTicket
    <3>1. /\ ~paid[s] /\ paid' = [paid EXCEPT ![s] = TRUE]
          /\ uses' = [uses EXCEPT ![u] = @ - 1]
      BY <1>1, <2>1, <2>4 DEF Authenticate, Accounts
    <3>2. ASSUME NEW t \in Tickets
          PROVE  uses'[t] + Cardinality(OnAccount(t)') + Cardinality(InHand(t)')
                     + Cardinality(Returning(t)') + lost'[t] = InitialUses[t]
      <4>1. uses \in [Tickets -> Nat] /\ lost \in [Tickets -> Nat] /\ uses'[t] \in Nat
        BY DEF TypeOK
      <4>2. uses'[t] = uses[t] - One(u = t)
        <5> HIDE DEF u
        <5> QED
          BY <3>1, <4>1 DEF One
      <4>3. /\ \A y : y # s => (y \in OnAccount(t)' <=> y \in OnAccount(t))
            /\ s \in OnAccount(t)' <=> u = t
            /\ s \notin OnAccount(t)
        BY <1>j, <3>1 DEF OnAccount
      <4>4. /\ Cardinality(OnAccount(t)) \in Nat /\ Cardinality(OnAccount(t)') \in Nat
            /\ Cardinality(OnAccount(t)') = Cardinality(OnAccount(t))
                   + One(s \in OnAccount(t)') - One(s \in OnAccount(t))
        BY <4>3, PlacesFinite, Counting
      <4>5. /\ One(s \in OnAccount(t)) = 0 /\ One(s \in OnAccount(t)') = One(u = t)
            /\ One(u = t) \in {0, 1}
        BY <4>3 DEF One
      <4>6. /\ uses[t] \in Nat /\ lost[t] \in Nat
            /\ Cardinality(InHand(t)) \in Nat /\ Cardinality(Returning(t)) \in Nat
            /\ uses[t] + Cardinality(OnAccount(t)) + Cardinality(InHand(t))
                 + Cardinality(Returning(t)) + lost[t] = InitialUses[t]
        BY <4>1, PlacesFinite, FS_CardinalityType DEF TicketLedger
      <4> HIDE DEF u
      <4> QED
        BY <2>1, <2>2, <4>1, <4>2, <4>4, <4>5, <4>6
    <3> QED
      BY <3>2 DEF TicketLedger
  <2> QED
    BY <2>3, <2>4
<1>2. ASSUME NEW s \in Sessions, EndSession(s) PROVE TicketLedger'
  <2> DEFINE task == CloseTask(s, "abandoned")
  <2>1. job[s].pc = "idle" /\ job' = [job EXCEPT ![s] = task]
    BY <1>2 DEF EndSession, Accounts
  <2>2. task.pc # "refund" /\ UNCHANGED <<uses, lost, paid, asker>>
    BY <1>2 DEF EndSession, aux, CloseTask, Idle
  <2> HIDE DEF task
  <2> QED
    BY <1>q, <2>1, <2>2
<1>3. ASSUME NEW s \in Sessions, Tick(s) \/ Forget(s) \/ Purge(s) PROVE TicketLedger'
  <2>1. UNCHANGED <<uses, lost, paid, asker, job>>
    BY <1>3 DEF Tick, Forget, Purge, aux
  <2>2. ASSUME NEW t \in Tickets
        PROVE  OnAccount(t)' = OnAccount(t) /\ InHand(t)' = InHand(t) /\ Returning(t)' = Returning(t)
    BY <2>1 DEF OnAccount, InHand, Returning
  <2> QED
    BY <2>1, <2>2 DEF TicketLedger
<1>4. ASSUME NEW j \in Admins, NEW s, NEW to, NEW scope, Answer(j, s, to, scope)
      PROVE  TicketLedger'
  <2> DEFINE task == [Idle EXCEPT !.pc = "settle", !.to = to, !.scope = scope,
                                  !.todo = Snapshot({s})]
  <2>1. /\ job[j].pc = "idle" /\ job' = [job EXCEPT ![j] = task]
        /\ UNCHANGED <<uses, lost, paid, asker>>
    BY <1>4 DEF Answer, aux
  <2>2. task.pc # "refund"
    BY DEF Idle
  <2> HIDE DEF task
  <2> QED
    BY <1>q, <2>1, <2>2
<1>5. ASSUME Reap PROVE TicketLedger'
  <2> DEFINE stale == Snapshot({s \in Sessions : row[s].age >= 2})
             task == [Idle EXCEPT !.pc = "settle", !.todo = stale]
  <2>1. /\ job[Reaper].pc = "idle" /\ job' = [job EXCEPT ![Reaper] = task]
        /\ UNCHANGED <<uses, lost, paid, asker>>
    BY <1>5 DEF Reap, aux
  <2>2. task.pc # "refund"
    BY DEF Idle
  <2> HIDE DEF task
  <2> QED
    BY <1>q, <2>1, <2>2
<1> QED
  BY <1>1, <1>2, <1>3, <1>4, <1>5

\* Every step keeps the ledger.
LEMMA NextLedger ==
    ASSUME TypeOK, TypeOK', Accounts, TicketLedger, [Next]_vars
    PROVE  TicketLedger'
<1>1. CASE UNCHANGED vars
  BY <1>1 DEF vars, TicketLedger, OnAccount, InHand, Returning
<1>2. ASSUME NEW j \in Jobs, TaskStep(j) \/ FailTask(j) PROVE TicketLedger'
  <2>1. CASE \E snapshot \in job[j].todo : SettleNext(j, snapshot[1], snapshot[2])
    <3>1. PICK snapshot \in job[j].todo : SettleNext(j, snapshot[1], snapshot[2])
      BY <2>1
    <3>2. snapshot \in Sessions \X Nat
      BY DEF TypeOK, Job
    <3>3. snapshot[1] \in Sessions /\ snapshot[2] \in Nat
      BY <3>2
    <3> QED
      BY <3>1, <3>3, TasksKeepLedger
  <2> QED
    BY <1>2, <2>1, TasksKeepLedger DEF TaskStep
<1> QED
  BY <1>1, <1>2, AskersKeepLedger, OthersKeepLedger DEF Next

\* The ledger of a system that has not started balances.
LEMMA InitLedger == Init => TicketLedger
<1> SUFFICES ASSUME Init, NEW t \in Tickets
             PROVE  uses[t] + Cardinality(OnAccount(t)) + Cardinality(InHand(t))
                      + Cardinality(Returning(t)) + lost[t] = InitialUses[t]
  BY DEF TicketLedger
<1>1. OnAccount(t) = {}
  BY DEF Init, OnAccount
<1>2. InHand(t) = {}
  BY DEF Init, InHand, Unasked, Holding
<1>3. Returning(t) = {}
  BY DEF Init, Returning, Idle
<1>4. uses[t] = InitialUses[t] /\ lost[t] = 0 /\ InitialUses[t] \in Nat
  BY ConstantTypes DEF Init
<1> QED
  BY <1>1, <1>2, <1>3, <1>4, FS_EmptySet

\* Uses are neither made nor doubled, for any number of nodes, requests and
\* administrators, in whatever order their statements come.
THEOREM LedgerBalances ==
    ASSUME PurgeLive = FALSE
    PROVE  Spec => []TicketLedger
<1>1. TypeOK /\ TypeOK' /\ Accounts /\ TicketLedger /\ [Next]_vars => TicketLedger'
  BY NextLedger
<1> QED
  BY <1>1, InitLedger, TypeCorrect, AccountsInOrder, PTL DEF Spec

-----------------------------------------------------------------------------
(* Who gets past the gate.                                                  *)

-----------------------------------------------------------------------------
(* The invariant behind it.                                                *)

\* A step leaves the row and the account of s alone, asks or settles a question
\* that is not approved, or deletes a row that nobody uses any more.
Keeps(s) ==
    \/ row'[s].status = row[s].status /\ (paid[s] => paid'[s])
    \/ /\ s \in Gated /\ row[s].status # "approved"
       /\ row[s].status = "none" => Asking(s)
    \/ /\ s \in Gated /\ row'[s].status = "none" /\ paid' = paid
       /\ session[s] = "ended" /\ ~Asking(s)

\* Asker b goes where it may.
GoesRight(b) ==
    LET s == SessionOf[b] IN
    \/ asker'[b].pc = asker[b].pc
    \/ /\ asker'[b].pc \notin {"grant", "admit"}
       /\ s \notin Gated => asker'[b].pc = "done"
    \/ s \in Gated /\ asker'[b].pc = "grant" /\ row'[s].status = "approved"
    \/ /\ asker'[b].pc = "admit"
       /\ TicketOf[s] # NoTicket => paid'[s] /\ (s \in Gated => row'[s].status = "approved")

\* What a step has to respect.
LEMMA AdmissionsKept ==
    ASSUME TypeOK, Admissions,
           \A s \in Sessions : Keeps(s),
           \A s \in Sessions : session[s] = "ended" /\ ~Asking(s)
                                   => session'[s] = "ended" /\ ~Asking(s)',
           \A b \in Askers : GoesRight(b),
           \A s \in Sessions :
             \/ admitted'[s] = admitted[s]
             \/ \E b \in Askers : SessionOf[b] = s /\ asker[b].pc = "admit"
    PROVE  Admissions'
<1>1. \A s \in Sessions \ Gated : row'[s].status = "none"
  BY DEF Admissions, Keeps
<1>2. ASSUME NEW b \in Askers, NEW s \in Sessions, s = SessionOf[b]
      PROVE  /\ s \notin Gated => asker'[b].pc \in {"start", "admit", "done"}
             /\ asker'[b].pc = "grant" => row'[s].status = "approved"
             /\ asker'[b].pc = "admit" /\ TicketOf[s] # NoTicket =>
                 paid'[s] /\ (s \in Gated => row'[s].status = "approved")
  <2>1. Keeps(s) /\ GoesRight(b)
    OBVIOUS
  <2>2. CASE asker'[b].pc = asker[b].pc
    <3>1. asker[b].pc \in {"grant", "admit"} => Asking(s)
      BY <1>2 DEF Asking
    <3>2. /\ s \notin Gated => asker[b].pc \in {"start", "admit", "done"}
          /\ asker[b].pc = "grant" => row[s].status = "approved"
          /\ asker[b].pc = "admit" /\ TicketOf[s] # NoTicket =>
              paid[s] /\ (s \in Gated => row[s].status = "approved")
      BY <1>2 DEF Admissions
    <3> QED
      BY <2>1, <2>2, <3>1, <3>2 DEF Keeps
  <2> QED
    BY <1>2, <2>1, <2>2 DEF GoesRight
<1>3. ASSUME NEW s \in Sessions, admitted'[s], TicketOf[s] # NoTicket
      PROVE  /\ paid'[s]
             /\ s \in Gated =>
                  \/ row'[s].status = "approved"
                  \/ row'[s].status = "none" /\ session'[s] = "ended" /\ ~Asking(s)'
  <2>1. Keeps(s) /\ (session[s] = "ended" /\ ~Asking(s) => session'[s] = "ended" /\ ~Asking(s)')
    OBVIOUS
  <2>2. CASE admitted[s]
    <3>1. /\ paid[s]
          /\ s \in Gated => \/ row[s].status = "approved"
                            \/ row[s].status = "none" /\ session[s] = "ended" /\ ~Asking(s)
      BY <1>3, <2>2 DEF Admissions
    <3> QED
      BY <2>1, <3>1 DEF Keeps
  <2>3. CASE ~admitted[s]
    <3>1. PICK b \in Askers : SessionOf[b] = s /\ asker[b].pc = "admit"
      BY <1>3, <2>3
    <3>2. paid[s] /\ (s \in Gated => row[s].status = "approved")
      BY <1>3, <3>1 DEF Admissions
    <3>3. Asking(s)
      BY <3>1 DEF Asking
    <3> QED
      BY <2>1, <3>2, <3>3 DEF Keeps
  <2> QED
    BY <2>2, <2>3
<1> QED
  BY <1>1, <1>2, <1>3, TicketOfAsker DEF Admissions

\* Nobody has been admitted before the start.
LEMMA InitAdmissions == Init => Admissions
<1> SUFFICES ASSUME Init PROVE Admissions
  OBVIOUS
<1>1. NoRow.status = "none" /\ Unasked.pc = "start"
  BY DEF NoRow, Unasked
<1>2. \A s \in Sessions : ~admitted[s] /\ row[s].status = "none"
  BY <1>1 DEF Init
<1>3. \A a \in Askers : asker[a].pc = "start"
  BY <1>1 DEF Init
<1> QED
  BY <1>2, <1>3 DEF Admissions

\* A move of an asker that goes right and opens no target session.
LEMMA AskerKeepsAdmissions ==
    ASSUME TypeOK, Admissions, NEW a \in Askers, NEW pcs, Move(a, pcs),
           session' = session, asker[a].pc # "done",
           asker[a].pc = "start" => session[SessionOf[a]] = "open",
           \A s \in Sessions : Keeps(s),
           GoesRight(a),
           \/ admitted' = admitted
           \/ /\ admitted' = [admitted EXCEPT ![SessionOf[a]] = TRUE]
              /\ asker[a].pc = "admit"
    PROVE  Admissions'
<1>1. ASSUME NEW s \in Sessions, session[s] = "ended", ~Asking(s)
      PROVE  session'[s] = "ended" /\ ~Asking(s)'
  <2>1. SessionOf[a] # s
    BY <1>1 DEF Asking
  <2> QED
    BY <1>1, <2>1 DEF Asking, Move
<1>2. \A b \in Askers : GoesRight(b)
  BY DEF Move, GoesRight
<1>3. ASSUME NEW s \in Sessions
      PROVE  \/ admitted'[s] = admitted[s]
             \/ \E b \in Askers : SessionOf[b] = s /\ asker[b].pc = "admit"
  <2>1. admitted \in [Sessions -> BOOLEAN]
    BY DEF TypeOK
  <2> QED
    BY <2>1
<1> QED
  BY <1>1, <1>2, <1>3, AdmissionsKept

\* Rows that nobody writes are kept.
LEMMA Keeping ==
    ASSUME TypeOK, Admissions
    PROVE  /\ SameStatus /\ paid' = paid => \A s \in Sessions : Keeps(s)
           /\ row' = row /\ paid' = paid => \A s \in Sessions : Keeps(s)
           /\ \A r \in Sessions : \A to :
                /\ Becomes(r, to) /\ r \in Gated /\ row[r].status # "approved"
                /\ row[r].status = "none" => Asking(r)
                /\ \A s \in Sessions \ {r} : paid'[s] = paid[s]
                => \A s \in Sessions : Keeps(s)
BY DEF SameStatus, Keeps, Becomes

\* Every step of an asker keeps the invariant.
LEMMA AskersKeepAdmissions ==
    ASSUME TypeOK, Accounts, Admissions, NEW a \in Askers,
           Begin(a) \/ AskerStep(a) \/ FailReopen(a) \/ Cancel(a) \/ Crash(a)
    PROVE  Admissions'
<1> DEFINE s == SessionOf[a]
<1>s. s \in Sessions /\ paid \in [Sessions -> BOOLEAN]
  BY TicketOfAsker DEF TypeOK
<1>g. asker[a].pc \notin {"start", "admit", "done"} => s \in Gated /\ Asking(s)
  BY DEF Admissions, Asking
<1>p. row[s].status = "approved" /\ TicketOf[s] # NoTicket => paid[s]
  BY <1>s DEF Accounts
<1>d. ASSUME NEW pcs, Move(a, pcs), pcs \cap {"grant", "admit"} = {},
             s \notin Gated => pcs = {"done"}
      PROVE  GoesRight(a)
  BY <1>d DEF GoesRight, Move
<1>1. CASE Begin(a)
  <2>1. /\ Untouched /\ session[s] = "open" /\ asker[a].pc = "start"
        /\ Move(a, {"admit", "refresh", "find"})
        /\ asker'[a].pc = "admit" => s \notin Gated \/ admitted[s] \/ Remembered(s)
        /\ s \notin Gated => asker'[a].pc = "admit"
    BY <1>1, ReadingEffects
  <2>2. ASSUME asker'[a].pc = "admit", TicketOf[s] # NoTicket
        PROVE  paid[s] /\ (s \in Gated => row[s].status = "approved")
    <3>1. ~Remembered(s)
      BY <1>s, <2>2, TicketsRememberNothing DEF Remembered
    <3>2. CASE s \notin Gated
      BY <1>s, <2>1, <2>2, <3>2 DEF Admissions, Accounts
    <3>3. CASE admitted[s] /\ s \in Gated
      BY <1>s, <2>1, <2>2, <3>3 DEF Admissions
    <3> QED
      BY <2>1, <2>2, <3>1, <3>2, <3>3
  <2>3. GoesRight(a)
    BY <2>1, <2>2 DEF GoesRight, Untouched, aux, Move
  <2> QED
    BY <2>1, <2>3, Keeping, AskerKeepsAdmissions DEF Untouched, aux
<1>2. CASE Find(a)
  <2>1. /\ Untouched /\ asker[a].pc = "find"
        /\ Move(a, {"done", "close", "grant", "deny", "refresh"})
        /\ asker'[a].pc = "grant" => row[s].status = "approved"
    BY <1>2, ReadingEffects
  <2>2. GoesRight(a)
    BY <1>g, <2>1 DEF GoesRight, Untouched, Move
  <2> QED
    BY <2>1, <2>2, Keeping, AskerKeepsAdmissions DEF Untouched, aux
<1>3. CASE Refresh(a)
  BY <1>3, <1>d, <1>g, ReadingEffects, Keeping, AskerKeepsAdmissions DEF Untouched, aux
<1>4. CASE Lookup(a)
  BY <1>4, <1>d, <1>g, ReadingEffects, Keeping, AskerKeepsAdmissions DEF Untouched, aux
<1>5. CASE Exhausted(a)
  BY <1>5, <1>d, <1>g, ReadingEffects, Keeping, AskerKeepsAdmissions DEF Untouched, aux
<1>6. CASE PollRow(a) \/ Reread(a)
  <2>1. /\ Untouched /\ asker[a].pc \in {"wait", "reread"}
        /\ Move(a, {"admit", "done"})
        /\ asker'[a].pc = "admit" => row[s].status = "approved"
    BY <1>6, ReadingEffects
  <2>2. GoesRight(a)
    BY <1>g, <1>p, <2>1 DEF GoesRight, Untouched, aux, Move
  <2> QED
    BY <2>1, <2>2, Keeping, AskerKeepsAdmissions DEF Untouched, aux
<1>7. CASE Deadline(a)
  BY <1>7, <1>d, <1>g, ReadingEffects, Keeping, AskerKeepsAdmissions DEF Untouched, aux
<1>8. CASE ReadToClose(a)
  BY <1>8, <1>d, <1>g, ReadingEffects, Keeping, AskerKeepsAdmissions DEF Untouched, aux
<1>9. CASE Consume(a)
  <2>1. /\ UNCHANGED <<session, admitted, paid>> /\ SameStatus
        /\ asker[a].pc \in {"grant", "deny"} /\ Move(a, {"admit", "done"})
        /\ asker'[a].pc = "admit" => asker[a].pc = "grant"
    BY <1>9, WritingEffects
  <2>2. asker[a].pc = "grant" => row[s].status = "approved"
    BY DEF Admissions
  <2>3. GoesRight(a)
    BY <1>g, <1>p, <1>s, <2>1, <2>2 DEF GoesRight, SameStatus, Move
  <2> QED
    BY <2>1, <2>3, Keeping, AskerKeepsAdmissions
<1>10. CASE Spend(a)
  <2>1. /\ UNCHANGED <<session, admitted, paid, row>> /\ asker[a].pc = "spend"
        /\ Move(a, {"reopen"}) \/ Move(a, {"done", "exhausted"})
    BY <1>10, WritingEffects
  <2> QED
    BY <1>d, <1>g, <2>1, Keeping, AskerKeepsAdmissions
<1>11. CASE GiveBack(a)
  BY <1>11, <1>d, <1>g, WritingEffects, Keeping, AskerKeepsAdmissions
<1>12. CASE RefundTimedOut(a)
  BY <1>12, <1>d, <1>g, ClosingEffects, Keeping, AskerKeepsAdmissions
<1>13. CASE Admit(a)
  BY <1>13, <1>d, ClosingEffects, Keeping, AskerKeepsAdmissions
<1>14. CASE Cancel(a) \/ Crash(a) \/ FailReopen(a)
  BY <1>14, <1>d, ClosingEffects, Keeping, AskerKeepsAdmissions
<1>15. CASE Reopen(a)
  <2>1. session' = session /\ admitted' = admitted /\ asker[a].pc = "reopen"
    BY <1>15, WritingEffects
  <2>2. CASE UNCHANGED <<row, paid>> /\ (Move(a, {"giveback"}) \/ Move(a, {"insert", "wait", "done"}))
    BY <1>d, <1>g, <2>1, <2>2, Keeping, AskerKeepsAdmissions
  <2>3. CASE /\ row[s].status \in UNANSWERED /\ Becomes(s, "pending") /\ Move(a, {"wait", "done"})
             /\ paid' = [paid EXCEPT ![s] = TicketOf[s] # NoTicket]
    <3>1. \A r \in Sessions \ {s} : paid'[r] = paid[r]
      BY <1>s, <2>3
    <3>2. \A r \in Sessions : Keeps(r)
      BY <1>g, <1>s, <2>1, <2>3, <3>1, Keeping DEF UNANSWERED
    <3> QED
      BY <1>d, <1>g, <2>1, <2>3, <3>2, AskerKeepsAdmissions
  <2> QED
    BY <1>15, <2>2, <2>3, WritingEffects
<1>16. CASE Insert(a)
  <2>1. session' = session /\ admitted' = admitted /\ asker[a].pc = "insert" /\ paid' = paid
    BY <1>16, WritingEffects
  <2>2. CASE row' = row /\ Move(a, {"refresh"})
    BY <1>d, <1>g, <2>1, <2>2, Keeping, AskerKeepsAdmissions
  <2>3. CASE row[s].status = "none" /\ Becomes(s, "pending") /\ Move(a, {"wait", "done"})
    <3>1. \A r \in Sessions : Keeps(r)
      BY <1>g, <1>s, <2>1, <2>3, Keeping
    <3> QED
      BY <1>d, <1>g, <2>1, <2>3, <3>1, AskerKeepsAdmissions
  <2> QED
    BY <1>16, <2>2, <2>3, WritingEffects
<1>17. CASE SettleTimedOut(a)
  <2>1. session' = session /\ admitted' = admitted /\ asker[a].pc = "settle"
    BY <1>17, ClosingEffects
  <2>2. CASE UNCHANGED <<row, paid>> /\ Move(a, {"refresh", "reread", "done"})
    BY <1>d, <1>g, <2>1, <2>2, Keeping, AskerKeepsAdmissions
  <2>3. CASE /\ row[s].status = "pending" /\ Becomes(s, "timed_out")
             /\ \/ paid' = [paid EXCEPT ![s] = FALSE] /\ Move(a, {"refund"})
                \/ paid' = paid /\ Move(a, {"refresh", "reread", "done"})
    <3>1. \A r \in Sessions \ {s} : paid'[r] = paid[r]
      BY <1>s, <2>3
    <3>2. \A r \in Sessions : Keeps(r)
      BY <1>g, <1>s, <2>1, <2>3, <3>1, Keeping
    <3> QED
      BY <1>d, <1>g, <2>1, <2>3, <3>2, AskerKeepsAdmissions
  <2> QED
    BY <1>17, <2>2, <2>3, ClosingEffects
<1> QED
  BY <1>1, <1>2, <1>3, <1>4, <1>5, <1>6, <1>7, <1>8, <1>9, <1>10, <1>11, <1>12, <1>13,
     <1>14, <1>15, <1>16, <1>17 DEF AskerStep

\* Steps that neither move an asker nor admit anybody.
LEMMA ElsewhereKeepsAdmissions ==
    ASSUME TypeOK, Admissions, UNCHANGED <<asker, admitted>>,
           \A s \in Sessions : session[s] = "ended" => session'[s] = "ended",
           \A s \in Sessions : Keeps(s)
    PROVE  Admissions'
<1>1. \A s \in Sessions : Asking(s)' = Asking(s)
  BY DEF Asking
<1>2. \A b \in Askers : GoesRight(b)
  BY DEF GoesRight
<1> QED
  BY <1>1, <1>2, AdmissionsKept

\* Every step of a task keeps the invariant.
LEMMA TasksKeepAdmissions ==
    ASSUME TypeOK, Admissions, NEW j \in Jobs
    PROVE  /\ ReadPending(j) \/ Refund(j) \/ MarkConsumed(j) \/ FailTask(j) => Admissions'
           /\ \A s \in Sessions, n \in Nat : SettleNext(j, s, n) => Admissions'
<1>1. ASSUME ReadPending(j) \/ Refund(j) \/ MarkConsumed(j) \/ FailTask(j) PROVE Admissions'
  <2>1. /\ UNCHANGED <<session, admitted, asker, paid>>
        /\ row' = row \/ SameStatus
    BY <1>1, TaskEffects DEF TaskMove
  <2> QED
    BY <2>1, Keeping, ElsewhereKeepsAdmissions
<1>2. ASSUME NEW s \in Sessions, NEW n \in Nat, SettleNext(j, s, n) PROVE Admissions'
  <2>1. UNCHANGED <<session, admitted, asker>> /\ paid \in [Sessions -> BOOLEAN]
    BY <1>2, TaskEffects DEF TaskMove, TypeOK
  <2>2. CASE UNCHANGED <<row, paid>>
    BY <2>1, <2>2, Keeping, ElsewhereKeepsAdmissions
  <2>3. CASE /\ row[s].status = "pending" /\ Becomes(s, job[j].to)
             /\ paid' = paid \/ paid' = [paid EXCEPT ![s] = FALSE]
    <3>1. s \in Gated
      BY <2>3 DEF Admissions
    <3>2. \A r \in Sessions \ {s} : paid'[r] = paid[r]
      BY <2>1, <2>3
    <3>3. \A r \in Sessions : Keeps(r)
      BY <2>3, <3>1, <3>2, Keeping
    <3> QED
      BY <2>1, <3>3, ElsewhereKeepsAdmissions
  <2> QED
    BY <1>2, <2>2, <2>3, TaskEffects
<1> QED
  BY <1>1, <1>2

\* Logins, ends of sessions, answers, the reaper, the clock and retention.
LEMMA OthersKeepAdmissions ==
    ASSUME TypeOK, Admissions, PurgeLive = FALSE
    PROVE  /\ \A s \in Sessions : /\ Authenticate(s) => Admissions'
                                  /\ EndSession(s) => Admissions'
                                  /\ Tick(s) \/ Forget(s) => Admissions'
                                  /\ Purge(s) => Admissions'
           /\ \A j, s, to, scope : Answer(j, s, to, scope) => Admissions'
           /\ Reap => Admissions'
<1>t. /\ session \in [Sessions -> {"new", "open", "ended"}]
      /\ row \in [Sessions -> Row] /\ paid \in [Sessions -> BOOLEAN]
  BY DEF TypeOK
<1>1. ASSUME NEW s \in Sessions, Authenticate(s) PROVE Admissions'
  <2>1. /\ session' = [session EXCEPT ![s] = "open"] /\ session[s] = "new"
        /\ UNCHANGED <<row, asker, admitted>>
        /\ paid' = paid \/ paid' = [paid EXCEPT ![s] = TRUE]
    BY <1>1 DEF Authenticate
  <2>2. \A r \in Sessions : Keeps(r) /\ (session[r] = "ended" => session'[r] = "ended")
    BY <1>t, <2>1 DEF Keeps
  <2> QED
    BY <2>1, <2>2, ElsewhereKeepsAdmissions
<1>2. ASSUME NEW s \in Sessions, EndSession(s) PROVE Admissions'
  <2>1. /\ session' = [session EXCEPT ![s] = "ended"]
        /\ UNCHANGED <<row, asker, admitted, paid>>
    BY <1>2 DEF EndSession, aux
  <2>2. \A r \in Sessions : session[r] = "ended" => session'[r] = "ended"
    BY <1>t, <2>1
  <2> QED
    BY <2>1, <2>2, Keeping, ElsewhereKeepsAdmissions
<1>3. ASSUME NEW s \in Sessions, Tick(s) \/ Forget(s) PROVE Admissions'
  <2>1. UNCHANGED <<session, asker, admitted, paid>>
    BY <1>3 DEF Tick, Forget, aux
  <2>2. \/ \E older : row' = [row EXCEPT ![s].age = older]
        \/ row' = [row EXCEPT ![s].fresh = FALSE]
    BY <1>3 DEF Tick, Forget
  <2>3. SameStatus
    BY <1>t, <2>2 DEF SameStatus, Row
  <2> QED
    BY <2>1, <2>3, Keeping, ElsewhereKeepsAdmissions
<1>4. ASSUME NEW s \in Sessions, Purge(s) PROVE Admissions'
  <2> DEFINE gone == [NoRow EXCEPT !.started = row[s].started]
  <2>1. /\ UNCHANGED <<session, asker, admitted, paid>>
        /\ session[s] = "ended" /\ row' = [row EXCEPT ![s] = gone]
    BY <1>4 DEF Purge, aux
  <2>2. ~Asking(s)
    BY <1>4 DEF Purge, Asking
  <2>3. gone.status = "none"
    BY DEF NoRow
  <2> HIDE DEF gone
  <2>4. row'[s].status = "none" /\ \A r \in Sessions \ {s} : row'[r].status = row[r].status
    BY <1>t, <2>1, <2>3
  <2>5. s \in Gated \/ row[s].status = "none"
    BY DEF Admissions
  <2>6. \A r \in Sessions : Keeps(r)
    BY <2>1, <2>2, <2>4, <2>5 DEF Keeps
  <2> QED
    BY <2>1, <2>6, ElsewhereKeepsAdmissions
<1>5. ASSUME NEW j, NEW s, NEW to, NEW scope, Answer(j, s, to, scope) PROVE Admissions'
  BY <1>5, Keeping, ElsewhereKeepsAdmissions DEF Answer, aux
<1>6. ASSUME Reap PROVE Admissions'
  BY <1>6, Keeping, ElsewhereKeepsAdmissions DEF Reap, aux
<1> QED
  BY <1>1, <1>2, <1>3, <1>4, <1>5, <1>6

\* Every step keeps the invariant.
LEMMA NextAdmissions ==
    ASSUME TypeOK, Accounts, Admissions, PurgeLive = FALSE, [Next]_vars
    PROVE  Admissions'
<1>1. CASE UNCHANGED vars
  BY <1>1, Keeping, ElsewhereKeepsAdmissions DEF vars
<1>2. ASSUME NEW j \in Jobs, TaskStep(j) \/ FailTask(j) PROVE Admissions'
  <2>1. CASE \E snapshot \in job[j].todo : SettleNext(j, snapshot[1], snapshot[2])
    <3>1. PICK snapshot \in job[j].todo : SettleNext(j, snapshot[1], snapshot[2])
      BY <2>1
    <3>2. snapshot \in Sessions \X Nat
      BY DEF TypeOK, Job
    <3>3. snapshot[1] \in Sessions /\ snapshot[2] \in Nat
      BY <3>2
    <3> QED
      BY <3>1, <3>3, TasksKeepAdmissions
  <2> QED
    BY <1>2, <2>1, TasksKeepAdmissions DEF TaskStep
<1> QED
  BY <1>1, <1>2, AskersKeepAdmissions, OthersKeepAdmissions DEF Next

\* Whoever passes the gate with a ticket does so on a use that stays spent: in
\* require_admin_approval, poll_admin_approval and their callers, whatever the
\* other askers, the tasks and the administrators do in between.
THEOREM AdmissionsAreApproved ==
    ASSUME PurgeLive = FALSE
    PROVE  Spec => []Admissions
<1>1. TypeOK /\ Accounts /\ Admissions /\ [Next]_vars => Admissions'
  BY NextAdmissions
<1> QED
  BY <1>1, InitAdmissions, TypeCorrect, AccountsInOrder, PTL DEF Spec

\* A ticket never admits more sessions than it has uses, for any number of
\* sessions, requests, nodes and administrators: the sessions admitted have a
\* use on account each, and the ledger balances.
THEOREM TicketsNeverOverAdmit ==
    ASSUME PurgeLive = FALSE
    PROVE  Spec => []NeverOverAdmits
<1>1. TypeOK /\ Admissions /\ TicketLedger => NeverOverAdmits
  <2> SUFFICES ASSUME TypeOK, Admissions, TicketLedger, NEW t \in Tickets
               PROVE  Cardinality({s \in Sessions : TicketOf[s] = t /\ admitted[s]})
                        <= InitialUses[t]
    BY DEF NeverOverAdmits
  <2> DEFINE in == {s \in Sessions : TicketOf[s] = t /\ admitted[s]}
  <2>1. in \subseteq OnAccount(t)
    BY NoTicketIsNone DEF OnAccount, Admissions
  <2>2. IsFiniteSet(OnAccount(t)) /\ IsFiniteSet(InHand(t)) /\ IsFiniteSet(Returning(t))
    BY PlacesFinite
  <2>3. Cardinality(in) <= Cardinality(OnAccount(t)) /\ Cardinality(in) \in Nat
    BY <2>1, <2>2, FS_Subset, FS_CardinalityType
  <2>4. /\ Cardinality(OnAccount(t)) \in Nat /\ Cardinality(InHand(t)) \in Nat
        /\ Cardinality(Returning(t)) \in Nat
    BY <2>2, FS_CardinalityType
  <2>5. /\ uses[t] \in Nat /\ lost[t] \in Nat
        /\ uses[t] + Cardinality(OnAccount(t)) + Cardinality(InHand(t))
             + Cardinality(Returning(t)) + lost[t] = InitialUses[t]
    BY DEF TypeOK, TicketLedger
  <2> HIDE DEF in
  <2>6. Cardinality(in) <= InitialUses[t]
    BY <2>3, <2>4, <2>5
  <2> QED
    BY <2>6 DEF in
<1> QED
  BY <1>1, TypeCorrect, AdmissionsAreApproved, LedgerBalances, PTL

-----------------------------------------------------------------------------
(***************************************************************************)
(* What becomes of a question, for every number of sessions, askers,       *)
(* administrators, tickets and uses: one that its holder gave up on can no *)
(* longer be approved, and nobody passes the gate without an approval.     *)
(***************************************************************************)


-----------------------------------------------------------------------------
(* The question that a call waits for.                                     *)

\* The question x waited for is behind row r: another was asked since, or it was
\* closed without a decision.
Behind(x, r) == r.started > x.since \/ r.status \in UNANSWERED \cup {"none"}

\* What a call with locals x may rely on where its row is r: the question it
\* waits for was asked, so was the one it read to close it, a call that looks for
\* a decision once more does not look at its own question pending, and one that
\* closed the question itself, or has expired, leaves it behind.
WaitOK(x, r) ==
    /\ x.since <= r.started
    /\ x.pc = "settle" => x.since <= x.read /\ x.read <= r.started
    /\ x.pc = "reread" => r.started > x.since \/ r.status # "pending"
    /\ x.pc = "refund" \/ x.out = "expired" => Behind(x, r)
    /\ x.out # "none" => x.pc = "done"

Waits == \A a \in Blocking : WaitOK(asker[a], row[SessionOf[a]])

\* Whatever happens to the row, what a call relies on still holds.
LEMMA WaitStays ==
    ASSUME TypeOK, TypeOK', [Next]_vars, NEW s \in Sessions, NEW x \in Asker, WaitOK(x, row[s])
    PROVE  WaitOK(x, row'[s])
<1>1. /\ row[s].started \in Nat /\ row'[s].started \in Nat
      /\ x.since \in Nat /\ x.read \in Nat
  BY DEF TypeOK, Row, Asker
<1>2. \/ row'[s].status = row[s].status /\ row'[s].started = row[s].started
      \/ row'[s].started = row[s].started + 1
      \/ /\ row[s].status = "pending" /\ row'[s].status # "pending"
         /\ row'[s].started = row[s].started
      \/ row'[s].status = "none" /\ row'[s].started = row[s].started
  BY RowSteps DEF Columns, UNANSWERED, DECIDED
<1> QED
  BY <1>1, <1>2 DEF WaitOK, Behind, UNANSWERED

\* A call that goes on elsewhere,
LEMMA GotoWaits ==
    ASSUME TypeOK, NEW a \in Askers, NEW r, WaitOK(asker[a], r), asker[a].pc # "done",
           NEW pc, pc \notin {"settle", "refund", "done"}, Goto(a, pc),
           pc = "reread" => r.started > asker[a].since \/ r.status # "pending"
    PROVE  WaitOK(asker'[a], r)
<1> DEFINE x == asker[a]
           y == asker'[a]
<1>1. y.pc = pc /\ y.since = x.since /\ y.read = x.read /\ y.out = x.out
  BY DEF TypeOK, Goto, Asker
<1>2. x.out = "none"
  BY DEF WaitOK
<1> HIDE DEF y
<1> QED
  BY <1>1, <1>2 DEF WaitOK, y

\* one that ends,
LEMMA EndsWaits ==
    ASSUME TypeOK, NEW a \in Askers, NEW r, WaitOK(asker[a], r), NEW out, Ends(a, out),
           out = "expired" => Behind(asker[a], r)
    PROVE  WaitOK(asker'[a], r)
<1> DEFINE x == asker[a]
           y == asker'[a]
<1>1. y.pc = "done" /\ y.since = x.since /\ y.out = out
  BY DEF TypeOK, Ends, Asker, Unasked
<1> HIDE DEF y
<1> QED
  BY <1>1 DEF WaitOK, Behind, y

\* and one that begins to wait.
LEMMA AdvertisedWaits ==
    ASSUME TypeOK, TypeOK', NEW a \in Blocking, Advertised(a), asker[a].pc # "done",
           WaitOK(asker[a], row'[SessionOf[a]])
    PROVE  WaitOK(asker'[a], row'[SessionOf[a]])
<1> DEFINE r == row'[SessionOf[a]]
           x == asker[a]
           y == asker'[a]
<1>0. a \in Askers /\ x \in Asker
  BY AskersFinite DEF TypeOK
<1>1. asker' = [asker EXCEPT ![a].pc = "wait", ![a].since = r.started]
  BY DEF Advertised
<1>2. y.pc = "wait" /\ y.since = r.started /\ y.out = x.out
  BY <1>0, <1>1 DEF TypeOK, Asker
<1>3. r.started \in Nat
  BY <1>0, TicketOfAsker DEF TypeOK, Row
<1>4. x.out = "none"
  BY DEF WaitOK
<1> HIDE DEF y, r
<1> QED
  BY <1>2, <1>3, <1>4 DEF WaitOK, y, r

\* A pass of upsert_request that found nothing to reopen,
LEMMA NotUnansweredWaits ==
    ASSUME TypeOK, TypeOK', NEW a \in Blocking, NotUnanswered(a), asker[a].pc # "done",
           WaitOK(asker[a], row'[SessionOf[a]])
    PROVE  WaitOK(asker'[a], row'[SessionOf[a]])
<1>0. a \in Askers
  BY AskersFinite
<1>1. CASE asker[a].again
  BY <1>1, AdvertisedWaits DEF NotUnanswered
<1>2. CASE ~asker[a].again
  BY <1>0, <1>2, GotoWaits DEF NotUnanswered
<1> QED
  BY <1>1, <1>2

\* the end of a close,
LEMMA ClosedWaits ==
    ASSUME TypeOK, NEW a \in Blocking, NEW r, NEW closed \in BOOLEAN, Closed(a, closed),
           asker[a].pc # "done", WaitOK(asker[a], r),
           closed => Behind(asker[a], r),
           ~closed => r.started > asker[a].since \/ r.status # "pending"
    PROVE  WaitOK(asker'[a], r)
<1>0. a \in Askers
  BY AskersFinite
<1>1. CASE closed
  BY <1>0, <1>1, EndsWaits DEF Closed, Return
<1>2. CASE ~closed
  BY <1>0, <1>2, GotoWaits DEF Closed
<1> QED
  BY <1>1, <1>2

\* and taking note of a decision.
LEMMA DecidedWaits ==
    ASSUME TypeOK, NEW a \in Askers, NEW r, Decided(a), asker[a].pc # "done",
           WaitOK(asker[a], r)
    PROVE  WaitOK(asker'[a], r)
<1>1. CASE Goto(a, "admit")
  BY <1>1, GotoWaits
<1>2. CASE Ends(a, "refused")
  BY <1>2, EndsWaits
<1> QED
  BY <1>1, <1>2 DEF Decided, Return

\* Every step of a call keeps what it relies on.
LEMMA AskersKeepWaits ==
    ASSUME TypeOK, TypeOK', NEW a \in Blocking, WaitOK(asker[a], row'[SessionOf[a]]),
           asker[a].pc = "settle" => WaitOK(asker[a], row[SessionOf[a]]),
           Begin(a) \/ AskerStep(a) \/ FailReopen(a) \/ Cancel(a) \/ Crash(a)
    PROVE  WaitOK(asker'[a], row'[SessionOf[a]])
<1> DEFINE s == SessionOf[a]
           r == row'[s]
           x == asker[a]
           Good == WaitOK(asker'[a], r)
<1> SUFFICES Good
  OBVIOUS
<1>0. a \in Askers /\ s \in Sessions /\ x \in Asker
  BY AskersFinite, TicketOfAsker DEF TypeOK
<1>e. ASSUME NEW out, NEW task, Return(a, out, task), out # "expired" PROVE Good
  BY <1>0, <1>e, EndsWaits DEF Return
<1>x. ASSUME NEW task, Return(a, "expired", task), Behind(x, r) PROVE Good
  BY <1>0, <1>x, EndsWaits DEF Return
<1>g. ASSUME NEW pc, pc \notin {"settle", "refund", "reread", "done"}, Goto(a, pc),
             x.pc # "done"
      PROVE  Good
  BY <1>0, <1>g, GotoWaits
<1>1. CASE Begin(a)
  BY <1>1, <1>g DEF Begin
<1>2. CASE Find(a)
  BY <1>2, <1>e, <1>g DEF Find
<1>3. CASE Consume(a)
  BY <1>3, <1>e, <1>g DEF Consume
<1>4. CASE Refresh(a)
  BY <1>4, <1>g, AdvertisedWaits DEF Refresh
<1>5. CASE Lookup(a)
  BY <1>5, <1>g, NotUnansweredWaits DEF Lookup
<1>6. CASE Spend(a)
  BY <1>6, <1>e, <1>g DEF Spend
<1>7. CASE Exhausted(a)
  BY <1>7, <1>e, AdvertisedWaits DEF Exhausted
<1>8. CASE Reopen(a)
  BY <1>8, <1>g, AdvertisedWaits, NotUnansweredWaits DEF Reopen
<1>9. CASE GiveBack(a)
  BY <1>9, NotUnansweredWaits DEF GiveBack
<1>10. CASE Insert(a)
  <2>1. CASE Advertised(a)
    BY <1>10, <2>1, AdvertisedWaits DEF Insert
  <2>2. CASE asker' = [asker EXCEPT ![a].pc = "refresh", ![a].again = TRUE]
    <3>1. /\ asker'[a].pc = "refresh" /\ asker'[a].since = x.since
          /\ asker'[a].out = x.out /\ x.pc = "insert"
      BY <1>0, <1>10, <2>2 DEF TypeOK, Asker, Insert
    <3> QED
      BY <3>1 DEF WaitOK
  <2> QED
    BY <1>10, <2>1, <2>2 DEF Insert
<1>11. CASE PollRow(a)
  <2>1. CASE Decided(a)
    BY <1>0, <1>11, <2>1, DecidedWaits DEF PollRow
  <2>2. CASE ~Decided(a)
    <3>1. Return(a, "expired", Closing(a)) /\ r = row[s]
      BY <1>11, <2>2 DEF PollRow
    <3>2. row[s].status \notin DECIDED \cup {"pending"} /\ row[s] \in Row
      BY <1>0, <1>11, <2>2 DEF PollRow, IsPending, TypeOK
    <3>3. Behind(x, r)
      BY <3>1, <3>2 DEF Behind, Row
    <3> QED
      BY <1>x, <3>1, <3>3
  <2> QED
    BY <2>1, <2>2
<1>12. CASE Deadline(a)
  <2>1. /\ asker'[a].pc = "close" /\ asker'[a].since = x.since
        /\ asker'[a].out = x.out /\ x.pc = "wait"
    BY <1>0, <1>12 DEF TypeOK, Asker, Deadline
  <2> QED
    BY <2>1 DEF WaitOK
<1>13. CASE ReadToClose(a)
  <2>1. CASE IsPending(s)
    <3> DEFINE n == row[s].started
    <3>1. asker' = [asker EXCEPT ![a].pc = "settle", ![a].read = n] /\ x.pc = "close" /\ r = row[s]
      BY <1>13, <2>1 DEF ReadToClose
    <3>2. n \in Nat
      BY <1>0 DEF TypeOK, Row
    <3>3. r.started = n
      BY <3>1
    <3> HIDE DEF n, r
    <3>4. /\ asker'[a].pc = "settle" /\ asker'[a].since = x.since
          /\ asker'[a].out = x.out /\ asker'[a].read = n
      BY <1>0, <3>1 DEF TypeOK, Asker
    <3> QED
      BY <3>1, <3>2, <3>3, <3>4 DEF WaitOK, r
  <2>2. CASE ~IsPending(s)
    <3>1. Closed(a, FALSE) /\ x.pc # "done" /\ r.status # "pending"
      BY <1>13, <2>2 DEF ReadToClose, IsPending
    <3> QED
      BY <3>1, ClosedWaits
  <2> QED
    BY <2>1, <2>2
<1>14. CASE SettleTimedOut(a)
  <2>0. x.pc = "settle" /\ WaitOK(x, row[s])
    BY <1>14 DEF SettleTimedOut
  <2>n. row[s].started \in Nat /\ x.since \in Nat /\ x.read \in Nat
    BY <1>0 DEF TypeOK, Row, Asker
  <2>1. CASE Moves(s, x.read)
    <3>1. Behind(x, r)
      BY <1>0, <1>14, <2>1, StatusChanges DEF SettleTimedOut, UNANSWERED, Becomes, Behind
    <3>2. CASE Refunds(s, "timed_out")
      <4>1. Goto(a, "refund")
        BY <1>14, <2>1, <3>2 DEF SettleTimedOut
      <4>2. asker'[a].pc = "refund" /\ asker'[a].since = x.since /\ asker'[a].out = x.out
        BY <1>0, <4>1 DEF TypeOK, Asker, Goto
      <4> HIDE DEF r
      <4> QED
        BY <2>0, <3>1, <4>2 DEF WaitOK, Behind, r
    <3>3. CASE ~Refunds(s, "timed_out")
      <4>1. Closed(a, TRUE)
        BY <1>14, <2>1, <3>3 DEF SettleTimedOut
      <4> QED
        BY <2>0, <3>1, <4>1, ClosedWaits
    <3> QED
      BY <3>2, <3>3
  <2>2. CASE ~Moves(s, x.read)
    <3>1. Closed(a, FALSE) /\ r = row[s]
      BY <1>14, <2>2 DEF SettleTimedOut
    <3>2. row[s].started > x.since \/ row[s].status # "pending"
      BY <2>0, <2>2, <2>n DEF Moves, IsPending, WaitOK
    <3> QED
      BY <2>0, <3>1, <3>2, ClosedWaits
  <2> QED
    BY <2>1, <2>2
<1>15. CASE RefundTimedOut(a)
  <2>1. x.pc = "refund" /\ Closed(a, TRUE)
    BY <1>15 DEF RefundTimedOut
  <2>2. Behind(x, r)
    BY <2>1 DEF WaitOK
  <2> QED
    BY <2>1, <2>2, ClosedWaits
<1>16. CASE Reread(a)
  <2>1. CASE Decided(a)
    BY <1>0, <1>16, <2>1, DecidedWaits DEF Reread
  <2>2. CASE ~Decided(a)
    <3>1. Return(a, "expired", Closing(a)) /\ r = row[s] /\ x.pc = "reread"
      BY <1>16, <2>2 DEF Reread
    <3>2. row[s].status \notin DECIDED /\ row[s] \in Row
      BY <1>0, <1>16, <2>2 DEF Reread, TypeOK
    <3>3. r.started > x.since \/ r.status # "pending"
      BY <3>1 DEF WaitOK
    <3>4. Behind(x, r)
      BY <3>1, <3>2, <3>3 DEF Behind, Row
    <3> QED
      BY <1>x, <3>1, <3>4
  <2> QED
    BY <2>1, <2>2
<1>17. CASE Admit(a)
  BY <1>0, <1>17, EndsWaits DEF Admit
<1>18. CASE FailReopen(a) \/ Cancel(a) \/ Crash(a)
  BY <1>0, <1>18, EndsWaits DEF FailReopen, Cancel, Crash, Return
<1> HIDE DEF Good
<1> QED
  BY <1>1, <1>2, <1>3, <1>4, <1>5, <1>6, <1>7, <1>8, <1>9, <1>10, <1>11, <1>12, <1>13,
     <1>14, <1>15, <1>16, <1>17, <1>18 DEF AskerStep

\* A step of one call is none of another, and every other step leaves the calls alone.
LEMMA OneCallAtATime ==
    ASSUME TypeOK, [Next]_vars
    PROVE  \/ asker' = asker
           \/ \E a \in Askers :
                /\ Begin(a) \/ AskerStep(a) \/ FailReopen(a) \/ Cancel(a) \/ Crash(a)
                /\ \A b \in Askers \ {a} : asker'[b] = asker[b]
<1>1. CASE UNCHANGED vars
  BY <1>1 DEF vars
<1>2. CASE \E s \in Sessions : Authenticate(s) \/ EndSession(s) \/ Tick(s) \/ Forget(s) \/ Purge(s)
  BY <1>2 DEF Authenticate, EndSession, Tick, Forget, Purge
<1>3. CASE \E j \in Jobs : TaskStep(j) \/ FailTask(j)
  BY <1>3 DEF TaskStep, ReadPending, Refund, MarkConsumed, SettleNext, FailTask
<1>4. CASE \E j \in Admins, s \in Sessions :
             Answer(j, s, "rejected", "none") \/ \E g \in Grants : Answer(j, s, "approved", g)
  BY <1>4 DEF Answer
<1>5. CASE Reap
  BY <1>5 DEF Reap
<1>6. ASSUME NEW a \in Askers,
             Begin(a) \/ AskerStep(a) \/ FailReopen(a) \/ Cancel(a) \/ Crash(a)
      PROVE  \A b \in Askers \ {a} : asker'[b] = asker[b]
  <2>1. \E pcs : Move(a, pcs)
    BY <1>6, ReadingEffects, WritingEffects, ClosingEffects DEF AskerStep
  <2> QED
    BY <2>1 DEF Move
<1> QED
  BY <1>1, <1>2, <1>3, <1>4, <1>5, <1>6 DEF Next

\* Nobody waits before the start.
LEMMA InitWaits == Init => Waits
<1> SUFFICES ASSUME Init, NEW a \in Blocking PROVE WaitOK(asker[a], row[SessionOf[a]])
  BY DEF Waits
<1>1. asker[a] = Unasked /\ row[SessionOf[a]] = NoRow
  BY AskersFinite, TicketOfAsker DEF Init
<1> QED
  BY <1>1 DEF WaitOK, Unasked, NoRow

\* Every step keeps what the calls rely on.
LEMMA NextWaits ==
    ASSUME TypeOK, TypeOK', Waits, [Next]_vars
    PROVE  Waits'
<1> SUFFICES ASSUME NEW b \in Blocking PROVE WaitOK(asker'[b], row'[SessionOf[b]])
  BY DEF Waits
<1>0. b \in Askers /\ SessionOf[b] \in Sessions /\ asker[b] \in Asker
  BY AskersFinite, TicketOfAsker DEF TypeOK
<1>1. WaitOK(asker[b], row[SessionOf[b]])
  BY DEF Waits
<1>2. WaitOK(asker[b], row'[SessionOf[b]])
  BY <1>0, <1>1, WaitStays
<1>3. CASE asker'[b] = asker[b]
  BY <1>2, <1>3
<1>4. CASE Begin(b) \/ AskerStep(b) \/ FailReopen(b) \/ Cancel(b) \/ Crash(b)
  BY <1>1, <1>2, <1>4, AskersKeepWaits
<1> QED
  BY <1>0, <1>3, <1>4, OneCallAtATime

\* Once the gate reports Expired, the question it waited for was not approved and
\* never will be, although the deadline, the administrator, the reaper, other calls
\* of the session and retention all race for the row (require_admin_approval).
THEOREM ExpiryLeavesNothingToApprove == Spec => []ExpiredMeansClosed
<1>1. Waits => ExpiredMeansClosed
  BY DEF Waits, WaitOK, Behind, ExpiredMeansClosed
<1>2. Init => TypeOK /\ Waits
  BY InitType, InitWaits
<1>3. TypeOK /\ Waits /\ [Next]_vars => TypeOK' /\ Waits'
  BY NextType, NextWaits
<1> QED
  BY <1>1, <1>2, <1>3, PTL DEF Spec

-----------------------------------------------------------------------------
(* Who is let through the gate, and on whose word.                         *)

\* An approval is on the row for as long as the row is there, and where it was
\* deleted the session has ended and nobody asks for it any more.
ApprovalStands(s) ==
    /\ row[s].status = "approved" => verdict[s] = "approved"
    /\ verdict[s] = "approved" =>
        \/ row[s].status = "approved"
        \/ row[s].status = "none" /\ session[s] = "ended" /\ ~Asking(s)

\* The approval of r speaks for s as well.
Covers(r, s) ==
    /\ verdict[r] = "approved" /\ IdentityOf[r] = IdentityOf[s]
    /\ \/ row[r].status = "none"
       \/ row[r].scope = "all_targets"
       \/ row[r].scope = "target" /\ TargetOf[r] = TargetOf[s]

\* There is an approval for s.
Approved(s) ==
    \/ verdict[s] = "approved"
    \/ IdentityOf[s] # NoIdentity /\ \E r \in Sessions : Covers(r, s)

Grounds ==
    /\ \A s \in Sessions : ApprovalStands(s)
    /\ \A a \in Askers :
        /\ asker[a].pc = "grant" => row[SessionOf[a]].status = "approved"
        /\ asker[a].pc = "admit" /\ SessionOf[a] \in Gated => Approved(SessionOf[a])
    /\ \A s \in Gated : admitted[s] => Approved(s)

\* An ended session that nobody asks for stays so,
LEMMA EndedStays ==
    ASSUME TypeOK, [Next]_vars, NEW s \in Sessions, session[s] = "ended", ~Asking(s)
    PROVE  session'[s] = "ended" /\ ~Asking(s)'
<1>1. session'[s] = "ended"
  <2>1. CASE \E r \in Sessions : Authenticate(r) \/ EndSession(r)
    BY <2>1 DEF Authenticate, EndSession, TypeOK
  <2>2. CASE \E r \in Sessions : Tick(r) \/ Forget(r) \/ Purge(r)
    BY <2>2 DEF Tick, Forget, Purge
  <2>3. CASE \E a \in Askers : Begin(a) \/ AskerStep(a) \/ FailReopen(a) \/ Cancel(a) \/ Crash(a)
    BY <2>3, ReadingEffects, WritingEffects, ClosingEffects DEF AskerStep, Untouched
  <2>4. CASE \E j \in Jobs : TaskStep(j) \/ FailTask(j)
    BY <2>4 DEF TaskStep, ReadPending, Refund, MarkConsumed, SettleNext, FailTask
  <2>5. CASE \E j \in Admins, r \in Sessions :
               Answer(j, r, "rejected", "none") \/ \E g \in Grants : Answer(j, r, "approved", g)
    BY <2>5 DEF Answer
  <2>6. CASE Reap \/ UNCHANGED vars
    BY <2>6 DEF Reap, vars
  <2> QED
    BY <2>1, <2>2, <2>3, <2>4, <2>5, <2>6 DEF Next
<1>2. ~Asking(s)'
  <2>1. \A b \in Askers : SessionOf[b] = s => asker[b].pc \in {"start", "done"}
    BY DEF Asking
  <2>2. ASSUME NEW a \in Askers,
               Begin(a) \/ AskerStep(a) \/ FailReopen(a) \/ Cancel(a) \/ Crash(a)
        PROVE  SessionOf[a] # s
    <3>1. \/ asker[a].pc \notin {"start", "done"}
          \/ session[SessionOf[a]] = "open"
      BY <2>2, ReadingEffects, WritingEffects, ClosingEffects DEF AskerStep
    <3> QED
      BY <2>1, <3>1
  <2>3. \A b \in Askers : SessionOf[b] = s => asker'[b] = asker[b]
    BY <2>2, OneCallAtATime
  <2> QED
    BY <2>1, <2>3 DEF Asking
<1> QED
  BY <1>1, <1>2

\* and so does an approval, as long as retention outlives the sessions.
LEMMA StandsStays ==
    ASSUME TypeOK, TypeOK', [Next]_vars, ~PurgeLive, NEW s \in Sessions, ApprovalStands(s)
    PROVE  /\ ApprovalStands(s)'
           /\ verdict[s] = "approved" =>
                /\ verdict'[s] = "approved"
                /\ row'[s].status = "none" \/ row'[s].scope = row[s].scope
                /\ row[s].status = "none" => row'[s].status = "none"
           /\ row[s].status = "approved" /\ Asking(s) => row'[s].status = "approved"
<1>1. session[s] = "ended" /\ ~Asking(s) => session'[s] = "ended" /\ ~Asking(s)'
  BY EndedStays
<1>2. CASE Columns(s)' = Columns(s)
  BY <1>1, <1>2 DEF Columns, ApprovalStands
<1>3. CASE Columns(s)' # Columns(s)
  BY <1>1, <1>3, RowSteps DEF ApprovalStands, UNANSWERED, DECIDED
<1> QED
  BY <1>2, <1>3

\* Whoever had an approval to go by still has it.
LEMMA ApprovedStays ==
    ASSUME TypeOK, TypeOK', [Next]_vars, ~PurgeLive, Grounds, NEW s \in Sessions, Approved(s)
    PROVE  Approved(s)'
<1>1. CASE verdict[s] = "approved"
  BY <1>1, StandsStays DEF Grounds, Approved
<1>2. ASSUME NEW r \in Sessions, Covers(r, s), IdentityOf[s] # NoIdentity PROVE Approved(s)'
  <2>1. Covers(r, s)'
    BY <1>2, StandsStays DEF Grounds, Covers
  <2> QED
    BY <1>2, <2>1 DEF Approved
<1> QED
  BY <1>1, <1>2 DEF Approved

\* A call is let through by a decision on its row, or by an approval there was.
LEMMA AskersLetThrough ==
    ASSUME TypeOK, Grounds, NEW a \in Askers,
           Begin(a) \/ AskerStep(a) \/ FailReopen(a) \/ Cancel(a) \/ Crash(a)
    PROVE  LET s == SessionOf[a] IN
           /\ asker'[a].pc = "grant" => row[s].status = "approved" /\ asker[a].pc = "find"
           /\ asker'[a].pc = "admit" /\ s \in Gated => Approved(s)
           /\ \/ admitted' = admitted
              \/ /\ admitted' = [admitted EXCEPT ![s] = TRUE]
                 /\ asker[a].pc = "admit"
<1> DEFINE s == SessionOf[a]
<1>s. s \in Sessions
  BY TicketOfAsker
<1>a. row[s].status = "approved" => Approved(s)
  BY <1>s DEF Grounds, ApprovalStands, Approved
<1>b. Remembered(s) => Approved(s)
  <2>1. SUFFICES ASSUME Remembered(s) PROVE Approved(s)
    OBVIOUS
  <2>2. PICK r \in Sessions :
          /\ row[r].status = "approved" /\ row[r].fresh
          /\ IdentityOf[r] = IdentityOf[s]
          /\ \/ row[r].scope = "target" /\ TargetOf[r] = TargetOf[s]
             \/ row[r].scope = "all_targets"
    BY <2>1 DEF Remembered
  <2>3. Covers(r, s)
    BY <2>2 DEF Grounds, ApprovalStands, Covers
  <2> QED
    BY <2>1, <2>3 DEF Approved, Remembered
<1>c. s \in Gated /\ admitted[s] => Approved(s)
  BY DEF Grounds
<1>d. asker[a].pc = "grant" => row[s].status = "approved"
  BY DEF Grounds
<1> HIDE DEF s
<1>1. CASE Begin(a)
  BY <1>1, <1>b, <1>c, ReadingEffects DEF Move, Untouched, s
<1>2. CASE Find(a) \/ Refresh(a) \/ Lookup(a) \/ Exhausted(a) \/ Deadline(a) \/ ReadToClose(a)
  BY <1>2, ReadingEffects DEF Move, Untouched, s
<1>3. CASE PollRow(a) \/ Reread(a)
  BY <1>3, <1>a, ReadingEffects DEF Move, Untouched, s
<1>4. CASE Consume(a)
  BY <1>4, <1>a, <1>d, WritingEffects DEF Move, s
<1>5. CASE Spend(a) \/ Reopen(a) \/ GiveBack(a) \/ Insert(a)
  BY <1>5, WritingEffects DEF Move
<1>6. CASE SettleTimedOut(a) \/ RefundTimedOut(a) \/ Cancel(a) \/ Crash(a) \/ FailReopen(a)
  BY <1>6, ClosingEffects DEF Move
<1>7. CASE Admit(a)
  BY <1>7, ClosingEffects DEF Move, s
<1> QED
  BY <1>1, <1>2, <1>3, <1>4, <1>5, <1>6, <1>7 DEF AskerStep, s

\* Nobody opens a target session but a call that is let through.
LEMMA OthersAdmitNobody ==
    ASSUME TypeOK, [Next]_vars
    PROVE  \/ admitted' = admitted
           \/ \E a \in Askers : Begin(a) \/ AskerStep(a) \/ FailReopen(a) \/ Cancel(a) \/ Crash(a)
<1>1. CASE \E r \in Sessions :
             Authenticate(r) \/ EndSession(r) \/ Tick(r) \/ Forget(r) \/ Purge(r)
  BY <1>1 DEF Authenticate, EndSession, Tick, Forget, Purge
<1>2. CASE \E j \in Jobs : TaskStep(j) \/ FailTask(j)
  BY <1>2 DEF TaskStep, ReadPending, Refund, MarkConsumed, SettleNext, FailTask
<1>3. CASE \E j \in Admins, r \in Sessions :
             Answer(j, r, "rejected", "none") \/ \E g \in Grants : Answer(j, r, "approved", g)
  BY <1>3 DEF Answer
<1>4. CASE Reap \/ UNCHANGED vars
  BY <1>4 DEF Reap, vars
<1> QED
  BY <1>1, <1>2, <1>3, <1>4 DEF Next

\* Every step keeps the grounds of the admissions.
LEMMA NextGrounds ==
    ASSUME TypeOK, TypeOK', [Next]_vars, ~PurgeLive, Grounds
    PROVE  Grounds'
<1>1. \A s \in Sessions : ApprovalStands(s)'
  BY StandsStays DEF Grounds
<1>s. ASSUME NEW b \in Askers, asker'[b] = asker[b]
      PROVE  /\ asker'[b].pc = "grant" => row'[SessionOf[b]].status = "approved"
             /\ asker'[b].pc = "admit" /\ SessionOf[b] \in Gated => Approved(SessionOf[b])'
  <2>1. SessionOf[b] \in Sessions
    BY TicketOfAsker
  <2>2. asker[b].pc = "grant" => row[SessionOf[b]].status = "approved" /\ Asking(SessionOf[b])
    BY DEF Grounds, Asking
  <2>3. asker[b].pc = "admit" /\ SessionOf[b] \in Gated => Approved(SessionOf[b])
    BY DEF Grounds
  <2>4. ApprovalStands(SessionOf[b])
    BY <2>1 DEF Grounds
  <2> QED
    BY <1>s, <2>1, <2>2, <2>3, <2>4, StandsStays, ApprovedStays
<1>2. ASSUME NEW b \in Askers
      PROVE  /\ asker'[b].pc = "grant" => row'[SessionOf[b]].status = "approved"
             /\ asker'[b].pc = "admit" /\ SessionOf[b] \in Gated => Approved(SessionOf[b])'
  <2>1. CASE asker'[b] = asker[b]
    BY <1>s, <2>1
  <2>2. CASE Begin(b) \/ AskerStep(b) \/ FailReopen(b) \/ Cancel(b) \/ Crash(b)
    <3>1. SessionOf[b] \in Sessions
      BY TicketOfAsker
    <3>2. /\ asker'[b].pc = "grant" =>
                row[SessionOf[b]].status = "approved" /\ asker[b].pc = "find"
          /\ asker'[b].pc = "admit" /\ SessionOf[b] \in Gated => Approved(SessionOf[b])
      BY <2>2, AskersLetThrough
    <3>3. asker'[b].pc = "grant" => Asking(SessionOf[b])
      BY <3>2 DEF Asking
    <3>4. ApprovalStands(SessionOf[b])
      BY <3>1 DEF Grounds
    <3> QED
      BY <3>1, <3>2, <3>3, <3>4, StandsStays, ApprovedStays
  <2> QED
    BY <2>1, <2>2, OneCallAtATime
<1>3. ASSUME NEW s \in Gated, admitted'[s] PROVE Approved(s)'
  <2>0. s \in Sessions
    BY ConstantTypes
  <2>1. CASE admitted[s]
    BY <2>0, <2>1, ApprovedStays DEF Grounds
  <2>2. CASE ~admitted[s]
    <3>1. admitted \in [Sessions -> BOOLEAN]
      BY DEF TypeOK
    <3>2. PICK a \in Askers : Begin(a) \/ AskerStep(a) \/ FailReopen(a) \/ Cancel(a) \/ Crash(a)
      BY <1>3, <2>2, OthersAdmitNobody
    <3>3. SessionOf[a] = s /\ asker[a].pc = "admit"
      BY <1>3, <2>0, <2>2, <3>1, <3>2, AskersLetThrough
    <3>4. Approved(s)
      BY <3>3 DEF Grounds
    <3> QED
      BY <2>0, <3>4, ApprovedStays
  <2> QED
    BY <2>1, <2>2
<1> QED
  BY <1>1, <1>2, <1>3 DEF Grounds

\* Nobody passes the gate without an administrator's approval, of this session or
\* remembered for the same identity with a scope that covers the target, as long as
\* audit retention outlives the sessions (require_admin_approval,
\* poll_admin_approval, approval_is_remembered, register_approved_target_session).
THEOREM NobodyPassesUnapproved ==
    ASSUME ~PurgeLive
    PROVE  Spec => []EveryAdmissionApproved
<1>1. Grounds => EveryAdmissionApproved
  BY DEF Grounds, Approved, Covers, EveryAdmissionApproved
<1>2. Init => Grounds
  <2> SUFFICES ASSUME Init PROVE Grounds
    OBVIOUS
  <2>1. /\ \A s \in Sessions : ~admitted[s] /\ row[s].status = "none" /\ verdict[s] = "none"
        /\ \A a \in Askers : asker[a].pc = "start"
    BY DEF Init, NoRow, Unasked
  <2> QED
    BY <2>1, ConstantTypes DEF Grounds, ApprovalStands
<1>3. TypeOK /\ Grounds /\ [Next]_vars => TypeOK' /\ Grounds'
  BY NextType, NextGrounds
<1> QED
  BY <1>1, <1>2, <1>3, InitType, PTL DEF Spec
=============================================================================
