----------------------------- MODULE Approvals -----------------------------
(***************************************************************************)
(* The administrator-approval gate of Warpgate and the ticket uses that    *)
(* pay for its questions.  Every asker (a held connection or one polled    *)
(* HTTP request), every spawned clean-up task, every administrator and the *)
(* periodic reaper runs on some node and meets the others only in the      *)
(* database, one statement at a time: each action below is one statement   *)
(* and the local bookkeeping up to the next one.                           *)
(*                                                                         *)
(* A session asks about one target, so the row with primary key (session,  *)
(* Admin, target) is row[s].  Timestamps are numbers: row[s].started       *)
(* counts the questions asked on the row, and age says which limits the    *)
(* question has outlived.                                                  *)
(***************************************************************************)
EXTENDS Integers, FiniteSets

CONSTANTS
    Sessions,     \* user sessions, each with the one target it asks about
    Tickets,      \* tickets with a limited number of uses
    TicketOf,     \* [Sessions -> Tickets \cup {NoTicket}]
    NoTicket,
    InitialUses,  \* [Tickets -> Nat], uses_left when the ticket is issued
    Gated,        \* the sessions whose target has require_approval set
    TargetOf,     \* [Sessions -> targets]
    IdentityOf,   \* [Sessions -> identities a decision is remembered by]
    NoIdentity,   \* RememberApprovalBy::Nothing
    Askers,       \* calls of the gate, each made at most once
    SessionOf,    \* [Askers -> Sessions]
    Blocking,     \* the askers that hold a connection; the others poll
    Admins,       \* administrators answering questions
    Grants,       \* the scopes they choose from when they approve
    Reaper,       \* the periodic reap_stale task
    PurgeLive,    \* may audit retention delete the row of a live session?
    MaxAge,       \* bound: how old a row may get, 3 for as old as it likes
    MaxFailures   \* bound: deaths and failed refunds in a behaviour

Jobs == Askers \cup Sessions \cup Admins \cup {Reaper}

ASSUME SessionsFinite == IsFiniteSet(Sessions)
ASSUME AskersFinite == IsFiniteSet(Askers) /\ Blocking \subseteq Askers
ASSUME JobsFinite == IsFiniteSet(Admins)
ASSUME JobsDisjoint ==
    /\ Askers \cap (Sessions \cup Admins \cup {Reaper}) = {}
    /\ Sessions \cap (Admins \cup {Reaper}) = {}
ASSUME NoTicketIsNone == NoTicket \notin Tickets
\* A ticket login is remembered by nothing (RememberApprovalBy::Nothing at every
\* place that authenticates a ticket).
ASSUME TicketsRememberNothing ==
    \A s \in Sessions : TicketOf[s] # NoTicket => IdentityOf[s] = NoIdentity
ASSUME ConstantTypes ==
    /\ TicketOf \in [Sessions -> Tickets \cup {NoTicket}]
    /\ InitialUses \in [Tickets -> Nat]
    /\ SessionOf \in [Askers -> Sessions]
    /\ Gated \subseteq Sessions
    /\ Grants \subseteq {"once", "target", "all_targets"}
    /\ PurgeLive \in BOOLEAN
    /\ MaxAge \in 0..3
    /\ MaxFailures \in Nat

VARIABLES
    session,   \* UserSession: "new", "open" or "ended"
    admitted,  \* has the session's target session been opened?
    uses,      \* Ticket.uses_left
    row,       \* the session_approval_requests table
    asker,     \* local state of each call of the gate
    job,       \* local state of each spawned or periodic task
    failures,  \* deaths and failed refunds so far
    paid,      \* auxiliary: the session has one use of its ticket on account
    lost,      \* auxiliary: uses that died with the process returning them
    verdict,   \* auxiliary: the first decision recorded for the session
    answered   \* auxiliary: the question its author was looking at

vars == <<session, admitted, uses, row, asker, job, failures,
          paid, lost, verdict, answered>>
aux == <<paid, lost, verdict, answered>>

-----------------------------------------------------------------------------
(* Rows, and what the statements on them do.                               *)

\* Faulty variant: a rejected question counts as one nobody answered.
UNANSWERED_WithRejected == {"timed_out", "abandoned", "rejected"}
UNANSWERED == {"timed_out", "abandoned"}
DECIDED == {"approved", "rejected"}
Scopes == {"none", "once", "target", "all_targets"}

\* age: 0 live, 1 past the approval timeout, 2 past request_lifetime (the
\* larger of that timeout and the auth-state TIMEOUT), 3 past audit retention.
\* fresh: an approval to remember, still in its grace period.
NoRow == [status |-> "none", started |-> 0, age |-> 0, scope |-> "none",
          fresh |-> FALSE, consumed |-> FALSE]

IsPending(s) == row[s].status = "pending"

\* What NewRequest becomes as an inserted or a reopened row.
Ask(s) == row' = [row EXCEPT ![s] =
            [NoRow EXCEPT !.status = "pending", !.started = row[s].started + 1]]

\* Faulty variants: a settle that forgets one of its two filters.
Moves_AnyQuestion(s, n) == IsPending(s)
Moves_AnyStatus(s, n) == row[s].started = n

\* The filter of settle_request_internal: the question is still the one that
\* was read, and still pending.
Moves(s, n) == IsPending(s) /\ row[s].started = n

\* The columns a settled row gets.  resolved_at is now, so an approval that is
\* to be remembered starts its grace period.
Settle(s, to, scope) ==
    row' = [row EXCEPT ![s].status = to, ![s].scope = scope,
                       ![s].fresh = scope \in {"target", "all_targets"}]

\* Ticket::spend_use finds a use to take.  Faulty variant: an off-by-one.
CanSpend_OffByOne(t) == uses[t] >= 0
CanSpend(t) == uses[t] > 0

\* Ticket::refund_use.  Its callers only log a failure.
RefundUse(t) ==
    \/ /\ uses' = [uses EXCEPT ![t] = @ + 1]
       /\ UNCHANGED <<failures, lost>>
    \/ /\ failures < MaxFailures
       /\ failures' = failures + 1
       /\ lost' = [lost EXCEPT ![t] = @ + 1]
       /\ UNCHANGED uses

\* Faulty variant: an approval gives the use back too.
Refunds_Always(s, to) == TicketOf[s] # NoTicket

\* A question that ends without an approval gives its use back.
Refunds(s, to) == to # "approved" /\ TicketOf[s] # NoTicket

\* Faulty variant: the scope is not looked at.
Remembered_AnyScope(s) ==
    /\ IdentityOf[s] # NoIdentity
    /\ \E r \in Sessions : row[r].status = "approved" /\ IdentityOf[r] = IdentityOf[s]

\* approval_is_remembered: some approval, still in its grace period, was
\* granted to the same identity for this target or for all of them.
Remembered(s) ==
    /\ IdentityOf[s] # NoIdentity
    /\ \E r \in Sessions :
        /\ row[r].status = "approved" /\ row[r].fresh
        /\ IdentityOf[r] = IdentityOf[s]
        /\ \/ row[r].scope = "target" /\ TargetOf[r] = TargetOf[s]
           \/ row[r].scope = "all_targets"

-----------------------------------------------------------------------------
(* Local states.                                                           *)

\* pc of an asker that holds a use it has spent and not yet put on the row.
Holding == {"reopen", "giveback"}
\* An asker inside require_admin_approval, past the making of its guard.
Guarded == {"refresh", "lookup", "spend", "exhausted", "reopen", "giveback",
            "insert", "wait", "close", "settle", "refund", "reread"}
AskerPcs == Guarded \cup {"start", "find", "grant", "deny", "admit", "done"}
Outcomes == {"none", "admitted", "refused", "expired", "pending", "failed"}

Unasked == [pc |-> "start", again |-> FALSE, read |-> 0, since |-> 0,
            closeAs |-> "abandoned", out |-> "none"]

JobPcs == {"idle", "read", "settle", "refund", "consume"}
Idle == [pc |-> "idle", to |-> "abandoned", scope |-> "none", whom |-> {},
         todo |-> {}, back |-> NoTicket]
CloseTask(s, to) == [Idle EXCEPT !.pc = "read", !.to = to, !.whom = {s}]
ConsumeTask(s) == [Idle EXCEPT !.pc = "consume", !.whom = {s}]

Init ==
    /\ session = [s \in Sessions |-> "new"]
    /\ admitted = [s \in Sessions |-> FALSE]
    /\ uses = InitialUses
    /\ row = [s \in Sessions |-> NoRow]
    /\ asker = [a \in Askers |-> Unasked]
    /\ job = [j \in Jobs |-> Idle]
    /\ failures = 0
    /\ paid = [s \in Sessions |-> FALSE]
    /\ lost = [t \in Tickets |-> 0]
    /\ verdict = [s \in Sessions |-> "none"]
    /\ answered = [s \in Sessions |-> 0]

Goto(a, pc) == asker' = [asker EXCEPT ![a].pc = pc]

\* The call is over; of its locals only what it waited for is remembered.
Ends(a, out) ==
    asker' = [asker EXCEPT ![a] = [Unasked EXCEPT !.pc = "done", !.out = out,
                                                  !.since = asker[a].since]]

\* require_admin_approval returns with `out`: its guard is dropped, and the
\* drop spawns the task.  A poll has no guard.
Return(a, out, task) ==
    /\ Ends(a, out)
    /\ job' = IF a \in Blocking THEN [job EXCEPT ![a] = task] ELSE job

\* The guard's drop while the question has no decision.
Closing(a) == CloseTask(SessionOf[a], asker[a].closeAs)

\* upsert_request is done and the question is on the table: the holder waits
\* for it, a poll answers "still waiting".
Advertised(a) ==
    IF a \in Blocking
    THEN /\ asker' = [asker EXCEPT ![a].pc = "wait",
                                   ![a].since = row'[SessionOf[a]].started]
         /\ UNCHANGED job
    ELSE Return(a, "pending", Idle)

-----------------------------------------------------------------------------
(* Sessions.                                                               *)

\* A login.  A ticket login spends a use first and fails without one.
Authenticate(s) ==
    /\ session[s] = "new"
    /\ session' = [session EXCEPT ![s] = "open"]
    /\ IF TicketOf[s] = NoTicket
       THEN UNCHANGED <<uses, paid>>
       ELSE /\ CanSpend(TicketOf[s])
            /\ uses' = [uses EXCEPT ![TicketOf[s]] = @ - 1]
            /\ paid' = [paid EXCEPT ![s] = TRUE]
    /\ UNCHANGED <<admitted, row, asker, job, failures, lost, verdict, answered>>

\* mark_ended_including_target_sessions commits; settle() then abandons the
\* session's questions.
EndSession(s) ==
    /\ session[s] = "open"
    /\ session' = [session EXCEPT ![s] = "ended"]
    /\ job' = [job EXCEPT ![s] = CloseTask(s, "abandoned")]
    /\ UNCHANGED <<admitted, uses, row, asker, failures, aux>>

-----------------------------------------------------------------------------
(* The gate: how a call begins.                                            *)

\* start_target_session, then the checks ahead of the first write.
Begin(a) ==
    LET s == SessionOf[a] IN
    /\ asker[a].pc = "start" /\ session[s] = "open"
    /\ IF s \notin Gated \/ admitted[s] \/ Remembered(s)
       THEN Goto(a, "admit")
       ELSE Goto(a, IF a \in Blocking THEN "refresh" ELSE "find")
    /\ UNCHANGED <<session, admitted, uses, row, job, failures, aux>>

\* poll_admin_approval reads the row.
Find(a) ==
    LET s == SessionOf[a] IN
    /\ asker[a].pc = "find"
    /\ IF IsPending(s) /\ row[s].age = 0
       THEN Return(a, "pending", Idle)
       ELSE /\ Goto(a, IF IsPending(s) THEN "close"
                       ELSE IF row[s].status = "approved" THEN "grant"
                       ELSE IF row[s].status = "rejected" THEN "deny"
                       ELSE "refresh")
            /\ UNCHANGED job
    /\ UNCHANGED <<session, admitted, uses, row, failures, aux>>

\* A poll that read a decision marks it consumed and acts on it.
Consume(a) ==
    LET s == SessionOf[a] IN
    /\ asker[a].pc \in {"grant", "deny"}
    /\ row' = [row EXCEPT ![s].consumed = row[s].status # "none"]
    /\ IF asker[a].pc = "grant"
       THEN Goto(a, "admit") /\ UNCHANGED job
       ELSE Return(a, "refused", Idle)
    /\ UNCHANGED <<session, admitted, uses, failures, aux>>

-----------------------------------------------------------------------------
(* upsert_request, statement by statement.  `again` is its second pass,    *)
(* after an insert that hit the primary key.                               *)

\* try_refresh_pending: a live question keeps its start and its status.
Refresh(a) ==
    LET s == SessionOf[a] IN
    /\ asker[a].pc = "refresh"
    /\ IF IsPending(s)
       THEN row' = row /\ Advertised(a)
       ELSE /\ Goto(a, IF TicketOf[s] = NoTicket THEN "reopen" ELSE "lookup")
            /\ UNCHANGED <<row, job>>
    /\ UNCHANGED <<session, admitted, uses, failures, aux>>

\* No unanswered row to reopen: insert one, or, on the second pass, settle
\* for the row that is there.
NotUnanswered(a) ==
    IF asker[a].again THEN Advertised(a)
    ELSE Goto(a, "insert") /\ UNCHANGED job

\* try_reopen_unanswered, for a ticket: is there anything to pay for?
Lookup(a) ==
    /\ asker[a].pc = "lookup"
    /\ row' = row
    /\ IF row[SessionOf[a]].status \in UNANSWERED
       THEN Goto(a, "spend") /\ UNCHANGED job
       ELSE NotUnanswered(a)
    /\ UNCHANGED <<session, admitted, uses, failures, aux>>

\* Ticket::spend_use.
Spend(a) ==
    LET t == TicketOf[SessionOf[a]] IN
    /\ asker[a].pc = "spend"
    /\ IF CanSpend(t)
       THEN /\ uses' = [uses EXCEPT ![t] = @ - 1]
            /\ Goto(a, "reopen") /\ UNCHANGED job
       ELSE /\ IF asker[a].again THEN Return(a, "refused", Closing(a))
               ELSE Goto(a, "exhausted") /\ UNCHANGED job
            /\ UNCHANGED uses
    /\ UNCHANGED <<session, admitted, row, failures, aux>>

\* The ticket was exhausted, perhaps by an asker that has paid for the same
\* question.
Exhausted(a) ==
    /\ asker[a].pc = "exhausted"
    /\ row' = row
    /\ IF IsPending(SessionOf[a]) THEN Advertised(a)
       ELSE Return(a, "refused", Closing(a))
    /\ UNCHANGED <<session, admitted, uses, failures, aux>>

\* The update that turns an unanswered row back into a question.  Losing the
\* race for it means giving the use back.
Reopen(a) ==
    LET s == SessionOf[a] IN
    /\ asker[a].pc = "reopen"
    /\ IF row[s].status \in UNANSWERED
       THEN /\ Ask(s) /\ Advertised(a)
            /\ paid' = [paid EXCEPT ![s] = TicketOf[s] # NoTicket]
       ELSE /\ IF TicketOf[s] # NoTicket THEN Goto(a, "giveback") /\ UNCHANGED <<row, job>>
               ELSE row' = row /\ NotUnanswered(a)
            /\ UNCHANGED paid
    /\ UNCHANGED <<session, admitted, uses, failures, lost, verdict, answered>>

\* Ticket::refund_use of the reopen that lost.
GiveBack(a) ==
    /\ asker[a].pc = "giveback"
    /\ RefundUse(TicketOf[SessionOf[a]])
    /\ row' = row /\ NotUnanswered(a)
    /\ UNCHANGED <<session, admitted, paid, verdict, answered>>

Insert(a) ==
    LET s == SessionOf[a] IN
    /\ asker[a].pc = "insert"
    /\ IF row[s].status = "none"
       THEN Ask(s) /\ Advertised(a)
       ELSE /\ asker' = [asker EXCEPT ![a].pc = "refresh", ![a].again = TRUE]
            /\ UNCHANGED <<row, job>>
    /\ UNCHANGED <<session, admitted, uses, failures, aux>>

-----------------------------------------------------------------------------
(* Waiting for the decision.                                               *)

\* The row carries a decision: the guard's drop will mark it consumed.
Decided(a) ==
    LET s == SessionOf[a] IN
    IF row[s].status = "approved"
    THEN /\ Goto(a, "admit")
         /\ job' = [job EXCEPT ![a] = ConsumeTask(s)]
    ELSE Return(a, "refused", ConsumeTask(s))

\* One tick of await_row_decision that does not find the question pending.
PollRow(a) ==
    LET s == SessionOf[a] IN
    /\ asker[a].pc = "wait" /\ ~IsPending(s)
    /\ IF row[s].status \in DECIDED THEN Decided(a)
       ELSE Return(a, "expired", Closing(a))
    /\ UNCHANGED <<session, admitted, uses, row, failures, aux>>

\* The deadline passes between two ticks.
Deadline(a) ==
    /\ asker[a].pc = "wait"
    /\ asker' = [asker EXCEPT ![a].pc = "close", ![a].closeAs = "timed_out"]
    /\ UNCHANGED <<session, admitted, uses, row, job, failures, aux>>

\* Faulty variant: the holder expires without looking for a decision.
Closed_NoReread(a, closed) ==
    IF a \notin Blocking THEN Goto(a, "refresh") /\ UNCHANGED job
    ELSE Return(a, "expired", Closing(a))

\* Faulty variant: a holder that closed nothing goes back to waiting.
Closed_KeepsWaiting(a, closed) ==
    IF a \notin Blocking THEN Goto(a, "refresh") /\ UNCHANGED job
    ELSE IF closed THEN Return(a, "expired", Closing(a))
    ELSE Goto(a, "wait") /\ UNCHANGED job

\* The close is done.  The holder expires if it closed the question itself and
\* looks for a decision otherwise; a poll asks again either way.
Closed(a, closed) ==
    IF a \notin Blocking THEN Goto(a, "refresh") /\ UNCHANGED job
    ELSE IF closed THEN Return(a, "expired", Closing(a))
    ELSE Goto(a, "reread") /\ UNCHANGED job

\* close_request reads the pending row ...
ReadToClose(a) ==
    LET s == SessionOf[a] IN
    /\ asker[a].pc = "close"
    /\ IF IsPending(s)
       THEN /\ asker' = [asker EXCEPT ![a].pc = "settle", ![a].read = row[s].started]
            /\ UNCHANGED job
       ELSE Closed(a, FALSE)
    /\ UNCHANGED <<session, admitted, uses, row, failures, aux>>

\* ... and settles exactly that question,
SettleTimedOut(a) ==
    LET s == SessionOf[a] IN
    /\ asker[a].pc = "settle"
    /\ IF Moves(s, asker[a].read)
       THEN /\ Settle(s, "timed_out", "none")
            /\ IF Refunds(s, "timed_out")
               THEN /\ paid' = [paid EXCEPT ![s] = FALSE]
                    /\ Goto(a, "refund") /\ UNCHANGED job
               ELSE Closed(a, TRUE) /\ UNCHANGED paid
       ELSE Closed(a, FALSE) /\ UNCHANGED <<row, paid>>
    /\ UNCHANGED <<session, admitted, uses, failures, lost, verdict, answered>>

\* then gives the use back.
RefundTimedOut(a) ==
    /\ asker[a].pc = "refund"
    /\ RefundUse(TicketOf[SessionOf[a]])
    /\ Closed(a, TRUE)
    /\ UNCHANGED <<session, admitted, row, paid, verdict, answered>>

\* Somebody else closed or decided it first: row_decision.
Reread(a) ==
    LET s == SessionOf[a] IN
    /\ asker[a].pc = "reread"
    /\ IF row[s].status \in DECIDED THEN Decided(a)
       ELSE Return(a, "expired", Closing(a))
    /\ UNCHANGED <<session, admitted, uses, row, failures, aux>>

\* register_approved_target_session: refused once the user session has ended.
Admit(a) ==
    LET s == SessionOf[a] IN
    /\ asker[a].pc = "admit"
    /\ IF session[s] = "open"
       THEN /\ admitted' = [admitted EXCEPT ![s] = TRUE]
            /\ Ends(a, "admitted")
       ELSE Ends(a, "failed") /\ UNCHANGED admitted
    /\ UNCHANGED <<session, uses, row, job, failures, aux>>

\* The use in flight, if any, goes down with the process that carries it.
LoseUse(t, carries) ==
    lost' = IF carries /\ t # NoTicket THEN [lost EXCEPT ![t] = @ + 1] ELSE lost

\* The future is dropped, or a statement fails: the client disconnects, the
\* session is closed, or the database returns an error (of the reopening update,
\* see FailReopen).  The guard runs.
Cancel(a) ==
    /\ asker[a].pc \notin {"start", "done"}
    /\ Ends(a, "failed")
    /\ job' = IF a \in Blocking /\ asker[a].pc \in Guarded
              THEN [job EXCEPT ![a] = Closing(a)] ELSE job
    /\ LoseUse(TicketOf[SessionOf[a]], asker[a].pc \in Holding \cup {"refund"})
    /\ UNCHANGED <<session, admitted, uses, row, failures, paid, verdict, answered>>

\* The reopening update returns an error: the use goes back before the error
\* does.
FailReopen(a) ==
    LET t == TicketOf[SessionOf[a]] IN
    /\ asker[a].pc = "reopen" /\ t # NoTicket
    /\ RefundUse(t)
    /\ Return(a, "failed", Closing(a))
    /\ UNCHANGED <<session, admitted, row, paid, verdict, answered>>

-----------------------------------------------------------------------------
(* Tasks: the drop of a guard, the end of a session, an administrator's    *)
(* answer and the reaper.                                                  *)

\* The questions of `whom` as a select of pending rows returns them.
Snapshot(whom) == {<<s, row[s].started>> : s \in {r \in whom : IsPending(r)}}

\* The task has `todo` left to settle; without any, it is over.
Continue(j, todo) ==
    IF todo = {} THEN Idle
    ELSE [job[j] EXCEPT !.pc = "settle", !.whom = {}, !.todo = todo, !.back = NoTicket]

\* The select of close_request and of abandon_each.
ReadPending(j) ==
    /\ job[j].pc = "read"
    /\ job' = [job EXCEPT ![j] = Continue(j, Snapshot(job[j].whom))]
    /\ UNCHANGED <<session, admitted, uses, row, asker, failures, aux>>

\* record_decision reads the question an administrator answers.
Answer(j, s, to, scope) ==
    /\ job[j].pc = "idle" /\ IsPending(s)
    /\ job' = [job EXCEPT ![j] = [Idle EXCEPT !.pc = "settle", !.to = to, !.scope = scope,
                                             !.todo = Snapshot({s})]]
    /\ UNCHANGED <<session, admitted, uses, row, asker, failures, aux>>

\* Faulty variant: only the questions of ended sessions are reaped.
Reap_EndedOnly ==
    LET stale == Snapshot({s \in Sessions : row[s].age >= 2 /\ session[s] = "ended"}) IN
    /\ job[Reaper].pc = "idle" /\ stale # {}
    /\ job' = [job EXCEPT ![Reaper] = [Idle EXCEPT !.pc = "settle", !.todo = stale]]
    /\ UNCHANGED <<session, admitted, uses, row, asker, failures, aux>>

\* reap_stale selects every question past its lifetime.
Reap ==
    LET stale == Snapshot({s \in Sessions : row[s].age >= 2}) IN
    /\ job[Reaper].pc = "idle" /\ stale # {}
    /\ job' = [job EXCEPT ![Reaper] = [Idle EXCEPT !.pc = "settle", !.todo = stale]]
    /\ UNCHANGED <<session, admitted, uses, row, asker, failures, aux>>

\* settle_request_internal on one row of the task's snapshot.
SettleNext(j, s, n) ==
    LET to == job[j].to
        rest == job[j].todo \ {<<s, n>>}
    IN
    /\ job[j].pc = "settle" /\ <<s, n>> \in job[j].todo
    /\ IF Moves(s, n)
       THEN /\ Settle(s, to, job[j].scope)
            /\ paid' = IF Refunds(s, to) THEN [paid EXCEPT ![s] = FALSE] ELSE paid
            /\ verdict' = IF to \in DECIDED THEN [verdict EXCEPT ![s] = to] ELSE verdict
            /\ answered' = IF to \in DECIDED THEN [answered EXCEPT ![s] = n] ELSE answered
            /\ job' = [job EXCEPT ![j] =
                 IF Refunds(s, to)
                 THEN [job[j] EXCEPT !.pc = "refund", !.todo = rest, !.back = TicketOf[s]]
                 ELSE Continue(j, rest)]
       ELSE /\ job' = [job EXCEPT ![j] = Continue(j, rest)]
            /\ UNCHANGED <<row, paid, verdict, answered>>
    /\ UNCHANGED <<session, admitted, uses, asker, failures, lost>>

Refund(j) ==
    /\ job[j].pc = "refund"
    /\ RefundUse(job[j].back)
    /\ job' = [job EXCEPT ![j] = Continue(j, job[j].todo)]
    /\ UNCHANGED <<session, admitted, row, asker, paid, verdict, answered>>

\* A guard that was told of the decision marks it consumed.
MarkConsumed(j) ==
    /\ job[j].pc = "consume"
    /\ row' = [s \in Sessions |-> IF s \in job[j].whom /\ row[s].status # "none"
                                  THEN [row[s] EXCEPT !.consumed = TRUE] ELSE row[s]]
    /\ job' = [job EXCEPT ![j] = Idle]
    /\ UNCHANGED <<session, admitted, uses, asker, failures, aux>>

\* The node dies under a task, or a statement other than a refund fails and
\* the error is logged: either way the task is over.
FailTask(j) ==
    /\ job[j].pc # "idle" /\ failures < MaxFailures
    /\ failures' = failures + 1
    /\ job' = [job EXCEPT ![j] = Idle]
    /\ LoseUse(job[j].back, job[j].pc = "refund")
    /\ UNCHANGED <<session, admitted, uses, row, asker, paid, verdict, answered>>

-----------------------------------------------------------------------------
(* Failures and the clock.                                                 *)

\* The node dies under an asker: no drop runs.
Crash(a) ==
    /\ asker[a].pc \notin {"start", "done"} /\ failures < MaxFailures
    /\ failures' = failures + 1
    /\ Ends(a, "failed")
    /\ LoseUse(TicketOf[SessionOf[a]], asker[a].pc \in Holding \cup {"refund"})
    /\ UNCHANGED <<session, admitted, uses, row, job, paid, verdict, answered>>

\* A question outlives its next limit.
Tick(s) ==
    LET older == IF ~IsPending(s) THEN 3 ELSE IF row[s].age = 0 THEN 1 ELSE 2 IN
    /\ row[s].status # "none" /\ row[s].age < older /\ older <= MaxAge
    /\ row' = [row EXCEPT ![s].age = older]
    /\ UNCHANGED <<session, admitted, uses, asker, job, failures, aux>>

\* An approval's grace period runs out.
Forget(s) ==
    /\ row[s].fresh
    /\ row' = [row EXCEPT ![s].fresh = FALSE]
    /\ UNCHANGED <<session, admitted, uses, asker, job, failures, aux>>

\* delete_all_before.  The statement looks at the row alone.  That retention is
\* longer than any one call is taken for granted; that it is longer than any
\* session, so that nobody asks on the row again, is an assumption about the
\* configuration that PurgeLive lifts.
Purge(s) ==
    /\ row[s].age = 3
    /\ row[s].status \in UNANSWERED \/ row[s].consumed
    /\ PurgeLive \/ session[s] = "ended"
    /\ \A a \in Askers : SessionOf[a] = s => asker[a].pc \in {"start", "done"}
    /\ row' = [row EXCEPT ![s] = [NoRow EXCEPT !.started = row[s].started]]
    /\ UNCHANGED <<session, admitted, uses, asker, job, failures, aux>>

-----------------------------------------------------------------------------
AskerStep(a) ==
    \/ Find(a) \/ Consume(a)
    \/ Refresh(a) \/ Lookup(a) \/ Spend(a) \/ Exhausted(a)
    \/ Reopen(a) \/ GiveBack(a) \/ Insert(a)
    \/ PollRow(a) \/ Deadline(a)
    \/ ReadToClose(a) \/ SettleTimedOut(a) \/ RefundTimedOut(a) \/ Reread(a)
    \/ Admit(a)

TaskStep(j) ==
    \/ ReadPending(j) \/ Refund(j) \/ MarkConsumed(j)
    \/ \E snapshot \in job[j].todo : SettleNext(j, snapshot[1], snapshot[2])

Next ==
    \/ \E s \in Sessions : Authenticate(s) \/ EndSession(s) \/ Tick(s) \/ Forget(s) \/ Purge(s)
    \/ \E a \in Askers : Begin(a) \/ AskerStep(a) \/ FailReopen(a) \/ Cancel(a) \/ Crash(a)
    \/ \E j \in Jobs : TaskStep(j) \/ FailTask(j)
    \/ \E j \in Admins, s \in Sessions :
           Answer(j, s, "rejected", "none") \/ \E g \in Grants : Answer(j, s, "approved", g)
    \/ Reap

Spec == Init /\ [][Next]_vars

\* A statement that was sent returns, a timer that was armed fires, the reaper
\* runs every minute and time passes.  Nobody has to log in, to answer, to
\* disconnect or to crash.
Fairness ==
    /\ \A a \in Askers : WF_vars(AskerStep(a))
    /\ \A j \in Jobs : WF_vars(TaskStep(j))
    /\ \A s \in Sessions : WF_vars(Tick(s))
    /\ WF_vars(Reap)

FairSpec == Spec /\ Fairness

-----------------------------------------------------------------------------
(* Properties.                                                             *)

\* Every variable keeps its type.
Row == [status : {"none", "pending"} \cup UNANSWERED \cup DECIDED,
        started : Nat, age : 0..3, scope : Scopes,
        fresh : BOOLEAN, consumed : BOOLEAN]
Asker == [pc : AskerPcs, again : BOOLEAN, read : Nat, since : Nat,
          closeAs : UNANSWERED, out : Outcomes]
Job == [pc : JobPcs, to : UNANSWERED \cup DECIDED, scope : Scopes,
        whom : SUBSET Sessions, todo : SUBSET (Sessions \X Nat),
        back : Tickets \cup {NoTicket}]
TypeOK ==
    /\ session \in [Sessions -> {"new", "open", "ended"}]
    /\ admitted \in [Sessions -> BOOLEAN]
    /\ uses \in [Tickets -> Nat]
    /\ row \in [Sessions -> Row]
    /\ asker \in [Askers -> Asker]
    /\ job \in [Jobs -> Job]
    /\ failures \in Nat
    /\ paid \in [Sessions -> BOOLEAN]
    /\ lost \in [Tickets -> Nat]
    /\ verdict \in [Sessions -> DECIDED \cup {"none"}]
    /\ answered \in [Sessions -> Nat]

\* Where the uses of ticket t are when they are not in uses_left: on the
\* account of a session, in the hands of an asker that has spent one for a row
\* it has not reopened yet or that is returning one, or in those of a task that
\* returns one.
OnAccount(t) == {s \in Sessions : TicketOf[s] = t /\ paid[s]}
InHand(t) == {a \in Askers : TicketOf[SessionOf[a]] = t /\ asker[a].pc \in Holding \cup {"refund"}}
Returning(t) == {j \in Jobs : job[j].pc = "refund" /\ job[j].back = t}

\* Uses are neither made nor doubled: whatever order the spends, the refunds
\* and the lost races of all nodes come in, every use of a ticket is in
\* uses_left, on the way, on one session's account, or lost with a process
\* that died between two statements (spend_use, refund_use and their callers).
TicketLedger ==
    \A t \in Tickets :
        uses[t] + Cardinality(OnAccount(t)) + Cardinality(InHand(t))
                + Cardinality(Returning(t)) + lost[t] = InitialUses[t]

\* "A fresh question is paid for by the use taken at authentication"
\* (poll_admin_approval), and a reopened one by the use spent for it: a
\* question that is live or approved has a use of the ticket on account.
PaidQuestion ==
    \A s \in Sessions :
        TicketOf[s] # NoTicket /\ row[s].status \in {"pending", "approved"} => paid[s]

\* Somebody is in the middle of asking for session s.
Asking(s) == \E a \in Askers : SessionOf[a] = s /\ asker[a].pc \notin {"start", "done"}

\* The account of a ticket session through its whole life, the reason behind the
\* two properties above: it is empty until the login and after a question that
\* ended without an approval, and holds one use whenever a question is live, was
\* approved, or may still be asked for the first time; and no task that carries
\* a use is ever overwritten by another of the same owner (the spawns in
\* PendingApproval::drop and mark_ended_including_target_sessions).
Accounts ==
    /\ \A s \in Sessions : TicketOf[s] # NoTicket =>
        /\ session[s] = "new" => ~paid[s] /\ row[s].status = "none"
        /\ row[s].status \in {"pending", "approved"} => paid[s]
        /\ row[s].status \in UNANSWERED \cup {"rejected"} => ~paid[s]
        /\ row[s].status = "none" /\ (session[s] = "open" \/ Asking(s)) => paid[s]
    /\ \A a \in Askers :
        /\ asker[a].pc # "start" => session[SessionOf[a]] # "new"
        /\ asker[a].pc # "done" => job[a].pc \in {"idle", "consume"}
    /\ \A s \in Sessions : session[s] # "ended" => job[s].pc = "idle"

\* Whoever is past the gate, or about to be, with a ticket has been let through
\* by a decision on a question that is paid for (or meets no gate), and nobody
\* asks on that row again.
Admissions ==
    /\ \A s \in Sessions \ Gated : row[s].status = "none"
    /\ \A a \in Askers : LET s == SessionOf[a] IN
        /\ s \notin Gated => asker[a].pc \in {"start", "admit", "done"}
        /\ asker[a].pc = "grant" => row[s].status = "approved"
        /\ asker[a].pc = "admit" /\ TicketOf[s] # NoTicket =>
            paid[s] /\ (s \in Gated => row[s].status = "approved")
    /\ \A s \in Sessions : admitted[s] /\ TicketOf[s] # NoTicket =>
        /\ paid[s]
        /\ s \in Gated => \/ row[s].status = "approved"
                          \/ row[s].status = "none" /\ session[s] = "ended" /\ ~Asking(s)

\* A ticket never admits more sessions to approval-gated targets than it has
\* uses, although a refused or timed-out question gives its use back.
NeverOverAdmits ==
    \A t \in Tickets :
        Cardinality({s \in Sessions : TicketOf[s] = t /\ admitted[s]}) <= InitialUses[t]

\* Nobody passes the gate without an administrator's approval: of this session,
\* or one remembered for the same identity with a scope that covers the target.
EveryAdmissionApproved ==
    \A s \in Gated : admitted[s] =>
        \/ verdict[s] = "approved"
        \/ /\ IdentityOf[s] # NoIdentity
           /\ \E r \in Sessions :
                /\ verdict[r] = "approved" /\ IdentityOf[r] = IdentityOf[s]
                /\ \/ row[r].status = "none"     \* since deleted by retention
                   \/ row[r].scope = "all_targets"
                   \/ row[r].scope = "target" /\ TargetOf[r] = TargetOf[s]

\* A decision lands on the question its author was looking at, never on a later
\* one asked on the same row in between (the Started filter of
\* settle_request_internal).
AnsweredAsSeen ==
    \A s \in Sessions : row[s].status \in DECIDED => answered[s] = row[s].started

\* Once the gate reports Expired, the question that was waited for can no longer
\* be approved, and had not been: "a row left pending past this point could
\* still be approved with nobody waiting on it" (require_admin_approval).
ExpiredMeansClosed ==
    \A a \in Blocking : asker[a].out = "expired" =>
        LET r == row[SessionOf[a]] IN
        r.started > asker[a].since \/ r.status \in UNANSWERED \cup {"none"}

\* A decision is final: no late close, lost race, reopen or second administrator
\* changes it; the row may only be deleted by retention.
DecisionFinal ==
    [][\A s \in Sessions : row[s].status \in DECIDED
          => row'[s].status \in {row[s].status, "none"}]_vars

=============================================================================
