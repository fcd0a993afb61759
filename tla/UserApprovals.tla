----------------------------- MODULE UserApprovals -----------------------------
(***************************************************************************)
(* A person approves their own logins in the browser.  One SSH connection  *)
(* makes attempts one after another under one session id; the newest one   *)
(* supersedes the others (auth_state_store.rs).  Each attempt has a        *)
(* forwarder, a task that turns "a web approval is needed" into a row of   *)
(* session_approval_requests, unless an approval remembered from before    *)
(* answers it.  The person decides on the row; the SSH handler and the     *)
(* one-second sweep of the node both read decisions back and deliver them  *)
(* to the attempt (approvals/self_approval.rs).  A public key whose last   *)
(* sign-on is too old sends the attempt back for an approval of its own    *)
(* (the step-up gate of the SSH server), which stamps the key.             *)
(*                                                                         *)
(* A step is one section under the lock of the attempt or of the store, or *)
(* one statement on the database.                                          *)
(***************************************************************************)
EXTENDS AuthState, Naturals

CONSTANTS
    Attempts,       \* 1 .. n in the order of their creation; a bound
    Users, Targets,
    Deliverers,     \* tasks other than the SSH handler that deliver decisions
    Capacity,       \* of the broadcast channel of an attempt
    StepUpOn,       \* step_up_interval.ssh is set
    GraceOn,        \* web_approval_grace_period_seconds is set
    Presents,       \* credentials the client has
    GivenScopes,    \* of the approvals the person gives
    MaxAged,        \* bound: attempts that outlive the timeout
    Endings         \* the session may end

NoAttempt == 0
NoRequest == [status |-> "none"]

\* Names a decision that was applied: the attempt it reached and the attempt
\* whose question the person answered.
Granted(a, q) == [attempt |-> a, question |-> q]

VARIABLES
    auth,           \* attempts made so far, a sequence of records of AuthState
    current,        \* the attempt the store knows under the session id
    cached,         \* the attempt the SSH handler goes on with
    inbox,          \* session_approval_requests of kind User, by target
    fwd,            \* forwarder of each attempt: [pc, read]
    ssh,            \* the SSH handler: [pc, valid, bypassed]
    task,           \* of every deliverer: [pc, todo, target, attempt]
    elsewhere,      \* users with an approval remembered from another session
    aged,           \* attempts up to this one are older than the timeout
    ended,          \* the user session has ended
    fresh,          \* last_sso_at of the key lies within the interval
    letIn,          \* attempts that were let in
    granted,        \* history: decisions applied
    stamped         \* history: attempts that moved last_sso_at

signInVars == <<auth, current, cached, inbox, fwd, ssh, task, elsewhere, aged, ended,
                fresh, letIn, granted, stamped>>

Made == DOMAIN auth

AllDeliverers == Deliverers \cup {"ssh"}

Unoccupied == [pc |-> "idle", todo |-> {}, target |-> NoAttempt, attempt |-> NoAttempt]

SignInInit ==
    /\ auth = <<>>
    /\ current = NoAttempt
    /\ cached = NoAttempt
    /\ inbox = [t \in Targets |-> NoRequest]
    /\ fwd = [a \in Attempts |-> [pc |-> "idle", read |-> 0]]
    /\ ssh = [pc |-> "idle", valid |-> {}, bypassed |-> FALSE]
    /\ task = [d \in AllDeliverers |-> Unoccupied]
    /\ elsewhere \in (IF GraceOn THEN {{}, Users} ELSE {{}})
    /\ aged = 0
    /\ ended = FALSE
    /\ fresh = TRUE
    /\ letIn = {}
    /\ granted = {}
    /\ stamped = {}

----------------------------------------------------------------------------
(* The SSH handler: try_auth_eager *)

\* The verdict so far decides what comes next: while a web approval is missing
\* the recorded decisions are read first.
AfterCredential(s) ==
    ssh' = [ssh EXCEPT !.pc = IF NeedsWebApproval(s) THEN "pull" ELSE "verdict"]

\* get_auth_state on a user and target other than the last ones, or after the
\* handler let go of its attempt: a new attempt takes the place of the old one.
StartAttempt(u, t) ==
    LET a == Len(auth) + 1
    IN /\ ~ended
       /\ ssh.pc = "idle"
       /\ a \in Attempts
       /\ cached # NoAttempt => <<auth[cached].user, auth[cached].target>> # <<u, t>>
       /\ auth' = Append(auth, NewAttempt(u, t))
       /\ current' = a
       /\ cached' = a
       /\ AfterCredential(NewAttempt(u, t))
       /\ UNCHANGED <<inbox, fwd, task, elsewhere, aged, ended, fresh, letIn, granted, stamped>>

\* One more authentication request of the same user and target, with a
\* credential that is valid ({k}) or with none or an invalid one ({}).
SubmitOffer(offer) ==
    LET s == IF offer = {} THEN auth[cached]
             ELSE SubmitCredential(auth[cached], CHOOSE k \in offer : TRUE)
    IN /\ auth' = [auth EXCEPT ![cached] = s]
       /\ AfterCredential(s)

ContinueAttempt(offer) ==
    /\ ~ended
    /\ ssh.pc = "idle"
    /\ cached # NoAttempt
    /\ cached \notin letIn
    /\ SubmitOffer(offer)
    /\ UNCHANGED <<current, cached, inbox, fwd, task, elsewhere, aged, ended, fresh, letIn, granted, stamped>>

\* After too many rounds the handler drops its attempt and refuses.
DropAttempt ==
    /\ ssh.pc = "idle"
    /\ cached # NoAttempt
    /\ cached \notin letIn
    /\ cached' = NoAttempt
    /\ UNCHANGED <<auth, current, inbox, fwd, ssh, task, elsewhere, aged, ended, fresh, letIn, granted, stamped>>

Undelivered ==
    {t \in Targets : inbox[t].status \in {"approved", "rejected"} /\ ~inbox[t].consumed}

\* apply_recorded_user_decision
Pull ==
    /\ ssh.pc = "pull"
    /\ task["ssh"].pc = "idle"
    /\ task' = [task EXCEPT !["ssh"].pc = "next", !["ssh"].todo = Undelivered]
    /\ ssh' = [ssh EXCEPT !.pc = "pulling"]
    /\ UNCHANGED <<auth, current, cached, inbox, fwd, elsewhere, aged, ended, fresh, letIn, granted, stamped>>

\* approval_is_remembered for this attempt
approval_is_remembered(s) ==
    \/ s.user \in elsewhere
    \/ \E t \in Targets :
          /\ inbox[t].status = "approved"
          /\ inbox[t].scope = "all" \/ (inbox[t].scope = "target" /\ t = s.target)
          /\ inbox[t].digest = MatchDigest(s)

\* The first half of try_web_approval_bypass, without the attempt's lock.  An
\* approval that is older than the grace period is not found.
RecallForSsh ==
    /\ ssh.pc = "recall"
    /\ \E found \in {FALSE, GraceOn /\ approval_is_remembered(auth[cached])} :
          ssh' = [ssh EXCEPT !.pc = IF found THEN "bypass" ELSE "verdict"]
    /\ UNCHANGED <<auth, current, cached, inbox, fwd, task, elsewhere, aged, ended, fresh, letIn, granted, stamped>>

\* Its second half, under the lock: a pending step-up is never satisfied so.
Bypassable(s) == ~s.stepUp /\ NeedsWebApproval(s)

Bypass(a) ==
    /\ auth' = [auth EXCEPT ![a] = AddWebUserApprovalViaGraceBypass(@)]
    /\ inbox' = IF inbox[auth[a].target].status = "pending"
                THEN [inbox EXCEPT ![auth[a].target].status = "abandoned"]
                ELSE inbox

TryBypass(a) ==
    IF Bypassable(auth[a]) THEN Bypass(a) ELSE UNCHANGED <<auth, inbox>>

BypassForSsh ==
    /\ ssh.pc = "bypass"
    /\ TryBypass(cached)
    /\ ssh' = [ssh EXCEPT !.pc = "verdict"]
    /\ UNCHANGED <<current, cached, fwd, task, elsewhere, aged, ended, fresh, letIn, granted, stamped>>

\* The verdict, and what the gate needs, read under one lock that is dropped.
Judge ==
    LET s == auth[cached]
    IN /\ ssh.pc = "verdict"
       /\ ssh' = IF Verify(s) = Accepted
                 THEN [pc |-> "gate", valid |-> s.valid, bypassed |-> s.bypassed]
                 ELSE [ssh EXCEPT !.pc = "idle"]
       /\ UNCHANGED <<auth, current, cached, inbox, fwd, task, elsewhere, aged, ended, fresh, letIn, granted, stamped>>

\* web_approval_proves_step_up
ProvesStepUp == Web \in ssh.valid /\ ~ssh.bypassed

GateHolds == StepUpOn /\ "PublicKey" \in ssh.valid /\ ~ProvesStepUp /\ ~fresh

Gate ==
    /\ ssh.pc = "gate"
    /\ IF GateHolds
       THEN /\ auth' = [auth EXCEPT ![cached] = RequireStepUp(@)]
            /\ ssh' = [pc |-> "idle", valid |-> {}, bypassed |-> FALSE]
       ELSE /\ ssh' = [ssh EXCEPT !.pc = "accept"]
            /\ UNCHANGED auth
    /\ UNCHANGED <<current, cached, inbox, fwd, task, elsewhere, aged, ended, fresh, letIn, granted, stamped>>

\* The key is stamped only by a login that proved a sign-on of its own.
Stamps == StepUpOn /\ ProvesStepUp /\ "PublicKey" \in ssh.valid

Accept ==
    /\ ssh.pc = "accept"
    /\ ssh' = [pc |-> "idle", valid |-> {}, bypassed |-> FALSE]
    /\ IF Verify(auth[cached]) = Accepted
       THEN /\ letIn' = letIn \cup {cached}
            /\ stamped' = IF Stamps THEN stamped \cup {cached} ELSE stamped
            /\ fresh' = (Stamps \/ fresh)
       ELSE UNCHANGED <<letIn, stamped, fresh>>
    /\ UNCHANGED <<auth, current, cached, inbox, fwd, task, elsewhere, aged, ended, granted>>

----------------------------------------------------------------------------
(* The forwarder of an attempt: forward_web_auth_requests and its callback *)

Lost(a) == Len(auth[a].sent) - fwd[a].read > Capacity

\* The next result it reads; after falling behind, the oldest one still kept.
NextResult(a) ==
    IF Lost(a) THEN Len(auth[a].sent) - Capacity + 1 ELSE fwd[a].read + 1

Acts(result) == result.verdict = "need" /\ Web \in result.kinds

\* A slip: a result that asks for nothing on the web ends the forwarder.
Forwards_GivesUp(a) ==
    /\ fwd[a].pc = "idle"
    /\ fwd[a].read < Len(auth[a].sent)
    /\ fwd' = [fwd EXCEPT ![a] =
                 [pc |-> IF Acts(auth[a].sent[NextResult(a)]) THEN "recall" ELSE "gone",
                  read |-> NextResult(a)]]

Forwards(a) ==
    /\ fwd[a].pc = "idle"
    /\ fwd[a].read < Len(auth[a].sent)
    /\ fwd' = [fwd EXCEPT ![a] =
                 [pc |-> IF Acts(auth[a].sent[NextResult(a)]) THEN "recall" ELSE "idle",
                  read |-> NextResult(a)]]

Forward(a) ==
    /\ Forwards(a)
    /\ UNCHANGED <<auth, current, cached, inbox, ssh, task, elsewhere, aged, ended, fresh, letIn, granted, stamped>>

Recall(a) ==
    /\ fwd[a].pc = "recall"
    /\ \E found \in {FALSE, GraceOn /\ approval_is_remembered(auth[a])} :
          fwd' = [fwd EXCEPT ![a].pc = IF found THEN "bypass" ELSE "ask"]
    /\ UNCHANGED <<auth, current, cached, inbox, ssh, task, elsewhere, aged, ended, fresh, letIn, granted, stamped>>

BypassFirst(a) ==
    /\ fwd[a].pc = "bypass"
    /\ TryBypass(a)
    /\ fwd' = [fwd EXCEPT ![a].pc = IF Bypassable(auth[a]) THEN "idle" ELSE "ask"]
    /\ UNCHANGED <<current, cached, ssh, task, elsewhere, aged, ended, fresh, letIn, granted, stamped>>

\* The row an attempt asks with: NewRequest and its ActiveModel.
Question(a) ==
    [status |-> "pending", user |-> auth[a].user, asked |-> a, started |-> a,
     digest |-> MatchDigest(auth[a]), scope |-> "none", consumed |-> FALSE]

\* upsert_request: a pending row is refreshed and keeps its start, an
\* unanswered one is asked again, a decided one is left as it is.
Upsert(a) ==
    LET t == auth[a].target
    IN inbox' = CASE inbox[t].status = "pending" ->
                       [inbox EXCEPT ![t] = [Question(a) EXCEPT !.started = inbox[t].started]]
                  [] inbox[t].status \in {"none", "abandoned"} -> [inbox EXCEPT ![t] = Question(a)]
                  [] OTHER -> inbox

\* A slip: the question is written whatever the attempt has become.
Advertise_Always(a) == Upsert(a)

\* advertise_user_request holds the attempt's lock over the statement.
Advertise(a) ==
    IF NeedsWebApproval(auth[a]) THEN Upsert(a) ELSE UNCHANGED inbox

AskPerson(a) ==
    /\ fwd[a].pc = "ask"
    /\ Advertise(a)
    /\ fwd' = [fwd EXCEPT ![a].pc = "idle"]
    /\ UNCHANGED <<auth, current, cached, ssh, task, elsewhere, aged, ended, fresh, letIn, granted, stamped>>

----------------------------------------------------------------------------
(* The person: resolve_own_approval and record_decision *)

\* An approval has a scope: this login once, this target, or every target.
Decisions == [status : {"approved"}, scope : GivenScopes]
             \cup [status : {"rejected"}, scope : {"none"}]

Decide(t, d) ==
    /\ inbox[t].status = "pending"
    /\ inbox' = [inbox EXCEPT ![t].status = d.status, ![t].scope = d.scope]
    /\ UNCHANGED <<auth, current, cached, fwd, ssh, task, elsewhere, aged, ended, fresh, letIn, granted, stamped>>

----------------------------------------------------------------------------
(* Delivery: deliver_user_decision, for the sweep, the click and the handler *)

\* apply_decided_user_approvals; the click does the same for its own session.
Sweep(d) ==
    /\ task[d].pc = "idle"
    /\ Undelivered # {}
    /\ task' = [task EXCEPT ![d].pc = "next", ![d].todo = Undelivered]
    /\ UNCHANGED <<auth, current, cached, inbox, fwd, ssh, elsewhere, aged, ended, fresh, letIn, granted, stamped>>

\* A slip: a decision that finds no attempt is left for later.
TakeNext_Waiting(d, t) ==
    /\ task[d].pc = "next"
    /\ t \in task[d].todo
    /\ task' = [task EXCEPT ![d] =
                  [pc |-> IF current = NoAttempt THEN "next" ELSE "deliver",
                   todo |-> @.todo \ {t}, target |-> t, attempt |-> current]]
    /\ UNCHANGED <<auth, current, cached, inbox, fwd, ssh, elsewhere, aged, ended, fresh, letIn, granted, stamped>>

\* The next decision, and the attempt the store has for its session.
TakeNext(d, t) ==
    /\ task[d].pc = "next"
    /\ t \in task[d].todo
    /\ task' = [task EXCEPT ![d] =
                  [pc |-> IF current = NoAttempt THEN "consume" ELSE "deliver",
                   todo |-> @.todo \ {t}, target |-> t, attempt |-> current]]
    /\ UNCHANGED <<auth, current, cached, inbox, fwd, ssh, elsewhere, aged, ended, fresh, letIn, granted, stamped>>

\* A slip: the user of the row is not compared.
Matches_AnyUser(t, s) == t = s.target

\* "Verify that the decision still matches the original request exactly"
Matches(t, s) == t = s.target /\ inbox[t].user = s.user

Applies(t, s) == Matches(t, s) /\ NeedsWebApproval(s)

ApplyDecision(s, status) ==
    IF status = "approved" THEN AddWebUserApproval(s) ELSE Reject(s)

Deliver(d) ==
    LET t == task[d].target
        a == task[d].attempt
    IN /\ task[d].pc = "deliver"
       /\ IF Applies(t, auth[a])
          THEN /\ auth' = [auth EXCEPT ![a] = ApplyDecision(@, inbox[t].status)]
               /\ granted' = granted \cup {Granted(a, inbox[t].asked)}
          ELSE UNCHANGED <<auth, granted>>
       /\ task' = [task EXCEPT ![d].pc = "consume"]
       /\ UNCHANGED <<current, cached, inbox, fwd, ssh, elsewhere, aged, ended, fresh, letIn, stamped>>

ConsumeDecision(d) ==
    /\ task[d].pc = "consume"
    /\ inbox' = [inbox EXCEPT ![task[d].target].consumed = TRUE]
    /\ task' = [task EXCEPT ![d].pc = "next", ![d].target = NoAttempt, ![d].attempt = NoAttempt]
    /\ UNCHANGED <<auth, current, cached, fwd, ssh, elsewhere, aged, ended, fresh, letIn, granted, stamped>>

\* Every decision it read has been dealt with; the handler goes on to look for
\* a remembered approval.
Delivered(d) ==
    /\ task[d].pc = "next"
    /\ task[d].todo = {}
    /\ task' = [task EXCEPT ![d] = Unoccupied]
    /\ ssh' = IF d = "ssh" THEN [ssh EXCEPT !.pc = "recall"] ELSE ssh
    /\ UNCHANGED <<auth, current, cached, inbox, fwd, elsewhere, aged, ended, fresh, letIn, granted, stamped>>

----------------------------------------------------------------------------
(* Time, and the end of the session *)

\* One more attempt is older than the ten minutes an attempt is kept for.
GrowOld ==
    /\ aged < Len(auth)
    /\ aged < MaxAged
    /\ aged' = aged + 1
    /\ UNCHANGED <<auth, current, cached, inbox, fwd, ssh, task, elsewhere, ended, fresh, letIn, granted, stamped>>

\* vacuum
Vacuum ==
    /\ current # NoAttempt
    /\ current <= aged
    /\ current' = NoAttempt
    /\ UNCHANGED <<auth, cached, inbox, fwd, ssh, task, elsewhere, aged, ended, fresh, letIn, granted, stamped>>

\* A pending row leaves the inbox unanswered.
Abandoned(rows) ==
    [t \in Targets |-> IF t \in rows /\ inbox[t].status = "pending"
                       THEN [inbox[t] EXCEPT !.status = "abandoned"]
                       ELSE inbox[t]]

\* reap_stale: the rows that started before the timeout.
Stale == {t \in Targets : inbox[t].status = "pending" /\ inbox[t].started <= aged}

ReapStale ==
    /\ Stale # {}
    /\ inbox' = Abandoned(Stale)
    /\ UNCHANGED <<auth, current, cached, fwd, ssh, task, elsewhere, aged, ended, fresh, letIn, granted, stamped>>

\* The last sign-on of the key grows older than the interval.
GrowStale ==
    /\ StepUpOn
    /\ fresh
    /\ fresh' = FALSE
    /\ UNCHANGED <<auth, current, cached, inbox, fwd, ssh, task, elsewhere, aged, ended, letIn, granted, stamped>>

\* The user session ends, and its questions are abandoned with it.
End ==
    /\ Endings
    /\ ~ended
    /\ ended' = TRUE
    /\ inbox' = Abandoned(Targets)
    /\ UNCHANGED <<auth, current, cached, fwd, ssh, task, elsewhere, aged, fresh, letIn, granted, stamped>>

----------------------------------------------------------------------------
Handler ==
    \/ \E u \in Users, t \in Targets : StartAttempt(u, t)
    \/ \E offer \in {{}} \cup {{k} : k \in Presents} : ContinueAttempt(offer)
    \/ DropAttempt
    \/ Pull \/ RecallForSsh \/ BypassForSsh \/ Judge \/ Gate \/ Accept

Forwarder ==
    \E a \in Made : Forward(a) \/ Recall(a) \/ BypassFirst(a) \/ AskPerson(a)

Person == \E t \in Targets, d \in Decisions : Decide(t, d)

Delivery ==
    \/ \E d \in Deliverers : Sweep(d)
    \/ \E d \in AllDeliverers :
          \/ \E t \in Targets : TakeNext(d, t)
          \/ Deliver(d) \/ ConsumeDecision(d) \/ Delivered(d)

Time == GrowOld \/ Vacuum \/ ReapStale \/ GrowStale \/ End

SignInNext == Handler \/ Forwarder \/ Person \/ Delivery \/ Time

\* The sweep runs every second for as long as the node does.
Delivers(d) == (\E t \in Targets : TakeNext(d, t)) \/ Deliver(d) \/ ConsumeDecision(d) \/ Delivered(d)
SignInFairness == \A d \in Deliverers : WF_signInVars(Sweep(d)) /\ WF_signInVars(Delivers(d))

SignInSpec == SignInInit /\ [][SignInNext]_signInVars /\ SignInFairness

----------------------------------------------------------------------------
(* Properties *)

SignInTypeOK ==
    /\ auth \in Seq([user : Users, target : Targets, valid : SUBSET Kinds,
                     bypassed : BOOLEAN, stepUp : BOOLEAN, rejected : BOOLEAN,
                     sent : Seq([verdict : {"accepted", "rejected", "need"}, kinds : SUBSET Kinds])])
    /\ {current, cached} \subseteq Made \cup {NoAttempt}
    /\ \A a \in Attempts : fwd[a].pc \in {"idle", "recall", "bypass", "ask"}
    /\ ssh.pc \in {"idle", "pull", "pulling", "recall", "bypass", "verdict", "gate", "accept"}
    /\ \A d \in AllDeliverers : task[d].pc \in {"idle", "next", "deliver", "consume"}

\* Two attempts of one person on one target.
Alike(a, b) == auth[a].user = auth[b].user /\ auth[a].target = auth[b].target

(***************************************************************************)
(* A decision reaches only an attempt of the person and on the target it   *)
(* was asked for, and none that was made before the one that asked:        *)
(* deliver_user_decision compares user and target of the row with those of *)
(* the attempt the session has by then.  That may be a newer one than the  *)
(* one that asked, given up by its handler or left by its client for       *)
(* another user; "the original request exactly" is more than is compared.  *)
(***************************************************************************)
OwnDecision == \A g \in granted : g.question <= g.attempt /\ Alike(g.attempt, g.question)

(***************************************************************************)
(* The clock of a public key moves only for a login that a decision of its *)
(* person has reached while it was waiting: an approval remembered from an *)
(* earlier login lets a login in, but neither passes the step-up gate nor  *)
(* stamps the key.                                                         *)
(***************************************************************************)
SignOnProved == \A a \in stamped : \E g \in granted : g.attempt = a

(***************************************************************************)
(* Nobody is asked about a login that no longer waits: a remembered        *)
(* approval and the writing of the question both hold the attempt's lock   *)
(* over their statement, whichever of the handler and the forwarder comes  *)
(* first.                                                                  *)
(***************************************************************************)
NoLeftover ==
    \A t \in Targets :
        inbox[t].status = "pending" => NeedsWebApproval(auth[inbox[t].asked])

(***************************************************************************)
(* What a person's own decision is worth: it reaches a login of that       *)
(* person on that target, it alone proves a sign-on, and it is asked for   *)
(* only while the login waits for it.                                      *)
(***************************************************************************)
OwnDecisions == OwnDecision /\ SignOnProved /\ NoLeftover

\* What the proofs assume of the constants: the handler is no other task, no client
\* presents an approval as a credential, the factor of a policy is one credential, and where an approval
\* alone is enough the user has no other that is (get_credential_policy).
SignInSound ==
    /\ "ssh" \notin Deliverers /\ Presents \subseteq Kinds \ {Web}
    /\ Policy.kinds \subseteq Kinds /\ Policy.factor \subseteq Kinds
    /\ \A j, k \in Policy.factor : j = k
    /\ Policy.inner = "any" /\ Web \in Policy.kinds =>
          Web \in Policy.factor \/ Presents \subseteq {"Totp"}

\* The forwarder has dealt with every result its attempt has sent.
Settled(a) ==
    /\ fwd[a].pc \notin {"recall", "bypass", "ask"}
    /\ fwd[a].pc = "idle" => fwd[a].read = Len(auth[a].sent)

\* The row of the session for this target was left by an earlier attempt: it holds
\* the answer that one got, which upsert_request leaves as it is, or it was reaped at
\* the age of that one, as a row that is refreshed keeps its start.
TakenByEarlier(a) ==
    LET r == inbox[auth[a].target]
    IN \/ r.status \in {"approved", "rejected"} /\ r.asked < a
       \/ r.status = "abandoned" /\ r.started < a /\ r.started <= aged

(***************************************************************************)
(* A login that waits for its person can be answered: once the forwarder   *)
(* has caught up, its question is in the inbox or an answer is on the way, *)
(* unless an earlier attempt of the session on the same target has used    *)
(* the row up (SessionApprovalRequest.rs: upsert_request).                 *)
(* "if this loop stopped early, /auth/state/:id/approve would find nothing *)
(* and the waiting SSH session could only time out"                        *)
(***************************************************************************)
Answerable ==
    current # NoAttempt =>
        LET t == auth[current].target
        IN /\ ~ended
           /\ current > aged
           /\ NeedsWebApproval(auth[current])
           /\ Settled(current)
           => inbox[t].status = "pending" \/ t \in Undelivered \/ TakenByEarlier(current)

(***************************************************************************)
(* The forwarder loses nothing: an attempt sends few enough results that   *)
(* they fit into its channel even if the forwarder reads none of them in   *)
(* time.                                                                   *)
(***************************************************************************)
NeverLags == \A a \in Made : Len(auth[a].sent) <= Capacity
================================================================================
