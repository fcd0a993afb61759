---------------------------- MODULE KubeRequests ----------------------------
(***************************************************************************)
(* The requests of Kubernetes clients on one node.  One command of a       *)
(* client sends many requests at once; those with the same correlation key *)
(* share a session, and the first of them resolves its authorization while *)
(* the others wait on the mutex of its slot.  Clients go away, sessions    *)
(* are closed and age, and the cluster answers as it likes.                *)
(*                                                                         *)
(* A step of a request is what it does between two awaits.  The            *)
(* correlator lock is held for one step, except where "lock" says so.      *)
(***************************************************************************)
EXTENDS Naturals, Sequences, SequencesExt, FiniteSets

CONSTANTS
    MaxListElements, MaxListBytes, \* MAX_LIST_ELEMENTS, MAX_LIST_BYTES
    Nothing,            \* an absent name, segment or operation
    ApiRequests, Nobody,
    Bearer,             \* of a request: its user, target, ip and transport credential
    Asks,               \* of a request: the request it makes of the cluster
    TicketCredentials,  \* the credentials that are tickets
    PolicyAsks,         \* whether the users' policy asks for a web approval
    NeedsApproval,      \* whether the targets require an administrator's approval
    MaxSessions,        \* bound on sessions
    MaxEdits,           \* bound on edits of the target
    Quits, Closes, Ages \* whether clients go away, sessions are closed, and age

\* Assumed: MaxListElements \in Nat /\ MaxListBytes \in Nat

-----------------------------------------------------------------------------
(***************************************************************************)
(* What a Kubernetes request is, for the audit log and for a recording.    *)
(* A request has a method, its decoded path segments, the flags of its     *)
(* query and, for a write, the body: the containers it names, or           *)
(* "unparsed".  A name is a member of a small set.                         *)
(***************************************************************************)

-----------------------------------------------------------------------------
(* The path.                                                               *)

Prefix == <<"api", "v1", "namespaces">>
Streams == {"exec", "attach", "portforward"}

\* Segment i of a path, if it is that long.
Segment(path, i) == IF i \in DOMAIN path THEN path[i] ELSE Nothing

\* parse_pods_path: /api/v1/namespaces/{ns}/pods[/{name}[/{subresource}]] and nothing deeper.
IsPodsPath(path) ==
    /\ Len(path) \in 5 .. 7
    /\ SubSeq(path, 1, 3) = Prefix /\ path[5] = "pods"

parse_pods_path(path) ==
    [namespace |-> path[4], name |-> Segment(path, 6), subresource |-> Segment(path, 7)]

-----------------------------------------------------------------------------
(* The operation.                                                          *)

\* classify_stream: the subresource alone decides.
classify_stream(request) ==
    IF IsPodsPath(request.path) /\ Segment(request.path, 7) \in Streams
    THEN [kind |-> request.path[7], namespace |-> request.path[4], pod |-> request.path[6]]
    ELSE Nothing

\* Mutant: the query is not looked at.
is_dry_run_Never(request) == FALSE

\* is_dry_run.
is_dry_run(request) == request.dryRun

\* classify_mutating: a body that does not parse leaves the request unaudited, and so do an
\* update that names no debug container and a dry run.
classify_mutating(request) ==
    LET path == parse_pods_path(request.path) IN
    IF ~IsPodsPath(request.path) \/ is_dry_run(request) \/ request.body = <<"unparsed">> THEN Nothing
    ELSE IF /\ request.method \in {"PATCH", "PUT"} /\ path.name # Nothing
            /\ path.subresource = "ephemeralcontainers" /\ request.body # <<>>
         THEN [kind |-> "EphemeralContainersUpdated", namespace |-> path.namespace,
               pod |-> path.name, containers |-> request.body]
    ELSE IF request.method = "POST" /\ path.name = Nothing
         THEN [kind |-> "PodCreated", namespace |-> path.namespace, pod |-> Nothing,
               containers |-> request.body]
    ELSE Nothing

\* StreamOperation::recording_metadata: raw TCP is audited, not recorded.
recording_metadata(operation) ==
    IF operation.kind \in {"exec", "attach"} THEN operation ELSE Nothing

\* audit_event / rejection_event of a stream, on the cluster's verdict.
StreamEvent(operation, accepted) == [operation |-> operation, accepted |-> accepted]

\* MutatingOperation::audit_events: one for every debug container, one for a pod.
MutatingEvents(operation, accepted) ==
    IF operation.kind = "PodCreated" THEN {[operation |-> operation, accepted |-> accepted]}
    ELSE {[operation |-> [operation EXCEPT !.containers = <<operation.containers[i]>>],
           accepted |-> accepted] : i \in DOMAIN operation.containers}

-----------------------------------------------------------------------------
(* The lists of a log row: elements by their number of bytes.              *)

Bytes(list) == FoldLeft(LAMBDA sum, length : sum + length, 0, list)

\* Mutant: an element of exactly the remaining budget is dropped.
Keep_Strict(state, length) ==
    IF state.stopped \/ length >= state.budget THEN [state EXCEPT !.stopped = TRUE]
    ELSE [state EXCEPT !.budget = @ - length, !.kept = Append(@, length)]

\* One element of the loop of json_array.
Keep(state, length) ==
    IF state.stopped \/ length > state.budget THEN [state EXCEPT !.stopped = TRUE]
    ELSE [state EXCEPT !.budget = @ - length, !.kept = Append(@, length)]

\* json_array: the elements kept, and whether the truncation marker follows them.
json_array(list) ==
    LET first == SubSeq(list, 1, IF Len(list) > MaxListElements THEN MaxListElements ELSE Len(list))
        end == FoldLeft(Keep, [budget |-> MaxListBytes, kept |-> <<>>, stopped |-> FALSE], first)
    IN [kept |-> end.kept, truncated |-> end.stopped \/ Len(list) > MaxListElements]

\* The longest prefix that respects both caps.
Fitting(list) ==
    LET fits(n) == n <= MaxListElements /\ Bytes(SubSeq(list, 1, n)) <= MaxListBytes
        n == CHOOSE n \in 0 .. Len(list) :
                 fits(n) /\ \A m \in 0 .. Len(list) : fits(m) => m <= n
    IN SubSeq(list, 1, n)

-----------------------------------------------------------------------------
Credentials == {Bearer[r].credential : r \in ApiRequests}
TargetsAsked == {Bearer[r].target : r \in ApiRequests}
Correlated == 1 .. MaxSessions
NoSession == 0

VARIABLES
    pc,            \* where every request is
    on,            \* the session a request holds the handle of
    lock,          \* who holds the lock of the correlator
    handles,       \* RequestCorrelator::handles
    refusals,      \* RequestCorrelator::refusals, as far as it is remembered
    slot,          \* Authorization of a session
    holder,        \* who holds the mutex of a slot
    opener,        \* the bearer a session was registered for
    closed,        \* CancellationToken of a session
    tooOld,        \* sessions beyond session_max_age
    handle,        \* WarpgateServerHandle of a session
    question,      \* the auth state of a session
    authentic,     \* the credentials that still authenticate
    options,       \* the options of every target, by version
    admittedWith,  \* the options a session was admitted with
    clients,       \* UpstreamClientCache: the options of the client of a target
    client,        \* the client a request uses
    events         \* the audit events of a request

correlator == <<lock, handles, refusals, slot, holder, opener, closed, tooOld, handle, question>>
upstream == <<options, admittedWith, clients, client, events>>
kubeVars == <<pc, on, correlator, authentic, upstream>>

KubeInit ==
    /\ pc = [r \in ApiRequests |-> "new"] /\ on = [r \in ApiRequests |-> NoSession]
    /\ lock = Nobody /\ refusals = {}
    /\ handles = [k \in {Bearer[r] : r \in ApiRequests} |-> NoSession]
    /\ slot = [s \in Correlated |-> "pending"] /\ holder = [s \in Correlated |-> Nobody]
    /\ opener = [s \in Correlated |-> Nobody]
    /\ closed = {} /\ tooOld = {}
    /\ handle = [s \in Correlated |-> "unborn"] /\ question = [s \in Correlated |-> "none"]
    /\ authentic = Credentials
    /\ options = [t \in TargetsAsked |-> 0] /\ admittedWith = [s \in Correlated |-> NoSession]
    /\ clients = [t \in TargetsAsked |-> Nothing]
    /\ client = [r \in ApiRequests |-> Nothing]
    /\ events = [r \in ApiRequests |-> {}]

Done == {"answered", "failed", "cut", "gone"}
GoTo(r, place) == pc' = [pc EXCEPT ![r] = place]
Step(r, from, to) == pc[r] = from /\ GoTo(r, to)
Unlocked(r) == lock \in {Nobody, r}

\* Mutant: the credential is no part of the key.
CorrelationKey_AnyCredential(r) ==
    CHOOSE b \in {Bearer[q] : q \in ApiRequests} : b.user = Bearer[r].user /\ b.target = Bearer[r].target

\* CorrelationKey::for_request.
CorrelationKey(r) == Bearer[r]

\* entry_is_live, and RequestCorrelator::entry.
Live(s) == s \notin closed /\ s \notin tooOld
Entry(r) == LET s == handles[CorrelationKey(r)] IN IF s # NoSession /\ Live(s) THEN s ELSE NoSession

\* RequestCorrelator::evict: only the entry of this very slot.
Evicted(r, s) == [k \in DOMAIN handles |->
    IF k = CorrelationKey(r) /\ handles[k] = s THEN NoSession ELSE handles[k]]

-----------------------------------------------------------------------------
(* Identity.                                                               *)

\* authenticate_kubernetes_user, on every request.
AuthenticateBearer(r) ==
    /\ pc[r] = "new"
    /\ GoTo(r, IF Bearer[r].credential \in authentic THEN "arrived" ELSE "failed")
    /\ UNCHANGED <<on, correlator, authentic, upstream>>

\* A credential is revoked, expires, or its bearer is locked out.
Revoke(c) ==
    /\ authentic' = authentic \ {c} /\ c \in authentic
    /\ UNCHANGED <<pc, on, correlator, upstream>>

-----------------------------------------------------------------------------
(* correlated_authorization.                                               *)

\* The head of the loop.
CheckRefusal(r) ==
    /\ pc[r] = "arrived" /\ Unlocked(r)
    /\ GoTo(r, IF CorrelationKey(r) \in refusals THEN "failed" ELSE "checked")
    /\ UNCHANGED <<on, correlator, authentic, upstream>>

\* Mutant: the session is joined under the lock of the correlator.
LookUpEntry_Holding(r) ==
    /\ pc[r] = "checked" /\ Unlocked(r)
    /\ LET s == Entry(r) IN
        /\ GoTo(r, IF s = NoSession THEN "opening" ELSE "joining")
        /\ on' = [on EXCEPT ![r] = s]
        /\ lock' = IF s = NoSession THEN Nobody ELSE r
    /\ UNCHANGED <<handles, refusals, slot, holder, opener, closed, tooOld, handle, question, authentic, upstream>>

\* The entry is read, and the lock released, before anything is waited for.
LookUpEntry(r) ==
    /\ pc[r] = "checked" /\ Unlocked(r)
    /\ LET s == Entry(r) IN
        /\ GoTo(r, IF s = NoSession THEN "opening" ELSE "joining")
        /\ on' = [on EXCEPT ![r] = s]
    /\ UNCHANGED <<correlator, authentic, upstream>>

\* join_session, when the mutex of the slot is free.
Join(r) ==
    /\ pc[r] = "joining" /\ holder[on[r]] = Nobody
    /\ GoTo(r, CASE slot[on[r]] = "authorized" -> "joined"
                 [] slot[on[r]] = "denied" -> "failed"
                 [] slot[on[r]] = "pending" -> "abandoned")
    /\ lock' = IF lock = r THEN Nobody ELSE lock
    /\ UNCHANGED <<on, handles, refusals, slot, holder, opener, closed, tooOld, handle, question, authentic, upstream>>

\* The request that opened the session is gone: its entry and its auth state go too.
SweepEntry(r) ==
    /\ pc[r] = "abandoned" /\ Unlocked(r)
    /\ handles' = Evicted(r, on[r])
    /\ question' = [question EXCEPT ![on[r]] = "none"]
    /\ on' = [on EXCEPT ![r] = NoSession] /\ GoTo(r, "opening")
    /\ UNCHANGED <<lock, refusals, slot, holder, opener, closed, tooOld, handle, authentic, upstream>>

\* register_pending_session, outside the lock; it fails when the database does.
Register(r) ==
    /\ pc[r] = "opening"
    /\ \E s \in Correlated :
        /\ handle[s] = "unborn" /\ \A t \in 1 .. s - 1 : handle[t] # "unborn"
        /\ handle' = [handle EXCEPT ![s] = "provisional"]
        /\ opener' = [opener EXCEPT ![s] = Bearer[r]]
        /\ on' = [on EXCEPT ![r] = s]
    /\ GoTo(r, "registered")
    /\ UNCHANGED <<lock, handles, refusals, slot, holder, closed, tooOld, question, authentic, upstream>>

RegisterFails(r) ==
    /\ Step(r, "opening", "failed")
    /\ UNCHANGED <<on, correlator, authentic, upstream>>

\* Mutant: the entry is not looked up again.
Claim_Unchecked(r) ==
    /\ pc[r] = "registered" /\ Unlocked(r)
    /\ handles' = [handles EXCEPT ![CorrelationKey(r)] = on[r]]
    /\ holder' = [holder EXCEPT ![on[r]] = r]
    /\ GoTo(r, "authorizing")
    /\ UNCHANGED <<on, lock, refusals, slot, opener, closed, tooOld, handle, question, authentic, upstream>>

\* Mutant: the slot is entered without being locked first.
Claim_Open(r) ==
    /\ pc[r] = "registered" /\ Unlocked(r)
    /\ IF Entry(r) # NoSession
       THEN GoTo(r, "arrived") /\ on' = [on EXCEPT ![r] = NoSession] /\ UNCHANGED handles
       ELSE /\ GoTo(r, "authorizing") /\ UNCHANGED on
            /\ handles' = [handles EXCEPT ![CorrelationKey(r)] = on[r]]
    /\ UNCHANGED <<lock, refusals, slot, holder, opener, closed, tooOld, handle, question, authentic, upstream>>

\* Under the lock: another request may have opened the session meanwhile, and then this one's
\* handle is dropped and the loop starts over.  The slot is locked before the lock is released.
Claim(r) ==
    /\ pc[r] = "registered" /\ Unlocked(r)
    /\ IF Entry(r) # NoSession
       THEN /\ GoTo(r, "arrived") /\ on' = [on EXCEPT ![r] = NoSession]
            /\ UNCHANGED <<handles, holder>>
       ELSE /\ GoTo(r, "authorizing") /\ UNCHANGED on
            /\ handles' = [handles EXCEPT ![CorrelationKey(r)] = on[r]]
            /\ holder' = [holder EXCEPT ![on[r]] = r]
    /\ UNCHANGED <<lock, refusals, slot, opener, closed, tooOld, handle, question, authentic, upstream>>

\* settle_failed_attempt: a terminal answer is on record, and its session stays.
settle_failed_attempt(s) ==
    /\ question' = [question EXCEPT ![s] = "none"]
    /\ handle' = [handle EXCEPT ![s] = IF question[s] \in {"accepted", "rejected"} THEN "confirmed" ELSE @]

\* The attempt fails: those that wait fail with it, and the next request may ask again.
Deny(r, refusal) ==
    /\ Unlocked(r)
    /\ slot' = [slot EXCEPT ![on[r]] = "denied"]
    /\ handles' = Evicted(r, on[r])
    /\ refusals' = IF refusal THEN refusals \cup {CorrelationKey(r)} ELSE refusals
    /\ settle_failed_attempt(on[r])
    /\ holder' = [holder EXCEPT ![on[r]] = Nobody]
    /\ GoTo(r, "failed")
    /\ UNCHANGED <<on, lock, opener, closed, tooOld, authentic, upstream>>

\* authorize_kubernetes_identity without a policy, or the ticket's spend; either may refuse,
\* and the role may be missing (lookup_authorized_k8s_target).
AuthorizeAtOnce(r) ==
    /\ pc[r] = "authorizing" /\ (Bearer[r].credential \in TicketCredentials \/ ~PolicyAsks)
    /\ \/ /\ on[r] \notin closed \/ Bearer[r].credential \in TicketCredentials
          /\ GoTo(r, "admitting") /\ UNCHANGED <<on, correlator, authentic, upstream>>
       \/ Deny(r, FALSE)

\* create_auth_state: the user is asked.
AskUser(r) ==
    /\ pc[r] = "authorizing" /\ PolicyAsks /\ Bearer[r].credential \notin TicketCredentials
    /\ on[r] \notin closed
    /\ question' = [question EXCEPT ![on[r]] = "need"]
    /\ GoTo(r, "waiting")
    /\ UNCHANGED <<on, lock, handles, refusals, slot, holder, opener, closed, tooOld, handle, authentic, upstream>>

\* The user answers, wherever the question is still shown.
UserAnswers(s) ==
    /\ question[s] = "need"
    /\ \E answer \in {"accepted", "rejected"} : question' = [question EXCEPT ![s] = answer]
    /\ UNCHANGED <<pc, on, lock, handles, refusals, slot, holder, opener, closed, tooOld, handle, authentic, upstream>>

\* await_kubernetes_web_approval returns.
AnswerArrives(r) ==
    /\ pc[r] = "waiting"
    /\ \/ /\ question[on[r]] = "accepted" /\ GoTo(r, "admitting")
          /\ UNCHANGED <<on, correlator, authentic, upstream>>
       \/ question[on[r]] \in {"accepted", "rejected"} /\ Deny(r, FALSE)

\* The auth state runs out: its wait ends without an answer.
RunOut(r) == pc[r] = "waiting" /\ question[on[r]] = "need" /\ Deny(r, FALSE)

\* A close cancels the wait for the user, at any point of it.
CancelWait(r) ==
    /\ pc[r] \in {"authorizing", "waiting"} /\ Bearer[r].credential \notin TicketCredentials
    /\ on[r] \in closed
    /\ Deny(r, FALSE)

\* admit_kubernetes_session: the target session starts, or an administrator is asked.
AdmitSession(r) ==
    /\ pc[r] = "admitting" /\ on[r] \notin closed
    /\ IF NeedsApproval THEN GoTo(r, "asking") /\ UNCHANGED <<on, correlator, authentic, upstream>>
       ELSE /\ slot' = [slot EXCEPT ![on[r]] = "authorized"]
            /\ handle' = [handle EXCEPT ![on[r]] = "confirmed"]
            /\ holder' = [holder EXCEPT ![on[r]] = Nobody]
            /\ admittedWith' = [admittedWith EXCEPT ![on[r]] = options[Bearer[r].target]]
            /\ GoTo(r, "joined")
            /\ UNCHANGED <<on, lock, handles, refusals, opener, closed, tooOld, question, authentic, options, clients, client, events>>

\* An administrator approves ...
Approve(r) ==
    /\ pc[r] = "asking" /\ on[r] \notin closed
    /\ slot' = [slot EXCEPT ![on[r]] = "authorized"]
    /\ handle' = [handle EXCEPT ![on[r]] = "confirmed"]
    /\ holder' = [holder EXCEPT ![on[r]] = Nobody]
    /\ admittedWith' = [admittedWith EXCEPT ![on[r]] = options[Bearer[r].target]]
    /\ GoTo(r, "joined")
    /\ UNCHANGED <<on, lock, handles, refusals, opener, closed, tooOld, question, authentic, options, clients, client, events>>

\* ... or refuses, or does not answer in time.
Refuse(r) == pc[r] = "asking" /\ on[r] \notin closed /\ Deny(r, TRUE)

\* A close cancels the admission.
CancelAdmission(r) == pc[r] \in {"admitting", "asking"} /\ on[r] \in closed /\ Deny(r, FALSE)

-----------------------------------------------------------------------------
(* handle_api_request, and the cluster.                                    *)

TargetAsked(r) == Bearer[r].target
IsWrite(r) == Asks[r].method \notin {"GET", "HEAD", "OPTIONS"}
IsWebsocket(r) == Asks[r].websocket

\* The close may have arrived after the lookup.
Enter(r) ==
    /\ pc[r] = "joined"
    /\ GoTo(r, IF on[r] \in closed THEN "failed" ELSE "entered")
    /\ UNCHANGED <<on, correlator, authentic, upstream>>

\* Mutant: a client is reused whatever it was built from.
get_or_build_Any(r) == IF clients[TargetAsked(r)] # Nothing THEN clients[TargetAsked(r)] ELSE admittedWith[on[r]]

\* Cache::get_or_build: the cached client, if it was built from the same options.
get_or_build(r) ==
    IF clients[TargetAsked(r)] = admittedWith[on[r]] THEN clients[TargetAsked(r)] ELSE admittedWith[on[r]]

\* create_authenticated_client fails when a secret cannot be resolved.
Connect(r) ==
    /\ pc[r] = "entered"
    /\ \/ /\ GoTo(r, "connected")
          /\ client' = [client EXCEPT ![r] = IF IsWebsocket(r) THEN admittedWith[on[r]] ELSE get_or_build(r)]
          /\ clients' = IF IsWebsocket(r) THEN clients
                        ELSE [clients EXCEPT ![TargetAsked(r)] = get_or_build(r)]
       \/ GoTo(r, "failed") /\ UNCHANGED <<client, clients>>
    /\ UNCHANGED <<on, correlator, authentic, options, admittedWith, events>>

\* The body is read, a recording is started, and the request is sent, unless it is closed.
Send(r) ==
    /\ pc[r] = "connected"
    /\ GoTo(r, IF on[r] \in closed THEN "failed" ELSE "sent")
    /\ UNCHANGED <<on, correlator, authentic, upstream>>

\* What is logged of an answered request.
EventsOf(r, accepted) ==
    IF IsWebsocket(r)
    THEN LET operation == classify_stream(Asks[r])
         IN IF operation = Nothing THEN {} ELSE {StreamEvent(operation, accepted)}
    ELSE LET operation == classify_mutating(Asks[r])
         IN IF operation = Nothing THEN {} ELSE MutatingEvents(operation, accepted)

\* Mutant: a close cuts off a write that has been sent.
Cuttable_Any(r) == on[r] \in closed

\* A close ends what has been sent, except for a write.
Cuttable(r) == on[r] \in closed /\ ~IsWrite(r)

\* The cluster answers: a read may stream on, and an expired credential is forgotten.
Respond(r, accepted) ==
    /\ pc[r] = "sent"
    /\ events' = [events EXCEPT ![r] = EventsOf(r, accepted)]
    /\ GoTo(r, IF accepted /\ ~IsWrite(r) /\ Asks[r].streams THEN "streaming" ELSE "answered")
    /\ clients' \in IF accepted \/ IsWebsocket(r) THEN {clients}
                   ELSE {clients, [clients EXCEPT ![TargetAsked(r)] = Nothing]}
    /\ UNCHANGED <<on, correlator, authentic, options, admittedWith, client>>

\* Mutant: the stream does not watch for the close of its session.
Cut_Sent(r) ==
    /\ pc[r] = "sent" /\ Cuttable(r) /\ GoTo(r, "cut")
    /\ UNCHANGED <<on, correlator, authentic, upstream>>

\* run_until_cancelled around the send and the read, and end_on_close.
Cut(r) ==
    /\ pc[r] \in {"sent", "streaming"} /\ Cuttable(r) /\ GoTo(r, "cut")
    /\ UNCHANGED <<on, correlator, authentic, upstream>>

\* A stream comes to its own end.
StreamEnds(r) == Step(r, "streaming", "answered") /\ UNCHANGED <<on, correlator, authentic, upstream>>

-----------------------------------------------------------------------------
(* Everything else.                                                        *)

\* The client goes away, and the future of its request is dropped with its locks.
Quit(r) ==
    /\ Quits /\ pc[r] \notin Done \cup {"new"}
    /\ GoTo(r, "gone")
    /\ holder' = [s \in Correlated |-> IF holder[s] = r THEN Nobody ELSE holder[s]]
    /\ lock' = IF lock = r THEN Nobody ELSE lock
    /\ UNCHANGED <<on, handles, refusals, slot, opener, closed, tooOld, handle, question, authentic, upstream>>

HandleHeld(s) ==
    \/ \E r \in ApiRequests : on[r] = s /\ pc[r] \notin Done
    \/ \E k \in DOMAIN handles : handles[k] = s

\* Drop of the handle: a provisional session leaves nothing behind.
Drop(s) ==
    /\ handle[s] \in {"provisional", "confirmed"} /\ ~HandleHeld(s)
    /\ handle' = [handle EXCEPT ![s] = IF @ = "provisional" THEN "deleted" ELSE "ended"]
    /\ UNCHANGED <<pc, on, lock, handles, refusals, slot, holder, opener, closed, tooOld, question, authentic, upstream>>

\* SessionHandle::close, by an administrator or a revocation.
Close(s) ==
    /\ Closes /\ handle[s] \in {"provisional", "confirmed"} /\ s \notin closed
    /\ closed' = closed \cup {s}
    /\ UNCHANGED <<pc, on, lock, handles, refusals, slot, holder, opener, tooOld, handle, question, authentic, upstream>>

Age(s) ==
    /\ Ages /\ handle[s] \in {"provisional", "confirmed"} /\ s \notin tooOld
    /\ tooOld' = tooOld \cup {s}
    /\ UNCHANGED <<pc, on, lock, handles, refusals, slot, holder, opener, closed, handle, question, authentic, upstream>>

\* RequestCorrelator::vacuum, and the end of the memory of a refusal.
VacuumEntries ==
    /\ lock = Nobody
    /\ handles' = [k \in DOMAIN handles |->
                      IF handles[k] # NoSession /\ ~Live(handles[k]) THEN NoSession ELSE handles[k]]
    /\ UNCHANGED <<pc, on, lock, refusals, slot, holder, opener, closed, tooOld, handle, question, authentic, upstream>>

ForgetRefusal(k) ==
    /\ k \in refusals /\ refusals' = refusals \ {k}
    /\ UNCHANGED <<pc, on, lock, handles, slot, holder, opener, closed, tooOld, handle, question, authentic, upstream>>

\* An administrator edits a target.
EditTarget(t) ==
    /\ options[t] < MaxEdits /\ options' = [options EXCEPT ![t] = @ + 1]
    /\ UNCHANGED <<pc, on, correlator, authentic, admittedWith, clients, client, events>>

Internal(r) ==
    \/ AuthenticateBearer(r) \/ CheckRefusal(r) \/ LookUpEntry(r) \/ Join(r) \/ SweepEntry(r)
    \/ Register(r) \/ RegisterFails(r) \/ Claim(r) \/ AuthorizeAtOnce(r) \/ AskUser(r)
    \/ AnswerArrives(r) \/ RunOut(r) \/ CancelWait(r) \/ AdmitSession(r) \/ Refuse(r) \/ CancelAdmission(r)
    \/ Enter(r) \/ Connect(r) \/ Send(r) \/ Cut(r)

KubeNext ==
    \/ \E r \in ApiRequests :
        Internal(r) \/ Approve(r) \/ Quit(r) \/ StreamEnds(r)
        \/ \E accepted \in BOOLEAN : Respond(r, accepted)
    \/ \E s \in Correlated : UserAnswers(s) \/ Drop(s) \/ Close(s) \/ Age(s)
    \/ \E c \in Credentials : Revoke(c)
    \/ \E k \in DOMAIN handles : ForgetRefusal(k)
    \/ \E t \in TargetsAsked : EditTarget(t)
    \/ VacuumEntries

KubeSpec == KubeInit /\ [][KubeNext]_kubeVars

\* A request goes on by itself; a question runs out (the TTL of an auth state, the timeout of
\* an approval) and a write that was sent is answered.
KubeFairSpec ==
    /\ KubeSpec
    /\ \A r \in ApiRequests : WF_kubeVars(Internal(r)) /\ WF_kubeVars(IsWrite(r) /\ Respond(r, TRUE))

-----------------------------------------------------------------------------
(* Properties.                                                             *)

\* Every variable has its type.
KubeTypeOK ==
    /\ on \in [ApiRequests -> Correlated \cup {NoSession}]
    /\ lock \in ApiRequests \cup {Nobody} /\ holder \in [Correlated -> ApiRequests \cup {Nobody}]
    /\ slot \in [Correlated -> {"pending", "authorized", "denied"}]
    /\ handle \in [Correlated -> {"unborn", "provisional", "confirmed", "deleted", "ended"}]
    /\ question \in [Correlated -> {"none", "need", "accepted", "rejected"}]

\* The requests of one key share one question: of two that wait for an answer at the same
\* time, one is on a session that is closed or too old to be joined.
OneQuestion ==
    \A r, q \in ApiRequests :
        r # q /\ Bearer[r] = Bearer[q] /\ {pc[r], pc[q]} \subseteq {"waiting", "asking"}
            => ~Live(on[r]) \/ ~Live(on[q])

\* A request is served by a session that was opened for its own user, target, address and
\* credential, so that an approval given to one credential never admits another.
OwnApproval ==
    \A r \in ApiRequests :
        pc[r] \in {"joined", "entered", "connected", "sent", "streaming", "answered"}
            => opener[on[r]] = Bearer[r]

\* A write that has been sent to the cluster is not cut off by the close of its session, and
\* what the cluster answered is on record as far as it is audited.
WritesFinish ==
    \A r \in ApiRequests :
        /\ IsWrite(r) => pc[r] # "cut"
        /\ pc[r] \in {"answered", "streaming"} => EventsOf(r, TRUE) = events[r] \/ EventsOf(r, FALSE) = events[r]

\* A request goes to the cluster with a client that was built from the options its session was
\* admitted with, although clients are shared by the sessions of a target.
OwnClient ==
    \A r \in ApiRequests : pc[r] \in {"connected", "sent", "streaming"} => client[r] = admittedWith[on[r]]

\* An auth state that is left behind is one nobody waits on: while a request waits for the
\* user, the question is still in the store, so that the answer finds it.
QuestionKept ==
    \A r \in ApiRequests : pc[r] = "waiting" => question[on[r]] # "none"

\* The requests of one client share one question, which is there as long as one of them waits for
\* it, and it admits nobody but those it was asked for: three things that the lock, the slot and
\* the key of correlated_authorization have to keep together.
QuestionShared == OneQuestion /\ QuestionKept /\ OwnApproval

\* What the proofs assume of the constants.
KubeSound == Nobody \notin ApiRequests

\* A request that runs on a closed session; it does not stay one.
RunsClosed(r, s) == on[r] = s /\ s \in closed /\ pc[r] \notin Done
=============================================================================
