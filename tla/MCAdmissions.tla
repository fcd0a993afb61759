-------------------------------- MODULE MCAdmissions --------------------------------
(*****************************************************************************)
(* Instances of the components that decide who is admitted, for TLC:         *)
(* remembered approvals of administrators, a person's own approvals, the     *)
(* shared logins of Kubernetes clients and what they do upstream, and the    *)
(* credential policies. The components share no variable, so a run explores  *)
(* them side by side: the initial state says which instance moves, and the   *)
(* variables of the other components stay idle.                              *)
(*****************************************************************************)
EXTENDS Approvals, UserApprovals, CredentialPolicies, KubeRequests, Naturals, Sequences, FiniteSets, TLC

CONSTANTS
    Parts,      \* the instances this run explores
    Resting,    \* the value of a variable of any other component
    s1, s2, t1, a1, a2, d1, u1, u2, r1, r2, r3

VARIABLES
    part,
    ubAuth, ubCurrent, ubCached, ubInbox, ubFwd, ubSsh, ubTask, ubElsewhere, ubAged, ubEnded,
    ubFresh, ubLetIn, ubGranted, ubStamped,  \* UserApprovals, other instances
    ksPc, ksOn, ksLock, ksHandles, ksRefusals, ksSlot, ksHolder, ksOpener, ksClosed, ksTooOld,
    ksHandle, ksQuestion, ksAuthentic, ksOptions, ksAdmittedWith, ksClients, ksClient, ksEvents,  \* KubeRequests, other instances
    list, request  \* audit

\* One identity asks for two targets in two sessions, each on a connection of its own.
Askings == {s1, s2}
Ticketless == [s \in Askings |-> NoTicket]
OneUse == [t \in {t1} |-> 1]
TwoTargets == [s \in Askings |-> IF s = s1 THEN "web" ELSE "db"]
OneIdentity == [s \in Askings |-> "alice"]
Calls == {a1, a2}
OwnSession == [a \in Calls |-> IF a = a1 THEN s1 ELSE s2]

\* A user whose SSH logins need a key and an approval; one whose key alone is
\* enough, so that only the step-up gate asks for more; every credential there is.
KeyAndApproval == [inner |-> "all", kinds |-> {"PublicKey", "WebUserApproval"}, factor |-> {}]
KeyAlone == [inner |-> "any", kinds |-> {"PublicKey"}, factor |-> {}]
Everything == [inner |-> "all", kinds |-> {"Password", "PublicKey", "Totp", "WebUserApproval"}, factor |-> {}]

\* A client with a token, the same one with a ticket, and what they ask of the cluster.
Alice == [user |-> "alice", target |-> "prod", ip |-> "here", credential |-> "token"]
TwoCredentials == [r \in {"a", "b"} |-> IF r = "a" THEN Alice ELSE [Alice EXCEPT !.credential = "ticket"]]
Pods == <<"api", "v1", "namespaces", "ns", "pods">>
List == [method |-> "GET", path |-> Pods, dryRun |-> FALSE, body |-> <<>>, websocket |-> FALSE, streams |-> FALSE]
AllAlice == [r \in {r1, r2, r3} |-> Alice]
AllList == [r \in {r1, r2, r3} |-> List]
Debug == [List EXCEPT !.method = "PATCH", !.path = Pods \o <<"pod", "ephemeralcontainers">>, !.body = <<"c1", "c2">>]
ReadsAndWrites == [r \in {"a", "b"} |-> IF r = "a" THEN Debug ELSE [List EXCEPT !.streams = TRUE]]

\* No policy of the user's own, an empty one, one that asks for two kinds, one for single
\* sign-on; every SSH method, one alone, two without prompts, two with.
Asked(lists) == [p \in {"Http", "Ssh", "Postgres", "MySql", "Kubernetes"} |-> lists]
OwnPolicies == {Asked({}), Asked({{}}), Asked({{"Password", "Totp"}}), Asked({{"Sso"}})}
Settings == {{}, {"PublicKey"}, {"Password", "PublicKey"}, {"PublicKey", "KeyboardInteractive"}}
NoLogin == protocol = "Ssh" /\ credentials = {} /\ required = Asked({}) /\ enforcement = "Off" /\ exempt = FALSE /\ switches = {}

\* What the proofs assume of the constants.
ASSUME SignInSound /\ PoliciesSound /\ KubeSound

\* The pure operators of KubeRequests over every short list of element sizes and
\* every request.
Tails == {<<>>, <<"pods">>, <<"pods", "p">>, <<"pods", "p", "exec">>, <<"pods", "p", "log">>, <<"services">>,
          <<"pods", "p", "ephemeralcontainers">>, <<"pods", "p", "exec", "deeper">>}
Paths == {SubSeq(Pods, 1, 4) \o tail : tail \in Tails} \cup {<<"apis">>, <<"api", "v1", "nodes", "n", "pods">>}
AnyRequests == [method : {"GET", "POST", "PUT", "PATCH"}, path : Paths, dryRun : BOOLEAN,
                body : {<<>>, <<"c1">>, <<"c1", "c2">>, <<"unparsed">>}]
AuditInit == list = <<>> /\ request \in AnyRequests
AuditNext == Len(list) < 4 /\ \E n \in 0..3 : list' = Append(list, n) /\ UNCHANGED request

-----------------------------------------------------------------------------
AnsweredAttempts == 1..2
AnsweredUsers == {"u", "v"}
AnsweredTargets == {"t"}
AnsweredDeliverers == {"sweep"}
AnsweredPresents == {"PublicKey"}
AnsweredGivenScopes == {"once"}
Answered == INSTANCE UserApprovals WITH Attempts <- AnsweredAttempts, Users <- AnsweredUsers,
    Targets <- AnsweredTargets, Policy <- KeyAlone, Deliverers <- AnsweredDeliverers, Capacity
    <- 8, StepUpOn <- TRUE, GraceOn <- FALSE, Presents <- AnsweredPresents, GivenScopes <-
    AnsweredGivenScopes, MaxAged <- 1, Endings <- TRUE, auth <- ubAuth, current <- ubCurrent,
    cached <- ubCached, inbox <- ubInbox, fwd <- ubFwd, ssh <- ubSsh, task <- ubTask, elsewhere
    <- ubElsewhere, aged <- ubAged, ended <- ubEnded, fresh <- ubFresh, letIn <- ubLetIn,
    granted <- ubGranted, stamped <- ubStamped
EmissionsAttempts == 1..1
EmissionsUsers == {"u"}
EmissionsTargets == {"t"}
EmissionsDeliverers == {}
EmissionsPresents == {"Password", "PublicKey", "Totp"}
EmissionsGivenScopes == {"target"}
Emissions == INSTANCE UserApprovals WITH Attempts <- EmissionsAttempts, Users <- EmissionsUsers,
    Targets <- EmissionsTargets, Policy <- Everything, Deliverers <- EmissionsDeliverers,
    Capacity <- 8, StepUpOn <- TRUE, GraceOn <- TRUE, Presents <- EmissionsPresents, GivenScopes
    <- EmissionsGivenScopes, MaxAged <- 0, Endings <- FALSE, auth <- ubAuth, current <-
    ubCurrent, cached <- ubCached, inbox <- ubInbox, fwd <- ubFwd, ssh <- ubSsh, task <- ubTask,
    elsewhere <- ubElsewhere, aged <- ubAged, ended <- ubEnded, fresh <- ubFresh, letIn <-
    ubLetIn, granted <- ubGranted, stamped <- ubStamped
TwoTokensApiRequests == {"a", "b"}
TwoTokensAsks == [r \in {"a", "b"} |-> List]
TwoTokensTicketCredentials == {"ticket"}
TwoTokens == INSTANCE KubeRequests WITH MaxListElements <- 2, MaxListBytes <- 4, ApiRequests <-
    TwoTokensApiRequests, Bearer <- TwoCredentials, Asks <- TwoTokensAsks, TicketCredentials <-
    TwoTokensTicketCredentials, PolicyAsks <- TRUE, NeedsApproval <- TRUE, MaxSessions <- 3,
    MaxEdits <- 0, Quits <- FALSE, Closes <- TRUE, Ages <- FALSE, pc <- ksPc, on <- ksOn, lock
    <- ksLock, handles <- ksHandles, refusals <- ksRefusals, slot <- ksSlot, holder <- ksHolder,
    opener <- ksOpener, closed <- ksClosed, tooOld <- ksTooOld, handle <- ksHandle, question <-
    ksQuestion, authentic <- ksAuthentic, options <- ksOptions, admittedWith <- ksAdmittedWith,
    clients <- ksClients, client <- ksClient, events <- ksEvents
UpstreamApiRequests == {"a", "b"}
UpstreamBearer == [r \in {"a", "b"} |-> Alice]
UpstreamTicketCredentials == {"ticket"}
Upstream == INSTANCE KubeRequests WITH MaxListElements <- 2, MaxListBytes <- 4, ApiRequests <-
    UpstreamApiRequests, Bearer <- UpstreamBearer, Asks <- ReadsAndWrites, TicketCredentials <-
    UpstreamTicketCredentials, PolicyAsks <- FALSE, NeedsApproval <- FALSE, MaxSessions <- 2,
    MaxEdits <- 1, Quits <- FALSE, Closes <- TRUE, Ages <- TRUE, pc <- ksPc, on <- ksOn, lock <-
    ksLock, handles <- ksHandles, refusals <- ksRefusals, slot <- ksSlot, holder <- ksHolder,
    opener <- ksOpener, closed <- ksClosed, tooOld <- ksTooOld, handle <- ksHandle, question <-
    ksQuestion, authentic <- ksAuthentic, options <- ksOptions, admittedWith <- ksAdmittedWith,
    clients <- ksClients, client <- ksClient, events <- ksEvents

apVars == <<session, admitted, uses, row, asker, job, failures, paid, lost, verdict, answered>>
uaVars == <<auth, current, cached, inbox, fwd, ssh, task, elsewhere, aged, ended, fresh, letIn,
    granted, stamped>>
ubVars == <<ubAuth, ubCurrent, ubCached, ubInbox, ubFwd, ubSsh, ubTask, ubElsewhere, ubAged,
    ubEnded, ubFresh, ubLetIn, ubGranted, ubStamped>>
krVars == <<pc, on, lock, handles, refusals, slot, holder, opener, closed, tooOld, handle,
    question, authentic, options, admittedWith, clients, client, events>>
ksVars == <<ksPc, ksOn, ksLock, ksHandles, ksRefusals, ksSlot, ksHolder, ksOpener, ksClosed,
    ksTooOld, ksHandle, ksQuestion, ksAuthentic, ksOptions, ksAdmittedWith, ksClients, ksClient,
    ksEvents>>
auVars == <<list, request>>
cpVars == <<protocol, credentials, required, enforcement, exempt, switches, methods, policy,
    valid, changes>>
bundleVars == <<part, apVars, uaVars, ubVars, krVars, ksVars, auVars, cpVars>>

apIdle == Init
uaIdle == elsewhere = {} /\ SignInInit
ubIdle == ubAuth = Resting /\ ubCurrent = Resting /\ ubCached = Resting /\ ubInbox = Resting /\
    ubFwd = Resting /\ ubSsh = Resting /\ ubTask = Resting /\ ubElsewhere = Resting /\ ubAged =
    Resting /\ ubEnded = Resting /\ ubFresh = Resting /\ ubLetIn = Resting /\ ubGranted =
    Resting /\ ubStamped = Resting
krIdle == KubeInit
ksIdle == ksPc = Resting /\ ksOn = Resting /\ ksLock = Resting /\ ksHandles = Resting /\
    ksRefusals = Resting /\ ksSlot = Resting /\ ksHolder = Resting /\ ksOpener = Resting /\
    ksClosed = Resting /\ ksTooOld = Resting /\ ksHandle = Resting /\ ksQuestion = Resting /\
    ksAuthentic = Resting /\ ksOptions = Resting /\ ksAdmittedWith = Resting /\ ksClients =
    Resting /\ ksClient = Resting /\ ksEvents = Resting
auIdle == list = Resting /\ request = Resting
cpIdle == NoLogin /\ PolicyInit

BundleInit ==
    /\ part \in Parts
    /\ \/ part = "remembered" /\ Init /\ uaIdle /\ ubIdle /\ krIdle /\ ksIdle /\ auIdle /\ cpIdle
       \/ part = "approved" /\ SignInInit /\ apIdle /\ ubIdle /\ krIdle /\ ksIdle /\ auIdle /\ cpIdle
       \/ part = "answered" /\ Answered!SignInInit /\ apIdle /\ uaIdle /\ krIdle /\ ksIdle /\ auIdle /\ cpIdle
       \/ part = "emissions" /\ Emissions!SignInInit /\ apIdle /\ uaIdle /\ krIdle /\ ksIdle /\ auIdle /\ cpIdle
       \/ part = "fanout" /\ KubeInit /\ apIdle /\ uaIdle /\ ubIdle /\ ksIdle /\ auIdle /\ cpIdle
       \/ part = "tokens" /\ TwoTokens!KubeInit /\ apIdle /\ uaIdle /\ ubIdle /\ krIdle /\ auIdle /\ cpIdle
       \/ part = "upstream" /\ Upstream!KubeInit /\ apIdle /\ uaIdle /\ ubIdle /\ krIdle /\ auIdle /\ cpIdle
       \/ part = "audit" /\ AuditInit /\ apIdle /\ uaIdle /\ ubIdle /\ krIdle /\ ksIdle /\ cpIdle
       \/ part = "policies" /\ PolicyInit /\ apIdle /\ uaIdle /\ ubIdle /\ krIdle /\ ksIdle /\ auIdle

BundleNext ==
    \/ part = "remembered" /\ Next /\ UNCHANGED <<part, uaVars, ubVars, krVars, ksVars, auVars, cpVars>>
    \/ part = "approved" /\ SignInNext /\ UNCHANGED <<part, apVars, ubVars, krVars, ksVars, auVars, cpVars>>
    \/ part = "answered" /\ Answered!SignInNext /\ UNCHANGED <<part, apVars, uaVars, krVars, ksVars, auVars, cpVars>>
    \/ part = "emissions" /\ Emissions!SignInNext /\ UNCHANGED <<part, apVars, uaVars, krVars, ksVars, auVars, cpVars>>
    \/ part = "fanout" /\ KubeNext /\ UNCHANGED <<part, apVars, uaVars, ubVars, ksVars, auVars, cpVars>>
    \/ part = "tokens" /\ TwoTokens!KubeNext /\ UNCHANGED <<part, apVars, uaVars, ubVars, krVars, auVars, cpVars>>
    \/ part = "upstream" /\ Upstream!KubeNext /\ UNCHANGED <<part, apVars, uaVars, ubVars, krVars, auVars, cpVars>>
    \/ part = "audit" /\ AuditNext /\ UNCHANGED <<part, apVars, uaVars, ubVars, krVars, ksVars, cpVars>>
    \/ part = "policies" /\ PolicyNext /\ UNCHANGED <<part, apVars, uaVars, ubVars, krVars, ksVars, auVars>>

BundleSpec == BundleInit /\ [][BundleNext]_bundleVars

-----------------------------------------------------------------------------
\* A login that waits for its person can be answered, unless an earlier attempt
\* of the session on the same target used up its row, by the answer it got or by its
\* age; and the forwarder that asks for it misses none of its states (UserApprovals:
\* TakenByEarlier; auth_state_store.rs).
QuestionsAnswerable ==
    /\ part = "answered" => Answered!Answerable
    /\ part = "emissions" => Emissions!NeverLags

\* A write that has been sent to the cluster runs to its end and is audited as
\* it was answered, by a client built from the options of its session; what is
\* no write is not audited as one, and an audited list is the longest prefix
\* within both caps; an approval given to one credential admits no other
\* (KubeRequests).
WritesAudited ==
    /\ part = "tokens" => TwoTokens!QuestionShared
    /\ part = "upstream" => Upstream!WritesFinish /\ Upstream!OwnClient
    /\ part = "audit" =>
        /\ json_array(list).kept = Fitting(list)
        /\ json_array(list).truncated <=> Len(Fitting(list)) < Len(list)
        /\ LET operation == classify_mutating(request) IN
           operation # Nothing =>
               /\ request.method # "GET" /\ ~request.dryRun
               /\ operation.kind # "PodCreated" =>
                      Cardinality(MutatingEvents(operation, TRUE)) = Len(request.body)
=============================================================================
