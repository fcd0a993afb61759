----------------------------------- MODULE MCLive -----------------------------------
(*****************************************************************************)
(* Instances for TLC of what must eventually happen on a node, or although   *)
(* one dies. The components share no variable, so a run explores them side   *)
(* by side: the initial state says which instance moves, and the variables   *)
(* of the other components stay idle.                                        *)
(*****************************************************************************)
EXTENDS Integers, Sequences, FiniteSets

CONSTANTS
    Parts,      \* the instances this run explores
    Resting,    \* the value of a variable of any other component
    NoTicket, NoIdentity, NoNode, Nobody, Nothing, Reaper, n1, n2, w1, w2, a1, d1, s1, r1, r2

VARIABLES
    part,
    session, admitted, uses, apRow, asker, job, apFailures, paid, lost, verdict, answered,  \* Approvals
    config, attempts, lpRow, cache, login, clerk, revoked, last,  \* LoginProtection
    stParent, stChild, stBy, stTicket, locked, stTask, stHandle, cookie, node, stUp, stLosses,  \* Sessions
    rvParent, rvChild, rvBy, rvTicket, rvAccess, lapsed, swept, conn, rvTask, changes, closes,
    rvUp, rvFailures, rvLosses, owed,  \* Revocation
    lsAccess, shared, request, cancelled, announce, posts, told, todo, doomed, lsLosses,  \* LiveStreams
    auth, current, cached, inbox, fwd, ssh, uaTask, elsewhere, aged, ended, fresh, letIn,
    granted, stamped,  \* UserApprovals
    pc, on, lock, handles, refusals, slot, holder, opener, closed, tooOld, krHandle, question,
    authentic, options, admittedWith, clients, client, events,  \* KubeRequests
    db, applied, release, proc, saved, crashes, reverts, torn  \* MigrationRun

\* What two Kubernetes requests ask of the cluster: a write and a stream.
Pods == <<"api", "v1", "namespaces", "ns", "pods">>
Debug == [method |-> "PATCH", path |-> Pods \o <<"pod", "ephemeralcontainers">>, dryRun |-> FALSE, body |-> <<"c1", "c2">>,
          websocket |-> FALSE, streams |-> FALSE]
Exec == [Debug EXCEPT !.method = "GET", !.path = Pods \o <<"pod", "exec">>, !.body = <<>>, !.websocket = TRUE, !.streams = TRUE]

\* A fresh database, and the newest release.
Registered == INSTANCE Migrations WITH Backend <- "postgres"
Direct == {<<Len(Registered!Upstream), Len(Registered!Cove)>>}

-----------------------------------------------------------------------------
HeldSessions == {s1}
HeldTickets == {"k"}
HeldTicketOf == [s \in {s1} |-> "k"]
HeldInitialUses == [k \in {"k"} |-> 1]
HeldGated == {s1}
HeldTargetOf == [s \in {s1} |-> "t"]
HeldIdentityOf == [s \in {s1} |-> NoIdentity]
HeldAskers == {a1}
HeldSessionOf == [a \in {a1} |-> s1]
HeldBlocking == {a1}
HeldAdmins == {d1}
HeldGrants == {"once"}
Held == INSTANCE Approvals WITH Sessions <- HeldSessions, Tickets <- HeldTickets, TicketOf <-
    HeldTicketOf, InitialUses <- HeldInitialUses, Gated <- HeldGated, TargetOf <- HeldTargetOf,
    IdentityOf <- HeldIdentityOf, Askers <- HeldAskers, SessionOf <- HeldSessionOf, Blocking <-
    HeldBlocking, Admins <- HeldAdmins, Grants <- HeldGrants, PurgeLive <- FALSE, MaxAge <- 3,
    MaxFailures <- 1, row <- apRow, failures <- apFailures
BlockedNodes == {n1}
BlockedIps == {"i"}
BlockedUsers == {"u"}
BlockedKnown == {"u"}
BlockedAdminUsers == {}
BlockedLogins == {r1}
BlockedNodeOf == [l \in {r1} |-> n1]
BlockedIpOf == [l \in {r1} |-> "i"]
BlockedUserOf == [l \in {r1} |-> "u"]
BlockedConfigs == {[enabled |-> TRUE, exempt |-> {}]}
Blocked == INSTANCE LoginProtection WITH Nodes <- BlockedNodes, Ips <- BlockedIps, Users <-
    BlockedUsers, Known <- BlockedKnown, AdminUsers <- BlockedAdminUsers, Logins <-
    BlockedLogins, NodeOf <- BlockedNodeOf, IpOf <- BlockedIpOf, UserOf <- BlockedUserOf,
    Configs <- BlockedConfigs, IpMax <- 2, IpWindow <- 0, Base <- 1, Mult <- 5, MaxBlock <- 2,
    Cooldown <- 1, UserMax <- 2, UserWindow <- 0, LockTime <- 1, AutoUnlock <- TRUE,
    ExemptAdmins <- TRUE, Retention <- 5, MaxCount <- 2, row <- lpRow
DeathsSessions == {s1}
DeathsTargets == {"t"}
DeathsTickets == {"k"}
DeathsNodes == {n1, n2}
DeathsWorkers == {w1, w2}
DeathsAt == [w \in {w1, w2} |-> IF w = w1 THEN n1 ELSE n2]
DeathsOwner == [s \in {s1} |-> n1]
DeathsMortal == {n1}
Deaths == INSTANCE Sessions WITH Sessions <- DeathsSessions, Targets <- DeathsTargets, Tickets
    <- DeathsTickets, Nodes <- DeathsNodes, Workers <- DeathsWorkers, At <- DeathsAt, Owner <-
    DeathsOwner, Mortal <- DeathsMortal, Losses <- 0, parent <- stParent, child <- stChild, by
    <- stBy, ticket <- stTicket, task <- stTask, handle <- stHandle, up <- stUp, losses <-
    stLosses
RevokedSessions == {s1}
RevokedTargets == {"t"}
RevokedTickets == {"k"}
RevokedUsers == {"u"}
RevokedNodes == {n1, n2}
RevokedAdmins == {a1}
RevokedSweepers == {w1}
RevokedAt == [w \in {a1, w1} |-> n1]
RevokedOn == [s \in {s1} |-> n2]
RevokedUser == [s \in {s1} |-> "u"]
RevokedGoal == [s \in {s1} |-> "t"]
RevokedCard == [s \in {s1} |-> "k"]
RevokedGranted == {}
RevokedExpiring == {}
RevokedMortal == {}
Revoked == INSTANCE Revocation WITH Sessions <- RevokedSessions, Targets <- RevokedTargets,
    Tickets <- RevokedTickets, Users <- RevokedUsers, Nodes <- RevokedNodes, Admins <-
    RevokedAdmins, Sweepers <- RevokedSweepers, At <- RevokedAt, On <- RevokedOn, User <-
    RevokedUser, Goal <- RevokedGoal, Card <- RevokedCard, Granted <- RevokedGranted, Expiring
    <- RevokedExpiring, Mortal <- RevokedMortal, Failures <- 1, Losses <- 0, parent <- rvParent,
    child <- rvChild, by <- rvBy, ticket <- rvTicket, access <- rvAccess, task <- rvTask, up <-
    rvUp, failures <- rvFailures, losses <- rvLosses
ExpiredSessions == {s1}
ExpiredTargets == {"t"}
ExpiredTickets == {"k"}
ExpiredUsers == {"u"}
ExpiredNodes == {n1, n2}
ExpiredAdmins == {}
ExpiredSweepers == {w1, w2}
ExpiredAt == [w \in {w1, w2} |-> IF w = w1 THEN n1 ELSE n2]
ExpiredOn == [s \in {s1} |-> n2]
ExpiredUser == [s \in {s1} |-> "u"]
ExpiredGoal == [s \in {s1} |-> "t"]
ExpiredCard == [s \in {s1} |-> "k"]
ExpiredGranted == {}
ExpiredExpiring == {}
ExpiredMortal == {n2}
Expired == INSTANCE Revocation WITH Sessions <- ExpiredSessions, Targets <- ExpiredTargets,
    Tickets <- ExpiredTickets, Users <- ExpiredUsers, Nodes <- ExpiredNodes, Admins <-
    ExpiredAdmins, Sweepers <- ExpiredSweepers, At <- ExpiredAt, On <- ExpiredOn, User <-
    ExpiredUser, Goal <- ExpiredGoal, Card <- ExpiredCard, Granted <- ExpiredGranted, Expiring
    <- ExpiredExpiring, Mortal <- ExpiredMortal, Failures <- 1, Losses <- 1, parent <- rvParent,
    child <- rvChild, by <- rvBy, ticket <- rvTicket, access <- rvAccess, task <- rvTask, up <-
    rvUp, failures <- rvFailures, losses <- rvLosses
StreamsRequests == {r1, r2}
StreamsUsers == {"u"}
StreamsTargets == {"t"}
StreamsNodes == {n1}
StreamsAt == [r \in {r1, r2} |-> n1]
StreamsUser == [r \in {r1, r2} |-> "u"]
StreamsTarget == [r \in {r1, r2} |-> "t"]
StreamsKind == [r \in {r1, r2} |-> IF r = r1 THEN "RoleBased" ELSE "Public"]
Streams == INSTANCE LiveStreams WITH Requests <- StreamsRequests, Users <- StreamsUsers, Targets
    <- StreamsTargets, Nodes <- StreamsNodes, At <- StreamsAt, User <- StreamsUser, Target <-
    StreamsTarget, Kind <- StreamsKind, Losses <- 0, access <- lsAccess, losses <- lsLosses
DecidedAttempts == 1..2
DecidedUsers == {"u"}
DecidedTargets == {"t"}
DecidedPolicy == [inner |-> "all", kinds |-> {"PublicKey", "WebUserApproval"}, factor |-> {}]
DecidedDeliverers == {"sweep"}
DecidedPresents == {"PublicKey"}
DecidedGivenScopes == {"once"}
Decided == INSTANCE UserApprovals WITH Attempts <- DecidedAttempts, Users <- DecidedUsers,
    Targets <- DecidedTargets, Policy <- DecidedPolicy, Deliverers <- DecidedDeliverers,
    Capacity <- 8, StepUpOn <- FALSE, GraceOn <- FALSE, Presents <- DecidedPresents, GivenScopes
    <- DecidedGivenScopes, MaxAged <- 0, Endings <- FALSE, task <- uaTask
EndedAttempts == {1}
EndedUsers == {"u"}
EndedTargets == {"t"}
EndedPolicy == [inner |-> "all", kinds |-> {"PublicKey", "WebUserApproval"}, factor |-> {}]
EndedDeliverers == {"sweep"}
EndedPresents == {"PublicKey"}
EndedGivenScopes == {"once"}
Ended == INSTANCE UserApprovals WITH Attempts <- EndedAttempts, Users <- EndedUsers, Targets <-
    EndedTargets, Policy <- EndedPolicy, Deliverers <- EndedDeliverers, Capacity <- 8, StepUpOn
    <- FALSE, GraceOn <- FALSE, Presents <- EndedPresents, GivenScopes <- EndedGivenScopes,
    MaxAged <- 1, Endings <- TRUE, task <- uaTask
FanOutApiRequests == {r1, r2}
FanOutBearer == [r \in {r1, r2} |-> [user |-> "alice", target |-> "prod", ip |-> "here", credential |-> "token"]]
FanOutAsks == [r \in {r1, r2} |-> IF r = r1 THEN Debug ELSE Exec]
FanOutTicketCredentials == {"ticket"}
FanOut == INSTANCE KubeRequests WITH MaxListElements <- 2, MaxListBytes <- 4, ApiRequests <-
    FanOutApiRequests, Bearer <- FanOutBearer, Asks <- FanOutAsks, TicketCredentials <-
    FanOutTicketCredentials, PolicyAsks <- TRUE, NeedsApproval <- TRUE, MaxSessions <- 2,
    MaxEdits <- 0, Quits <- FALSE, Closes <- TRUE, Ages <- FALSE, handle <- krHandle
StartsNodes == {n1, n2}
StartsCrashIn == {1, 78}
Starts == INSTANCE MigrationRun WITH Backend <- "postgres", Nodes <- StartsNodes, Origins <-
    Direct, Upgrades <- TRUE, MaxCrashes <- 1, CrashIn <- StartsCrashIn, MaxReverts <- 0

apVars == <<session, admitted, uses, apRow, asker, job, apFailures, paid, lost, verdict,
    answered>>
lpVars == <<config, attempts, lpRow, cache, login, clerk, revoked, last>>
stVars == <<stParent, stChild, stBy, stTicket, locked, stTask, stHandle, cookie, node, stUp,
    stLosses>>
rvVars == <<rvParent, rvChild, rvBy, rvTicket, rvAccess, lapsed, swept, conn, rvTask, changes,
    closes, rvUp, rvFailures, rvLosses, owed>>
lsVars == <<lsAccess, shared, request, cancelled, announce, posts, told, todo, doomed,
    lsLosses>>
uaVars == <<auth, current, cached, inbox, fwd, ssh, uaTask, elsewhere, aged, ended, fresh,
    letIn, granted, stamped>>
krVars == <<pc, on, lock, handles, refusals, slot, holder, opener, closed, tooOld, krHandle,
    question, authentic, options, admittedWith, clients, client, events>>
mrVars == <<db, applied, release, proc, saved, crashes, reverts, torn>>
vars == <<part, apVars, lpVars, stVars, rvVars, lsVars, uaVars, krVars, mrVars>>

apIdle == session = Resting /\ admitted = Resting /\ uses = Resting /\ apRow = Resting /\ asker
    = Resting /\ job = Resting /\ apFailures = Resting /\ paid = Resting /\ lost = Resting /\
    verdict = Resting /\ answered = Resting
lpIdle == config = Resting /\ attempts = Resting /\ lpRow = Resting /\ cache = Resting /\ login
    = Resting /\ clerk = Resting /\ revoked = Resting /\ last = Resting
stIdle == stParent = Resting /\ stChild = Resting /\ stBy = Resting /\ stTicket = Resting /\
    locked = Resting /\ stTask = Resting /\ stHandle = Resting /\ cookie = Resting /\ node =
    Resting /\ stUp = Resting /\ stLosses = Resting
rvIdle == rvParent = Resting /\ rvChild = Resting /\ rvBy = Resting /\ rvTicket = Resting /\
    rvAccess = Resting /\ lapsed = Resting /\ swept = Resting /\ conn = Resting /\ rvTask =
    Resting /\ changes = Resting /\ closes = Resting /\ rvUp = Resting /\ rvFailures = Resting
    /\ rvLosses = Resting /\ owed = Resting
lsIdle == lsAccess = Resting /\ shared = Resting /\ request = Resting /\ cancelled = Resting /\
    announce = Resting /\ posts = Resting /\ told = Resting /\ todo = Resting /\ doomed =
    Resting /\ lsLosses = Resting
uaIdle == auth = Resting /\ current = Resting /\ cached = Resting /\ inbox = Resting /\ fwd =
    Resting /\ ssh = Resting /\ uaTask = Resting /\ elsewhere = Resting /\ aged = Resting /\
    ended = Resting /\ fresh = Resting /\ letIn = Resting /\ granted = Resting /\ stamped =
    Resting
krIdle == pc = Resting /\ on = Resting /\ lock = Resting /\ handles = Resting /\ refusals =
    Resting /\ slot = Resting /\ holder = Resting /\ opener = Resting /\ closed = Resting /\
    tooOld = Resting /\ krHandle = Resting /\ question = Resting /\ authentic = Resting /\
    options = Resting /\ admittedWith = Resting /\ clients = Resting /\ client = Resting /\
    events = Resting
mrIdle == db = Resting /\ applied = Resting /\ release = Resting /\ proc = Resting /\ saved =
    Resting /\ crashes = Resting /\ reverts = Resting /\ torn = Resting

Init ==
    /\ part \in Parts
    /\ \/ part = "held" /\ Held!Init /\ lpIdle /\ stIdle /\ rvIdle /\ lsIdle /\ uaIdle /\ krIdle /\ mrIdle
       \/ part = "blocked" /\ Blocked!Init /\ apIdle /\ stIdle /\ rvIdle /\ lsIdle /\ uaIdle /\ krIdle /\ mrIdle
       \/ part = "deaths" /\ Deaths!Init /\ apIdle /\ lpIdle /\ rvIdle /\ lsIdle /\ uaIdle /\ krIdle /\ mrIdle
       \/ part = "revoked" /\ Revoked!RevocationInit /\ apIdle /\ lpIdle /\ stIdle /\ lsIdle /\ uaIdle /\ krIdle /\ mrIdle
       \/ part = "expired" /\ Expired!RevocationInit /\ apIdle /\ lpIdle /\ stIdle /\ lsIdle /\ uaIdle /\ krIdle /\ mrIdle
       \/ part = "streams" /\ Streams!Init /\ apIdle /\ lpIdle /\ stIdle /\ rvIdle /\ uaIdle /\ krIdle /\ mrIdle
       \/ part = "decided" /\ Decided!SignInInit /\ apIdle /\ lpIdle /\ stIdle /\ rvIdle /\ lsIdle /\ krIdle /\ mrIdle
       \/ part = "ended" /\ Ended!SignInInit /\ apIdle /\ lpIdle /\ stIdle /\ rvIdle /\ lsIdle /\ krIdle /\ mrIdle
       \/ part = "fanout" /\ FanOut!KubeInit /\ apIdle /\ lpIdle /\ stIdle /\ rvIdle /\ lsIdle /\ uaIdle /\ mrIdle
       \/ part = "starts" /\ Starts!Init /\ apIdle /\ lpIdle /\ stIdle /\ rvIdle /\ lsIdle /\ uaIdle /\ krIdle

Next ==
    \/ part = "held" /\ Held!Next /\ UNCHANGED <<part, lpVars, stVars, rvVars, lsVars, uaVars, krVars, mrVars>>
    \/ part = "blocked" /\ Blocked!Next /\ UNCHANGED <<part, apVars, stVars, rvVars, lsVars, uaVars, krVars, mrVars>>
    \/ part = "deaths" /\ Deaths!Next /\ UNCHANGED <<part, apVars, lpVars, rvVars, lsVars, uaVars, krVars, mrVars>>
    \/ part = "revoked" /\ Revoked!Next /\ UNCHANGED <<part, apVars, lpVars, stVars, lsVars, uaVars, krVars, mrVars>>
    \/ part = "expired" /\ Expired!Next /\ UNCHANGED <<part, apVars, lpVars, stVars, lsVars, uaVars, krVars, mrVars>>
    \/ part = "streams" /\ Streams!Next /\ UNCHANGED <<part, apVars, lpVars, stVars, rvVars, uaVars, krVars, mrVars>>
    \/ part = "decided" /\ Decided!SignInNext /\ UNCHANGED <<part, apVars, lpVars, stVars, rvVars, lsVars, krVars, mrVars>>
    \/ part = "ended" /\ Ended!SignInNext /\ UNCHANGED <<part, apVars, lpVars, stVars, rvVars, lsVars, krVars, mrVars>>
    \/ part = "fanout" /\ FanOut!KubeNext /\ UNCHANGED <<part, apVars, lpVars, stVars, rvVars, lsVars, uaVars, mrVars>>
    \/ part = "starts" /\ Starts!Next /\ UNCHANGED <<part, apVars, lpVars, stVars, rvVars, lsVars, uaVars, krVars>>

Spec == Init /\ [][Next]_vars

-----------------------------------------------------------------------------
\* What the code goes on with by itself: a statement that was sent returns, a
\* timer that was armed fires, a task that was begun goes on, and periodic tasks
\* come round.  People, clients and targets need do nothing.
Fairness ==
    /\ WF_apVars(part = "held" /\ Held!AskerStep(a1)) /\ WF_apVars(part = "held" /\ Held!Tick(s1))
    /\ \A j \in {a1, s1, d1, Reaper} : WF_apVars(part = "held" /\ Held!TaskStep(j))
    /\ WF_apVars(part = "held" /\ Held!Reap)
    /\ WF_lpVars(part = "blocked" /\ Blocked!Tick)
    /\ \A w \in {w1, w2} : SF_stVars(part = "deaths" /\ Deaths!Proceeds(w)) /\ SF_stVars(part = "deaths" /\ Deaths!Reap(w))
    /\ \A n \in {n1, n2} : /\ WF_stVars(part = "deaths" /\ Deaths!Heartbeat(n))
                           /\ WF_stVars(part = "deaths" /\ Deaths!Left(n))
    /\ \A w \in {a1, w1} : /\ WF_rvVars(part = "revoked" /\ Revoked!Proceeds(w))
                           /\ WF_rvVars(part = "revoked" /\ Revoked!SweepTickets(w))
    /\ \A w \in {w1, w2} : /\ WF_rvVars(part = "expired" /\ Expired!Proceeds(w))
                           /\ WF_rvVars(part = "expired" /\ Expired!SweepTickets(w))
    /\ WF_rvVars(part = "revoked" /\ Revoked!Disconnects(s1)) /\ WF_rvVars(part = "revoked" /\ Revoked!Reaped(s1))
    /\ WF_rvVars(part = "expired" /\ Expired!Disconnects(s1)) /\ WF_rvVars(part = "expired" /\ Expired!Reaped(s1))
    /\ WF_lsVars(part = "streams" /\ Streams!Announce(n1)) /\ WF_lsVars(part = "streams" /\ Streams!Post(n1))
    /\ WF_lsVars(part = "streams" /\ Streams!Begin(n1)) /\ WF_lsVars(part = "streams" /\ Streams!Judge(n1))
    /\ WF_lsVars(part = "streams" /\ Streams!Cancel(n1))
    /\ \A r \in {r1, r2} : WF_lsVars(part = "streams" /\ Streams!Ends(r))
    /\ WF_uaVars(part = "decided" /\ Decided!Sweep("sweep")) /\ WF_uaVars(part = "decided" /\ Decided!Delivers("sweep"))
    /\ WF_uaVars(part = "ended" /\ Ended!Sweep("sweep")) /\ WF_uaVars(part = "ended" /\ Ended!Delivers("sweep"))
    /\ \A r \in {r1, r2} : /\ WF_krVars(part = "fanout" /\ FanOut!Internal(r))
                           /\ WF_krVars(part = "fanout" /\ FanOut!IsWrite(r) /\ FanOut!Respond(r, TRUE))
    /\ \A n \in {n1, n2} : WF_mrVars(part = "starts" /\ Starts!Step(n))
FairSpec == Spec /\ Fairness

\* Every wait comes to an end: a connection held for an approval is released and
\* its question leaves the list although a process died (Approvals), a recorded
\* decision is acknowledged (UserApprovals), requests that wait for the one that
\* opened their session go on (KubeRequests).
WaitsEnd ==
    /\ (\/ part = "held" /\ asker[a1].pc = "wait"
        \/ part = "decided" /\ "t" \in Decided!Undelivered
        \/ part = "ended" /\ "t" \in Ended!Undelivered
        \/ part = "fanout" /\ pc[r1] = "joining")
       ~> (\/ part = "held" /\ asker[a1].pc = "done"
           \/ part = "decided" /\ "t" \notin Decided!Undelivered
           \/ part = "ended" /\ "t" \notin Ended!Undelivered
           \/ part = "fanout" /\ pc[r1] # "joining")
    /\ (\/ part = "held" /\ Held!IsPending(s1)
        \/ part = "fanout" /\ pc[r2] = "joining")
       ~> (\/ part = "held" /\ ~Held!IsPending(s1)
           \/ part = "fanout" /\ pc[r2] # "joining")

\* Whoever may no longer be connected is not for long: the sessions of a node
\* that died are ended by another (Sessions), those whose ticket was deleted or
\* has expired are ended although statements fail, posts are lost and nodes die
\* (Revocation), a stream whose rule is gone ends (LiveStreams), and what runs on
\* a closed Kubernetes session ends (KubeRequests).
RevokedEnds ==
    /\ (\/ part = "deaths" /\ Deaths!Orphaned(s1)
        \/ part = "revoked" /\ s1 \in Revoked!Cutting
        \/ part = "expired" /\ Expired!Overdue(s1, "k")
        \/ part = "streams" /\ Streams!Unruled(r1)
        \/ part = "fanout" /\ FanOut!RunsClosed(r1, 1))
       ~> (\/ part = "deaths" /\ ~Deaths!Orphaned(s1)
           \/ part = "revoked" /\ s1 \notin Revoked!Cutting
           \/ part = "expired" /\ ~Expired!Overdue(s1, "k")
           \/ part = "streams" /\ ~Streams!Unruled(r1)
           \/ part = "fanout" /\ ~FanOut!RunsClosed(r1, 1))
    /\ ((part = "streams" /\ Streams!Unruled(r2)) \/ (part = "fanout" /\ FanOut!RunsClosed(r2, 1)))
       ~> ((part = "streams" /\ ~Streams!Unruled(r2)) \/ (part = "fanout" /\ ~FanOut!RunsClosed(r2, 1)))

\* A blocked client is let go although it keeps trying (LoginProtection), and a
\* node that is started, and started again after a crash, comes to serve
\* on PostgreSQL, where the connection that is lost takes its transaction and its
\* lock with it (MigrationRun).  On MySQL a crash in the middle of a migration
\* rolls nothing back, and the next start may be refused: see NeverRefused.
ComesBack ==
    /\ (\/ part = "blocked" /\ Blocked!Termed("i")
        \/ part = "starts" /\ proc[n1].st = "waiting")
       ~> (\/ part = "blocked" /\ ~Blocked!IsLive("i")
           \/ part = "starts" /\ proc[n1].st = "up")
    /\ (\/ part = "blocked" /\ Blocked!Termed("u")
        \/ part = "starts" /\ proc[n2].st = "waiting")
       ~> (\/ part = "blocked" /\ ~Blocked!IsLive("u")
           \/ part = "starts" /\ proc[n2].st = "up")
=============================================================================
