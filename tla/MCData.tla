----------------------------------- MODULE MCData -----------------------------------
(*****************************************************************************)
(* Instances for TLC of the components that change what the database holds:  *)
(* the migrations and what they do to rows, the administration of users,     *)
(* roles and targets, the accounts, roles and keys that single sign-on and   *)
(* LDAP provide, and what users do for themselves. The components share no   *)
(* variable, so a run explores them side by side: the initial state says     *)
(* which instance moves, and the variables of the other components stay      *)
(* idle.                                                                     *)
(*****************************************************************************)
EXTENDS LiveStreams, SelfService, Integers, Sequences, FiniteSets, TLC

CONSTANTS
    Parts,      \* the instances this run explores
    Resting,    \* the value of a variable of any other component
    Nothing, req1, req2, l1, l2, l3, Nobody

VARIABLES
    part,
    mrDb, applied, release, proc, saved, crashes, reverts, torn,  \* MigrationRun
    before, mdRows, stage,  \* MigrationData
    adDb, adTask, live, late,  \* AdminDirectory
    pvPc, name, pvUsers, credentials, roles, admins, pvTodo, role, held, removed, stale,
    overlaps, faults,  \* Provisioning
    dkPc, fetched, present, withdrawn, matched, dkRows, directory, changes, met,  \* DirectoryKeys
    svParameters, svTarget, svUsers, svEntitled, svAsking, svTicket, svOtp, svPassword, svKey,
    svCertificate, svRevoked, svPolicy, svLocked, svTask, svCleaner, svEdits, svMinted,
    svDenied, svAudited  \* SelfService, other instances

\* Two requests of one user on one node while another takes the rules away: one by a role,
\* one to a public target.
Pair == {"roleBased", "public"}
Here == [r \in Pair |-> "here"]
SameUser == [r \in Pair |-> "u"]
SameTarget == [r \in Pair |-> "t"]
Rules == [r \in Pair |-> IF r = "public" THEN "Public" ELSE "RoleBased"]

\* Releases a database may come from: the last one before the fork, one of the
\* fork, and this one.
Listed == INSTANCE Migrations WITH Backend <- "postgres"
Upstreams == Len(Listed!Upstream)
Registrations == Upstreams + Len(Listed!Cove)
Releases == {<<k, 0>> : k \in 1 .. Upstreams} \cup {<<Upstreams, j>> : j \in 1 .. Len(Listed!Cove)}
History == {<<28, 0>>, <<41, 3>>, <<Upstreams, Len(Listed!Cove)>>}

\* Contents a database may have before the migrations that move rows.

Blank == [users |-> <<1>>, user_roles |-> {}, targets |-> <<>>, sessions |-> {}, recordings |-> {}, user_sessions |-> {}]
\* Three assignments, each in force, revoked or past its expiry.
OldRoles ==
    {[Blank EXCEPT !.users = names,
                   !.user_roles = {[id |-> i, user |-> who[i], role |-> what[i],
                                    revoked |-> is[i] = "revoked", expired |-> is[i] = "expired"] : i \in 1 .. 3}] :
       names \in {<<1, 2, 3>>, <<1, 2, 1>>, <<2, 1, 1>>}, who \in [1 .. 3 -> 1 .. 3],
       what \in {<<1, 1, 1>>, <<1, 2, 1>>}, is \in [1 .. 3 -> {"active", "revoked", "expired"}]}
OldTargets ==
    {[Blank EXCEPT !.targets = f] :
       f \in UNION {[1 .. k -> {<<1>>, <<2>>, <<1, 2>>, <<2, 2>>, <<2, 3>>}] : k \in 0 .. 4}}
Snapshots == {[id |-> 0, name |-> <<>>]} \cup {[id |-> i, name |-> n] : i \in {0, 1}, n \in {<<1>>, <<2>>}}
OldSessions ==
    {[Blank EXCEPT !.targets = <<<<1>>, <<1>>>>,
                   !.sessions = {[id |-> i, protocol |-> p[i], node |-> i, snap |-> sn[i], target |-> 0, parent |-> 0] : i \in 1 .. 2},
                   !.recordings = recs] :
       p \in [1 .. 2 -> {"SSH", "HTTP"}], sn \in [1 .. 2 -> Snapshots], recs \in SUBSET (1 .. 2)}
OldRows == OldRoles \cup OldTargets \cup OldSessions

-----------------------------------------------------------------------------
\* Directories to administer, and the requests made of them.
Lower(n) == IF n = "Ann" THEN "ann" ELSE n

All == {"UsersCreate", "UsersEdit", "UsersDelete", "AccessRolesCreate", "AccessRolesEdit", "AccessRolesDelete",
        "AccessRolesAssign", "AdminRolesManage", "TargetsCreate", "TargetsEdit", "TargetsDelete",
        "TicketsCreate", "TicketsDelete", "ConfigEdit"}

Web(n, host, public) == [name |-> n, kind |-> "http", group |-> None, host |-> host, public |-> public]
Shell(n, host, group) == [name |-> n, kind |-> "ssh", group |-> group, host |-> host, public |-> FALSE]

Empty(us, ranks, ts) ==
    [name |-> [u \in us |-> None], otp |-> [u \in us |-> FALSE], linked |-> [u \in us |-> FALSE],
     creds |-> {}, roles |-> {}, defaults |-> {}, grant |-> [x \in us \X {"r1"} |-> None],
     adminName |-> [a \in ranks |-> None], admin |-> [a \in ranks |-> {}], admins |-> {},
     target |-> [t \in ts |-> None], groups |-> {}, opens |-> {},
     ticket |-> [k \in {"k1"} |-> None], ask |-> [a \in {"q1"} |-> None], hosts |-> {}]

\* ann holds r1, which opens t1; t2 is public.
Granted ==
    [Empty({"u1"}, {"a1"}, {"t1", "t2"}) EXCEPT !.name = [u \in {"u1"} |-> "ann"],
                  !.roles = {"r1"}, !.grant[<<"u1", "r1">>] = "active", !.opens = {<<"t1", "r1">>},
                  !.target = [t \in {"t1", "t2"} |-> IF t = "t1" THEN Shell("one", "h1", None) ELSE Web("two", "h2", TRUE)]]

\* What can take access away, and give it.
Losing ==
    {[op |-> o, by |-> "token", user |-> u, role |-> "r1", past |-> b] :
        o \in {"AddUserRole", "DeleteUserRole", "UpdateUserRole"}, u \in {"u1"}, b \in BOOLEAN}
    \cup {[op |-> o, by |-> "token", role |-> "r1", default |-> TRUE] : o \in {"CreateRole", "UpdateRole", "DeleteRole"}}
    \cup {[op |-> o, by |-> "token", target |-> "t1", role |-> "r1"] : o \in {"AddTargetRole", "RemoveTargetRole"}}
    \cup {[op |-> "UpdateTarget", by |-> "token", target |-> "t2", data |-> Web("two", "h2", b)] : b \in BOOLEAN}
    \cup {[op |-> "DeleteTarget", by |-> "token", target |-> t] : t \in {"t1", "t2"}}
    \cup {[op |-> "CreateTarget", by |-> "token", target |-> "t1", data |-> Shell("one", "h1", None)],
          [op |-> "DeleteUser", by |-> "token", user |-> "u1"]}

\* u1 edits users, u2 holds every permission, u3 none.
Ranked ==
    [Empty({"u1", "u2", "u3"}, {"a1", "a2"}, {"t1"}) EXCEPT !.name = [u \in {"u1", "u2", "u3"} |-> u],
                  !.adminName = [a \in {"a1", "a2"} |-> IF a = "a1" THEN "warpgate:admin" ELSE "helpdesk"],
                  !.admin = [a \in {"a1", "a2"} |-> IF a = "a1" THEN All ELSE {"UsersEdit", "UsersCreate", "UsersDelete"}],
                  !.admins = {<<"u1", "a2">>, <<"u2", "a1">>},
                  !.creds = {<<"u2", "publickey", "u2">>, <<"u2", "sso", "u2">>, <<"u3", "password", "u3">>}]

Editing ==
    {[op |-> o, by |-> "u1", user |-> u, name |-> "dan", otp |-> FALSE] :
        o \in {"UpdateUser", "UnlinkUser", "AutoLinkUser", "CreatePassword", "CreateOtp", "CreatePublicKey",
               "IssueCertificate", "CreateSso", "DeleteUser"}, u \in {"u2", "u3"}}
    \cup {[op |-> o, by |-> "u1", user |-> "u2", cred |-> <<"u2", k, "u2">>] :
        o \in {"UpdatePublicKey", "UpdateSso", "DeletePublicKey", "DeleteSso"}, k \in {"publickey", "sso"}}
    \cup {[op |-> o, by |-> "u1", user |-> "u3", cred |-> <<"u3", k, w>>] :
        o \in {"DeletePassword", "DeleteOtp", "RevokeCertificate"}, k \in {"password", "otp", "certificate"}, w \in {"u1", "u3"}}
    \cup {[op |-> o, by |-> "u1", user |-> "u3", admin |-> "a1"] : o \in {"AddUserAdminRole", "DeleteUserAdminRole"}}
    \cup {[op |-> o, by |-> "u1", admin |-> "a2", name |-> "helpdesk", permissions |-> All] :
        o \in {"CreateAdminRole", "UpdateAdminRole", "DeleteAdminRole"}}
    \cup {[op |-> "CreateUser", by |-> "u1", user |-> "u3", name |-> "u3"]}

\* A user with a ticket and requests, two SSH targets at one host, in a group.
Referred ==
    [Empty({"u1"}, {"a1"}, {"t1", "t2"}) EXCEPT !.name = [u \in {"u1"} |-> u],
                  !.roles = {"r1"}, !.grant[<<"u1", "r1">>] = "active", !.opens = {<<"t1", "r1">>},
                  !.adminName["a1"] = "warpgate:admin", !.admin["a1"] = All, !.admins = {<<"u1", "a1">>},
                  !.groups = {"g1"}, !.hosts = {"h1"},
                  !.target = [t \in {"t1", "t2"} |-> Shell(t, "h1", "g1")],
                  !.ticket["k1"] = [user |-> "u1", target |-> "t1"],
                  !.ask["q1"] = [user |-> "u1", target |-> "t1", ticket |-> "k1"]]

Removing ==
    {[op |-> "DeleteUser", by |-> "token", user |-> "u1"], [op |-> "DeleteRole", by |-> "token", role |-> "r1"],
     [op |-> "CreateGroup", by |-> "token", group |-> "g1"], [op |-> "UpdateGroup", by |-> "token", group |-> "g1"],
     [op |-> "DeleteGroup", by |-> "token", group |-> "g1"], [op |-> "DeleteTicket", by |-> "token", ticket |-> "k1"],
     [op |-> "AddKnownHost", by |-> "token", host |-> "h1"], [op |-> "DeleteKnownHost", by |-> "token", host |-> "h1"],
     [op |-> "ImportUser", by |-> "token", user |-> "u1", name |-> "u1"],
     [op |-> "CreateTicket", by |-> "token", user |-> "u1", target |-> "t2", ticket |-> "k1"]}
    \cup {[op |-> "DeleteTarget", by |-> "token", target |-> t] : t \in {"t1", "t2"}}


-----------------------------------------------------------------------------
\* Answers of a provider: two logins of one newcomer beside another's; three
\* logins of a person who is known.
Login(identity, verified, preferred, groups, as) ==
    [identity |-> identity, verified |-> verified, preferred |-> preferred, groups |-> groups, admins |-> as]
NewAnswers ==
    l1 :> Login("i1", TRUE, "u1", {"g1"}, {}) @@ l2 :> Login("i1", TRUE, "u1", {}, {})
    @@ l3 :> Login("i2", TRUE, "u2", {"g2"}, {})
KnownAnswers ==
    l1 :> Login("i2", TRUE, "u2", {"g1", "other"}, {"a1"}) @@ l2 :> Login("i2", TRUE, "u2", {}, {})
    @@ l3 :> Login("i2", FALSE, "u2", {"g1"}, {"a1"})
GroupRoles == "g1" :> {"r1"} @@ "g2" :> {"r2"} @@ "*" :> {"r3"}
TheUsers == {[user |-> "u2", identity |-> "i2"], [user |-> "u3", identity |-> Nobody]}
Namesake == {[user |-> "u2", identity |-> Nobody], [user |-> "u3", identity |-> "i3"]}

\* Answers of a directory to the search for a person.
Mine(keys) == [person |-> "me", keys |-> keys]
Answers == {{}, {Mine({"k1"})}, {Mine({"k1", "k2"})}, {Mine({"k2"}), [person |-> "other", keys |-> {"k3"}]}}

\* Users serve themselves: one request with two activations, an approval and a denial; one
\* that somebody else tries to activate; changes of one-time passwords, of passwords and
\* certificates, and of the keys of two users.
Activations == [c |-> "create", p |-> "approve", d |-> "deny", x |-> "activate", y |-> "activate"]
Strangers == [c |-> "create", e |-> "create", p |-> "approve", x |-> "activate", y |-> "activate"]
HersAndHis == [h \in DOMAIN Strangers |-> IF h \in {"e", "y"} THEN "v" ELSE "u"]
OneTimePasswords == [p |-> "otp", x |-> "otpdelete", y |-> "otpdelete"]
Passphrases == [c |-> "password", d |-> "password", r |-> "revoke", x |-> "certify"]
KeyChanges == [k |-> "key", x |-> "keydelete", y |-> "keydelete"]
KeyOwners == [h \in DOMAIN KeyChanges |-> IF h = "y" THEN "v" ELSE "u"]
Own(calls) == [h \in DOMAIN calls |-> "u"]
Closed == [enabled |-> FALSE, showAll |-> FALSE, auto |-> FALSE, duration |-> None, uses |-> None,
           manage |-> TRUE, enforced |-> TRUE]
TicketSettings ==
    {[Closed EXCEPT !.enabled = TRUE, !.showAll = all, !.auto = all, !.duration = IF all THEN 2 ELSE 1] : all \in BOOLEAN}
Managed == {[Closed EXCEPT !.manage = m, !.enforced = e] : m, e \in BOOLEAN}
Offered(approved) == [disabled |-> FALSE, approval |-> approved, duration |-> None, uses |-> 1]
Activating == DOMAIN Activations
Everyone == Own(Activations)
Offering == {Offered(TRUE)}

\* What the proofs assume of the constants.
ASSUME SelfSound

EitherRequest == Permutations({req1, req2})

-----------------------------------------------------------------------------
OnPostgresNodes == {"n", "m"}
OnPostgresCrashIn == 1 .. 100
OnPostgres == INSTANCE MigrationRun WITH Backend <- "postgres", Nodes <- OnPostgresNodes,
    Origins <- History, Upgrades <- TRUE, MaxCrashes <- 1, CrashIn <- OnPostgresCrashIn,
    MaxReverts <- 0, db <- mrDb
OnSqliteNodes == {"n"}
OnSqliteCrashIn == 1 .. 100
OnSqlite == INSTANCE MigrationRun WITH Backend <- "sqlite", Nodes <- OnSqliteNodes, Origins <-
    History, Upgrades <- TRUE, MaxCrashes <- 1, CrashIn <- OnSqliteCrashIn, MaxReverts <- 1, db
    <- mrDb
OnMysqlNodes == {"n", "m"}
OnMysqlCrashIn == 1 .. 100
OnMysql == INSTANCE MigrationRun WITH Backend <- "mysql", Nodes <- OnMysqlNodes, Origins <-
    History, Upgrades <- TRUE, MaxCrashes <- 1, CrashIn <- OnMysqlCrashIn, MaxReverts <- 0, db
    <- mrDb
RevertedNodes == {"n"}
RevertedCrashIn == {}
Reverted == INSTANCE MigrationRun WITH Backend <- "postgres", Nodes <- RevertedNodes, Origins <-
    Releases, Upgrades <- FALSE, MaxCrashes <- 0, CrashIn <- RevertedCrashIn, MaxReverts <- 1,
    db <- mrDb
RevertedOnMysqlNodes == {"n"}
RevertedOnMysqlCrashIn == {78, 80, Registrations}
RevertedOnMysql == INSTANCE MigrationRun WITH Backend <- "mysql", Nodes <- RevertedOnMysqlNodes,
    Origins <- Releases, Upgrades <- FALSE, MaxCrashes <- 1, CrashIn <- RevertedOnMysqlCrashIn,
    MaxReverts <- 1, db <- mrDb
RevertedOnSqliteNodes == {"n"}
RevertedOnSqliteCrashIn == {}
RevertedOnSqlite == INSTANCE MigrationRun WITH Backend <- "sqlite", Nodes <-
    RevertedOnSqliteNodes, Origins <- Releases, Upgrades <- FALSE, MaxCrashes <- 0, CrashIn <-
    RevertedOnSqliteCrashIn, MaxReverts <- 1, db <- mrDb
Moved == INSTANCE MigrationData WITH Inputs <- OldRows, CaseInsensitive <- FALSE, rows <- mdRows
Folded == INSTANCE MigrationData WITH Inputs <- OldTargets, CaseInsensitive <- TRUE, rows <-
    mdRows
CutUsers == {"u1"}
CutRoles == {"r1"}
CutAdminRoles == {"a1"}
CutTargets == {"t1", "t2"}
CutGroups == {"g1"}
CutTickets == {"k1"}
CutAsks == {"q1"}
CutHosts == {"h1", "h2"}
CutRequests == {req1, req2}
Cut == INSTANCE AdminDirectory WITH Users <- CutUsers, Roles <- CutRoles, AdminRoles <-
    CutAdminRoles, Targets <- CutTargets, Groups <- CutGroups, Tickets <- CutTickets, Asks <-
    CutAsks, Hosts <- CutHosts, Permissions <- All, Fold <- Lower, Start <- Granted, Inputs <-
    Losing, Requests <- CutRequests, Token <- "token", Watched <- TRUE, db <- adDb, task <-
    adTask
RanksUsers == {"u1", "u2", "u3"}
RanksRoles == {"r1"}
RanksAdminRoles == {"a1", "a2"}
RanksTargets == {"t1"}
RanksGroups == {"g1"}
RanksTickets == {"k1"}
RanksAsks == {"q1"}
RanksHosts == {"h1", "h2"}
RanksRequests == {"p"}
Ranks == INSTANCE AdminDirectory WITH Users <- RanksUsers, Roles <- RanksRoles, AdminRoles <-
    RanksAdminRoles, Targets <- RanksTargets, Groups <- RanksGroups, Tickets <- RanksTickets,
    Asks <- RanksAsks, Hosts <- RanksHosts, Permissions <- All, Fold <- Lower, Start <- Ranked,
    Inputs <- Editing, Requests <- RanksRequests, Token <- "token", Watched <- FALSE, db <-
    adDb, task <- adTask
ReferencesUsers == {"u1"}
ReferencesRoles == {"r1"}
ReferencesAdminRoles == {"a1"}
ReferencesTargets == {"t1", "t2"}
ReferencesGroups == {"g1"}
ReferencesTickets == {"k1"}
ReferencesAsks == {"q1"}
ReferencesHosts == {"h1", "h2"}
ReferencesRequests == {req1, req2}
References == INSTANCE AdminDirectory WITH Users <- ReferencesUsers, Roles <- ReferencesRoles,
    AdminRoles <- ReferencesAdminRoles, Targets <- ReferencesTargets, Groups <-
    ReferencesGroups, Tickets <- ReferencesTickets, Asks <- ReferencesAsks, Hosts <-
    ReferencesHosts, Permissions <- All, Fold <- Lower, Start <- Referred, Inputs <- Removing,
    Requests <- ReferencesRequests, Token <- "token", Watched <- FALSE, db <- adDb, task <-
    adTask
NewcomersLogins == {l1, l2, l3}
NewcomersDefaults == {"r1"}
NewcomersUnmanaged == {"x"}
NewcomersAdminRoles == {"a1"}
Newcomers == INSTANCE Provisioning WITH Logins <- NewcomersLogins, Answer <- NewAnswers,
    AutoCreate <- TRUE, Mapping <- GroupRoles, Defaults <- NewcomersDefaults, Linked <-
    Namesake, Unmanaged <- NewcomersUnmanaged, AdminRoles <- NewcomersAdminRoles, MaxFaults <-
    0, Leaves <- TRUE, pc <- pvPc, users <- pvUsers, todo <- pvTodo
RegularsLogins == {l1, l2, l3}
RegularsDefaults == {"d1"}
RegularsUnmanaged == {"x"}
RegularsAdminRoles == {"a1"}
Regulars == INSTANCE Provisioning WITH Logins <- RegularsLogins, Answer <- KnownAnswers,
    AutoCreate <- TRUE, Mapping <- GroupRoles, Defaults <- RegularsDefaults, Linked <- TheUsers,
    Unmanaged <- RegularsUnmanaged, AdminRoles <- RegularsAdminRoles, MaxFaults <- 1, Leaves <-
    FALSE, pc <- pvPc, users <- pvUsers, todo <- pvTodo
KeySyncAttempts == {"a", "b"}
KeySyncPresented == [a \in {"a", "b"} |-> IF a = "b" THEN "k2" ELSE "k1"]
KeySyncAtFirst == {"k1"}
KeySyncIds == 1 .. 4
KeySync == INSTANCE DirectoryKeys WITH Attempts <- KeySyncAttempts, Presented <-
    KeySyncPresented, AtFirst <- KeySyncAtFirst, Bases <- 2, Contents <- Answers, Me <- "me",
    Ids <- KeySyncIds, MaxChanges <- 1, pc <- dkPc, rows <- dkRows
OwnersHandlers == DOMAIN Strangers
OwnersPersons == {"u", "v"}
OwnersTargetOptions == {Offered(a) : a \in BOOLEAN}
OwnersDurations == {2}
OwnersOld == {}
Owners == INSTANCE SelfService WITH Handlers <- OwnersHandlers, Call <- Strangers, Who <-
    HersAndHis, Persons <- OwnersPersons, Settings <- TicketSettings, TargetOptions <-
    OwnersTargetOptions, Durations <- OwnersDurations, MinDuration <- 1, Old <- OwnersOld,
    MaxAlterations <- 0, parameters <- svParameters, target <- svTarget, users <- svUsers,
    entitled <- svEntitled, asking <- svAsking, ticket <- svTicket, otp <- svOtp, password <-
    svPassword, key <- svKey, certificate <- svCertificate, revoked <- svRevoked, policy <-
    svPolicy, locked <- svLocked, task <- svTask, cleaner <- svCleaner, edits <- svEdits, minted
    <- svMinted, denied <- svDenied, audited <- svAudited
FactorsHandlers == DOMAIN OneTimePasswords
FactorsWho == Own(OneTimePasswords)
FactorsPersons == {"u"}
FactorsTargetOptions == {None}
FactorsDurations == {2}
FactorsOld == {"o1"}
Factors == INSTANCE SelfService WITH Handlers <- FactorsHandlers, Call <- OneTimePasswords, Who
    <- FactorsWho, Persons <- FactorsPersons, Settings <- Managed, TargetOptions <-
    FactorsTargetOptions, Durations <- FactorsDurations, MinDuration <- 1, Old <- FactorsOld,
    MaxAlterations <- 1, parameters <- svParameters, target <- svTarget, users <- svUsers,
    entitled <- svEntitled, asking <- svAsking, ticket <- svTicket, otp <- svOtp, password <-
    svPassword, key <- svKey, certificate <- svCertificate, revoked <- svRevoked, policy <-
    svPolicy, locked <- svLocked, task <- svTask, cleaner <- svCleaner, edits <- svEdits, minted
    <- svMinted, denied <- svDenied, audited <- svAudited
PasswordsHandlers == DOMAIN Passphrases
PasswordsWho == Own(Passphrases)
PasswordsPersons == {"u"}
PasswordsSettings == {Closed}
PasswordsTargetOptions == {None}
PasswordsDurations == {2}
PasswordsOld == {"o1"}
Passwords == INSTANCE SelfService WITH Handlers <- PasswordsHandlers, Call <- Passphrases, Who
    <- PasswordsWho, Persons <- PasswordsPersons, Settings <- PasswordsSettings, TargetOptions
    <- PasswordsTargetOptions, Durations <- PasswordsDurations, MinDuration <- 1, Old <-
    PasswordsOld, MaxAlterations <- 0, parameters <- svParameters, target <- svTarget, users <-
    svUsers, entitled <- svEntitled, asking <- svAsking, ticket <- svTicket, otp <- svOtp,
    password <- svPassword, key <- svKey, certificate <- svCertificate, revoked <- svRevoked,
    policy <- svPolicy, locked <- svLocked, task <- svTask, cleaner <- svCleaner, edits <-
    svEdits, minted <- svMinted, denied <- svDenied, audited <- svAudited
OwnKeysHandlers == DOMAIN KeyChanges
OwnKeysPersons == {"u", "v"}
OwnKeysSettings == {Closed}
OwnKeysTargetOptions == {None}
OwnKeysDurations == {2}
OwnKeysOld == {"o1", "o2"}
OwnKeys == INSTANCE SelfService WITH Handlers <- OwnKeysHandlers, Call <- KeyChanges, Who <-
    KeyOwners, Persons <- OwnKeysPersons, Settings <- OwnKeysSettings, TargetOptions <-
    OwnKeysTargetOptions, Durations <- OwnKeysDurations, MinDuration <- 1, Old <- OwnKeysOld,
    MaxAlterations <- 1, parameters <- svParameters, target <- svTarget, users <- svUsers,
    entitled <- svEntitled, asking <- svAsking, ticket <- svTicket, otp <- svOtp, password <-
    svPassword, key <- svKey, certificate <- svCertificate, revoked <- svRevoked, policy <-
    svPolicy, locked <- svLocked, task <- svTask, cleaner <- svCleaner, edits <- svEdits, minted
    <- svMinted, denied <- svDenied, audited <- svAudited

lsVars == <<access, shared, request, cancelled, announce, posts, told, todo, doomed, losses>>
mrVars == <<mrDb, applied, release, proc, saved, crashes, reverts, torn>>
mdVars == <<before, mdRows, stage>>
adVars == <<adDb, adTask, live, late>>
pvVars == <<pvPc, name, pvUsers, credentials, roles, admins, pvTodo, role, held, removed, stale,
    overlaps, faults>>
dkVars == <<dkPc, fetched, present, withdrawn, matched, dkRows, directory, changes, met>>
rtVars == <<parameters, target, users, entitled, asking, ticket, otp, password, key,
    certificate, revoked, policy, locked, task, cleaner, edits, minted, denied, audited>>
svVars == <<svParameters, svTarget, svUsers, svEntitled, svAsking, svTicket, svOtp, svPassword,
    svKey, svCertificate, svRevoked, svPolicy, svLocked, svTask, svCleaner, svEdits, svMinted,
    svDenied, svAudited>>
bundleVars == <<part, lsVars, mrVars, mdVars, adVars, pvVars, dkVars, rtVars, svVars>>

lsIdle == Init
mrIdle == mrDb = Resting /\ applied = Resting /\ release = Resting /\ proc = Resting /\ saved =
    Resting /\ crashes = Resting /\ reverts = Resting /\ torn = Resting
mdIdle == before = Resting /\ mdRows = Resting /\ stage = Resting
adIdle == adDb = Resting /\ adTask = Resting /\ live = Resting /\ late = Resting
pvIdle == pvPc = Resting /\ name = Resting /\ pvUsers = Resting /\ credentials = Resting /\
    roles = Resting /\ admins = Resting /\ pvTodo = Resting /\ role = Resting /\ held = Resting
    /\ removed = Resting /\ stale = Resting /\ overlaps = Resting /\ faults = Resting
dkIdle == dkPc = Resting /\ fetched = Resting /\ present = Resting /\ withdrawn = Resting /\
    matched = Resting /\ dkRows = Resting /\ directory = Resting /\ changes = Resting /\ met =
    Resting
rtIdle == SelfInit /\ parameters.showAll /\ entitled["u"]
svIdle == svParameters = Resting /\ svTarget = Resting /\ svUsers = Resting /\ svEntitled =
    Resting /\ svAsking = Resting /\ svTicket = Resting /\ svOtp = Resting /\ svPassword =
    Resting /\ svKey = Resting /\ svCertificate = Resting /\ svRevoked = Resting /\ svPolicy =
    Resting /\ svLocked = Resting /\ svTask = Resting /\ svCleaner = Resting /\ svEdits =
    Resting /\ svMinted = Resting /\ svDenied = Resting /\ svAudited = Resting

BundleInit ==
    /\ part \in Parts
    /\ \/ part = "streams" /\ Init /\ mrIdle /\ mdIdle /\ adIdle /\ pvIdle /\ dkIdle /\ rtIdle /\ svIdle
       \/ part = "postgres" /\ OnPostgres!Init /\ lsIdle /\ mdIdle /\ adIdle /\ pvIdle /\ dkIdle /\ rtIdle /\ svIdle
       \/ part = "sqlite" /\ OnSqlite!Init /\ lsIdle /\ mdIdle /\ adIdle /\ pvIdle /\ dkIdle /\ rtIdle /\ svIdle
       \/ part = "mysql" /\ OnMysql!Init /\ lsIdle /\ mdIdle /\ adIdle /\ pvIdle /\ dkIdle /\ rtIdle /\ svIdle
       \/ part = "reverts" /\ Reverted!Init /\ lsIdle /\ mdIdle /\ adIdle /\ pvIdle /\ dkIdle /\ rtIdle /\ svIdle
       \/ part = "reverts_mysql" /\ RevertedOnMysql!Init /\ lsIdle /\ mdIdle /\ adIdle /\ pvIdle /\ dkIdle /\ rtIdle /\ svIdle
       \/ part = "reverts_sqlite" /\ RevertedOnSqlite!Init /\ lsIdle /\ mdIdle /\ adIdle /\ pvIdle /\ dkIdle /\ rtIdle /\ svIdle
       \/ part = "rows" /\ Moved!Init /\ lsIdle /\ mrIdle /\ adIdle /\ pvIdle /\ dkIdle /\ rtIdle /\ svIdle
       \/ part = "folded" /\ Folded!Init /\ lsIdle /\ mrIdle /\ adIdle /\ pvIdle /\ dkIdle /\ rtIdle /\ svIdle
       \/ part = "losses" /\ Cut!Init /\ lsIdle /\ mrIdle /\ mdIdle /\ pvIdle /\ dkIdle /\ rtIdle /\ svIdle
       \/ part = "ranks" /\ Ranks!Init /\ lsIdle /\ mrIdle /\ mdIdle /\ pvIdle /\ dkIdle /\ rtIdle /\ svIdle
       \/ part = "references" /\ References!Init /\ lsIdle /\ mrIdle /\ mdIdle /\ pvIdle /\ dkIdle /\ rtIdle /\ svIdle
       \/ part = "newcomers" /\ Newcomers!Init /\ lsIdle /\ mrIdle /\ mdIdle /\ adIdle /\ dkIdle /\ rtIdle /\ svIdle
       \/ part = "regulars" /\ Regulars!Init /\ lsIdle /\ mrIdle /\ mdIdle /\ adIdle /\ dkIdle /\ rtIdle /\ svIdle
       \/ part = "keys" /\ KeySync!Init /\ lsIdle /\ mrIdle /\ mdIdle /\ adIdle /\ pvIdle /\ rtIdle /\ svIdle
       \/ part = "requests" /\ SelfInit /\ lsIdle /\ mrIdle /\ mdIdle /\ adIdle /\ pvIdle /\ dkIdle /\ svIdle
       \/ part = "owners" /\ Owners!SelfInit /\ lsIdle /\ mrIdle /\ mdIdle /\ adIdle /\ pvIdle /\ dkIdle /\ rtIdle
       \/ part = "factors" /\ Factors!SelfInit /\ lsIdle /\ mrIdle /\ mdIdle /\ adIdle /\ pvIdle /\ dkIdle /\ rtIdle
       \/ part = "passwords" /\ Passwords!SelfInit /\ lsIdle /\ mrIdle /\ mdIdle /\ adIdle /\ pvIdle /\ dkIdle /\ rtIdle
       \/ part = "ownkeys" /\ OwnKeys!SelfInit /\ lsIdle /\ mrIdle /\ mdIdle /\ adIdle /\ pvIdle /\ dkIdle /\ rtIdle

BundleNext ==
    \/ part = "streams" /\ Next /\ UNCHANGED <<part, mrVars, mdVars, adVars, pvVars, dkVars, rtVars, svVars>>
    \/ part = "postgres" /\ OnPostgres!Next /\ UNCHANGED <<part, lsVars, mdVars, adVars, pvVars, dkVars, rtVars, svVars>>
    \/ part = "sqlite" /\ OnSqlite!Next /\ UNCHANGED <<part, lsVars, mdVars, adVars, pvVars, dkVars, rtVars, svVars>>
    \/ part = "mysql" /\ OnMysql!Next /\ UNCHANGED <<part, lsVars, mdVars, adVars, pvVars, dkVars, rtVars, svVars>>
    \/ part = "reverts" /\ Reverted!Next /\ UNCHANGED <<part, lsVars, mdVars, adVars, pvVars, dkVars, rtVars, svVars>>
    \/ part = "reverts_mysql" /\ RevertedOnMysql!Next /\ UNCHANGED <<part, lsVars, mdVars, adVars, pvVars, dkVars, rtVars, svVars>>
    \/ part = "reverts_sqlite" /\ RevertedOnSqlite!Next /\ UNCHANGED <<part, lsVars, mdVars, adVars, pvVars, dkVars, rtVars, svVars>>
    \/ part = "rows" /\ Moved!Next /\ UNCHANGED <<part, lsVars, mrVars, adVars, pvVars, dkVars, rtVars, svVars>>
    \/ part = "folded" /\ Folded!Next /\ UNCHANGED <<part, lsVars, mrVars, adVars, pvVars, dkVars, rtVars, svVars>>
    \/ part = "losses" /\ Cut!Next /\ UNCHANGED <<part, lsVars, mrVars, mdVars, pvVars, dkVars, rtVars, svVars>>
    \/ part = "ranks" /\ Ranks!Next /\ UNCHANGED <<part, lsVars, mrVars, mdVars, pvVars, dkVars, rtVars, svVars>>
    \/ part = "references" /\ References!Next /\ UNCHANGED <<part, lsVars, mrVars, mdVars, pvVars, dkVars, rtVars, svVars>>
    \/ part = "newcomers" /\ Newcomers!Next /\ UNCHANGED <<part, lsVars, mrVars, mdVars, adVars, dkVars, rtVars, svVars>>
    \/ part = "regulars" /\ Regulars!Next /\ UNCHANGED <<part, lsVars, mrVars, mdVars, adVars, dkVars, rtVars, svVars>>
    \/ part = "keys" /\ KeySync!Next /\ UNCHANGED <<part, lsVars, mrVars, mdVars, adVars, pvVars, rtVars, svVars>>
    \/ part = "requests" /\ SelfNext /\ UNCHANGED <<part, lsVars, mrVars, mdVars, adVars, pvVars, dkVars, svVars>>
    \/ part = "owners" /\ Owners!SelfNext /\ UNCHANGED <<part, lsVars, mrVars, mdVars, adVars, pvVars, dkVars, rtVars>>
    \/ part = "factors" /\ Factors!SelfNext /\ UNCHANGED <<part, lsVars, mrVars, mdVars, adVars, pvVars, dkVars, rtVars>>
    \/ part = "passwords" /\ Passwords!SelfNext /\ UNCHANGED <<part, lsVars, mrVars, mdVars, adVars, pvVars, dkVars, rtVars>>
    \/ part = "ownkeys" /\ OwnKeys!SelfNext /\ UNCHANGED <<part, lsVars, mrVars, mdVars, adVars, pvVars, dkVars, rtVars>>

BundleSpec == BundleInit /\ [][BundleNext]_bundleVars

-----------------------------------------------------------------------------
\* Once a node of this release serves, the schema is the one a fresh database
\* gets, whatever releases the database went through, every Model fits its table,
\* and no old row holds NULL where a Model reads a value, but on MySQL in the
\* recordings from before m00030.  A start brings the database there although other
\* nodes start and earlier starts died in the middle, but on MySQL, where it is
\* refused at the very migration that was cut off unless that one looks before each
\* statement.  A revert succeeds unless it is declared impossible, or SQLite refuses
\* it (m00033, m00034, m00050), or on MySQL a part of it was carried out before
\* (migrate_database, migrate_database_down; MigrationRun names the exceptions).
SchemaFits ==
    /\ part = "postgres" => OnPostgres!Readable /\ OnPostgres!OneSchema /\ OnPostgres!NeverRefused
    /\ part = "sqlite" => OnSqlite!Fits /\ OnSqlite!Readable /\ OnSqlite!OneSchema /\ OnSqlite!NeverRefused
    /\ part = "mysql" => OnMysql!Fits /\ OnMysql!Readable /\ OnMysql!OneSchema /\ OnMysql!NeverRefused
    /\ part = "reverts" => Reverted!RevertsSucceed
    /\ part = "reverts_mysql" => RevertedOnMysql!RevertsSucceed /\ RevertedOnMysql!NeverRefused /\ RevertedOnMysql!OneSchema
    /\ part = "reverts_sqlite" => RevertedOnSqlite!RevertsSucceed

\* The migrations that move rows give no access back and take none, but where an
\* expired duplicate was added after the assignment in force (m00078 looks at
\* revoked_at and id only); they leave no orphan, keep every name in use, and split
\* every session (MigrationData).
RowsKept ==
    /\ part = "rows" => Moved!AccessKept /\ Moved!NoOrphans /\ Moved!NamesDistinct /\ Moved!SplitComplete
    /\ part = "folded" => Folded!NamesDistinct

\* Whoever administers the directory, alone or beside another: a session that has
\* lost its access is about to be re-checked, but for one that was opened between the
\* closing of its user's sessions and the deletion of the user, nobody gains powers through the
\* credentials of others, and a deletion leaves no reference (AdminDirectory).  What
\* users are promised when they serve themselves holds beside other users, for
\* passwords and for certificates too (SelfService; the run checks SelfServed for the
\* tickets of one user).
DirectorySound ==
    /\ part = "losses" => Cut!LossCovered
    /\ part = "ranks" => Ranks!PowersBounded
    /\ part = "references" => References!DeletesWhole
    /\ part = "owners" => Owners!SelfServed
    /\ part = "passwords" => Passwords!SelfServed

\* A person signs in as their own account, is admitted again once it exists, and
\* after a lost role their sessions are re-checked (Provisioning); the keys stored
\* for them are their own, and one the directory has withdrawn admits nobody after
\* the next login, unless two logins were storing keys at once (DirectoryKeys).
SignedInAsSelf ==
    /\ part = "newcomers" => Newcomers!SignedInAsSelf /\ Newcomers!ReturningAdmitted
    /\ part = "regulars" => Regulars!RemovalRechecked
    /\ part = "keys" => KeySync!OwnKeysOnly /\ KeySync!WithdrawnRefused

\* A login that ran alone leaves its user with the roles its claims stand for, a
\* key that stays in the directory keeps the id it is matched by, but for one that
\* two logins at once have stored twice, and the host key of a target that stays is
\* not forgotten with another target (Provisioning, DirectoryKeys, AdminDirectory).
\* No ticket is issued after the denial of its request, the last second factor of a user who needs one is not given up, and a
\* key goes by its owner's hand (SelfService).
ChangesExact ==
    [][/\ part = "regulars" => Regulars!Claimed
       /\ part = "keys" => KeySync!IdsKept
       /\ part = "references" => References!HostsKept
       /\ part = "requests" => NoneUnlessGranted
       /\ part = "factors" => Factors!FactorStays
       /\ part = "ownkeys" => OwnKeys!ByOwnHand]_bundleVars
=============================================================================
