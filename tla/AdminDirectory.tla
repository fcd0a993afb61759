-------------------------- MODULE AdminDirectory --------------------------
(***************************************************************************)
(* The administration API over the directory: users, their credentials,    *)
(* access roles, admin roles, targets, target groups, tickets, and the     *)
(* assignments between them.                                               *)
(*                                                                         *)
(* A handler is a plan: the permission it needs, the user whose rank       *)
(* guard_user_mutation compares with the caller's, the rows it looks up    *)
(* with its early returns, what its write leaves in the database, and the  *)
(* sessions it closes or re-checks.  A request carries a plan out in       *)
(* steps, and the requests of several administrators interleave between    *)
(* them.  A transaction of a handler is one step.                          *)
(*                                                                         *)
(* A credential is known by its user, its kind and its author, the caller  *)
(* that chose it.  Access is the set of pairs of a user and a target that  *)
(* roles (or a public target) allow; how a recheck reaches the connections *)
(* is in Revocation, which takes from here that the pairs an operation can *)
(* take away are among those it re-checks.                                 *)
(***************************************************************************)
EXTENDS Naturals, FiniteSets

CONSTANTS
    Users, Roles, AdminRoles, Targets, Groups, Tickets, Asks, Hosts,
    Permissions,   \* AdminPermission
    Fold(_),       \* a username in lower case
    Start,         \* the directory at the start
    Inputs,        \* the requests that may arrive
    Requests,      \* how many are served at a time
    Token,         \* the caller with the admin token
    Watched,       \* whether sessions are opened
    None           \* no row

VARIABLES
    db,      \* the tables
    task,    \* the request every slot serves
    live,    \* pairs with an open session or stream that a role admitted
    late     \* history: those of live opened after the sessions of their user were closed

vars == <<db, task, live, late>>

-----------------------------------------------------------------------------
(* What the tables say.                                                    *)

Exists(u) == db.name[u] # None

\* The same over a directory d that is not the current one.
PermissionsOf(d, u) ==
    IF d.name[u] = None THEN {} ELSE UNION {d.admin[a] : a \in {b \in AdminRoles : <<u, b>> \in d.admins}}

\* An admin token holds every permission, a user those of the admin roles assigned.
PermissionSet(caller) == IF caller = Token THEN Permissions ELSE PermissionsOf(db, caller)

Access(d) ==
    {p \in Users \X Targets :
        /\ d.name[p[1]] # None /\ d.target[p[2]] # None
        /\ \/ d.target[p[2]].public
           \/ \E r \in Roles : d.grant[<<p[1], r>>] = "active" /\ <<p[2], r>> \in d.opens}

\* username_taken: case does not distinguish two accounts.
UsernameTaken(name, excluding) ==
    \E u \in Users \ excluding : Exists(u) /\ Fold(db.name[u]) = Fold(name)

\* The unique indexes and the foreign keys that do not cascade.
Sound(d) ==
    /\ \A u, v \in Users : d.name[u] = d.name[v] /\ d.name[u] # None => u = v
    /\ \A s, t \in Targets : d.target[s] # None /\ d.target[t] # None /\ d.target[s].name = d.target[t].name => s = t
    /\ \A p \in Users \X Roles : d.grant[p] # None => d.name[p[1]] # None /\ p[2] \in d.roles
    /\ \A p \in d.admins : d.name[p[1]] # None /\ d.adminName[p[2]] # None
    /\ \A p \in d.opens : d.target[p[1]] # None /\ p[2] \in d.roles
    /\ \A k \in Tickets : d.ticket[k] # None => d.name[d.ticket[k].user] # None /\ d.target[d.ticket[k].target] # None
    /\ \A a \in Asks : d.ask[a] # None =>
          /\ d.name[d.ask[a].user] # None /\ d.target[d.ask[a].target] # None
          /\ d.ask[a].ticket = None \/ d.ticket[d.ask[a].ticket] # None
    /\ \A c \in d.creds : d.name[c[1]] # None

-----------------------------------------------------------------------------
(* Plans.                                                                  *)

Plan(needs, finds, hits, next) ==
    [needs |-> needs, guards |-> {}, finds |-> finds, hits |-> hits, next |-> next, first |-> {}, change |-> {}]

\* The endpoint is wrapped by guard_user_mutation.
Guarded(u, plan) == [plan EXCEPT !.guards = {u}]

\* close_sessions_no_longer_authorised follows the write.
Rechecking(pairs, plan) == [plan EXCEPT !.change = pairs]

OfUser(u) == {u} \X Targets
OfTarget(t) == Users \X {t}

(* Users.                                                                  *)

\* idempotent_grant: a new assignment, or one that is revived; an active one is left alone.
WithGrant(d, u, role) == [d EXCEPT !.grant[<<u, role>>] = "active"]

\* on_user_created: grant_default_roles.
WithDefaults(d, u) ==
    [d EXCEPT !.grant = [p \in Users \X Roles |-> IF p[1] = u /\ p[2] \in d.defaults THEN "active" ELSE d.grant[p]]]

CreateUser(r) ==
    Plan("UsersCreate", ~UsernameTaken(r.name, {}), db.name[r.user] = None,
         WithDefaults([db EXCEPT !.name[r.user] = r.name, !.otp[r.user] = FALSE], r.user))

UpdateUser(r) ==
    Guarded(r.user, Plan("UsersEdit", Exists(r.user) /\ ~UsernameTaken(r.name, {r.user}), Exists(r.user),
         [db EXCEPT !.name[r.user] = r.name, !.otp[r.user] = r.otp]))

\* Mutant: the user's ticket requests stay.
WithoutUser_Requests(d, u) ==
    [d EXCEPT !.grant = [p \in Users \X Roles |-> IF p[1] = u THEN None ELSE d.grant[p]],
              !.admins = {p \in d.admins : p[1] # u},
              !.ticket = [k \in Tickets |-> IF d.ticket[k] # None /\ d.ticket[k].user = u THEN None ELSE d.ticket[k]],
              !.creds = {c \in d.creds : c[1] # u},
              !.name[u] = None]

\* delete_user_records: the rows that refer to the user, its credentials by the cascade.
WithoutUser(d, u) ==
    LET Theirs(k) == d.ticket[k] # None /\ d.ticket[k].user = u
    IN [d EXCEPT !.grant = [p \in Users \X Roles |-> IF p[1] = u THEN None ELSE d.grant[p]],
                 !.admins = {p \in d.admins : p[1] # u},
                 !.ask = [a \in Asks |->
                    IF d.ask[a] # None /\ (d.ask[a].user = u \/ (d.ask[a].ticket # None /\ Theirs(d.ask[a].ticket)))
                    THEN None ELSE d.ask[a]],
                 !.ticket = [k \in Tickets |-> IF Theirs(k) THEN None ELSE d.ticket[k]],
                 !.creds = {c \in d.creds : c[1] # u},
                 !.name[u] = None]

\* The sessions are closed before the rows go.
DeleteUser(r) ==
    [Guarded(r.user, Plan("UsersDelete", Exists(r.user), TRUE, WithoutUser(db, r.user)))
        EXCEPT !.first = OfUser(r.user)]

UnlinkUser(r) ==
    Guarded(r.user, Plan("UsersEdit", Exists(r.user) /\ db.linked[r.user], Exists(r.user),
         [db EXCEPT !.linked[r.user] = FALSE]))

\* A server that is enabled knows the name.
AutoLinkUser(r) ==
    Guarded(r.user, Plan("UsersEdit", Exists(r.user) /\ ~db.linked[r.user], Exists(r.user),
         [db EXCEPT !.linked[r.user] = TRUE]))

\* Users of a directory server; one whose name is taken is left out.
ImportUser(r) ==
    Plan("UsersCreate", ~UsernameTaken(r.name, {}), db.name[r.user] = None,
         [CreateUser(r).next EXCEPT !.linked[r.user] = TRUE])

(* Roles of a user.                                                        *)

AddUserRole(r) ==
    Guarded(r.user, Plan("AccessRolesAssign", Exists(r.user) /\ r.role \in db.roles, TRUE,
         WithGrant(db, r.user, r.role)))

\* Mutant: the revoked role is not followed by a recheck.
DeleteUserRole_Silent(r) ==
    Guarded(r.user, Plan("AccessRolesAssign", db.grant[<<r.user, r.role>>] # None,
         db.grant[<<r.user, r.role>>] # None, [db EXCEPT !.grant[<<r.user, r.role>>] = "revoked"]))

DeleteUserRole(r) ==
    Rechecking(OfUser(r.user), Guarded(r.user, Plan("AccessRolesAssign",
         Exists(r.user) /\ r.role \in db.roles /\ db.grant[<<r.user, r.role>>] # None,
         db.grant[<<r.user, r.role>>] # None,
         [db EXCEPT !.grant[<<r.user, r.role>>] = "revoked"])))

\* A new expiry, which may already have passed, and no revocation.
UpdateUserRole(r) ==
    Rechecking(OfUser(r.user), Guarded(r.user, Plan("AccessRolesAssign",
         r.role \in db.roles /\ db.grant[<<r.user, r.role>>] # None,
         db.grant[<<r.user, r.role>>] # None,
         [db EXCEPT !.grant[<<r.user, r.role>>] = IF r.past THEN "expired" ELSE "active"])))

AddUserAdminRole(r) ==
    Guarded(r.user, Plan("AdminRolesManage",
         Exists(r.user) /\ db.adminName[r.admin] # None /\ <<r.user, r.admin>> \notin db.admins,
         <<r.user, r.admin>> \notin db.admins,
         [db EXCEPT !.admins = @ \cup {<<r.user, r.admin>>}]))

DeleteUserAdminRole(r) ==
    Guarded(r.user, Plan("AdminRolesManage", Exists(r.user) /\ <<r.user, r.admin>> \in db.admins, TRUE,
         [db EXCEPT !.admins = @ \ {<<r.user, r.admin>>}]))

(* Credentials of a user.                                                  *)

Credential(r, kind) == <<r.user, kind, r.by>>

\* A password that meets the policy.  The user is looked up after the insert.
CreatePassword(r) ==
    Guarded(r.user, Plan("UsersEdit", TRUE, TRUE, [db EXCEPT !.creds = @ \cup {Credential(r, "password")}]))

\* Mutant: the rank of the user is not compared with the caller's.
CreateOtp_Unguarded(r) ==
    Plan("UsersEdit", TRUE, TRUE, [db EXCEPT !.creds = @ \cup {Credential(r, "otp")}, !.otp[r.user] = TRUE])

\* require_otp_in_policy.
WithOtpRequired(d, u) == [d EXCEPT !.otp[u] = TRUE]

CreateOtp(r) ==
    Guarded(r.user, Plan("UsersEdit", TRUE, TRUE,
         WithOtpRequired([db EXCEPT !.creds = @ \cup {Credential(r, "otp")}], r.user)))

\* verify_user_not_ldap_linked: the keys of a linked user come from its directory.
OwnKeys(u) == ~db.linked[u]

CreatePublicKey(r) ==
    Guarded(r.user, Plan("UsersEdit", Exists(r.user) /\ OwnKeys(r.user), TRUE,
         [db EXCEPT !.creds = @ \cup {Credential(r, "publickey")}]))

\* The key's row now holds the caller's key.
UpdatePublicKey(r) ==
    Guarded(r.user, Plan("UsersEdit", Exists(r.user) /\ OwnKeys(r.user), r.cred \in db.creds,
         [db EXCEPT !.creds = (@ \ {r.cred}) \cup {Credential(r, "publickey")}]))

DeletePublicKey(r) ==
    Guarded(r.user, Plan("UsersEdit", OwnKeys(r.user) /\ r.cred \in db.creds, TRUE,
         [db EXCEPT !.creds = @ \ {r.cred}]))

\* A certificate for the caller's public key.
IssueCertificate(r) ==
    Guarded(r.user, Plan("UsersEdit", Exists(r.user), TRUE,
         [db EXCEPT !.creds = @ \cup {Credential(r, "certificate")}]))

CreateSso(r) ==
    Guarded(r.user, Plan("UsersEdit", TRUE, TRUE, [db EXCEPT !.creds = @ \cup {Credential(r, "sso")}]))

UpdateSso(r) ==
    Guarded(r.user, Plan("UsersEdit", TRUE, r.cred \in db.creds,
         [db EXCEPT !.creds = (@ \ {r.cred}) \cup {Credential(r, "sso")}]))

\* DeletePassword, DeleteOtp, RevokeCertificate and DeleteSso: the row of this user.
DropCredential(r, kind) ==
    Guarded(r.user, Plan("UsersEdit", r.cred \in db.creds /\ r.cred[1] = r.user /\ r.cred[2] = kind, TRUE,
         [db EXCEPT !.creds = @ \ {r.cred}]))

DeletePassword(r) == DropCredential(r, "password")
DeleteOtp(r) == DropCredential(r, "otp")
RevokeCertificate(r) == DropCredential(r, "certificate")
DeleteSso(r) == DropCredential(r, "sso")

(* Access roles and admin roles.                                           *)

\* roles::set_data.
WithRole(d, r) == [d EXCEPT !.defaults = IF r.default THEN @ \cup {r.role} ELSE @ \ {r.role}]

CreateRole(r) ==
    Plan("AccessRolesCreate", TRUE, r.role \notin db.roles,
         WithRole([db EXCEPT !.roles = @ \cup {r.role}], r))

UpdateRole(r) ==
    Plan("AccessRolesEdit", r.role \in db.roles, r.role \in db.roles,
         WithRole(db, r))

\* roles::delete, one transaction.
WithoutRole(d, role) ==
    [d EXCEPT !.roles = @ \ {role}, !.defaults = @ \ {role},
              !.grant = [p \in Users \X Roles |-> IF p[2] = role THEN None ELSE d.grant[p]],
              !.opens = {p \in @ : p[2] # role}]

DeleteRole(r) ==
    Rechecking(Users \X Targets, Plan("AccessRolesDelete", r.role \in db.roles, TRUE, WithoutRole(db, r.role)))

CreateAdminRole(r) ==
    Plan("AdminRolesManage", TRUE, db.adminName[r.admin] = None,
         [db EXCEPT !.adminName[r.admin] = r.name, !.admin[r.admin] = r.permissions])

UpdateAdminRole(r) ==
    Plan("AdminRolesManage", db.adminName[r.admin] # None, db.adminName[r.admin] # None,
         [db EXCEPT !.adminName[r.admin] = r.name, !.admin[r.admin] = r.permissions])

\* Not the built-in one, which is known by its name; its assignments are not deleted.
DeleteAdminRole(r) ==
    Plan("AdminRolesManage", db.adminName[r.admin] \notin {None, "warpgate:admin"}, TRUE,
         [db EXCEPT !.adminName[r.admin] = None, !.admin[r.admin] = {}])

(* Targets and groups.                                                     *)

\* targets::set_data.
WithTarget(d, t, data) == [d EXCEPT !.target[t] = data]

\* targets::update: the protocol stays.
KeepsProtocol(t, data) == db.target[t] # None => db.target[t].kind = data.kind

CreateTarget(r) ==
    Plan("TargetsCreate", TRUE, db.target[r.target] = None, WithTarget(db, r.target, r.data))

UpdateTarget(r) ==
    Rechecking(OfTarget(r.target), Plan("TargetsEdit", KeepsProtocol(r.target, r.data),
         db.target[r.target] # None, WithTarget(db, r.target, r.data)))

\* Mutant: the host key goes though another target uses it.
SpareHost_Never(d, t) == {d.target[t].host}

\* The known host of a deleted SSH target, unless another one uses it.
SpareHost(d, t) ==
    IF d.target[t].kind # "ssh" \/ \E s \in Targets \ {t} :
           d.target[s] # None /\ d.target[s].kind = "ssh" /\ d.target[s].host = d.target[t].host
    THEN {} ELSE {d.target[t].host}

\* targets::delete: every row that refers to the target, in the transaction that locks its tickets.
WithoutTarget(d, t) ==
    [d EXCEPT !.opens = {p \in @ : p[1] # t},
              !.ask = [a \in Asks |-> IF d.ask[a] # None /\ d.ask[a].target = t THEN None ELSE d.ask[a]],
              !.ticket = [k \in Tickets |-> IF d.ticket[k] # None /\ d.ticket[k].target = t THEN None ELSE d.ticket[k]],
              !.hosts = @ \ SpareHost(d, t),
              !.target[t] = None]

DeleteTarget(r) ==
    Rechecking(OfTarget(r.target), Plan("TargetsDelete", TRUE, db.target[r.target] # None,
        IF db.target[r.target] = None THEN db ELSE WithoutTarget(db, r.target)))

AddTargetRole(r) ==
    Plan("AccessRolesAssign", TRUE, <<r.target, r.role>> \notin db.opens,
         [db EXCEPT !.opens = @ \cup {<<r.target, r.role>>}])

RemoveTargetRole(r) ==
    Rechecking(OfTarget(r.target), Plan("AccessRolesAssign", TRUE, <<r.target, r.role>> \in db.opens,
         [db EXCEPT !.opens = @ \ {<<r.target, r.role>>}]))

CreateGroup(r) == Plan("TargetsCreate", TRUE, r.group \notin db.groups, [db EXCEPT !.groups = @ \cup {r.group}])

UpdateGroup(r) == Plan("TargetsEdit", r.group \in db.groups, r.group \in db.groups, db)

\* target_groups::delete: its targets stay, in no group.
WithoutGroup(d, g) ==
    [d EXCEPT !.groups = @ \ {g},
              !.target = [t \in Targets |->
                    IF d.target[t] # None /\ d.target[t].group = g THEN [d.target[t] EXCEPT !.group = None] ELSE d.target[t]]]

DeleteGroup(r) == Plan("TargetsDelete", r.group \in db.groups, TRUE, WithoutGroup(db, r.group))

(* Tickets and known hosts.                                                *)

CreateTicket(r) ==
    Plan("TicketsCreate", Exists(r.user) /\ db.target[r.target] # None, db.ticket[r.ticket] = None,
         [db EXCEPT !.ticket[r.ticket] = [user |-> r.user, target |-> r.target]])

\* delete_ticket_closing_sessions, with the requests that led to it.
WithoutTicket(d, k) ==
    [d EXCEPT !.ticket[k] = None,
              !.ask = [a \in Asks |-> IF d.ask[a] # None /\ d.ask[a].ticket = k THEN None ELSE d.ask[a]]]

DeleteTicket(r) == Plan("TicketsDelete", db.ticket[r.ticket] # None, TRUE, WithoutTicket(db, r.ticket))

AddKnownHost(r) == Plan("ConfigEdit", TRUE, TRUE, [db EXCEPT !.hosts = @ \cup {r.host}])
DeleteKnownHost(r) == Plan("ConfigEdit", r.host \in db.hosts, TRUE, [db EXCEPT !.hosts = @ \ {r.host}])

-----------------------------------------------------------------------------
(* Requests.                                                               *)

PlanOf(r) ==
    CASE r.op = "CreateUser" -> CreateUser(r)
      [] r.op = "UpdateUser" -> UpdateUser(r)
      [] r.op = "DeleteUser" -> DeleteUser(r)
      [] r.op = "UnlinkUser" -> UnlinkUser(r)
      [] r.op = "AutoLinkUser" -> AutoLinkUser(r)
      [] r.op = "ImportUser" -> ImportUser(r)
      [] r.op = "AddUserRole" -> AddUserRole(r)
      [] r.op = "DeleteUserRole" -> DeleteUserRole(r)
      [] r.op = "UpdateUserRole" -> UpdateUserRole(r)
      [] r.op = "AddUserAdminRole" -> AddUserAdminRole(r)
      [] r.op = "DeleteUserAdminRole" -> DeleteUserAdminRole(r)
      [] r.op = "CreatePassword" -> CreatePassword(r)
      [] r.op = "CreateOtp" -> CreateOtp(r)
      [] r.op = "CreatePublicKey" -> CreatePublicKey(r)
      [] r.op = "UpdatePublicKey" -> UpdatePublicKey(r)
      [] r.op = "DeletePublicKey" -> DeletePublicKey(r)
      [] r.op = "IssueCertificate" -> IssueCertificate(r)
      [] r.op = "CreateSso" -> CreateSso(r)
      [] r.op = "UpdateSso" -> UpdateSso(r)
      [] r.op = "DeletePassword" -> DeletePassword(r)
      [] r.op = "DeleteOtp" -> DeleteOtp(r)
      [] r.op = "RevokeCertificate" -> RevokeCertificate(r)
      [] r.op = "DeleteSso" -> DeleteSso(r)
      [] r.op = "CreateRole" -> CreateRole(r)
      [] r.op = "UpdateRole" -> UpdateRole(r)
      [] r.op = "DeleteRole" -> DeleteRole(r)
      [] r.op = "CreateAdminRole" -> CreateAdminRole(r)
      [] r.op = "UpdateAdminRole" -> UpdateAdminRole(r)
      [] r.op = "DeleteAdminRole" -> DeleteAdminRole(r)
      [] r.op = "CreateTarget" -> CreateTarget(r)
      [] r.op = "UpdateTarget" -> UpdateTarget(r)
      [] r.op = "DeleteTarget" -> DeleteTarget(r)
      [] r.op = "AddTargetRole" -> AddTargetRole(r)
      [] r.op = "RemoveTargetRole" -> RemoveTargetRole(r)
      [] r.op = "CreateGroup" -> CreateGroup(r)
      [] r.op = "UpdateGroup" -> UpdateGroup(r)
      [] r.op = "DeleteGroup" -> DeleteGroup(r)
      [] r.op = "CreateTicket" -> CreateTicket(r)
      [] r.op = "DeleteTicket" -> DeleteTicket(r)
      [] r.op = "AddKnownHost" -> AddKnownHost(r)
      [] r.op = "DeleteKnownHost" -> DeleteKnownHost(r)

Idle == [phase |-> "idle", req |-> None, change |-> {}, answer |-> None]

Init ==
    /\ db = Start
    /\ task = [q \in Requests |-> Idle]
    /\ live = {}
    /\ late = {}

Goto(q, record) == task' = [task EXCEPT ![q] = record]

\* AdminContext and guard_user_mutation: an administrator, whom the user does not outrank.
Admitted(r, plan) ==
    /\ PermissionSet(r.by) # {}
    /\ plan.needs \in PermissionSet(r.by)
    /\ \A u \in plan.guards : PermissionsOf(db, u) \subseteq PermissionSet(r.by)

Arrive(q, r) ==
    /\ task[q].phase = "idle"
    /\ Goto(q, IF Admitted(r, PlanOf(r)) THEN [Idle EXCEPT !.phase = "looking", !.req = r]
               ELSE [Idle EXCEPT !.answer = "denied"])
    /\ UNCHANGED <<db, live, late>>

\* The rows the handler looks up and its early returns.
Look(q) ==
    /\ task[q].phase = "looking"
    /\ LET plan == PlanOf(task[q].req)
       IN Goto(q, IF ~plan.finds THEN [Idle EXCEPT !.answer = "refused"]
                  ELSE [task[q] EXCEPT !.phase = IF plan.first = {} THEN "writing" ELSE "clearing"])
    /\ UNCHANGED <<db, live, late>>

\* close_sessions, when the sessions go before the rows.
Clear(q) ==
    /\ task[q].phase = "clearing"
    /\ live' = live \ PlanOf(task[q].req).first
    /\ late' = late \cap live'
    /\ Goto(q, [task[q] EXCEPT !.phase = "writing"])
    /\ UNCHANGED db

\* The statement, or the transaction, that changes the rows; the database may refuse it.
Write(q) ==
    /\ task[q].phase = "writing"
    /\ LET plan == PlanOf(task[q].req)
           done == plan.hits /\ Sound(plan.next)
           failure == IF plan.hits THEN "broken" ELSE "gone"
       IN /\ db' = IF done THEN plan.next ELSE db
          /\ Goto(q, IF ~done THEN [task[q] EXCEPT !.phase = "idle", !.answer = failure]
                     ELSE [task[q] EXCEPT !.phase = IF plan.change = {} THEN "idle" ELSE "rechecking",
                                          !.change = plan.change, !.answer = "ok"])
    /\ UNCHANGED <<live, late>>

\* close_sessions_no_longer_authorised: sessions are judged against the tables as they are.
Recheck(q) ==
    /\ task[q].phase = "rechecking"
    /\ live' = {p \in live : p \in task[q].change => p \in Access(db)}
    /\ late' = late \cap live'
    /\ Goto(q, [Idle EXCEPT !.answer = "ok"])
    /\ UNCHANGED db

\* The deletion of the user has closed the sessions, and the rows are still there.
Outgoing(p) == \E q \in Requests : task[q].phase = "writing" /\ p \in PlanOf(task[q].req).first

\* A session that a role admits opens; one ends by itself.
Open(p) ==
    /\ Watched /\ p \in Access(db) \ live
    /\ live' = live \cup {p}
    /\ late' = IF Outgoing(p) THEN late \cup {p} ELSE late
    /\ UNCHANGED <<db, task>>

Leave(p) == p \in live /\ live' = live \ {p} /\ late' = late \ {p} /\ UNCHANGED <<db, task>>

Next ==
    \/ \E q \in Requests :
        \/ \E r \in Inputs : Arrive(q, r)
        \/ Look(q) \/ Clear(q) \/ Write(q) \/ Recheck(q)
    \/ \E p \in Users \X Targets : Open(p) \/ Leave(p)

Spec == Init /\ [][Next]_vars

-----------------------------------------------------------------------------
(* Properties.                                                             *)

\* A session whose user may no longer reach its target is about to be re-checked, by a
\* request that names the user or the target (targets.rs, "nothing that can fail may come
\* between the two"; the premise of Revocation's TakeAway).  The exception is one that was
\* opened while its user was being deleted: the sessions are closed before the rows go,
\* nothing follows, and it outlives the account (api_delete_user, users.rs).
LossCovered ==
    \A p \in live : p \notin Access(db) =>
        \/ \E q \in Requests : task[q].phase = "rechecking" /\ p \in task[q].change
        \/ p \in late /\ ~Exists(p[1])

\* The users an administrator can log in as, through credentials of its choosing, hold no
\* permission that it lacks, as long as no one manages admin roles (guard_user_mutation).
PowersBounded ==
    \A u \in Users : \A c \in db.creds :
        c[3] = u => PermissionsOf(db, c[1]) \subseteq PermissionsOf(Start, u)

\* The transaction that deletes a user, a role, a target or a group leaves no row that would
\* refer to it, so the database does not refuse it (delete_user_records, resources).
DeletesWhole ==
    \A q \in Requests : task[q].answer = "broken" =>
        task[q].req.op \notin {"DeleteUser", "DeleteRole", "DeleteTarget", "DeleteGroup", "DeleteTicket"}

\* The host key of a target that stays is not forgotten with another target
\* (other_ssh_targets_use_host_port).
HostsKept ==
    \A t \in Targets :
        /\ db.target[t] # None /\ db'.target[t] = db.target[t]
        /\ db.target[t].kind = "ssh" /\ db.target[t].host \in db.hosts \ db'.hosts
        => \E q \in Requests : task[q].phase = "writing" /\ task[q].req.op = "DeleteKnownHost"

=============================================================================
