---------------------------- MODULE Provisioning ----------------------------
(***************************************************************************)
(* Users who come from a single sign-on provider: how a verified answer of *)
(* the provider is resolved to an account, which may be created on the     *)
(* spot, and how its groups are made the roles of that account.  Logins    *)
(* run at once, on any node, statement by statement and without a          *)
(* transaction; a statement may fail, and the client may go away.          *)
(*                                                                         *)
(* A user is a name.  Roles that are not managed by the provider are left  *)
(* to the administrators.                                                  *)
(***************************************************************************)
EXTENDS Naturals, FiniteSets

CONSTANTS
    Logins,
    Answer,     \* of a login: [identity, verified, preferred, groups, admins]
    AutoCreate, \* auto_create_users
    Mapping,    \* of a group: the roles it stands for; "*" is any group
    Defaults,   \* the default roles
    Linked,     \* the accounts there are: [user, identity]; identity Nobody without a credential
    Unmanaged,  \* roles the provider does not manage, which everyone there is holds
    AdminRoles, \* the administrative roles, each of which is a group of the provider
    Nobody,
    MaxFaults, Leaves \* bound on failed statements; whether clients go away

\* Assumed: Unmanaged \cap UNION {Mapping[g] : g \in DOMAIN Mapping} = {}

VARIABLES
    pc, name,   \* of a login: its step and the account it is resolved to
    users,      \* the names of the users
    credentials,\* SsoCredential: [user, identity]
    roles,      \* the active role assignments
    admins,     \* the administrative role assignments
    todo,       \* of a login: the managed roles it has yet to look at
    role, held, \* the role at hand, and whether the user was seen to hold it
    removed,    \* whether a login has taken a role away
    stale,      \* users who lost a role and whose sessions were not re-checked since
    overlaps,   \* the logins another one of the same user ran alongside
    faults

vars == <<pc, name, users, credentials, roles, admins, todo, role, held, removed, stale, overlaps, faults>>
Over == {"done", "refused", "failed", "gone"}
Names == {u.user : u \in Linked} \cup {Answer[l].preferred : l \in Logins}
Managed == UNION {Mapping[g] : g \in DOMAIN Mapping}

Init ==
    /\ pc = [l \in Logins |-> "new"] /\ name = [l \in Logins |-> Nobody]
    /\ users = {u.user : u \in Linked} /\ credentials = {u \in Linked : u.identity # Nobody}
    /\ roles = [n \in Names |-> IF n \in users THEN Unmanaged ELSE {}]
    /\ admins = [n \in Names |-> {}]
    /\ todo = [l \in Logins |-> {}] /\ role = [l \in Logins |-> Nobody]
    /\ held = [l \in Logins |-> FALSE] /\ removed = [l \in Logins |-> FALSE]
    /\ stale = {} /\ overlaps = {} /\ faults = 0

Goto(l, place) == pc' = [pc EXCEPT ![l] = place]
Busy(l) == pc[l] \notin Over \cup {"new"}

-----------------------------------------------------------------------------
(* The account.                                                            *)

\* resolve_sso_username and username_for_sso_credential: an address the provider says is not
\* verified resolves to nobody.
Resolve(l) ==
    LET answer == Answer[l]
        known == {c.user : c \in {d \in credentials : d.identity = answer.identity}} \cap users
    IN /\ pc[l] = "new"
       /\ IF ~answer.verified THEN Goto(l, "refused") /\ UNCHANGED name
          ELSE IF known # {} THEN /\ Goto(l, "mapping")
                                  /\ \E n \in known : name' = [name EXCEPT ![l] = n]
          ELSE Goto(l, IF AutoCreate THEN "creating" ELSE "refused") /\ UNCHANGED name
       /\ overlaps' = LET others == {k \in Logins \ {l} : Busy(k)}
                      IN IF others = {} THEN overlaps ELSE overlaps \cup others \cup {l}
       /\ UNCHANGED <<users, credentials, roles, admins, todo, role, held, removed, stale, faults>>

\* Mutant: a user of that name is taken for the one who signs in.
CheckName_Adopts(l) ==
    /\ pc[l] = "creating"
    /\ IF Answer[l].preferred \in users
       THEN Goto(l, "mapping") /\ name' = [name EXCEPT ![l] = Answer[l].preferred]
       ELSE Goto(l, "inserting") /\ UNCHANGED name
    /\ UNCHANGED <<users, credentials, roles, admins, todo, role, held, removed, stale, overlaps, faults>>

\* maybe_autocreate_sso_user, after the search of the directories: a user who has that name
\* and no matching credential is somebody else.
CheckName(l) ==
    /\ pc[l] = "creating"
    /\ Goto(l, IF Answer[l].preferred \in users THEN "failed" ELSE "inserting")
    /\ UNCHANGED <<name, users, credentials, roles, admins, todo, role, held, removed, stale, overlaps, faults>>

\* The user is inserted; names are unique.
InsertUser(l) ==
    /\ pc[l] = "inserting"
    /\ IF Answer[l].preferred \in users THEN Goto(l, "failed") /\ UNCHANGED <<users, name>>
       ELSE /\ Goto(l, "granting") /\ users' = users \cup {Answer[l].preferred}
            /\ name' = [name EXCEPT ![l] = Answer[l].preferred]
    /\ UNCHANGED <<credentials, roles, admins, todo, role, held, removed, stale, overlaps, faults>>

\* grant_default_roles, one by one.
GrantDefault(l) ==
    /\ pc[l] = "granting"
    /\ IF Defaults \subseteq roles[name[l]] THEN Goto(l, "linking") /\ UNCHANGED roles
       ELSE /\ \E r \in Defaults \ roles[name[l]] : roles' = [roles EXCEPT ![name[l]] = @ \cup {r}]
            /\ UNCHANGED pc
    /\ UNCHANGED <<name, users, credentials, admins, todo, role, held, removed, stale, overlaps, faults>>

\* Mutant: the credential of a user who was created is not stored.
InsertCredential_Not(l) ==
    /\ pc[l] = "linking" /\ Goto(l, "mapping")
    /\ UNCHANGED <<name, users, credentials, roles, admins, todo, role, held, removed, stale, overlaps, faults>>

InsertCredential(l) ==
    /\ pc[l] = "linking" /\ Goto(l, "mapping")
    /\ credentials' = credentials \cup {[user |-> name[l], identity |-> Answer[l].identity]}
    /\ UNCHANGED <<name, users, roles, admins, todo, role, held, removed, stale, overlaps, faults>>

-----------------------------------------------------------------------------
(* The roles.                                                              *)

\* Mutant: the wildcard also applies to an answer that names no group.
ActiveRoles_Everyone(groups) == Mapping["*"] \cup UNION {Mapping[g] : g \in groups \cap DOMAIN Mapping}

\* apply_sso_mappings: the roles an answer stands for.
ActiveRoles(groups) ==
    IF groups = {} THEN {}
    ELSE Mapping["*"] \cup UNION {Mapping[g] : g \in groups \cap DOMAIN Mapping}

BeginMapping(l) ==
    /\ pc[l] = "mapping" /\ Goto(l, "roles")
    /\ todo' = [todo EXCEPT ![l] = Managed]
    /\ UNCHANGED <<name, users, credentials, roles, admins, role, held, removed, stale, overlaps, faults>>

\* apply_sso_role_mappings: the assignment of the next managed role is read ...
ReadRole(l) ==
    /\ pc[l] = "roles" /\ todo[l] # {}
    /\ \E r \in todo[l] :
        /\ role' = [role EXCEPT ![l] = r]
        /\ held' = [held EXCEPT ![l] = r \in roles[name[l]]]
        /\ todo' = [todo EXCEPT ![l] = @ \ {r}]
    /\ Goto(l, "role")
    /\ UNCHANGED <<name, users, credentials, roles, admins, removed, stale, overlaps, faults>>

\* ... and written.  idempotent_grant reads it once more, and its insert may collide.
WriteRole(l) ==
    LET r == role[l]
        claimed == r \in ActiveRoles(Answer[l].groups)
    IN /\ pc[l] = "role"
       /\ IF claimed /\ ~held[l]
          THEN /\ roles' = [roles EXCEPT ![name[l]] = @ \cup {r}]
               /\ \/ Goto(l, "roles")
                  \/ r \in roles[name[l]] /\ Goto(l, "failing")
               /\ UNCHANGED <<removed, stale>>
          ELSE IF ~claimed /\ held[l]
          THEN /\ roles' = [roles EXCEPT ![name[l]] = @ \ {r}]
               /\ removed' = [removed EXCEPT ![l] = TRUE]
               /\ stale' = stale \cup {name[l]}
               /\ Goto(l, "roles")
          ELSE Goto(l, "roles") /\ UNCHANGED <<roles, removed, stale>>
       /\ UNCHANGED <<name, users, credentials, admins, todo, role, held, overlaps, faults>>

\* apply_sso_admin_role_mappings: the insert of an assignment that is there fails.
MapAdmins(l) ==
    LET claimed == Answer[l].admins IN
    /\ pc[l] = "roles" /\ todo[l] = {}
    /\ IF admins[name[l]] = claimed
       THEN Goto(l, IF removed[l] THEN "recheck" ELSE "done") /\ UNCHANGED admins
       ELSE /\ \E r \in AdminRoles :
                 /\ (r \in claimed) # (r \in admins[name[l]])
                 /\ admins' = [admins EXCEPT ![name[l]] = IF r \in claimed THEN @ \cup {r} ELSE @ \ {r}]
            /\ \/ UNCHANGED pc
               \/ l \in overlaps /\ Goto(l, "failing")
    /\ UNCHANGED <<name, users, credentials, roles, todo, role, held, removed, stale, overlaps, faults>>

\* resolve_and_map_sso_user: after a removal, and after an error, what the user has open is
\* re-checked, or the re-check is queued.
Recheck(l) ==
    /\ pc[l] \in {"recheck", "failing"}
    /\ stale' = stale \ {name[l]}
    /\ Goto(l, IF pc[l] = "recheck" THEN "done" ELSE "failed")
    /\ UNCHANGED <<name, users, credentials, roles, admins, todo, role, held, removed, overlaps, faults>>

\* Mutant: an error ends the login at once.
Fault_Returns(l) ==
    /\ Busy(l) /\ pc[l] \notin {"recheck", "failing"} /\ faults < MaxFaults /\ faults' = faults + 1
    /\ Goto(l, "failed")
    /\ UNCHANGED <<name, users, credentials, roles, admins, todo, role, held, removed, stale, overlaps>>

\* A statement fails.
Fault(l) ==
    /\ Busy(l) /\ pc[l] \notin {"recheck", "failing"} /\ faults < MaxFaults /\ faults' = faults + 1
    /\ Goto(l, IF pc[l] \in {"mapping", "roles", "role"} THEN "failing" ELSE "failed")
    /\ UNCHANGED <<name, users, credentials, roles, admins, todo, role, held, removed, stale, overlaps>>

\* The client goes away, and its request is dropped where it is.
Leave(l) ==
    /\ Leaves /\ Busy(l) /\ Goto(l, "gone")
    /\ UNCHANGED <<name, users, credentials, roles, admins, todo, role, held, removed, stale, overlaps, faults>>

Next == \E l \in Logins :
    \/ Resolve(l) \/ CheckName(l) \/ InsertUser(l) \/ GrantDefault(l) \/ InsertCredential(l)
    \/ BeginMapping(l) \/ ReadRole(l) \/ WriteRole(l) \/ MapAdmins(l) \/ Recheck(l)
    \/ Fault(l) \/ Leave(l)

Spec == Init /\ [][Next]_vars

-----------------------------------------------------------------------------
(* Properties.                                                             *)

\* Nobody signs in as an account that was neither created for nor linked to the identity the
\* provider vouches for, whatever name the provider prefers.
SignedInAsSelf ==
    \A l \in Logins : pc[l] = "done" =>
        [user |-> name[l], identity |-> Answer[l].identity] \in credentials

\* While no statement fails, an account that was created for an identity admits it again: only
\* logins that ran alongside each other get in each other's way.
ReturningAdmitted ==
    \A l, k \in Logins :
        /\ faults = 0 /\ pc[k] = "done" /\ Answer[k].identity = Answer[l].identity
        /\ Answer[l].verified /\ l \notin overlaps
        => pc[l] \notin {"failed", "refused"}

\* A login that ran alone leaves its user with the managed roles that one of its groups stands
\* for, all of them, and does not touch the others.
Claimed ==
    \A l \in Logins : pc[l] # "done" /\ pc'[l] = "done" /\ l \notin overlaps =>
          /\ \A r \in Managed : r \in roles'[name[l]] <=>
                 \E g \in Answer[l].groups : r \in Mapping["*"] \/ (g \in DOMAIN Mapping /\ r \in Mapping[g])
          /\ name[l] \in {u.user : u \in Linked} => Unmanaged \subseteq roles'[name[l]]
          /\ admins'[name[l]] = Answer[l].admins

\* What a user has open is re-checked after every removal of a role: nobody has lost a role
\* without a login still being about to re-check, errors included.
RemovalRechecked ==
    \A n \in stale : \E l \in Logins : name[l] = n /\ Busy(l)
=============================================================================
