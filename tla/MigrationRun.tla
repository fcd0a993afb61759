----------------------------- MODULE MigrationRun -----------------------------
(* Bringing a database up to date: lib.rs of warpgate-db-migrations and the    *)
(* part of sea-orm's migrator it calls.  Nodes of a cluster start at any time, *)
(* run what is pending statement by statement, die in the middle and start     *)
(* again, and are replaced by a later release.  A release is the pair of how   *)
(* many of upstream's and how many of the fork's own migrations it registers,  *)
(* so that a database has applied the fork's between upstream's while a fresh  *)
(* one applies them last.                                                      *)
EXTENDS Migrations

CONSTANTS Nodes,        \* the processes that open the database
          Upgrades,     \* whether the cluster is ever moved to a later release
          Origins,     \* pairs <<k, j>>: the first k of Upstream and the first j of Cove
          MaxCrashes,   \* bound on the crashes
          CrashIn,      \* the migrations (indexes of All) in the middle of which one comes
          MaxReverts    \* bound on the calls of migrate_database_down

\* Assumed: Origins \subseteq (0 .. Len(Upstream)) \X (0 .. Len(Cove))
\* Assumed: Upgrades \in BOOLEAN /\ MaxCrashes \in Nat /\ MaxReverts \in Nat

-------------------------------------------------------------------------------
(* The tables as the code of this release reads and writes them: the Models of *)
(* warpgate-db-entities.  "need" are the fields that are read as a value, so   *)
(* that a NULL in the column is an error, "opt" the ones that are an Option.   *)
(* Every field is written when a row is inserted.                              *)
AdminRole ==
    [table |-> "admin_roles", unique |-> {},
     need |-> {"id", "name", "description", "targets_create", "targets_edit", "targets_delete",
             "users_create", "users_edit", "users_delete", "access_roles_create", "access_roles_edit",
             "access_roles_delete", "access_roles_assign", "sessions_view", "sessions_terminate",
             "approve_sessions", "recordings_view", "tickets_create", "tickets_delete", "config_edit",
             "admin_roles_manage", "ticket_requests_manage"},
     opt |-> {}]

ApiToken ==
    [table |-> "api_tokens", unique |-> {},
     need |-> {"id", "user_id", "label", "secret_hash", "created", "expiry"},
     opt |-> {}]

CertificateCredential ==
    [table |-> "credentials_certificate", unique |-> {},
     need |-> {"id", "user_id", "label", "certificate_pem"},
     opt |-> {"date_added", "last_used"}]

CertificateRevocation ==
    [table |-> "certificate_revocations", unique |-> {},
     need |-> {"id", "serial_number_base64", "date_added"},
     opt |-> {}]

FailedLoginAttempt ==
    [table |-> "failed_login_attempts", unique |-> {},
     need |-> {"id", "username", "remote_ip", "protocol", "credential_type", "timestamp"},
     opt |-> {}]

HttpSession ==
    [table |-> "http_sessions", unique |-> {},
     need |-> {"id", "data", "updated"},
     opt |-> {"expires", "user_session_id", "sso_provider", "sso_subject", "sso_sid"}]

IpBlock ==
    [table |-> "ip_blocks", unique |-> {"ip_address"},
     need |-> {"id", "ip_address", "block_count", "blocked_at", "expires_at", "reason", "last_attempt_at"},
     opt |-> {}]

KnownHost ==
    [table |-> "known_hosts", unique |-> {},
     need |-> {"id", "host", "port", "key_type", "key_base64"},
     opt |-> {}]

LdapServer ==
    [table |-> "ldap_servers", unique |-> {"name"},
     need |-> {"id", "name", "host", "port", "bind_dn", "bind_password", "user_filter", "base_dns",
             "tls_mode", "tls_verify", "enabled", "auto_link_sso_users", "description", "username_attribute",
             "ssh_key_attribute", "uuid_attribute"},
     opt |-> {}]

LogEntry ==
    [table |-> "log", unique |-> {},
     need |-> {"id", "text", "target", "values", "timestamp"},
     opt |-> {"session_id", "username", "related_users", "related_access_roles", "related_admin_roles"}]

Node ==
    [table |-> "nodes", unique |-> {},
     need |-> {"id", "address", "hostname", "last_seen"},
     opt |-> {"tls_spki_sha256", "encryption_key_fingerprint"}]

OtpCredential ==
    [table |-> "credentials_otp", unique |-> {},
     need |-> {"id", "user_id", "secret_key"},
     opt |-> {}]

Parameters ==
    [table |-> "parameters", unique |-> {},
     need |-> {"id", "allow_own_credential_management", "ca_certificate_pem", "ca_private_key_pem",
             "ssh_client_auth_publickey", "ssh_client_auth_password", "ssh_client_auth_keyboard_interactive",
             "ssh_host_key_verification", "password_login_mode", "sso_auto_redirect", "mfa_enforcement",
             "mfa_policy_exempt_sso_users", "ticket_self_service_enabled", "ticket_auto_approve_existing_access",
             "ticket_require_description", "ticket_request_show_all_targets", "target_click_action",
             "open_targets_in_new_tab", "show_session_menu", "password_policy_min_length",
             "password_policy_require_uppercase", "password_policy_require_lowercase",
             "password_policy_require_digits", "password_policy_require_special", "record_scp",
             "record_desktop_keyboard_input", "tutorial_dismissed", "login_protection_enabled",
             "login_protection_retention_seconds", "lp_ip_max_attempts", "lp_ip_time_window_seconds",
             "lp_ip_base_block_duration_seconds", "lp_ip_block_duration_multiplier",
             "lp_ip_max_block_duration_seconds", "lp_ip_cooldown_reset_seconds", "lp_user_max_attempts",
             "lp_user_time_window_seconds", "lp_user_auto_unlock", "lp_user_lockout_duration_seconds",
             "lp_user_exempt_admins", "lp_ip_exempt_cidrs", "banner", "web_clients_enabled", "analytics_consent",
             "analytics_normal", "analytics_instance_id", "instance_created_at", "recordings_enable",
             "recordings_storage", "default_credential_policy", "ssh_host_key_ed25519", "ssh_host_key_rsa"},
     opt |-> {"rate_limit_bytes_per_second", "ticket_max_duration_seconds", "ticket_max_uses",
             "max_api_token_duration_seconds", "web_auth_max_age_seconds", "web_approval_grace_period_seconds",
             "admin_approval_timeout_seconds", "admin_approval_grace_period_seconds", "encryption_key_fp",
             "retiring_key_fp", "logo"}]

PasswordCredential ==
    [table |-> "credentials_password", unique |-> {},
     need |-> {"id", "user_id", "argon_hash"},
     opt |-> {}]

PublicKeyCredential ==
    [table |-> "credentials_public_key", unique |-> {},
     need |-> {"id", "user_id", "label", "openssh_public_key"},
     opt |-> {"date_added", "last_used", "last_sso_at"}]

Recording ==
    [table |-> "recordings", unique |-> {},
     need |-> {"id", "name", "started", "session_id", "kind", "metadata", "generation"},
     opt |-> {"ended"}]

Role ==
    [table |-> "roles", unique |-> {},
     need |-> {"id", "name", "description", "is_default"},
     opt |-> {}]

SecretBackend ==
    [table |-> "secret_backends", unique |-> {"name"},
     need |-> {"id", "name", "backend_type", "address", "auth", "tls_skip_verify", "allowed_paths"},
     opt |-> {"namespace"}]

SessionApprovalRequest ==
    [table |-> "session_approval_requests", unique |-> {},
     need |-> {"session_id", "kind", "node_id", "protocol", "username", "user_id", "target", "started",
             "status"},
     opt |-> {"remote_address", "identification_string", "match_digest", "ticket_id", "scope",
             "resolved_by_username", "resolved_by_user_id", "resolved_at", "consumed_at"}]

SshClientKey ==
    [table |-> "ssh_client_keys", unique |-> {},
     need |-> {"id", "label", "secret_key", "public_key", "is_default"},
     opt |-> {}]

SsoCredential ==
    [table |-> "credentials_sso", unique |-> {},
     need |-> {"id", "user_id", "email"},
     opt |-> {"provider"}]

TargetRow ==
    [table |-> "targets", unique |-> {},
     need |-> {"id", "name", "description", "kind", "options", "ticket_requests_disabled",
             "ticket_require_approval", "require_approval"},
     opt |-> {"rate_limit_bytes_per_second", "group_id", "ticket_max_duration_seconds", "ticket_max_uses"}]

TargetGroup ==
    [table |-> "target_groups", unique |-> {},
     need |-> {"id", "name", "description"},
     opt |-> {"color"}]

TargetRoleAssignment ==
    [table |-> "target_roles", unique |-> {},
     need |-> {"target_id", "role_id"},
     opt |-> {}]

TargetSession ==
    [table |-> "target_sessions", unique |-> {},
     need |-> {"id", "user_session_id", "target_snapshot", "target_id", "started"},
     opt |-> {"ended", "ticket_id", "node_id"}]

Ticket ==
    [table |-> "tickets", unique |-> {},
     need |-> {"id", "secret_hash", "user_id", "description", "target_id", "self_service", "created"},
     opt |-> {"uses_left", "expiry"}]

TicketRequest ==
    [table |-> "ticket_requests", unique |-> {},
     need |-> {"id", "user_id", "target_id", "description", "status", "created"},
     opt |-> {"requested_duration_seconds", "resolved_by_user_id", "ticket_id", "resolved_at",
             "deny_reason"}]

UserRow ==
    [table |-> "users", unique |-> {"username"},
     need |-> {"id", "username", "credential_policy", "description", "allowed_ip_ranges"},
     opt |-> {"rate_limit_bytes_per_second", "ldap_server_id", "ldap_object_uuid"}]

UserAdminRoleAssignment ==
    [table |-> "user_admin_roles", unique |-> {},
     need |-> {"user_id", "admin_role_id"},
     opt |-> {}]

UserLockout ==
    [table |-> "user_lockouts", unique |-> {"username"},
     need |-> {"id", "username", "locked_at", "reason", "failed_attempt_count"},
     opt |-> {"expires_at"}]

UserRoleAssignment ==
    [table |-> "user_roles", unique |-> {},
     need |-> {"user_id", "role_id"},
     opt |-> {"granted_at", "expires_at", "revoked_at"}]

UserSession ==
    [table |-> "user_sessions", unique |-> {},
     need |-> {"id", "remote_address", "started", "protocol"},
     opt |-> {"username", "user_id", "ended", "node_id", "auth_state_node_id"}]

Entities == {AdminRole, ApiToken, CertificateCredential, CertificateRevocation, FailedLoginAttempt, HttpSession,
  IpBlock, KnownHost, LdapServer, LogEntry, Node, OtpCredential, Parameters, PasswordCredential,
  PublicKeyCredential, Recording, Role, SecretBackend, SessionApprovalRequest, SshClientKey,
  SsoCredential, TargetRow, TargetGroup, TargetRoleAssignment, TargetSession, Ticket, TicketRequest,
  UserRow, UserAdminRoleAssignment, UserLockout, UserRoleAssignment, UserSession}

-------------------------------------------------------------------------------
All == Upstream \o Cove
Newest == <<Len(Upstream), Len(Cove)>>

VARIABLES db,        \* table -> columns, indexes, columns that may hold NULL
          applied,   \* seaql_migrations
          release,
          proc,      \* node -> what it is doing
          saved,     \* what a roll back restores
          crashes, reverts,
          torn       \* history: pairs <<migration, whether up>> that were cut off with a
                     \* part kept, and not completed since

vars == <<db, applied, release, proc, saved, crashes, reverts, torn>>

(* Of a node: its state, the direction, the migrations left, the statements    *)
(* left of the first of them, and whether one of it was carried out.           *)
Off == [st |-> "off", up |-> TRUE, left |-> <<>>, ops |-> <<>>, begun |-> FALSE]

(* PostgreSQL: sea-orm runs the whole of up or down in a transaction; SQLite:  *)
(* run_maybe_in_tx does.  MySQL has none, and commits at every DDL statement.  *)
Transactional == Backend # "mysql"

migrations(r) == [i \in 1 .. r[1] |-> i] \o [i \in 1 .. r[2] |-> Len(Upstream) + i]
Pending(r) == SelectSeq(migrations(r), LAMBDA i : i \notin applied)
Registered(r) == (1 .. r[1]) \cup {Len(Upstream) + i : i \in 1 .. r[2]}
LastApplied(r) == SelectSeq(migrations(r), LAMBDA i : i \in applied)

Later(r) == {s \in Origins : s # r /\ s[1] >= r[1] /\ s[2] >= r[2]}

Init ==
    /\ db = <<>>
    /\ applied = {}
    /\ release \in Origins
    /\ proc = [n \in Nodes |-> Off]
    /\ saved = <<>>
    /\ crashes = 0
    /\ reverts = 0
    /\ torn = {}

Working(n) == proc[n].st = "working"

\* Faulty variant: no lock is taken.
Locked_Never == FALSE

(* run_locked: an advisory lock of the session, waited for; a SQLite file has  *)
(* one process and no lock.                                                    *)
Locked == \E n \in Nodes : Working(n)

Start(n) ==
    /\ proc[n].st = "off"
    /\ proc' = [proc EXCEPT ![n].st = "waiting"]
    /\ UNCHANGED <<db, applied, release, saved, crashes, reverts, torn>>

Snapshot == IF Transactional THEN [db |-> db, applied |-> applied] ELSE <<>>

(* The statements of the migration at the head of the list.                    *)
Laid(left, up) ==
    IF left = <<>> THEN <<>> ELSE IF up THEN All[Head(left)].up ELSE All[Head(left)].down

(* migrate_database, once the lock is held: the names in the table must all be *)
(* registered, and what is pending is worked out after the lock was taken.     *)
migrate_database(n) ==
    /\ proc[n].st = "waiting"
    /\ ~Locked
    /\ LET pending == Pending(release) IN
         proc' = [proc EXCEPT ![n] =
           IF applied \subseteq Registered(release)
           THEN [Off EXCEPT !.st = "working", !.left = pending, !.ops = Laid(pending, TRUE)]
           ELSE [@ EXCEPT !.st = "failed"]]
    /\ saved' = Snapshot
    /\ UNCHANGED <<db, applied, release, crashes, reverts, torn>>

(* migrate_database_down for one step, by an operator, while nothing else runs *)
(* (it takes no lock).                                                         *)
migrate_database_down(n) ==
    /\ proc[n].st \in {"off", "up"} /\ ~\E k \in Nodes : Working(k)
    /\ reverts < MaxReverts
    /\ applied # {} /\ applied \subseteq Registered(release)
    /\ LET done == LastApplied(release)
           last == <<done[Len(done)]>>
           run == [Off EXCEPT !.st = "working", !.up = FALSE, !.left = last, !.ops = Laid(last, FALSE)]
       IN proc' = [k \in Nodes |-> IF k = n THEN run ELSE Off]
    /\ saved' = Snapshot
    /\ reverts' = reverts + 1
    /\ UNCHANGED <<db, applied, release, crashes, torn>>

\* Faulty variant: nothing is rolled back.
RolledBack_Not == UNCHANGED <<db, applied>>

RolledBack == /\ db' = IF Transactional THEN saved.db ELSE db
              /\ applied' = IF Transactional THEN saved.applied ELSE applied

(* Without a transaction, the statements that were carried out stay.           *)
CutOff(n) ==
    LET p == proc[n] IN
    torn' = IF ~Transactional /\ p.begun THEN torn \cup {<<Head(p.left), p.up>>} ELSE torn

(* The next statement, or its failure, which ends the run and rolls back what  *)
(* can be.                                                                     *)
Statement(n) ==
    /\ Working(n) /\ proc[n].ops # <<>>
    /\ IF Accepts(db, Head(proc[n].ops))
       THEN /\ db' = Done(db, Head(proc[n].ops))
            /\ proc' = [proc EXCEPT ![n].ops = Tail(@), ![n].begun = TRUE]
            /\ UNCHANGED <<applied, torn>>
       ELSE /\ RolledBack /\ CutOff(n)
            /\ proc' = [proc EXCEPT ![n] = [proc[n] EXCEPT !.st = "failed"]]
    /\ UNCHANGED <<release, saved, crashes, reverts>>

(* The migration is recorded, or its record removed, and the next one begins.  *)
Record(n) ==
    /\ Working(n) /\ proc[n].ops = <<>> /\ proc[n].left # <<>>
    /\ LET p == proc[n] IN
         /\ applied' = IF p.up THEN applied \cup {Head(p.left)} ELSE applied \ {Head(p.left)}
         /\ proc' = [proc EXCEPT ![n] = [p EXCEPT !.left = Tail(@), !.ops = Laid(Tail(p.left), p.up), !.begun = FALSE]]
         /\ torn' = torn \ {<<Head(p.left), p.up>>}
    /\ UNCHANGED <<db, release, saved, crashes, reverts>>

(* The run is committed; the node serves, and writes rows.                     *)
Commit(n) ==
    /\ Working(n) /\ proc[n].left = <<>>
    /\ proc' = [proc EXCEPT ![n] = IF @.up THEN [Off EXCEPT !.st = "up"] ELSE Off]
    /\ db' = IF proc[n].up THEN [t \in DOMAIN db |-> [db[t] EXCEPT !.rows = TRUE]] ELSE db
    /\ saved' = <<>>
    /\ UNCHANGED <<applied, release, crashes, reverts, torn>>

Crash(n) ==
    /\ crashes < MaxCrashes
    /\ Working(n) /\ proc[n].left # <<>> /\ Head(proc[n].left) \in CrashIn
    /\ RolledBack /\ CutOff(n)
    /\ proc' = [proc EXCEPT ![n] = Off]
    /\ crashes' = crashes + 1
    /\ UNCHANGED <<release, saved, reverts>>

(* The cluster is stopped and started with a later release.                    *)
Upgrade ==
    /\ Upgrades
    /\ \A n \in Nodes : proc[n].st = "up"
    /\ release' \in Later(release)
    /\ proc' = [n \in Nodes |-> Off]
    /\ UNCHANGED <<db, applied, saved, crashes, reverts, torn>>

Step(n) == \/ Start(n) \/ migrate_database(n) \/ Statement(n) \/ Record(n) \/ Commit(n)

Next == \/ \E n \in Nodes : Step(n) \/ migrate_database_down(n) \/ Crash(n)
        \/ Upgrade

Spec == Init /\ [][Next]_vars
(* A node that was started goes on, and the one that died is started again.    *)
FairSpec == Spec /\ \A n \in Nodes : WF_vars(Step(n))

-------------------------------------------------------------------------------
(* Properties.                                                                 *)

(* Statements that are accepted once more after they were carried out.         *)
Repeatable(op) == op.do \in {"loosen", "tighten", "retype", "data", "fill"} \/ (op.do = "index" /\ op.again)
(* An up or a down of which a part was kept, that cannot be begun again.       *)
HalfDone(m, up) ==
    /\ <<m, up>> \in torn
    /\ LET ops == Laid(<<m>>, up) IN \E i \in DOMAIN ops : ~Repeatable(ops[i])

(* On MySQL, a revert that was cut off leaves its migration recorded, and what *)
(* it undid is not done again: the schema is whatever it is then.              *)
Damaged == \E t \in torn : t[1] \in applied /\ HalfDone(t[1], FALSE)

Serving == release = Newest /\ ~Damaged /\ \E n \in Nodes : proc[n].st = "up"

Kinds(t, kinds) == {c \in DOMAIN db[t].cols : db[t].cols[c] \in kinds}

(* Once a node of this release serves, every table has the columns its Model   *)
(* reads and writes, requires no column that an insert by the Model leaves     *)
(* out, and enforces the uniqueness the Model declares (upserts of the login   *)
(* protection rely on it), whatever releases the database went through.        *)
Fits ==
    Serving => \A e \in Entities :
        /\ e.table \in DOMAIN db
        /\ e.need \cup e.opt \subseteq Columns(db, e.table)
        /\ Kinds(e.table, {"need"}) \subseteq e.need \cup e.opt
        /\ \A c \in e.unique : \E i \in db[e.table].idx : i.unique /\ i.on = {c}

(* What a column added without a default leaves in the rows that are there:    *)
(* MySQL has none for a text column, and nothing fills it in afterwards.       *)
LeftBlank(t) == IF Backend = "mysql" /\ t = "recordings" THEN {"metadata"} ELSE {}

(* Once a node of this release serves, no row written under an earlier one     *)
(* holds NULL where the Model reads a value, which would make it unreadable:   *)
(* none but, on MySQL, the recordings made before m00030.                      *)
Readable ==
    Serving => \A e \in Entities : e.table \in DOMAIN db => e.need \cap db[e.table].blank \subseteq LeftBlank(e.table)

IndexesMade == UNION {{m.up[i].n : i \in {j \in DOMAIN m.up : m.up[j].do = "index"}} : m \in {All[k] : k \in DOMAIN All}}
(* Those the primary keys of m00078 replace.                                   *)
Redundant == {"idx_user_roles_user_role", "idx_target_roles_target_role"}
(* Kept although nothing reads it.                                             *)
Leftover(t) == IF t = "credentials_certificate" THEN {"last_sso_at"} ELSE {}

(* The schema an upgraded database ends with is the one a fresh database gets, *)
(* although the fork's migrations were applied earlier in it than the order    *)
(* they are registered in: exactly the tables and columns of this release, and *)
(* every index a migration made, none lost when a later one rebuilt its table. *)
OneSchema ==
    Serving =>
        /\ DOMAIN db = {e.table : e \in Entities}
        /\ \A e \in Entities : Columns(db, e.table) = e.need \cup e.opt \cup Leftover(e.table)
        /\ \A n \in IndexesMade : HasIndex(db, n) <=> n \notin Redundant

(* A start brings the database up to date: no statement is refused, neither    *)
(* because another node has executed it, nor because an earlier attempt died   *)
(* in the middle, nor because rows hold NULL in a column that is tightened.    *)
(* The one exception is MySQL, which keeps the statements that were carried    *)
(* out: there a start is refused, and so is every later one, at the very       *)
(* migration in whose middle an earlier one died, unless each of its           *)
(* statements looks first (m00089), or because a revert was cut off.           *)
NeverRefused ==
    \A n \in Nodes : proc[n].st = "failed" /\ proc[n].up =>
        proc[n].left # <<>> /\ (HalfDone(Head(proc[n].left), TRUE) \/ Damaged)

(* SQLite drops neither several columns at once nor one that an index covers.  *)
SqliteRefuses(m) ==
    /\ Backend = "sqlite"
    /\ m \in {m00033_add_log_target, m00034_add_log_related_fields, m00050_password_policy}

(* A revert succeeds, unless the migration declares itself irreversible (then  *)
(* the down panics), SQLite refuses its statements, or MySQL has kept a part   *)
(* of it that was carried out before.                                          *)
RevertsSucceed ==
    \A n \in Nodes : proc[n].st = "failed" /\ ~proc[n].up =>
        LET m == Head(proc[n].left) IN
        All[m].down = <<Panic>> \/ SqliteRefuses(All[m]) \/ HalfDone(m, FALSE)
===============================================================================
