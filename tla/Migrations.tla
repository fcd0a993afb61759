------------------------------ MODULE Migrations ------------------------------
(* The migrations of warpgate-db-migrations: for each, the statements its up   *)
(* executes, in order, and those of its down, and what a statement does to the *)
(* schema.  A step that only rewrites rows is Data (the columns it names must  *)
(* exist), Fill (afterwards the columns hold no NULL) or Copy.  A down that    *)
(* the code panics in is <<Panic>>.                                            *)
EXTENDS Integers, Sequences, FiniteSets

CONSTANT Backend
\* Assumed: Backend \in {"postgres", "mysql", "sqlite"}

-------------------------------------------------------------------------------
(* The statements that migrations of warpgate-db-migrations are made of, and   *)
(* what each does to the schema of a database.  A table is abstracted to the   *)
(* kind of each of its columns ("need": NOT NULL without a default, "def": NOT *)
(* NULL with one, "null"), to its indexes, to whether rows have been written   *)
(* and to the set of the columns that rows may hold NULL in.  What the data    *)
(* steps compute is in MigrationData.                                          *)

Columns(db, t) == DOMAIN db[t].cols
HasIndex(db, n) == \E t \in DOMAIN db : \E i \in db[t].idx : i.name = n

Unique(c) == [name |-> c, on |-> {c}, unique |-> TRUE]

(* The statements.                                                             *)
Create(t, need, null) == [do |-> "create", t |-> t, need |-> need, null |-> null, uniq |-> {}]
CreateUnique(t, need, null, uniq) == [Create(t, need, null) EXCEPT !.uniq = uniq]
DropTable(t) == [do |-> "drop_table", t |-> t]
RenameTable(t, u) == [do |-> "rename_table", t |-> t, to |-> u]
AddNull(t, cs) == [do |-> "add", t |-> t, cs |-> cs, kind |-> "null", filled |-> FALSE]
AddNullFilled(t, cs) == [AddNull(t, cs) EXCEPT !.filled = TRUE]
AddDef(t, cs) == [do |-> "add", t |-> t, cs |-> cs, kind |-> "def", filled |-> TRUE]
DropColumns(t, cs) == [do |-> "drop", t |-> t, cs |-> cs]
RenameColumn(t, c, d) == [do |-> "rename", t |-> t, c |-> c, to |-> d]
Loosen(t, cs) == [do |-> "loosen", t |-> t, cs |-> cs]
Tighten(t, cs) == [do |-> "tighten", t |-> t, cs |-> cs]
Retype(t, c) == [do |-> "retype", t |-> t, c |-> c]
Index(t, n, cs) == [do |-> "index", t |-> t, n |-> n, cs |-> cs, unique |-> FALSE, again |-> FALSE]
UniqueIndex(t, n, cs) == [Index(t, n, cs) EXCEPT !.unique = TRUE]
IndexIfMissing(t, n, cs) == [Index(t, n, cs) EXCEPT !.again = TRUE]
Unindex(t, n) == [do |-> "unindex", t |-> t, n |-> n]
Data(t, cs) == [do |-> "data", t |-> t, cs |-> cs]
Fill(t, cs) == [do |-> "fill", t |-> t, cs |-> cs]
Copy(t, u, cs) == [do |-> "copy", t |-> t, to |-> u, cs |-> cs]
Panic == [do |-> "panic", t |-> ""]

(* One ALTER TABLE per column, statements that SQLite is spared, and a rebuilt *)
(* table that takes the place of the old one.                                  *)
AddDefs(t, cs) == [i \in DOMAIN cs |-> AddDef(t, {cs[i]})]
AddNulls(t, cs) == [i \in DOMAIN cs |-> AddNull(t, {cs[i]})]
Drops(t, cs) == [i \in DOMAIN cs |-> DropColumns(t, {cs[i]})]
OnServers(ops) == IF Backend = "sqlite" THEN <<>> ELSE ops
Swap(t, tmp, need, null) ==
    <<Create(tmp, need, null), Copy(t, tmp, need \cup null), DropTable(t), RenameTable(tmp, t)>>
Numbered(t, tmp, need, null) ==
    <<Create(tmp, need, null \cup {"id"}), Copy(t, tmp, need \cup null), DropTable(t), RenameTable(tmp, t)>>

(* Whether the backend accepts the statement.  SQLite takes one change per     *)
(* ALTER TABLE and does not drop a column that an index covers.                *)
Accepts(db, op) ==
    /\ op.do # "panic"
    /\ op.do = "create" => op.t \notin DOMAIN db
    /\ op.do # "create" => op.t \in DOMAIN db
    /\ op.do = "rename_table" => op.to \notin DOMAIN db
    /\ op.do \in {"drop", "loosen", "tighten", "data", "fill", "copy"} => op.cs \subseteq Columns(db, op.t)
    /\ op.do \in {"rename", "retype"} => op.c \in Columns(db, op.t)
    /\ op.do = "rename" => op.to \notin Columns(db, op.t)
    /\ op.do = "add" => op.cs \cap Columns(db, op.t) = {}
    /\ op.do = "tighten" => op.cs \cap db[op.t].blank = {}
    /\ op.do = "index" => op.cs \subseteq Columns(db, op.t) /\ (op.again \/ ~HasIndex(db, op.n))
    /\ op.do = "unindex" => \E i \in db[op.t].idx : i.name = op.n
    /\ op.do = "copy" =>
         /\ op.to \in DOMAIN db
         /\ {c \in Columns(db, op.to) : db[op.to].cols[c] = "need"} \subseteq op.cs
         /\ \A c \in op.cs \cap db[op.t].blank : db[op.to].cols[c] = "null"
    /\ Backend = "sqlite" =>
         /\ op.do \notin {"loosen", "tighten", "retype"}
         /\ op.do = "drop" => Cardinality(op.cs) = 1 /\ \A i \in db[op.t].idx : i.on \cap op.cs = {}

(* What the statement makes of the table it is about.                          *)
Renamed(op, c) == IF c = op.c THEN op.to ELSE c
RenamedBack(op, c) == IF c = op.to THEN op.c ELSE c
Altered(tab, op) ==
    CASE op.do = "add" ->
           [tab EXCEPT !.cols = [c \in DOMAIN tab.cols \cup op.cs |-> IF c \in op.cs THEN op.kind ELSE tab.cols[c]],
                       !.blank = IF op.filled \/ ~tab.rows THEN @ ELSE @ \cup op.cs]
      [] op.do = "drop" ->
           [tab EXCEPT !.cols = [c \in DOMAIN @ \ op.cs |-> @[c]],
                       !.idx = {i \in @ : i.on \cap op.cs = {}}, !.blank = @ \ op.cs]
      [] op.do = "rename" ->
           [tab EXCEPT !.cols = [c \in {Renamed(op, d) : d \in DOMAIN @} |-> @[RenamedBack(op, c)]],
                       !.idx = {[i EXCEPT !.on = {Renamed(op, c) : c \in @}] : i \in @},
                       !.blank = {Renamed(op, c) : c \in @}]
      [] op.do = "loosen" ->
           [tab EXCEPT !.cols = [c \in DOMAIN @ |-> IF c \in op.cs THEN "null" ELSE @[c]], !.blank = @ \cup op.cs]
      [] op.do = "tighten" ->
           [tab EXCEPT !.cols = [c \in DOMAIN @ |-> IF c \in op.cs THEN "need" ELSE @[c]]]
      \* MySQL's MODIFY states the whole column: what does not say NOT NULL is nullable
      [] op.do = "retype" -> IF Backend = "mysql" THEN [tab EXCEPT !.cols[op.c] = "null"] ELSE tab
      [] op.do = "index" ->
           IF \E i \in tab.idx : i.name = op.n THEN tab
           ELSE [tab EXCEPT !.idx = @ \cup {[name |-> op.n, on |-> op.cs, unique |-> op.unique]}]
      [] op.do = "unindex" -> [tab EXCEPT !.idx = {i \in @ : i.name # op.n}]
      [] op.do = "data" -> tab
      [] op.do = "fill" -> [tab EXCEPT !.blank = @ \ op.cs]

Without(db, t) == [u \in DOMAIN db \ {t} |-> db[u]]
With(db, t, tab) == [u \in DOMAIN db \cup {t} |-> IF u = t THEN tab ELSE db[u]]

Created(op) ==
    [cols |-> [c \in op.need \cup op.null |-> IF c \in op.need THEN "need" ELSE "null"],
     idx |-> {Unique(c) : c \in op.uniq}, blank |-> op.null, rows |-> FALSE]

(* The database after a statement it accepts.                                  *)
Done(db, op) ==
    CASE op.do = "create" -> With(db, op.t, Created(op))
      [] op.do = "drop_table" -> Without(db, op.t)
      [] op.do = "rename_table" -> With(Without(db, op.t), op.to, db[op.t])
      [] op.do = "copy" ->
           [db EXCEPT ![op.to].blank = @ \cap (db[op.t].blank \cup (Columns(db, op.to) \ op.cs)),
                      ![op.to].rows = db[op.t].rows]
      [] OTHER -> With(db, op.t, Altered(db[op.t], op))

-------------------------------------------------------------------------------

Steps(up, down) == [up |-> up, down |-> down]
P == "parameters"

m00001_create_ticket == Steps(
    <<Create("tickets", {"id", "secret", "username", "target", "created"}, {"uses_left",
      "expiry"})>>,
    <<DropTable("tickets")>>)

m00002_create_session == Steps(
    <<Create("sessions", {"id", "remote_address", "started"}, {"target_snapshot", "username",
      "ended", "ticket_id"})>>,
    <<DropTable("sessions")>>)

m00003_create_recording == Steps(
    <<Create("recordings", {"id", "name", "started", "session_id", "kind"}, {"ended"}),
      UniqueIndex("recordings", "recording__unique__session_id__name", {"session_id", "name"})>>,
    <<DropTable("recordings")>>)

m00004_create_known_host == Steps(
    <<Create("known_hosts", {"id", "host", "port", "key_type", "key_base64"}, {})>>,
    <<DropTable("known_hosts")>>)

m00005_create_log_entry == Steps(
    <<Create("log", {"id", "text", "values", "timestamp", "session_id"}, {"username"}),
      Index("log", "log_entry__timestamp_session_id", {"timestamp", "session_id"}), Index("log",
      "log_entry__session_id", {"session_id"}), Index("log", "log_entry__username",
      {"username"})>>,
    <<DropTable("log")>>)

m00006_add_session_protocol ==
    Steps(<<AddDef("sessions", {"protocol"})>>, <<DropColumns("sessions", {"protocol"})>>)

role == Create("roles", {"id", "name"}, {})

target == Create("targets", {"id", "name", "kind", "options"}, {})
target_role_assignment == Create("target_roles", {"id", "target_id", "role_id"}, {})
m00007_targets_and_roles == Steps(
    <<role, target, target_role_assignment>>,
    <<DropTable("target_roles"), DropTable("targets"), DropTable("roles")>>)

m00008_users == Steps(
    <<Create("users", {"id", "username", "credentials", "credential_policy"}, {}),
      Create("user_roles", {"id", "user_id", "role_id"}, {})>>,
    <<DropTable("user_roles"), DropTable("users")>>)

otp_credential == Create("credentials_otp", {"id", "user_id", "secret_key"}, {})

password_credential == Create("credentials_password", {"id", "user_id", "argon_hash"}, {})
public_key_credential == Create("credentials_public_key", {"id", "user_id", "openssh_public_key"},
    {})
sso_credential == Create("credentials_sso", {"id", "user_id", "email"}, {"provider"})
m00009_credential_models == Steps(
    <<otp_credential,
      password_credential,
      public_key_credential,
      sso_credential, Data("users", {"id",
      "username", "credentials", "credential_policy"}), DropColumns("users", {"credentials"})>>,
    <<Panic>>)

m00010_parameters == Steps(
    <<Create("parameters", {"id", "allow_own_credential_management"}, {})>>,
    <<DropTable("parameters")>>)

m00011_rsa_key_algos ==
    Steps(<<Data("credentials_public_key", {"id", "user_id", "openssh_public_key"})>>, <<>>)

m00012_add_openssh_public_key_label == Steps(
    <<AddDef("credentials_public_key", {"label"})>>,
    <<DropColumns("credentials_public_key", {"label"})>>)

m00013_add_openssh_public_key_dates == Steps(
    AddNulls("credentials_public_key", <<"date_added", "last_used">>),
    Drops("credentials_public_key", <<"last_used", "date_added">>))

m00014_api_tokens == Steps(
    <<Create("api_tokens", {"id", "user_id", "label", "secret", "created", "expiry"}, {})>>,
    <<DropTable("api_tokens")>>)

m00015_fix_public_key_dates == Steps(
    OnServers(<<Loosen("credentials_public_key", {"date_added"}),
      Loosen("credentials_public_key", {"last_used"})>>),
    <<>>)

m00016_fix_public_key_length ==
    Steps(OnServers(<<Retype("credentials_public_key", "openssh_public_key")>>), <<>>)

m00017_descriptions == Steps(
    <<AddDef("users", {"description"}), AddDef("roles", {"description"}), AddDef("targets",
      {"description"}), Data("roles", {"id", "name", "description"})>>,
    <<DropColumns("users", {"description"}), DropColumns("roles", {"description"}),
      DropColumns("targets", {"description"})>>)

m00018_ticket_description ==
    Steps(<<AddDef("tickets", {"description"})>>, <<DropColumns("tickets", {"description"})>>)

m00019_rate_limits == Steps(
    <<AddNull("users", {"rate_limit_bytes_per_second"}), AddNull(P,
      {"rate_limit_bytes_per_second"}), AddNull("targets", {"rate_limit_bytes_per_second"})>>,
    <<DropColumns("users", {"rate_limit_bytes_per_second"}), DropColumns(P,
      {"rate_limit_bytes_per_second"}), DropColumns("targets", {"rate_limit_bytes_per_second"})>>)

m00020_target_groups == Steps(
    <<Create("target_groups", {"id", "name", "description"}, {"color"}), AddNull("targets",
      {"group_id"})>>,
    <<DropColumns("targets", {"group_id"}), DropTable("target_groups")>>)

m00020_ldap_server == Steps(
    <<CreateUnique("ldap_servers", {"id", "name", "host", "port", "bind_dn", "bind_password",
      "user_filter", "base_dns", "tls_mode", "tls_verify", "enabled", "auto_link_sso_users",
      "description"}, {}, {"name"})>>,
    <<DropTable("ldap_servers")>>)

m00021_user_ldap_link == Steps(
    AddNulls("users", <<"ldap_server_id", "ldap_object_uuid">>) \o <<Index("users",
      "idx_users_ldap_server_id", {"ldap_server_id"}), UniqueIndex("users",
      "idx_users_ldap_unique", {"ldap_server_id", "ldap_object_uuid"})>>,
    <<Unindex("users", "idx_users_ldap_unique"), Unindex("users", "idx_users_ldap_server_id")>> \o
      Drops("users", <<"ldap_object_uuid", "ldap_server_id">>))

m00023_ldap_username_attribute == Steps(
    <<AddDef("ldap_servers", {"username_attribute"})>>,
    <<DropColumns("ldap_servers", {"username_attribute"})>>)

m00024_ssh_key_attribute == Steps(
    <<AddDef("ldap_servers", {"ssh_key_attribute"})>>,
    <<DropColumns("ldap_servers", {"ssh_key_attribute"})>>)

m00025_ldap_uuid_attribute == Steps(
    <<AddDef("ldap_servers", {"uuid_attribute"})>>,
    <<DropColumns("ldap_servers", {"uuid_attribute"})>>)

m00025_ssh_client_auth == Steps(
    AddDefs(P, <<"ssh_client_auth_publickey", "ssh_client_auth_password",
      "ssh_client_auth_keyboard_interactive">>),
    Drops(P, <<"ssh_client_auth_publickey", "ssh_client_auth_password",
      "ssh_client_auth_keyboard_interactive">>))

m00027_ca == Steps(
    AddDefs(P, <<"ca_certificate_pem", "ca_private_key_pem">>) \o <<Data(P, {"id",
      "allow_own_credential_management", "rate_limit_bytes_per_second", "ca_certificate_pem",
      "ca_private_key_pem"})>>,
    Drops(P, <<"ca_certificate_pem", "ca_private_key_pem">>))

m00028_certificate_credentials == Steps(
    <<Create("credentials_certificate", {"id", "user_id", "label", "certificate_pem"},
      {"date_added", "last_used"})>>,
    <<DropTable("credentials_certificate")>>)

m00029_certificate_revocation == Steps(
    <<Create("certificate_revocations", {"id", "serial_number_base64", "date_added"}, {}),
      Index("certificate_revocations", "idx_certificate_revocations_serial",
      {"serial_number_base64"})>>,
    <<DropTable("certificate_revocations")>>)

m00030_add_recording_metadata == Steps(
    <<IF Backend = "mysql" THEN AddNull("recordings", {"metadata"}) ELSE AddNullFilled("recordings", {"metadata"})>>,
    <<DropColumns("recordings", {"metadata"})>>)

m00031_minimize_password_login == Steps(
    <<AddDef(P, {"minimize_password_login"})>>,
    <<DropColumns(P, {"minimize_password_login"})>>)

admin_role == Create("admin_roles", {"id", "name", "description", "targets_create",
    "targets_edit", "targets_delete", "users_create", "users_edit", "users_delete",
    "access_roles_create", "access_roles_edit", "access_roles_delete", "access_roles_assign",
    "sessions_view", "sessions_terminate", "recordings_view", "tickets_create", "tickets_delete",
    "config_edit", "admin_roles_manage"}, {})

user_admin_role == Create("user_admin_roles", {"id", "user_id", "admin_role_id"}, {})
m00032_admin_roles == Steps(
    <<admin_role, user_admin_role, Data("targets", {"id", "name", "kind", "options"}), Data("target_roles", {"id",
      "target_id", "role_id"}), Data("user_roles", {"id", "user_id", "role_id"}), Data("users",
      {"id", "username", "credential_policy", "description", "rate_limit_bytes_per_second",
      "ldap_server_id", "ldap_object_uuid"})>>,
    <<Panic>>)

m00033_add_log_target == Steps(
    <<AddDef("log", {"target"}), Index("log", "log_target_timestamp", {"target", "timestamp"})>>,
    <<DropColumns("log", {"target"})>>)

m00034_add_log_related_fields == Steps(
    <<AddNull("log", {"related_users"}), Index("log", "log_related_users", {"related_users"}),
      AddNull("log", {"related_access_roles"}), Index("log", "log_related_access_roles",
      {"related_access_roles"}), AddNull("log", {"related_admin_roles"}), Index("log",
      "log_related_admin_roles", {"related_admin_roles"})>>,
    Drops("log", <<"related_access_roles", "related_admin_roles", "related_users">>))

ticket == Create("tickets_new", {"id", "secret", "user_id", "description", "target_id",
    "created"}, {"uses_left", "expiry"})

m00035_ticket_user_target_id == Steps(
    IF Backend = "sqlite"
    THEN <<ticket,
           Data("tickets", {"id", "secret", "username", "description", "target", "uses_left", "expiry", "created"}),
           DropTable("tickets"), RenameTable("tickets_new", "tickets")>>
    ELSE <<AddNull("tickets", {"user_id"}), AddNull("tickets", {"target_id"}),
           Data("tickets", {"username", "target"}), Fill("tickets", {"user_id", "target_id"}),
           DropColumns("tickets", {"username"}), DropColumns("tickets", {"target"}),
           Tighten("tickets", {"user_id"}), Tighten("tickets", {"target_id"})>>,
    <<Panic>>)

m00036_user_role_expiry_history == Steps(
    AddNulls("user_roles", <<"granted_at", "expires_at", "revoked_at">>),
    Drops("user_roles", <<"revoked_at", "expires_at", "granted_at">>))

m00037_database_target_auth ==
    Steps(<<Data("targets", {"id", "name", "kind", "options"})>>, <<Panic>>)

m00038_fix_target_auth_tags ==
    Steps(<<Data("targets", {"id", "name", "kind", "options"})>>, <<Panic>>)

m00037_show_session_menu ==
    Steps(<<AddDef(P, {"show_session_menu"})>>, <<DropColumns(P, {"show_session_menu"})>>)

m00037_allowed_ip_range == Steps(
    <<AddNullFilled("users", {"allowed_ip_ranges"})>>,
    <<DropColumns("users", {"allowed_ip_ranges"})>>)

m00041_fix_user_role_assignment_dates == Steps(
    OnServers(<<Loosen("user_roles", {"granted_at"}),
      Loosen("user_roles", {"expires_at"}),
      Loosen("user_roles", {"revoked_at"})>>),
    <<>>)

m00042_database_target_auth_again ==
    Steps(<<Data("targets", {"id", "name", "kind", "options"})>>, <<Panic>>)

m00043_unique_usernames == Steps(
    <<Data("credentials_otp", {"user_id"}), Data("credentials_password", {"user_id"}),
      Data("credentials_public_key", {"user_id"}), Data("credentials_certificate", {"user_id"}),
      Data("credentials_sso", {"user_id"}), Data("api_tokens", {"user_id"}), Data("user_roles",
      {"user_id"}), Data("user_admin_roles", {"user_id"}), Data("tickets", {"user_id"}),
      Data("users", {"id", "username"}), UniqueIndex("users", "users_username_unique",
      {"username"})>>,
    <<Unindex("users", "users_username_unique")>>)

ticket_request == Create("ticket_requests", {"id", "user_id", "target_id", "description",
    "status", "created"}, {"requested_duration_seconds", "resolved_by_user_id", "ticket_id",
    "resolved_at", "deny_reason"})

m00044_ticket_requests == Steps(
    <<ticket_request, AddDef("tickets", {"self_service"}), AddDef("admin_roles",
      {"ticket_requests_manage"})>> \o AddDefs(P, <<"ticket_self_service_enabled",
      "ticket_auto_approve_existing_access">>) \o <<AddNullFilled(P,
      {"ticket_max_duration_seconds"}), AddNull(P, {"ticket_max_uses"})>> \o AddDefs(P,
      <<"ticket_require_description", "ticket_request_show_all_targets">>) \o <<AddNull("targets",
      {"ticket_max_duration_seconds"})>> \o AddDefs("targets", <<"ticket_requests_disabled",
      "ticket_require_approval">>) \o <<AddNull("targets", {"ticket_max_uses"}),
      Data("admin_roles", {"id", "ticket_requests_manage"})>>,
    <<DropTable("ticket_requests"), DropColumns("tickets", {"self_service"}),
      DropColumns("admin_roles", {"ticket_requests_manage"})>> \o Drops(P,
      <<"ticket_self_service_enabled", "ticket_auto_approve_existing_access",
      "ticket_max_duration_seconds", "ticket_max_uses", "ticket_require_description",
      "ticket_request_show_all_targets">>) \o Drops("targets", <<"ticket_max_duration_seconds",
      "ticket_requests_disabled", "ticket_require_approval", "ticket_max_uses">>))

m00045_role_default_flag ==
    Steps(<<AddDef("roles", {"is_default"})>>, <<DropColumns("roles", {"is_default"})>>)

m00046_max_api_token_duration == Steps(
    <<AddNull(P, {"max_api_token_duration_seconds"})>>,
    <<DropColumns(P, {"max_api_token_duration_seconds"})>>)

m00047_record_scp == Steps(<<AddDef(P, {"record_scp"})>>, <<DropColumns(P, {"record_scp"})>>)

m00048_target_click_action ==
    Steps(<<AddDef(P, {"target_click_action"})>>, <<DropColumns(P, {"target_click_action"})>>)

m00049_text_columns == Steps(
    OnServers(<<Loosen("sessions", {"target_snapshot"}), Retype("known_hosts", "key_base64")>>),
    <<>>)

m00050_password_policy == Steps(
    AddDefs(P, <<"password_policy_min_length", "password_policy_require_uppercase",
      "password_policy_require_lowercase", "password_policy_require_digits",
      "password_policy_require_special">>),
    <<DropColumns(P, {"password_policy_min_length", "password_policy_require_uppercase",
      "password_policy_require_lowercase", "password_policy_require_digits",
      "password_policy_require_special"})>>)

m00051_tutorial_dismissed ==
    Steps(<<AddDef(P, {"tutorial_dismissed"})>>, <<DropColumns(P, {"tutorial_dismissed"})>>)

m00052_log_text_column == Steps(OnServers(<<Tighten("log", {"text"})>>), <<>>)

failed_login_attempt == Create("failed_login_attempts", {"id", "username", "remote_ip",
    "protocol", "credential_type", "timestamp"}, {})

ip_block == CreateUnique("ip_blocks", {"id", "ip_address", "block_count", "blocked_at",
    "expires_at", "reason", "last_attempt_at"}, {}, {"ip_address"})
user_lockout == CreateUnique("user_lockouts", {"id", "username", "locked_at", "reason",
    "failed_attempt_count"}, {"expires_at"}, {"username"})
m00053_login_protection == Steps(
    <<failed_login_attempt, Index("failed_login_attempts",
      "idx_failed_login_attempts_ip_timestamp", {"remote_ip", "timestamp"}),
      Index("failed_login_attempts", "idx_failed_login_attempts_username_timestamp", {"username",
      "timestamp"}), Index("failed_login_attempts", "idx_failed_login_attempts_timestamp",
      {"timestamp"}), ip_block, Index("ip_blocks",
      "idx_ip_blocks_expires_at", {"expires_at"}), user_lockout,
      Index("user_lockouts", "idx_user_lockouts_expires_at", {"expires_at"})>>,
    <<DropTable("user_lockouts"), DropTable("ip_blocks"), DropTable("failed_login_attempts")>>)

login_protection_columns ==
    <<"login_protection_enabled", "login_protection_retention_seconds", "lp_ip_max_attempts",
      "lp_ip_time_window_seconds", "lp_ip_base_block_duration_seconds", "lp_ip_block_duration_multiplier",
      "lp_ip_max_block_duration_seconds", "lp_ip_cooldown_reset_seconds", "lp_user_max_attempts",
      "lp_user_time_window_seconds", "lp_user_auto_unlock", "lp_user_lockout_duration_seconds",
      "lp_user_exempt_admins">>

m00054_login_protection_params == Steps(
    [i \in DOMAIN login_protection_columns |-> AddDef(P, {login_protection_columns[i]})]
      \o <<Data("users", {"id"}), Data(P, {"login_protection_enabled"})>>,
    [i \in DOMAIN login_protection_columns |-> DropColumns(P, {login_protection_columns[i]})])

m00055_ssh_banner == Steps(<<AddDef(P, {"ssh_banner"})>>, <<DropColumns(P, {"ssh_banner"})>>)

m00056_web_ssh_enabled ==
    Steps(<<AddDef(P, {"web_ssh_enabled"})>>, <<DropColumns(P, {"web_ssh_enabled"})>>)

m00057_password_login_mode == Steps(
    <<AddDef(P, {"password_login_mode"}), Data(P, {"password_login_mode",
      "minimize_password_login"}), DropColumns(P, {"minimize_password_login"})>>,
    <<AddDef(P, {"minimize_password_login"}), Data(P, {"password_login_mode",
      "minimize_password_login"}), DropColumns(P, {"password_login_mode"})>>)

\* Faulty variant: the row that exists is not given a date.
m00058_analytics_Unfilled == Steps(
    AddDefs(P, <<"analytics_consent", "analytics_normal", "analytics_instance_id">>)
      \o <<AddNull(P, {"instance_created_at"})>>, <<>>)

m00058_analytics == Steps(
    AddDefs(P, <<"analytics_consent", "analytics_normal", "analytics_instance_id">>) \o
      <<AddNull(P, {"instance_created_at"}), Fill(P, {"instance_created_at"})>>,
    Drops(P, <<"instance_created_at", "analytics_instance_id", "analytics_normal",
      "analytics_consent">>))

m00059_web_auth_max_age == Steps(
    <<AddNull(P, {"web_auth_max_age_seconds"})>>,
    <<DropColumns(P, {"web_auth_max_age_seconds"})>>)

m00060_recording_generation ==
    Steps(<<AddDef("recordings", {"generation"})>>, <<DropColumns("recordings", {"generation"})>>)

\* Faulty variant: the column keeps its name.
m00061_rename_web_ssh_enabled_Kept == Steps(<<>>, <<>>)

m00061_rename_web_ssh_enabled == Steps(
    <<RenameColumn(P, "web_ssh_enabled", "web_clients_enabled")>>,
    <<RenameColumn(P, "web_clients_enabled", "web_ssh_enabled")>>)

m00062_web_approval_grace_period == Steps(
    <<AddNull(P, {"web_approval_grace_period_seconds"})>>,
    <<DropColumns(P, {"web_approval_grace_period_seconds"})>>)

m00063_recordings_storage == Steps(
    AddDefs(P, <<"recordings_enable", "recordings_storage">>) \o <<Data(P, {"recordings_enable",
      "recordings_storage"})>>,
    Drops(P, <<"recordings_storage", "recordings_enable">>))

m00064_cluster == Steps(
    <<Create("nodes", {"id", "address", "hostname", "last_seen"}, {}), AddNull("sessions",
      {"node_id"})>>,
    <<DropColumns("sessions", {"node_id"}), DropTable("nodes")>>)

m00065_authorization_indexes == Steps(
    <<Index("target_roles", "idx_target_roles_target_role", {"target_id", "role_id"}),
      Index("user_roles", "idx_user_roles_user_role", {"user_id", "role_id"}), Index("targets",
      "idx_targets_name", {"name"})>>,
    <<Unindex("targets", "idx_targets_name"), Unindex("user_roles", "idx_user_roles_user_role"),
      Unindex("target_roles", "idx_target_roles_target_role")>>)

m00066_cluster_token ==
    Steps(<<AddNull(P, {"cluster_token"})>>, <<DropColumns(P, {"cluster_token"})>>)

m00067_node_tls_pin ==
    Steps(<<AddNull("nodes", {"tls_spki_sha256"})>>, <<DropColumns("nodes", {"tls_spki_sha256"})>>)

m00068_rename_ssh_banner ==
    Steps(<<RenameColumn(P, "ssh_banner", "banner")>>, <<RenameColumn(P, "banner", "ssh_banner")>>)

m00069_ssh_client_keys == Steps(
    <<Create("ssh_client_keys", {"id", "label", "secret_key", "public_key", "is_default"}, {})>>,
    <<DropTable("ssh_client_keys")>>)

m00070_http_sessions == Steps(
    <<Create("http_sessions", {"id", "data", "updated"}, {"expires"}), Index("http_sessions",
      "idx_http_sessions_expires", {"expires"})>>,
    <<DropTable("http_sessions")>>)

m00071_ssh_host_key_verification == Steps(
    <<AddDef(P, {"ssh_host_key_verification"}), Data(P, {"ssh_host_key_verification"})>>,
    <<DropColumns(P, {"ssh_host_key_verification"})>>)

m00072_session_node_id_not_null == Steps(
    <<Fill("sessions", {"node_id"})>> \o OnServers(<<Tighten("sessions", {"node_id"})>>),
    OnServers(<<Loosen("sessions", {"node_id"})>>))

m00073_redact_session_target_snapshots ==
    Steps(<<Data("sessions", {"id", "target_snapshot"})>>, <<>>)

m00074_encryption_key_rotation == Steps(
    AddNulls(P, <<"encryption_key_fp", "retiring_key_fp">>) \o <<AddNull("nodes",
      {"encryption_key_fingerprint"})>>,
    Drops(P, <<"encryption_key_fp", "retiring_key_fp">>) \o <<DropColumns("nodes",
      {"encryption_key_fingerprint"})>>)

hash_column(t, n) ==
    <<Data(t, {"id", "secret"}), RenameColumn(t, "secret", "secret_hash"), Index(t, n, {"secret_hash"})>>

m00075_hash_ticket_and_api_token_secrets == Steps(
    hash_column("tickets", "idx_tickets_secret_hash") \o hash_column("api_tokens",
      "idx_api_tokens_secret_hash"),
    <<Unindex("tickets", "idx_tickets_secret_hash"), RenameColumn("tickets", "secret_hash",
      "secret"), Unindex("api_tokens", "idx_api_tokens_secret_hash"), RenameColumn("api_tokens",
      "secret_hash", "secret")>>)

m00076_open_targets_in_new_tab == Steps(
    <<AddDef(P, {"open_targets_in_new_tab"})>>,
    <<DropColumns(P, {"open_targets_in_new_tab"})>>)

m00077_session_user_target_id == Steps(
    AddNulls("sessions", <<"user_id", "target_id">>),
    Drops("sessions", <<"user_id", "target_id">>))

m00078_assignment_composite_pks == Steps(
    Swap("user_roles", "user_roles_new_pk", {"user_id", "role_id"}, {"granted_at", "expires_at", "revoked_at"})
      \o Swap("user_admin_roles", "user_admin_roles_new_pk", {"user_id", "admin_role_id"}, {})
      \o Swap("target_roles", "target_roles_new_pk", {"target_id", "role_id"}, {}),
    Numbered("user_roles", "user_roles_new_pk", {"user_id", "role_id"}, {"granted_at", "expires_at", "revoked_at"})
      \o Numbered("user_admin_roles", "user_admin_roles_new_pk", {"user_id", "admin_role_id"}, {})
      \o Numbered("target_roles", "target_roles_new_pk", {"target_id", "role_id"}, {})
      \o <<Index("user_roles", "idx_user_roles_user_role", {"user_id", "role_id"}),
           Index("target_roles", "idx_target_roles_target_role", {"target_id", "role_id"})>>)

add_unique_name_index(t, n) == <<Data(t, {"id", "name"}), UniqueIndex(t, n, {"name"})>>

m00079_unique_target_and_group_names == Steps(
    add_unique_name_index("targets", "targets_name_unique") \o
      add_unique_name_index("target_groups", "target_groups_name_unique"),
    <<Unindex("targets", "targets_name_unique"), Unindex("target_groups",
      "target_groups_name_unique")>>)

user_session == Create("user_sessions", {"id", "remote_address", "started", "protocol"},
    {"username", "user_id", "ended", "node_id", "auth_state_node_id"})

m00080_user_and_target_sessions == Steps(
    <<user_session,
      AddNull("sessions", {"user_session_id"}),
      Data("sessions", {"id", "username", "user_id", "remote_address", "started", "ended", "protocol", "node_id"}),
      Fill("sessions", {"user_session_id"})>>
      \o OnServers(<<Loosen("sessions", {"node_id"})>>)
      \o <<Data("user_sessions", {"node_id", "protocol"}), Data("sessions", {"node_id", "user_session_id"}),
           Data("targets", {"id", "name"}), Data("sessions", {"id", "target_snapshot", "target_id"}),
           Data("recordings", {"session_id"}), Fill("sessions", {"target_snapshot", "target_id"})>>,
    <<Fill("sessions", {"node_id"})>> \o OnServers(<<Tighten("sessions", {"node_id"})>>)
      \o <<DropColumns("sessions", {"user_session_id"}), DropTable("user_sessions")>>)

m00081_http_session_user_session_id == Steps(
    <<AddNull("http_sessions", {"user_session_id"}), Index("http_sessions",
      "idx_http_sessions_user_session_id", {"user_session_id"}), Data("http_sessions", {"id",
      "data", "user_session_id"})>>,
    <<Unindex("http_sessions", "idx_http_sessions_user_session_id"), DropColumns("http_sessions",
      {"user_session_id"})>>)

m00082_target_session_columns == Steps(
    <<DropColumns("sessions", {"username"}), DropColumns("sessions", {"user_id"}),
      DropColumns("sessions", {"remote_address"}), DropColumns("sessions", {"protocol"})>> \o
      OnServers(<<Tighten("sessions", {"user_session_id"}), Tighten("sessions", {"target_id"}),
      Tighten("sessions", {"target_snapshot"})>>) \o <<UniqueIndex("sessions",
      "idx_target_sessions_user_session_target", {"user_session_id", "target_id"}),
      RenameTable("sessions", "target_sessions")>>,
    <<RenameTable("target_sessions", "sessions"), Unindex("sessions",
      "idx_target_sessions_user_session_target")>> \o OnServers(<<Loosen("sessions",
      {"target_id"}), Loosen("sessions", {"target_snapshot"}), Loosen("sessions",
      {"user_session_id"})>>) \o <<AddNull("sessions", {"username"}), AddNull("sessions",
      {"user_id"}), AddDef("sessions", {"remote_address"}), AddDef("sessions", {"protocol"})>>)

m00083_record_desktop_keyboard_input == Steps(
    <<AddDef(P, {"record_desktop_keyboard_input"})>>,
    <<DropColumns(P, {"record_desktop_keyboard_input"})>>)

m00084_mfa_enforcement == Steps(
    AddDefs(P, <<"mfa_enforcement", "mfa_policy_exempt_sso_users">>),
    Drops(P, <<"mfa_enforcement", "mfa_policy_exempt_sso_users">>))

m00085_default_credential_policy == Steps(
    <<AddDef(P, {"default_credential_policy"})>>,
    <<DropColumns(P, {"default_credential_policy"})>>)

session_approval_request == Create("session_approval_requests", {"session_id", "kind", "node_id",
    "protocol", "username", "user_id", "target", "started", "status"}, {"remote_address",
    "identification_string", "match_digest", "ticket_id", "scope", "resolved_by_username",
    "resolved_by_user_id", "resolved_at", "consumed_at"})

m00086_jit_session_approval == Steps(
    <<AddDef("targets", {"require_approval"})>> \o AddNulls(P, <<"admin_approval_timeout_seconds",
      "admin_approval_grace_period_seconds">>) \o <<AddDef("admin_roles", {"approve_sessions"}),
      Data("admin_roles", {"approve_sessions"}), session_approval_request>>,
    <<DropTable("session_approval_requests"), DropColumns("admin_roles", {"approve_sessions"}),
      DropColumns("targets", {"require_approval"})>> \o Drops(P,
      <<"admin_approval_timeout_seconds", "admin_approval_grace_period_seconds">>))

m00087_drop_null_target_options == Steps(
    <<Data("targets", {"id", "options"}), Data("target_sessions", {"id", "target_snapshot"})>>,
    <<Panic>>)

m00088_ssh_host_keys == Steps(
    AddDefs(P, <<"ssh_host_key_ed25519", "ssh_host_key_rsa">>),
    Drops(P, <<"ssh_host_key_ed25519", "ssh_host_key_rsa">>))

m00089_secret_backends == Steps(
    <<CreateUnique("secret_backends", {"id", "name", "backend_type", "address", "auth",
      "tls_skip_verify", "allowed_paths"}, {"namespace"}, {"name"})>>,
    <<DropTable("secret_backends")>>)

m00090_logo == Steps(<<AddNull(P, {"logo"})>>, <<DropColumns(P, {"logo"})>>)

m00091_drop_cluster_token ==
    Steps(<<DropColumns(P, {"cluster_token"})>>, <<AddNull(P, {"cluster_token"})>>)

m00092_http_session_sso_identity == Steps(
    AddNulls("http_sessions", <<"sso_provider", "sso_subject", "sso_sid">>) \o
      <<Index("http_sessions", "idx_http_sessions_sso_subject", {"sso_provider", "sso_subject"}),
      Index("http_sessions", "idx_http_sessions_sso_sid", {"sso_provider", "sso_sid"})>>,
    <<Unindex("http_sessions", "idx_http_sessions_sso_subject"), Unindex("http_sessions",
      "idx_http_sessions_sso_sid")>> \o Drops("http_sessions", <<"sso_provider", "sso_subject",
      "sso_sid">>))

log_indexes ==
    <<Index("log", "log_entry__timestamp_session_id", {"timestamp", "session_id"}),
      Index("log", "log_entry__session_id", {"session_id"}),
      Index("log", "log_entry__username", {"username"}),
      Index("log", "log_target_timestamp", {"target", "timestamp"}),
      Index("log", "log_related_users", {"related_users"}),
      Index("log", "log_related_access_roles", {"related_access_roles"}),
      Index("log", "log_related_admin_roles", {"related_admin_roles"})>>

m00093_log_session_id_nullable == Steps(
    IF Backend = "sqlite"
    THEN Swap("log", "log_new", {"id", "text", "values", "timestamp", "target"},
              {"session_id", "username", "related_users", "related_access_roles", "related_admin_roles"})
           \o log_indexes
    ELSE <<Loosen("log", {"session_id"})>>,
    <<Fill("log", {"session_id"})>> \o OnServers(<<Tighten("log", {"session_id"})>>))

m00094_unique_role_names == Steps(
    add_unique_name_index("roles", "roles_name_unique"),
    <<Unindex("roles", "roles_name_unique")>>)

\* Faulty variant: the index is put on a table that m00078 rebuilds.
m00040_credentials_public_key_user_id_index_OnRoles == Steps(<<IndexIfMissing("user_roles", "idx_credentials_public_key_user", {"user_id"})>>, <<>>)

m00040_credentials_public_key_user_id_index == Steps(
    <<IF Backend = "mysql" THEN Index("credentials_public_key", "idx_credentials_public_key_user",
      {"user_id"}) ELSE IndexIfMissing("credentials_public_key",
      "idx_credentials_public_key_user", {"user_id"})>>,
    <<Unindex("credentials_public_key", "idx_credentials_public_key_user")>>)

m00041_credentials_public_key_last_sso_at == Steps(
    <<AddNull("credentials_public_key", {"last_sso_at"})>>,
    <<DropColumns("credentials_public_key", {"last_sso_at"})>>)

m00042_credentials_certificate_last_sso_at == Steps(
    <<AddNull("credentials_certificate", {"last_sso_at"})>>,
    <<DropColumns("credentials_certificate", {"last_sso_at"})>>)

m00059_sso_auto_redirect ==
    Steps(<<AddDef(P, {"sso_auto_redirect"})>>, <<DropColumns(P, {"sso_auto_redirect"})>>)

m00080_cove_lp_ip_exempt_cidrs ==
    Steps(<<AddDef(P, {"lp_ip_exempt_cidrs"})>>, <<DropColumns(P, {"lp_ip_exempt_cidrs"})>>)

m00089_cove_open_session_indexes == Steps(
    IF Backend = "mysql"
    THEN <<IndexIfMissing("target_sessions", "idx_target_sessions_open_by_user_session", {"ended", "user_session_id"}),
           IndexIfMissing("user_sessions", "idx_user_sessions_open_by_node", {"ended", "node_id"})>>
    ELSE <<IndexIfMissing("target_sessions", "idx_target_sessions_open_by_user_session", {"user_session_id"}),
           IndexIfMissing("user_sessions", "idx_user_sessions_open_by_node", {"node_id"})>>,
    <<Unindex("target_sessions", "idx_target_sessions_open_by_user_session"),
      Unindex("user_sessions", "idx_user_sessions_open_by_node")>>)

(* The order in which they are registered, upstream's first.                    *)
Upstream ==
    <<m00001_create_ticket, m00002_create_session,
      m00003_create_recording, m00004_create_known_host,
      m00005_create_log_entry, m00006_add_session_protocol,
      m00007_targets_and_roles, m00008_users,
      m00009_credential_models, m00010_parameters,
      m00011_rsa_key_algos, m00012_add_openssh_public_key_label,
      m00013_add_openssh_public_key_dates, m00014_api_tokens,
      m00015_fix_public_key_dates, m00016_fix_public_key_length,
      m00017_descriptions, m00018_ticket_description,
      m00019_rate_limits, m00020_target_groups,
      m00020_ldap_server, m00021_user_ldap_link,
      m00023_ldap_username_attribute, m00024_ssh_key_attribute,
      m00025_ldap_uuid_attribute, m00025_ssh_client_auth,
      m00027_ca, m00028_certificate_credentials,
      m00029_certificate_revocation, m00030_add_recording_metadata,
      m00031_minimize_password_login, m00032_admin_roles,
      m00033_add_log_target, m00034_add_log_related_fields,
      m00035_ticket_user_target_id, m00036_user_role_expiry_history,
      m00037_database_target_auth, m00038_fix_target_auth_tags,
      m00037_show_session_menu, m00037_allowed_ip_range,
      m00041_fix_user_role_assignment_dates, m00042_database_target_auth_again,
      m00043_unique_usernames, m00044_ticket_requests,
      m00045_role_default_flag, m00046_max_api_token_duration,
      m00047_record_scp, m00048_target_click_action,
      m00049_text_columns, m00050_password_policy,
      m00051_tutorial_dismissed, m00052_log_text_column,
      m00053_login_protection, m00054_login_protection_params,
      m00055_ssh_banner, m00056_web_ssh_enabled,
      m00057_password_login_mode, m00058_analytics,
      m00059_web_auth_max_age, m00060_recording_generation,
      m00061_rename_web_ssh_enabled, m00062_web_approval_grace_period,
      m00063_recordings_storage, m00064_cluster,
      m00065_authorization_indexes, m00066_cluster_token,
      m00067_node_tls_pin, m00068_rename_ssh_banner,
      m00069_ssh_client_keys, m00070_http_sessions,
      m00071_ssh_host_key_verification, m00072_session_node_id_not_null,
      m00073_redact_session_target_snapshots, m00074_encryption_key_rotation,
      m00075_hash_ticket_and_api_token_secrets, m00076_open_targets_in_new_tab,
      m00077_session_user_target_id, m00078_assignment_composite_pks,
      m00079_unique_target_and_group_names, m00080_user_and_target_sessions,
      m00081_http_session_user_session_id, m00082_target_session_columns,
      m00083_record_desktop_keyboard_input, m00084_mfa_enforcement,
      m00085_default_credential_policy, m00086_jit_session_approval,
      m00087_drop_null_target_options, m00088_ssh_host_keys,
      m00089_secret_backends, m00090_logo,
      m00091_drop_cluster_token, m00092_http_session_sso_identity,
      m00093_log_session_id_nullable, m00094_unique_role_names>>

Cove ==
    <<m00040_credentials_public_key_user_id_index, m00041_credentials_public_key_last_sso_at,
      m00042_credentials_certificate_last_sso_at, m00059_sso_auto_redirect,
      m00080_cove_lp_ip_exempt_cidrs, m00089_cove_open_session_indexes>>
===============================================================================
