------------------------- MODULE CredentialPolicies -------------------------
(***************************************************************************)
(* Which credentials a login has to present: the policy that               *)
(* get_credential_policy makes of what the user has, what the user's own   *)
(* policy asks for on each protocol, and the MFA parameters.  A login has  *)
(* the policy of the moment it began, while the user's credentials and the *)
(* parameters change.                                                      *)
(***************************************************************************)
EXTENDS Naturals, FiniteSets

CONSTANTS
    Protocols,       \* of Http, Ssh, Postgres, MySql and Kubernetes; RDP and VNC are like Ssh with every method
    CredentialKinds, \* the credentials a user may have
    Required,        \* what users' own policies may ask for: for each protocol {}, if they say nothing
                     \* of it, or the set of one list, which may be empty
    Switches,        \* settings of ssh_client_auth_*: sets of SSH methods
    MaxChanges       \* bound on changes of the credentials and parameters

WebApproval == "WebUserApproval"

SshMethods == {"Password", "PublicKey", "KeyboardInteractive"}

\* The credential kinds that an SSH method carries.
Carried(method) == IF method = "KeyboardInteractive" THEN {"Totp", WebApproval} ELSE {method}

\* What the server of each protocol passes as supported_credential_types; of SSH it follows
\* from the methods the connection was offered.
Supported(proto, offered) ==
    CASE proto = "Http" -> {"Password", "Sso", "Totp"}
      [] proto = "Ssh" -> UNION {Carried(method) : method \in offered}
      [] proto \in {"Postgres", "MySql"} -> {"Password"}
      [] proto = "Kubernetes" -> {WebApproval}

\* The protocols in which an approval can be waited for; MySQL cannot show the link.
SupportsWebApproval == {"Ssh", "Postgres", "Kubernetes"}

VARIABLES
    protocol, credentials, required, enforcement, exempt, \* the login's, the user's, the parameters'
    switches,  \* the parameters': SSH methods that are switched on
    methods,   \* allowed_auth_methods of the SSH connection, read when it was made
    policy,    \* the policy of the login: [inner, kinds, factor]
    valid,     \* the credentials it has presented
    changes

policyVars == <<protocol, credentials, required, enforcement, exempt, switches, methods, policy, valid, changes>>

A == INSTANCE AuthState WITH Policy <- policy

-----------------------------------------------------------------------------
\* effective_mfa_enforcement_for_user
Enforced == IF exempt /\ "Sso" \in credentials THEN "Off" ELSE enforcement

\* Mutant: a one-time password is asked for whether or not the user has one.
mfa_required_factor_Totp ==
    CASE Enforced = "Off" -> {}
      [] Enforced # "Off" /\ protocol = "Http" -> IF "Totp" \in credentials THEN {"Totp"} ELSE {}
      [] Enforced = "Enroll" /\ protocol # "Http" -> {}
      [] Enforced = "Require" /\ protocol = "Ssh" -> {"Totp"}
      [] OTHER -> {WebApproval}

\* Mutant: a protocol that cannot prompt for a one-time password is left out.
mfa_required_factor_Prompting ==
    CASE Enforced = "Off" -> {}
      [] Enforced # "Off" /\ protocol = "Http" -> IF "Totp" \in credentials THEN {"Totp"} ELSE {}
      [] Enforced = "Enroll" /\ protocol # "Http" -> {}
      [] Enforced = "Require" /\ protocol = "Ssh" -> {IF "Totp" \in credentials THEN "Totp" ELSE WebApproval}
      [] OTHER -> {}

\* mfa_required_factor: users without a one-time password may still log in to the web interface,
\* where they enroll; elsewhere a web approval stands in for it.
mfa_required_factor ==
    CASE Enforced = "Off" -> {}
      [] Enforced # "Off" /\ protocol = "Http" -> IF "Totp" \in credentials THEN {"Totp"} ELSE {}
      [] Enforced = "Enroll" /\ protocol # "Http" -> {}
      [] Enforced = "Require" /\ protocol = "Ssh" -> {IF "Totp" \in credentials THEN "Totp" ELSE WebApproval}
      [] OTHER -> {WebApproval}

\* Mutant: the web approval is offered with the others.
AnyKinds_All(usable) == usable

\* The kinds of the default policy: no web approval if there is another way.
AnyKinds(usable) == IF Cardinality(usable) > 1 THEN usable \ {WebApproval} ELSE usable

\* Mutant: single sign-on is required of every protocol.
OnWire_Same(kinds) == kinds

\* Only HTTP performs a sign-on; elsewhere the approval in the browser stands for it.
OnWire(kinds) == IF protocol = "Http" THEN kinds ELSE {IF k = "Sso" THEN WebApproval ELSE k : k \in kinds}

\* get_credential_policy
get_credential_policy(offered) ==
    LET usable == Supported(protocol, offered) \cap (credentials \cup {WebApproval})
        own == required[protocol]
    IN [inner |-> IF own = {} THEN "any" ELSE "all",
        kinds |-> IF own = {} THEN AnyKinds(usable) ELSE OnWire(UNION own),
        factor |-> mfa_required_factor]

\* get_allowed_auth_methods: with every method switched off, all are allowed.
get_allowed_auth_methods == IF switches = {} THEN SshMethods ELSE switches

-----------------------------------------------------------------------------
PolicyInit ==
    /\ protocol \in Protocols /\ credentials \in SUBSET CredentialKinds /\ required \in Required
    /\ enforcement \in {"Off", "Enroll", "Require"} /\ exempt \in BOOLEAN
    /\ switches \in Switches /\ methods = get_allowed_auth_methods
    /\ policy = get_credential_policy(methods) /\ valid = {} /\ changes = 0

Verdict == A!IsSufficient(valid)

\* submit_credential: what the protocol can carry and the user has. An approval that is asked for
\* is given in the browser, and whatever the client sends next finds it.
Present(kind) ==
    /\ Verdict.verdict = "need" /\ kind \notin valid
    /\ \/ kind \in Supported(protocol, methods) \cap credentials
       \/ kind = WebApproval /\ protocol \in SupportsWebApproval /\ WebApproval \in Verdict.kinds
    /\ valid' = valid \cup {kind}
    /\ UNCHANGED <<protocol, credentials, required, enforcement, exempt, switches, methods, policy, changes>>

\* The user enrolls, a credential is deleted, or the parameters are changed: a login that has
\* begun keeps its policy, and a new one gets another.
Change ==
    /\ changes < MaxChanges /\ changes' = changes + 1
    /\ \/ \E kind \in CredentialKinds :
             /\ credentials' = (credentials \cup {kind}) \ (credentials \cap {kind})
             /\ UNCHANGED <<enforcement, exempt, switches>>
       \/ \E e \in {"Off", "Enroll", "Require"} : enforcement' = e /\ UNCHANGED <<credentials, exempt, switches>>
       \/ exempt' = ~exempt /\ UNCHANGED <<credentials, enforcement, switches>>
       \/ \E s \in Switches : switches' = s /\ UNCHANGED <<credentials, enforcement, exempt>>
    /\ UNCHANGED <<protocol, required, methods, policy, valid>>

\* A login begins, on the connection there is or on a new one.
BeginLogin ==
    /\ changes > 0 /\ methods' \in {methods, get_allowed_auth_methods}
    /\ policy' = get_credential_policy(methods') /\ valid' = {}
    /\ UNCHANGED <<protocol, credentials, required, enforcement, exempt, switches, changes>>

PolicyNext == (\E kind \in CredentialKinds \cup {WebApproval} : Present(kind)) \/ Change \/ BeginLogin

PolicySpec == PolicyInit /\ [][PolicyNext]_policyVars

-----------------------------------------------------------------------------
(* Properties.                                                             *)

\* The client can be asked for it: over SSH, codes and approvals both take keyboard-interactive
\* rounds.
Askable(kind) ==
    \/ kind \in Supported(protocol, methods) \cap credentials
    \/ /\ kind = WebApproval /\ protocol \in SupportsWebApproval
       /\ protocol = "Ssh" => WebApproval \in Supported(protocol, methods)

\* The second factor is required of a protocol that cannot ask for it: MySQL shows no link, and
\* SSH with keyboard-interactive switched off has neither codes nor approvals (the factor is
\* that of the protocol, whatever its supported kinds are).
NoWayToAsk == protocol = "MySql" \/ (protocol = "Ssh" /\ "KeyboardInteractive" \notin methods)

\* The second factor never locks out a user whose own policy is met: what is still asked for is
\* something that can be presented on this protocol, as long as the user's credentials stay,
\* unless there is no way to ask for it.
FactorWithinReach ==
    changes = 0 /\ ~NoWayToAsk /\ A!Inner(valid).verdict = "accepted" /\ Verdict.verdict = "need" =>
        \A kind \in Verdict.kinds : Askable(kind)

\* Where MFA is required, every protocol but HTTP asks for a second factor of everybody who is
\* not exempt, and HTTP of everybody who is enrolled.
FactorRequired ==
    /\ changes = 0 /\ Verdict.verdict = "accepted" /\ enforcement = "Require"
    /\ ~(exempt /\ "Sso" \in credentials) /\ (protocol = "Http" => "Totp" \in credentials)
    => valid \cap {"Totp", WebApproval} # {}

\* A requirement of single sign-on can be met on a protocol that cannot carry it, if it can ask
\* for an approval.
SignOnWithinReach ==
    changes = 0 /\ protocol = "Ssh" /\ ~NoWayToAsk /\ required[protocol] = {{"Sso"}} /\ Verdict.verdict = "need" =>
        \E kind \in Verdict.kinds : Askable(kind)

\* A login takes a credential even where the user's own policy is an empty list, and a code
\* alone lets nobody in unless the user's own policy asks for nothing else: an empty list does.
CodeNotAlone ==
    Verdict.verdict = "accepted" =>
        valid # {} /\ (valid = {"Totp"} => policy.inner = "all" /\ policy.kinds \subseteq {"Totp"})

\* A user with a credential the protocol accepts is not sent to the browser unless something
\* requires it.
NoNeedlessApproval ==
    WebApproval \in valid => WebApproval \in policy.factor \/ policy.inner = "all" \/ policy.kinds = {WebApproval}

\* What the policy of a login asks for, of whom and where it can be given.
FactorsAsRequired == FactorRequired /\ FactorWithinReach /\ SignOnWithinReach /\ CodeNotAlone /\ NoNeedlessApproval

\* What the proofs assume of the constants: an approval is nothing a user has.
PoliciesSound ==
    /\ Protocols \subseteq {"Http", "Ssh", "Postgres", "MySql", "Kubernetes"}
    /\ WebApproval \notin CredentialKinds /\ MaxChanges \in Nat
    /\ \A r \in Required : r \in [Protocols -> SUBSET SUBSET CredentialKinds]
    /\ Switches \subseteq SUBSET SshMethods

=============================================================================
