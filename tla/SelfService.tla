----------------------------- MODULE SelfService -----------------------------
(***************************************************************************)
(* What users do for themselves: they ask for a ticket to a target, which  *)
(* an administrator grants or the settings do, and turn a granted request  *)
(* into a ticket; and they manage their own credentials.  A handler is one *)
(* HTTP request and does one thing, statement by statement, while other    *)
(* handlers, the settings, deletions and retention go on.                  *)
(*                                                                         *)
(* There is one target: requests for different targets share nothing but   *)
(* the settings.  A request and a ticket are known by the handler that     *)
(* inserted the row.  None is an absent row or value; as a duration or a   *)
(* number of uses it is no limit.                                          *)
(***************************************************************************)
EXTENDS Naturals, FiniteSets

CONSTANTS
    Handlers,
    Call,           \* what each handler does
    Who,            \* and for which user
    Persons,
    Settings,       \* values of the parameters
    TargetOptions,  \* values of the options of the target
    Durations,      \* what may be asked for
    MinDuration,
    Old,            \* the credentials that were there before
    MaxAlterations, \* how often the settings, the target or access change
    None

\* What the proofs assume of the constants: a limit is a number or there is none, and
\* absent is no number, handler, person, ticket or target.
Limit == Nat \cup {None}
TicketRow ==
    [request : Handlers, user : Persons, duration : Limit, uses : Limit, expired : BOOLEAN]
SelfSound ==
    /\ Who \in [Handlers -> Persons] /\ Old \cap Handlers = {}
    /\ None \notin Nat /\ None \notin Handlers /\ None \notin Persons /\ None \notin TargetOptions
    /\ None \notin TicketRow /\ Durations \subseteq Limit /\ MinDuration \in Nat
    /\ \A p \in Settings : p.duration \in Limit /\ p.uses \in Limit
    /\ \A t \in TargetOptions : t.duration \in Limit /\ t.uses \in Limit

VARIABLES
    parameters, target, users, entitled,
    asking,         \* ticket_requests
    ticket,         \* tickets
    otp, password, key, certificate, revoked,  \* the credentials of the users; key[c] is the owner of c
    policy,         \* the kinds of credentials a user has to present over HTTP
    locked,         \* the handler that locked the one-time passwords of a user
    task,
    cleaner,        \* the active tickets that cleanup_db has read
    edits,
    minted, denied, audited     \* history

tables == <<parameters, target, users, entitled>>
tickets == <<asking, ticket>>
ownCredentials == <<otp, password, key, certificate, revoked, policy>>
history == <<minted, denied, audited>>
selfVars == <<tables, tickets, ownCredentials, locked, task, cleaner, edits, history>>

Creators == {h \in Handlers : Call[h] = "create"}
Unread == [pc |-> "new", row |-> None, id |-> None, policy |-> None, target |-> None,
           access |-> FALSE, duration |-> None, uses |-> None, before |-> {}]

Is(h, call, pc) == Call[h] = call /\ task[h].pc = pc
Goto(h, record) == task' = [task EXCEPT ![h] = record]
Reply(h, what) == Goto(h, [task[h] EXCEPT !.pc = what])

SelfInit ==
    /\ parameters \in Settings /\ target \in TargetOptions
    /\ users = Persons /\ entitled \in [Persons -> BOOLEAN]
    /\ asking = [h \in Creators |-> None] /\ ticket = [h \in Handlers |-> None]
    /\ otp = [u \in Persons |-> Old] /\ password = [u \in Persons |-> Old]
    /\ certificate = [u \in Persons |-> Old] /\ revoked = {}
    /\ key \in {k \in [Old \cup Handlers -> Persons \cup {None}] : \A h \in Handlers : k[h] = None}
    /\ policy = [u \in Persons |-> None] /\ locked = [u \in Persons |-> None]
    /\ task = [h \in Handlers |-> Unread]
    /\ cleaner = None /\ edits = 0
    /\ minted = {} /\ denied = {} /\ audited = {}

-----------------------------------------------------------------------------
(* create_ticket_request.                                                  *)

\* The cap of the target, or else that of the settings.
Or(own, general) == IF own # None THEN own ELSE general
Within(n, cap) == cap = None \/ (n # None /\ n <= cap)

\* A session that a ticket opened may do none of this; get_user finds the account.
ReadPolicy(h) ==
    /\ Is(h, "create", "new")
    /\ IF Who[h] \notin users \/ ~parameters.enabled
       THEN Reply(h, "refused")
       ELSE \E d \in Durations :
                Goto(h, [task[h] EXCEPT !.pc = "target", !.policy = parameters, !.duration = d])
    /\ UNCHANGED <<tables, tickets, ownCredentials, locked, cleaner, edits, history>>

ReadTarget(h) ==
    /\ Is(h, "create", "target")
    /\ IF target = None THEN Reply(h, "refused")
       ELSE Goto(h, [task[h] EXCEPT !.pc = "authorize", !.target = target])
    /\ UNCHANGED <<tables, tickets, ownCredentials, locked, cleaner, edits, history>>

\* authorize_target_by_id and the checks of what was asked.
Authorize(h) ==
    LET p == task[h].policy
        t == task[h].target
        has == entitled[Who[h]]
        asked == task[h].duration
        cap == Or(t.duration, p.duration) IN
    /\ Is(h, "create", "authorize")
    /\ IF \/ ~p.showAll /\ ~has
          \/ t.disabled
          \/ asked # None /\ (asked < MinDuration \/ ~Within(asked, cap))
       THEN Reply(h, "refused")
       ELSE Goto(h, [task[h] EXCEPT !.pc = "pending", !.access = has,
                                    !.duration = IF asked = None THEN cap ELSE asked,
                                    !.uses = Or(t.uses, p.uses)])
    /\ UNCHANGED <<tables, tickets, ownCredentials, locked, cleaner, edits, history>>

CountPending(h) ==
    /\ Is(h, "create", "pending")
    /\ Reply(h, IF \E r \in Creators : /\ asking[r] # None
                                         /\ asking[r].user = Who[h]
                                         /\ asking[r].status = "pending"
                 THEN "refused" ELSE "insert")
    /\ UNCHANGED <<tables, tickets, ownCredentials, locked, cleaner, edits, history>>

Row(u, status, duration, k) ==
    [user |-> u, status |-> status, duration |-> duration, ticket |-> k, old |-> FALSE]

\* insert_self_service_ticket.
Ticket(r, u, duration, uses) ==
    [request |-> r, user |-> u, duration |-> duration, uses |-> uses, expired |-> FALSE]

\* The foreign keys of a ticket and of a request.
Referenced(u) == u \in users /\ target # None

\* One transaction, or one insert.  The ticket is audited once it is committed.
Insert(h) ==
    LET u == Who[h]
        job == task[h]
        auto == job.access /\ job.policy.auto /\ ~job.target.approval IN
    /\ Is(h, "create", "insert")
    /\ \/ /\ ~Referenced(u) /\ Reply(h, "failed")
          /\ UNCHANGED <<tickets, minted, audited>>
       \/ /\ Referenced(u) /\ auto
          /\ ticket' = [ticket EXCEPT ![h] = Ticket(h, u, job.duration, job.uses)]
          /\ asking' = [asking EXCEPT ![h] = Row(u, "approved", job.duration, h)]
          /\ minted' = minted \cup {<<h, h>>} /\ audited' = audited \cup {h}
          /\ Reply(h, "done")
       \/ /\ Referenced(u) /\ ~auto
          /\ asking' = [asking EXCEPT ![h] = Row(u, "pending", job.duration, None)]
          /\ Reply(h, "done")
          /\ UNCHANGED <<ticket, minted, audited>>
    /\ UNCHANGED <<tables, ownCredentials, locked, cleaner, edits, denied>>

-----------------------------------------------------------------------------
(* approve_ticket_request and deny_ticket_request.                         *)

\* The request that an administrator decides on, if it is pending.
ReadPending(h) ==
    /\ task[h].pc = "new" /\ Call[h] \in {"approve", "deny"}
    /\ \E r \in Creators :
        /\ asking[r] # None
        /\ IF asking[r].status = "pending"
           THEN Goto(h, [task[h] EXCEPT !.pc = IF Call[h] = "deny" THEN "decide" ELSE "user",
                                        !.id = r, !.row = asking[r]])
           ELSE Reply(h, "notfound")
    /\ UNCHANGED <<tables, tickets, ownCredentials, locked, cleaner, edits, history>>

UserExists(h) ==
    /\ Is(h, "approve", "user")
    /\ Reply(h, IF task[h].row.user \in users THEN "exists" ELSE "failed")
    /\ UNCHANGED <<tables, tickets, ownCredentials, locked, cleaner, edits, history>>

TargetExists(h) ==
    /\ Is(h, "approve", "exists")
    /\ Reply(h, IF target # None THEN "decide" ELSE "failed")
    /\ UNCHANGED <<tables, tickets, ownCredentials, locked, cleaner, edits, history>>

\* The update names the row only: what was decided meanwhile is overwritten, and the ticket
\* of the row, which the update does not set, stays.
Decide(h) ==
    LET r == task[h].id
        status == IF Call[h] = "deny" THEN "denied" ELSE "approved" IN
    /\ task[h].pc = "decide"
    /\ \/ /\ asking[r] = None /\ Reply(h, "failed")
          /\ UNCHANGED <<asking, denied>>
       \/ /\ asking[r] # None
          /\ asking' = [asking EXCEPT ![r].status = status]
          /\ denied' = IF status = "denied" THEN denied \cup {r} ELSE denied \ {r}
          /\ Reply(h, "done")
    /\ UNCHANGED <<tables, ticket, ownCredentials, locked, cleaner, edits, minted, audited>>

-----------------------------------------------------------------------------
(* activate_ticket_request.                                                *)

Activatable(h, r) == asking[r] # None /\ asking[r].user = Who[h] /\ asking[r].status = "approved"

\* prepare_activation.
ReadRequest(h) ==
    /\ Is(h, "activate", "new")
    /\ \E r \in Creators :
        IF Who[h] \in users /\ Activatable(h, r)
        THEN Goto(h, [task[h] EXCEPT !.pc = IF asking[r].ticket # None THEN "already" ELSE "target",
                                     !.id = r, !.row = asking[r]])
        ELSE Reply(h, "notfound")
    /\ UNCHANGED <<tables, tickets, ownCredentials, locked, cleaner, edits, history>>

ReadActivationTarget(h) ==
    /\ Is(h, "activate", "target")
    /\ IF target = None THEN Reply(h, "gone")
       ELSE Goto(h, [task[h] EXCEPT !.pc = "caps", !.target = target])
    /\ UNCHANGED <<tables, tickets, ownCredentials, locked, cleaner, edits, history>>

\* Faulty variant: the duration that was approved, whatever the cap is now.
Capped_AsApproved(asked, cap) == Or(asked, cap)

Capped(asked, cap) ==
    IF asked = None \/ cap = None THEN Or(asked, cap) ELSE IF asked <= cap THEN asked ELSE cap

\* The caps of now; the name of the user is read for the audit.
ReadCaps(h) ==
    LET t == task[h].target IN
    /\ Is(h, "activate", "caps")
    /\ Goto(h, [task[h] EXCEPT !.pc = "claim", !.policy = parameters,
                               !.duration = Capped(task[h].row.duration,
                                                   Or(t.duration, parameters.duration)),
                               !.uses = Or(t.uses, parameters.uses)])
    /\ UNCHANGED <<tables, tickets, ownCredentials, locked, cleaner, edits, history>>

\* Faulty variants: the claim trusts what was read; it does not look at the status.
Claimable_Trusts(h, r) == asking[r] # None
Claimable_Undenied(h, r) == asking[r] # None /\ asking[r].ticket = None

\* The guard of the one UPDATE.
Claimable(h, r) == Activatable(h, r) /\ asking[r].ticket = None

\* commit_activation: the ticket is inserted, the request claimed and both committed, or
\* nothing is kept.
ClaimRequest(h) ==
    LET r == task[h].id
        u == Who[h] IN
    /\ Is(h, "activate", "claim")
    /\ \/ /\ ~Referenced(u) /\ Reply(h, "failed")
          /\ UNCHANGED <<tickets, minted, audited>>
       \/ /\ Referenced(u) /\ ~Claimable(h, r)
          /\ Reply(h, IF asking[r] # None /\ asking[r].ticket # None THEN "already" ELSE "notfound")
          /\ UNCHANGED <<tickets, minted, audited>>
       \/ /\ Referenced(u) /\ Claimable(h, r)
          /\ ticket' = [ticket EXCEPT ![h] = Ticket(r, u, task[h].duration, task[h].uses)]
          /\ asking' = [asking EXCEPT ![r].ticket = h]
          /\ minted' = minted \cup {<<h, r>>} /\ audited' = audited \cup {h}
          /\ Reply(h, "done")
    /\ UNCHANGED <<tables, ownCredentials, locked, cleaner, edits, denied>>

-----------------------------------------------------------------------------
(* Deletions, retention and changes of the settings.                       *)

\* Own tickets and administrators': delete_ticket_closing_sessions.
DeleteTicket(k) ==
    /\ ticket[k] # None
    /\ ticket' = [ticket EXCEPT ![k] = None]
    /\ asking' = [r \in Creators |-> IF asking[r] # None /\ asking[r].ticket = k THEN None ELSE asking[r]]
    /\ UNCHANGED <<tables, ownCredentials, locked, task, cleaner, edits, history>>

\* delete_user_records; the credentials cascade.  Their rows wait for their lock.
DeleteUser(u) ==
    /\ u \in users /\ locked[u] = None /\ edits < MaxAlterations
    /\ users' = users \ {u}
    /\ ticket' = [k \in Handlers |-> IF ticket[k] # None /\ ticket[k].user = u THEN None ELSE ticket[k]]
    /\ asking' = [r \in Creators |-> IF asking[r] # None /\ asking[r].user = u THEN None ELSE asking[r]]
    /\ otp' = [otp EXCEPT ![u] = {}] /\ password' = [password EXCEPT ![u] = {}]
    /\ certificate' = [certificate EXCEPT ![u] = {}]
    /\ key' = [c \in Old \cup Handlers |-> IF key[c] = u THEN None ELSE key[c]]
    /\ edits' = edits + 1
    /\ UNCHANGED <<parameters, target, entitled, revoked, policy, locked, task, cleaner, history>>

\* targets::delete.
DeleteTarget ==
    /\ target # None /\ edits < MaxAlterations
    /\ target' = None
    /\ ticket' = [k \in Handlers |-> None] /\ asking' = [r \in Creators |-> None]
    /\ edits' = edits + 1
    /\ UNCHANGED <<parameters, users, entitled, ownCredentials, locked, task, cleaner, history>>

\* Time passes: a request is older than the audit retention, a ticket expires.
AgeRequest(r) ==
    /\ asking[r] # None /\ ~asking[r].old
    /\ asking' = [asking EXCEPT ![r].old = TRUE]
    /\ UNCHANGED <<tables, ticket, ownCredentials, locked, task, cleaner, edits, history>>

Expire(k) ==
    /\ ticket[k] # None /\ ticket[k].duration # None /\ ~ticket[k].expired
    /\ ticket' = [ticket EXCEPT ![k].expired = TRUE]
    /\ UNCHANGED <<tables, asking, ownCredentials, locked, task, cleaner, edits, history>>

\* cleanup_db: the active tickets are read, then old requests without one are deleted.
CleanupReads ==
    /\ cleaner = None /\ \E r \in Creators : asking[r] # None /\ asking[r].old
    /\ cleaner' = {k \in Handlers : ticket[k] # None /\ ~ticket[k].expired}
    /\ UNCHANGED <<tables, tickets, ownCredentials, locked, task, edits, history>>

CleanupDeletes ==
    /\ cleaner # None
    /\ asking' = [r \in Creators |->
            IF asking[r] # None /\ asking[r].old /\ asking[r].ticket \notin cleaner
            THEN None ELSE asking[r]]
    /\ cleaner' = None
    /\ UNCHANGED <<tables, ticket, ownCredentials, locked, task, edits, history>>

\* An administrator changes the settings, the options of the target, or who may use it.
Configure ==
    /\ edits < MaxAlterations /\ edits' = edits + 1
    /\ \/ parameters' \in Settings /\ UNCHANGED <<target, entitled>>
       \/ target # None /\ target' \in TargetOptions /\ UNCHANGED <<parameters, entitled>>
       \/ \E u \in Persons : entitled' = [entitled EXCEPT ![u] = ~@] /\ UNCHANGED <<parameters, target>>
    /\ UNCHANGED <<users, tickets, ownCredentials, locked, task, cleaner, history>>

-----------------------------------------------------------------------------
(* Own credentials.                                                        *)

Managing == {"password", "key", "keydelete", "otp", "otpdelete", "certify", "revoke"}

\* parameters_based_auth and get_user.  A request reads the parameters once, at the first
\* use; an enrolment is let through until the need for it is looked at.
EnterHandler(h) ==
    /\ task[h].pc = "new" /\ Call[h] \in Managing
    /\ IF Who[h] \notin users \/ (Call[h] # "otp" /\ ~parameters.manage)
       THEN Reply(h, "refused")
       ELSE Goto(h, [task[h] EXCEPT !.pc = "entered", !.policy = parameters,
                                    !.row = policy[Who[h]], !.before = password[Who[h]]])
    /\ UNCHANGED <<tables, tickets, ownCredentials, locked, cleaner, edits, history>>

\* api_change_password: the passwords there are go, then the new one comes.
WipePasswords(h) ==
    /\ Is(h, "password", "entered")
    /\ password' = [password EXCEPT ![Who[h]] = {}]
    /\ Reply(h, "insert")
    /\ UNCHANGED <<tables, tickets, otp, key, certificate, revoked, policy, locked, cleaner, edits, history>>

InsertPassword(h) ==
    /\ Is(h, "password", "insert")
    /\ password' = IF Who[h] \in users THEN [password EXCEPT ![Who[h]] = @ \cup {h}] ELSE password
    /\ Reply(h, IF Who[h] \in users THEN "done" ELSE "failed")
    /\ UNCHANGED <<tables, tickets, otp, key, certificate, revoked, policy, locked, cleaner, edits, history>>

\* api_create_otp: who may not manage credentials may still enrol where MFA asks for it.
MayEnrol(h) ==
    /\ Is(h, "otp", "entered")
    /\ LET p == task[h].policy IN
       Reply(h, IF p.manage \/ (p.enforced /\ otp[Who[h]] = {}) THEN "insert" ELSE "refused")
    /\ UNCHANGED <<tables, tickets, ownCredentials, locked, cleaner, edits, history>>

InsertOtp(h) ==
    /\ Is(h, "otp", "insert")
    /\ otp' = IF Who[h] \in users THEN [otp EXCEPT ![Who[h]] = @ \cup {h}] ELSE otp
    /\ Reply(h, IF Who[h] \in users THEN "upgrade" ELSE "failed")
    /\ UNCHANGED <<tables, tickets, password, key, certificate, revoked, policy, locked, cleaner, edits, history>>

\* upgrade_to_otp of the policy that was read on entry.
Upgraded(kinds, passwords) ==
    IF kinds # None THEN kinds \cup {"Totp"}
    ELSE IF passwords # {} THEN {"Password", "Totp"} ELSE None

\* require_otp_in_policy; the credentials are read with the step.
UpgradePolicy(h) ==
    /\ Is(h, "otp", "upgrade")
    /\ policy' = IF Who[h] \in users
                 THEN [policy EXCEPT ![Who[h]] = Upgraded(task[h].row, password[Who[h]])]
                 ELSE policy
    /\ Reply(h, IF Who[h] \in users THEN "done" ELSE "failed")
    /\ UNCHANGED <<tables, tickets, otp, password, key, certificate, revoked, locked, cleaner, edits, history>>

\* Faulty variant: the rows are read without a lock.
Free_Unlocked(u) == TRUE

\* The rows of the user's one-time passwords are not locked.
Free(u) == locked[u] = None

\* delete_own_otp: the rows are locked and counted, then one of them is deleted.
LockOtps(h) ==
    LET u == Who[h] IN
    /\ Is(h, "otpdelete", "entered") /\ Free(u)
    /\ \E c \in Old \cup Handlers :
        \/ /\ c \notin otp[u] /\ Reply(h, "notfound") /\ UNCHANGED locked
        \/ /\ c \in otp[u] /\ task[h].policy.enforced /\ Cardinality(otp[u]) <= 1
           /\ Reply(h, "refused") /\ UNCHANGED locked
        \/ /\ c \in otp[u] /\ ~(task[h].policy.enforced /\ Cardinality(otp[u]) <= 1)
           /\ locked' = [locked EXCEPT ![u] = h]
           /\ Goto(h, [task[h] EXCEPT !.pc = "delete", !.id = c])
    /\ UNCHANGED <<tables, tickets, ownCredentials, cleaner, edits, history>>

DeleteOtp(h) ==
    /\ Is(h, "otpdelete", "delete")
    /\ otp' = [otp EXCEPT ![Who[h]] = @ \ {task[h].id}]
    /\ locked' = [locked EXCEPT ![Who[h]] = None]
    /\ Reply(h, "done")
    /\ UNCHANGED <<tables, tickets, password, key, certificate, revoked, policy, cleaner, edits, history>>

\* api_create_pk.
AddKey(h) ==
    /\ Is(h, "key", "entered")
    /\ key' = IF Who[h] \in users THEN [key EXCEPT ![h] = Who[h]] ELSE key
    /\ Reply(h, IF Who[h] \in users THEN "done" ELSE "failed")
    /\ UNCHANGED <<tables, tickets, otp, password, certificate, revoked, policy, locked, cleaner, edits, history>>

\* Faulty variant: any row of that id will do.
Related_Anybody(h, c) == key[c] # None

\* find_related: the key with this id, among those of the caller.
Related(h, c) == key[c] = Who[h]

\* api_delete_pk: found, then deleted.
FindKey(h) ==
    /\ Is(h, "keydelete", "entered")
    /\ \E c \in Old \cup Handlers :
        Goto(h, [task[h] EXCEPT !.pc = IF Related(h, c) THEN "delete" ELSE "notfound", !.id = c])
    /\ UNCHANGED <<tables, tickets, ownCredentials, locked, cleaner, edits, history>>

DeleteKey(h) ==
    /\ Is(h, "keydelete", "delete")
    /\ key' = [key EXCEPT ![task[h].id] = None]
    /\ Reply(h, "done")
    /\ UNCHANGED <<tables, tickets, otp, password, certificate, revoked, policy, locked, cleaner, edits, history>>

\* api_issue_certificate.
Certify(h) ==
    /\ Is(h, "certify", "entered")
    /\ certificate' = IF Who[h] \in users THEN [certificate EXCEPT ![Who[h]] = @ \cup {h}] ELSE certificate
    /\ Reply(h, IF Who[h] \in users THEN "done" ELSE "failed")
    /\ UNCHANGED <<tables, tickets, otp, password, key, revoked, policy, locked, cleaner, edits, history>>

\* api_revoke_certificate: found, listed as revoked, deleted.
FindCertificate(h) ==
    /\ Is(h, "revoke", "entered")
    /\ \E c \in Old \cup Handlers :
        Goto(h, [task[h] EXCEPT !.pc = IF c \in certificate[Who[h]] THEN "list" ELSE "notfound", !.id = c])
    /\ UNCHANGED <<tables, tickets, ownCredentials, locked, cleaner, edits, history>>

\* Faulty variant: deleted first.
Listing_Last == "delete"

\* Which of the two writes comes first.
Listing == "list"

RevokeStep(h, pc) ==
    /\ Is(h, "revoke", pc)
    /\ IF pc = Listing
       THEN revoked' = revoked \cup {<<Who[h], task[h].id>>} /\ UNCHANGED certificate
       ELSE certificate' = [certificate EXCEPT ![Who[h]] = @ \ {task[h].id}] /\ UNCHANGED revoked
    /\ Reply(h, IF pc = "list" THEN "delete" ELSE "done")
    /\ UNCHANGED <<tables, tickets, otp, password, key, policy, locked, cleaner, edits, history>>

-----------------------------------------------------------------------------
Ended == {"refused", "failed", "notfound", "already", "gone", "done"}

\* A statement fails or the client goes away: what is committed stays, the rest is rolled
\* back.
Fails(h) ==
    /\ task[h].pc \notin Ended \cup {"new"}
    /\ Reply(h, "failed")
    /\ locked' = [u \in Persons |-> IF locked[u] = h THEN None ELSE locked[u]]
    /\ UNCHANGED <<tables, tickets, ownCredentials, cleaner, edits, history>>

\* An administrator deletes a one-time password of somebody.
AdminDeletesOtp(u) ==
    /\ locked[u] = None /\ edits < MaxAlterations /\ edits' = edits + 1
    /\ \E c \in otp[u] : otp' = [otp EXCEPT ![u] = @ \ {c}]
    /\ UNCHANGED <<tables, tickets, password, key, certificate, revoked, policy, locked, task, cleaner, history>>

SelfNext ==
    \/ \E h \in Handlers :
        \/ ReadPolicy(h) \/ ReadTarget(h) \/ Authorize(h) \/ CountPending(h) \/ Insert(h)
        \/ ReadPending(h) \/ UserExists(h) \/ TargetExists(h) \/ Decide(h)
        \/ ReadRequest(h) \/ ReadActivationTarget(h) \/ ReadCaps(h) \/ ClaimRequest(h)
        \/ EnterHandler(h) \/ WipePasswords(h) \/ InsertPassword(h)
        \/ MayEnrol(h) \/ InsertOtp(h) \/ UpgradePolicy(h) \/ LockOtps(h) \/ DeleteOtp(h)
        \/ AddKey(h) \/ FindKey(h) \/ DeleteKey(h) \/ Certify(h) \/ FindCertificate(h) \/ RevokeStep(h, "list") \/ RevokeStep(h, "delete")
        \/ Fails(h) \/ DeleteTicket(h) \/ Expire(h)
    \/ \E r \in Creators : AgeRequest(r)
    \/ \E u \in Persons : DeleteUser(u) \/ AdminDeletesOtp(u)
    \/ CleanupReads \/ CleanupDeletes \/ DeleteTarget \/ Configure

SelfSpec == SelfInit /\ [][SelfNext]_selfVars

-----------------------------------------------------------------------------
\* A request becomes at most one ticket, however many activations of it run at once and
\* whatever is decided, deleted and retained meanwhile.
TicketOnce == \A r \in Creators : Cardinality({m \in minted : m[2] = r}) <= 1

\* A ticket stands for what was asked and for whom: it is its owner's, no longer than the
\* request, within the caps its activation read, and it was audited.
TicketAsGranted ==
    \A k \in Handlers : ticket[k] # None =>
        /\ k \in audited /\ ticket[k].user = Who[ticket[k].request]
        /\ ticket[k].user = Who[k]
        /\ asking[ticket[k].request] # None => Within(ticket[k].duration, asking[ticket[k].request].duration)
        /\ Within(ticket[k].duration, Or(task[k].target.duration, task[k].policy.duration))

\* Nothing refers to what is gone: a request's ticket, a ticket's user and target.
ReferencesHold ==
    /\ \A r \in Creators : asking[r] # None =>
        /\ asking[r].user \in users /\ target # None
        /\ asking[r].ticket # None => ticket[asking[r].ticket] # None
    /\ \A k \in Handlers : ticket[k] # None => ticket[k].user \in users /\ target # None

\* No ticket is issued once the last word on its request is a denial.
NoneUnlessGranted == \A m \in minted' \ minted : m[2] \notin denied

\* A user who has to have a second factor does not give up the last one, although two
\* deletions run at once.
FactorStays ==
    \A u \in Persons : otp[u] # otp'[u] /\ otp'[u] = {} /\ u \in users' =>
        \/ edits' # edits
        \/ \E h \in Handlers : task[h].pc = "delete" /\ task'[h].pc = "done" /\ ~task[h].policy.enforced

\* A certificate that its user gave up is on the list of revoked ones, whatever failed in
\* between.
RevokedIfGone ==
    \A u \in users, c \in Old : c \notin certificate[u] => <<u, c>> \in revoked

\* When a password was changed, those from before are gone.
PasswordReplaced ==
    \A h \in Handlers : Is(h, "password", "done") => password[Who[h]] \cap task[h].before = {}

\* What users get from serving themselves: all of these.
SelfServed ==
    TicketOnce /\ TicketAsGranted /\ ReferencesHold /\ RevokedIfGone /\ PasswordReplaced

\* A stored key goes by its owner's hand, or with its owner.
ByOwnHand ==
    \A c \in Old \cup Handlers : key[c] # None /\ key'[c] # key[c] =>
        \/ key[c] \notin users'
        \/ \E h \in Handlers : Who[h] = key[c] /\ Call[h] = "keydelete" /\ task'[h] # task[h]
=============================================================================
