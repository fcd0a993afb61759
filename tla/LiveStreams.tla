---------------------------- MODULE LiveStreams ----------------------------
(***************************************************************************)
(* Proxied HTTP requests that run on (websockets, streamed bodies) after   *)
(* the rule that admitted them has changed.  A browser session is not      *)
(* closed by a revocation: its requests to the lost target are, on every   *)
(* node, by a re-check that any node's change announces.                   *)
(***************************************************************************)
EXTENDS Naturals, FiniteSets

CONSTANTS
    Requests, Users, Targets, Nodes,
    At,       \* the node that serves a request
    User, Target,
    Kind,     \* LiveStreamKind: "RoleBased" or "Public"
    Losses    \* bound on announcements that do not reach a peer

\* What is assumed of the constants.
ConstantsOK ==
    /\ At \in [Requests -> Nodes]
    /\ User \in [Requests -> Users] /\ Target \in [Requests -> Targets]
    /\ Kind \in [Requests -> {"RoleBased", "Public"}]
    /\ Losses \in Nat

ASSUME LiveStreamsConstants == ConstantsOK

VARIABLES
    access,    \* the pairs of a user and a target that a role grants
    shared,    \* the targets that are public and need no approval
    request,   \* where every request is
    cancelled, \* requests whose CancellationToken has fired
    announce,  \* nodes whose change has committed and is not announced yet
    posts,     \* announcements on their way to a node
    told,      \* nodes with a notification that the re-check has not taken
    todo,      \* what the re-check of a node still has to judge
    doomed,    \* what it has judged, and is about to cancel
    losses

vars == <<access, shared, request, cancelled, announce, posts, told, todo, doomed, losses>>
recheck == <<told, todo, doomed>>

Init ==
    /\ access = Users \X Targets /\ shared = Targets
    /\ request = [r \in Requests |-> "new"]
    /\ cancelled = {}
    /\ announce = {} /\ posts = {} /\ told = {}
    /\ todo = [n \in Nodes |-> {}] /\ doomed = [n \in Nodes |-> {}]
    /\ losses = 0

\* What admits a request, and must still hold for it to run.
Rule(r) == [kind |-> Kind[r], user |-> User[r], target |-> Target[r]]
Holds(rule) == IF rule.kind = "Public" THEN rule.target \in shared ELSE <<rule.user, rule.target>> \in access

\* LiveStreams::in_use, of one node.
Registered(n) == {r \in Requests : At[r] = n /\ request[r] \in {"watched", "running"}}

-----------------------------------------------------------------------------
(* Requests.                                                               *)

\* get_target_for_request, or the public bypass.
Admit(r) ==
    /\ request[r] = "new"
    /\ request' = [request EXCEPT ![r] = IF Holds(Rule(r)) THEN "admitted" ELSE "ended"]
    /\ UNCHANGED <<access, shared, cancelled, announce, posts, recheck, losses>>

\* Faulty variant: registered, and not checked again.
Watched_Unchecked == "running"

\* LiveStreams::watch comes first ...
Watched == "watched"

Watch(r) ==
    /\ request[r] = "admitted"
    /\ request' = [request EXCEPT ![r] = Watched]
    /\ UNCHANGED <<access, shared, cancelled, announce, posts, recheck, losses>>

\* ... and then the second check, which refuses if it fails.
Recheck(r) ==
    /\ request[r] = "watched"
    /\ \E fails \in BOOLEAN :
        request' = [request EXCEPT ![r] = IF Holds(Rule(r)) /\ ~fails THEN "running" ELSE "ended"]
    /\ UNCHANGED <<access, shared, cancelled, announce, posts, recheck, losses>>

\* The request is done, its browser session closes, or its close signal has fired.
Finish(r) ==
    /\ request[r] = "running"
    /\ request' = [request EXCEPT ![r] = "ended"]
    /\ UNCHANGED <<access, shared, cancelled, announce, posts, recheck, losses>>

-----------------------------------------------------------------------------
(* Changes of access, and their announcement.                              *)

\* A role, or a target's public flag, is taken away or given back on node n; only what
\* takes away is announced, after its commit.
TakeRole(n, pair) ==
    /\ pair \in access
    /\ access' = access \ {pair}
    /\ announce' = announce \cup {n}
    /\ UNCHANGED <<shared, request, cancelled, posts, recheck, losses>>

GiveRole(pair) ==
    /\ pair \notin access
    /\ access' = access \cup {pair}
    /\ UNCHANGED <<shared, request, cancelled, announce, posts, recheck, losses>>

\* api_update_target announces whatever it changed.
Share(n, t) ==
    /\ shared' = IF t \in shared THEN shared \ {t} ELSE shared \cup {t}
    /\ announce' = announce \cup {n}
    /\ UNCHANGED <<access, request, cancelled, posts, recheck, losses>>

\* notify_global: this node at once, the others by a post each.
Announce(n) ==
    /\ n \in announce
    /\ announce' = announce \ {n}
    /\ told' = told \cup {n}
    /\ posts' = posts \cup (Nodes \ {n})
    /\ UNCHANGED <<access, shared, request, cancelled, todo, doomed, losses>>

\* Best effort: a post arrives, or it does not.
Post(n) ==
    /\ n \in posts
    /\ posts' = posts \ {n}
    /\ \/ told' = told \cup {n} /\ UNCHANGED losses
       \/ losses < Losses /\ losses' = losses + 1 /\ UNCHANGED told
    /\ UNCHANGED <<access, shared, request, cancelled, announce, todo, doomed>>

-----------------------------------------------------------------------------
(* reauthorize_live_streams.                                               *)

\* One notification, or all that were lost in a lag, begins one pass.
Begin(n) ==
    /\ n \in told /\ todo[n] = {} /\ doomed[n] = {}
    /\ told' = told \ {n}
    /\ todo' = [todo EXCEPT ![n] = {Rule(r) : r \in Registered(n)}]
    /\ UNCHANGED <<access, shared, request, cancelled, announce, posts, doomed, losses>>

\* Faulty variant: one verdict for a target, whatever the kind.
Together_Kinds(rule, rules) == {q \in rules : q.target = rule.target}

\* The verdict on a public target is reached once in a pass, however many share it.
Together(rule, rules) ==
    IF rule.kind = "Public" THEN {q \in rules : q.kind = "Public" /\ q.target = rule.target} ELSE {rule}

\* still_authorised of a pair, or public_target_still_shared; a check that fails counts
\* as a refusal.
Judge(n) ==
    /\ doomed[n] = {}
    /\ \E rule \in todo[n], fails \in BOOLEAN :
        LET those == Together(rule, todo[n]) IN
        /\ todo' = [todo EXCEPT ![n] = @ \ those]
        /\ doomed' = [doomed EXCEPT ![n] = IF Holds(rule) /\ ~fails THEN {} ELSE those]
    /\ UNCHANGED <<access, shared, request, cancelled, announce, posts, told, losses>>

\* LiveStreams::cancel: whatever is registered by then under the same rule.
Cancel(n) ==
    /\ doomed[n] # {}
    /\ cancelled' = cancelled \cup {r \in Registered(n) : Rule(r) \in doomed[n]}
    /\ doomed' = [doomed EXCEPT ![n] = {}]
    /\ UNCHANGED <<access, shared, request, announce, posts, told, todo, losses>>

-----------------------------------------------------------------------------
Next ==
    \/ \E r \in Requests : Admit(r) \/ Watch(r) \/ Recheck(r) \/ Finish(r)
    \/ \E n \in Nodes, pair \in Users \X Targets : TakeRole(n, pair)
    \/ \E pair \in Users \X Targets : GiveRole(pair)
    \/ \E n \in Nodes, t \in Targets : Share(n, t)
    \/ \E n \in Nodes : Announce(n) \/ Post(n) \/ Begin(n) \/ Judge(n) \/ Cancel(n)

Spec == Init /\ [][Next]_vars

\* Tasks go on; a request whose close signal has fired ends.
Ends(r) == r \in cancelled /\ Finish(r)
Fairness ==
    /\ \A n \in Nodes : /\ WF_vars(Announce(n)) /\ WF_vars(Post(n))
                        /\ WF_vars(Begin(n)) /\ WF_vars(Judge(n)) /\ WF_vars(Cancel(n))
    /\ \A r \in Requests : WF_vars(Ends(r))

LiveSpec == Spec /\ Fairness

-----------------------------------------------------------------------------
\* The next pass of a node, or the one under way, will come to the rule of r.
Coming(r) ==
    \/ announce # {} \/ At[r] \in posts \cup told
    \/ Rule(r) \in todo[At[r]] \cup doomed[At[r]]

\* No request slips between its first check and its registration: one that runs although
\* its rule is gone is cancelled, or a pass that will find it is on its way
\* (watch_live_stream, watch_public_live_stream, reauthorize_live_streams).
NoneSlips ==
    \A r \in Requests : request[r] = "running" /\ ~Holds(Rule(r)) => r \in cancelled \/ Coming(r)

\* A request whose rule is gone; it does not stay one, whichever node made the change and
\* whichever other requests the pass judges, unless the rule comes back first.
Unruled(r) == request[r] = "running" /\ ~Holds(Rule(r))
=============================================================================
