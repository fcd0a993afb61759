---------------------------- MODULE HttpRequests ----------------------------
(***************************************************************************)
(* How a request to the HTTP listener is authorised and routed: the host   *)
(* check of a loopback listener, a presented ticket, the session or token  *)
(* that counts on this host and from this origin, the forced enrolment of  *)
(* a second factor, then one of Warpgate's own routes, or a target: public *)
(* or selected by host, query or session, started, watched and proxied.    *)
(* One browser sends one request at a time; the administrator edits the    *)
(* targets and the roles between any two steps of it.                      *)
(*                                                                         *)
(* The storage of the session, its rotation and its handle are the module  *)
(* HttpSessions; ending a stream on every node is the module LiveStreams.  *)
(* A Host header is one of five: "control", the configured external host   *)
(* and the control plane's; "app", a subdomain a target may be bound to,   *)
(* and "app443", the same with the default port written out; "far", a host *)
(* outside that domain; and "local", a loopback name.                      *)
(***************************************************************************)
EXTENDS Naturals, FiniteSets

CONSTANTS
    None,       \* no value
    Targets,    \* the HTTP targets that may exist
    User,       \* whose browser it is
    TicketFor,  \* ticket -> [user, target]
    MaxUses,    \* how often a ticket may be used
    Asks,       \* the requests the browser may send
    Pinned,     \* external_host is configured
    Loopback,   \* http.plain_http_on_loopback
    StepUp,     \* a step-up interval is configured for HTTP
    Failing,    \* lookups of the request's host may fail
    Bindings,   \* the hosts a target may be bound to
    Factors,    \* [on, enrolled]: the second factor's enforcement and the user's
    Edits       \* how many edits the administrator makes

VARIABLES
    session,    \* the entries of the browser's session
    targets,    \* the rows of the targets
    grants,     \* <<user, target>>: the roles give access
    uses,       \* ticket -> the uses left
    mfa,        \* [on, enrolled]: enforcement, and the user has a second factor
    req,        \* the request under way, or the last one
    edits       \* the edits made so far

vars == <<session, targets, grants, uses, mfa, req, edits>>

TicketIds == DOMAIN TicketFor
NoAuth == [kind |-> "none", user |-> None, target |-> None, ticket |-> None]
UserAuth(u) == [NoAuth EXCEPT !.kind = "user", !.user = u]
TicketAuth(u, t, k) == [kind |-> "ticket", user |-> u, target |-> t, ticket |-> k]
Token(kind, u) == [NoAuth EXCEPT !.kind = kind, !.user = u]

\* The session the throwaway of an anonymous visitor of a public target carries.
Public(t) == TicketAuth(None, t, None)

Blank == [auth |-> NoAuth, target |-> None, passed |-> FALSE, fresh |-> FALSE]
NoAsk == [host |-> None, route |-> "login", unsafe |-> FALSE, source |-> None, nav |-> FALSE,
          ticket |-> None, header |-> FALSE, token |-> None, peer |-> FALSE, query |-> None]
NoReq == [ask |-> NoAsk, stage |-> "idle", temp |-> FALSE, own |-> Blank, auth |-> NoAuth,
          target |-> None, gated |-> FALSE, watch |-> None, cut |-> FALSE, sent |-> {}, back |-> {}, told |-> None,
          answer |-> None, held |-> None]

Init ==
    /\ session \in {Blank} \cup {[Blank EXCEPT !.auth = UserAuth(User), !.fresh = x] :
                                    x \in IF StepUp THEN BOOLEAN ELSE {TRUE}}
    /\ targets \in [Targets -> [bound : {None} \cup Bindings, public : BOOLEAN, approval : {FALSE}]]
    /\ \A t, s \in Targets : targets[t].bound = targets[s].bound /\ t # s => targets[t].bound = None
    /\ grants \in SUBSET ({User} \X Targets)
    /\ uses = [k \in TicketIds |-> MaxUses]
    /\ mfa \in Factors
    /\ req = NoReq
    /\ edits = 0

-----------------------------------------------------------------------------
(* Hosts and origins.                                                      *)

\* trusted_hostname: without the port; and the Host header without a default port.
HostName(h) == IF h = "app443" THEN "app" ELSE h
host_without_default_port(h) == IF h = "app443" THEN "app" ELSE None

is_localhost_host(h) == h = "local"
host_is_subdomain_of_or_equal(h) == HostName(h) \in {"control", "app"}

session_host_is_authorized(h) ==
    h # None /\ (host_is_subdomain_of_or_equal(h) \/ is_localhost_host(h))

is_session_restricted_on_host(h) == ~(h = "control" \/ is_localhost_host(h))

host_matches_binding(bound, h) == h = bound \/ (bound # None /\ host_without_default_port(h) = bound)

\* A loopback listener serves loopback names and its external host only.
loopback_listener_accepts_host(h) == is_localhost_host(h) \/ (Pinned /\ h = "control")

Bound(rows, h) == {t \in DOMAIN rows : rows[t].bound # None /\ rows[t].bound = h}

\* The row the lookup by host returns: an exact binding wins.
get_target_by_request_host(rows, h) ==
    LET exact == Bound(rows, h)
        found == IF exact # {} THEN exact ELSE Bound(rows, host_without_default_port(h))
    IN  IF h # None /\ found # {} THEN CHOOSE t \in found : TRUE ELSE None

served_on_host(t, h) == targets[t].bound = None \/ (h # None /\ host_matches_binding(targets[t].bound, h))

Management(a) == a.route # "target"
is_login_flow_route(a) == a.route = "login"
is_session_bootstrap_path(a) == a.route \in {"login", "enrol"}

\* A route of Warpgate's own, outside the login flow, on a host bound to a target.
out_of_scope(a) ==
    ~a.peer /\ Management(a) /\ ~is_login_flow_route(a) /\ get_target_by_request_host(targets, a.host) # None

\* Only state-changing requests and upgrades have an origin to check.
is_cross_origin_request(a) == a.unsafe /\ a.source = "foreign"

\* On a loopback listener a request with a session cookie must show its origin.
loopback_request_allowed(a) == ~(a.unsafe /\ ~a.peer /\ session # Blank) \/ a.source = "own"

-----------------------------------------------------------------------------
(* The session a request runs on: the browser's, or one of its own that is *)
(* never stored (a ticket in a header, an anonymous visitor).              *)
Current == IF req.temp THEN req.own ELSE session

Answered(r, answer) == [r EXCEPT !.stage = "done", !.answer = answer]
Answer(answer) == req' = Answered(req, answer)

\* The session entries of this request become s.
Store(r, s) ==
    IF r.temp THEN req' = [r EXCEPT !.own = s] /\ UNCHANGED session
    ELSE req' = r /\ session' = s

\* The session is brought to a login elsewhere (HttpSessions).
SignOn ==
    /\ req.stage \in {"idle", "done"} /\ session.auth = NoAuth
    /\ session' = [Blank EXCEPT !.auth = UserAuth(User), !.fresh = TRUE]
    /\ req' = NoReq
    /\ UNCHANGED <<targets, grants, uses, mfa, edits>>

\* The step-up interval passes, between two requests.
Age ==
    /\ req.stage \in {"idle", "done"} /\ session.fresh /\ StepUp
    /\ session' = [session EXCEPT !.fresh = FALSE]
    /\ req' = NoReq
    /\ UNCHANGED <<targets, grants, uses, mfa, edits>>

Arrive(a) ==
    /\ req.stage \in {"idle", "done"}
    /\ LET r == [NoReq EXCEPT !.ask = a, !.stage = "ticket",
                              !.held = get_target_by_request_host(targets, a.host)]
       IN  req' = IF Loopback /\ ~loopback_listener_accepts_host(a.host)
                  THEN Answered(r, "misdirected") ELSE r
    /\ UNCHANGED <<session, targets, grants, uses, mfa, edits>>

\* Faulty variant: a ticket is spent again by each request of the session.
TicketMiddleware_Again ==
    /\ req.stage = "ticket" /\ req.ask.ticket # None
    /\ uses[req.ask.ticket] > 0
    /\ uses' = [uses EXCEPT ![req.ask.ticket] = @ - 1]
    /\ LET k == req.ask.ticket IN
       Store([req EXCEPT !.stage = "inject"],
             [session EXCEPT !.auth = TicketAuth(TicketFor[k].user, TicketFor[k].target, k)])
    /\ UNCHANGED <<targets, grants, mfa, edits>>

\* A ticket in the query or in a header; one in a header runs on a session of
\* its own. A ticket that has authenticated this session is not spent again,
\* and a page opened with one is sent to its address without it.
TicketMiddleware ==
    LET a == req.ask
        k == a.ticket
        temp == k # None /\ a.header
        s == IF temp THEN Blank ELSE session
        already == s.auth.kind = "ticket" /\ s.auth.ticket = k
        spent == k # None /\ ~already /\ uses[k] > 0
        r == [req EXCEPT !.stage = "inject", !.temp = temp, !.own = Blank]
        cleaned == k # None /\ ~temp /\ (already \/ spent) /\ a.nav /\ ~a.unsafe
    IN  /\ req.stage = "ticket"
        /\ uses' = IF spent THEN [uses EXCEPT ![k] = @ - 1] ELSE uses
        /\ Store(IF cleaned THEN Answered(r, "clean address") ELSE r,
                 IF spent THEN [s EXCEPT !.auth = TicketAuth(TicketFor[k].user, TicketFor[k].target, k)]
                 ELSE s)
        /\ UNCHANGED <<targets, grants, mfa, edits>>

\* What a token or a peer may do; the session's own authorization comes first.
Presented(a) ==
    IF a.peer THEN IF a.token = None THEN Token("peer", None) ELSE UserAuth(a.token)
    ELSE IF a.token = "admin" THEN Token("admin", None)
    ELSE IF a.token # None THEN Token("token", a.token) ELSE NoAuth

\* Faulty variant: the origin of a request for Warpgate's own routes is not looked at.
Counts_AnyOrigin(a, refused) ==
    \/ a.peer
    \/ /\ ~refused
       /\ ~(Pinned /\ is_session_restricted_on_host(HostName(a.host)) /\ Management(a)
              /\ ~is_session_bootstrap_path(a))

\* Where the session's authorization counts.
Counts(a, refused) ==
    \/ a.peer
    \/ /\ ~refused
       /\ ~(Pinned /\ is_session_restricted_on_host(HostName(a.host)) /\ Management(a)
              /\ ~is_session_bootstrap_path(a))
       /\ ~(Management(a) /\ is_cross_origin_request(a))

\* Faulty variant: only the session, and not a token, is refused on a bound host.
Authorization_TokenCounts(a, s, refused) ==
    IF s.auth # NoAuth /\ Counts(a, refused) THEN s.auth ELSE Presented(a)

Authorization(a, s, refused) ==
    IF s.auth # NoAuth /\ Counts(a, refused) THEN s.auth
    ELSE IF refused /\ ~a.peer THEN NoAuth ELSE Presented(a)

\* A user without the enforced second factor gets no further than its enrolment;
\* that one is there is remembered in the session.
assert_mfa_setup_gate(a, s, auth) ==
    auth.kind = "user" /\ ~is_session_bootstrap_path(a) /\ mfa.on /\ ~s.passed

\* inject_request_authorization, with the check for a second factor. A session
\* presented on a host outside the domain is cleared. The host lookup is made
\* only for a request that carries a session or a token, and counts as bound
\* if it fails.
Inject ==
    \E fails \in (IF Failing THEN BOOLEAN ELSE {FALSE}) :
    LET a == req.ask
        s0 == Current
        refused == /\ s0.auth # NoAuth \/ (a.token # None /\ ~a.peer)
                   /\ out_of_scope(a) \/ (fails /\ ~a.peer /\ Management(a) /\ ~is_login_flow_route(a))
        foreign == s0.auth # NoAuth /\ ~a.peer /\ Pinned /\ ~session_host_is_authorized(a.host)
        s == IF foreign THEN Blank ELSE s0
        auth == Authorization(a, s, refused)
        gate == assert_mfa_setup_gate(a, s, auth)
        r == [req EXCEPT !.stage = IF Management(a) THEN "scope" ELSE "page", !.auth = auth]
    IN  /\ req.stage = "inject"
        /\ IF gate /\ ~mfa.enrolled THEN Store(Answered(r, "enrol first"), s)
           ELSE Store(r, [s EXCEPT !.passed = @ \/ gate])
        /\ UNCHANGED <<targets, grants, uses, mfa, edits>>

Stale(s, auth) == StepUp /\ auth.kind = "user" /\ ~s.fresh

-----------------------------------------------------------------------------
(* Warpgate's own routes.                                                  *)

\* Faulty variant: the management routes are shown on a bound host.
Scope_Shown ==
    /\ req.stage = "scope"
    /\ req' = [req EXCEPT !.stage = "own"]
    /\ UNCHANGED <<session, targets, grants, uses, mfa, edits>>

\* OriginCheckMiddleware: on a loopback listener every route, else the login flow.
OriginAllowed(a) ==
    IF Loopback THEN loopback_request_allowed(a)
    ELSE ~is_login_flow_route(a) \/ a.peer \/ ~is_cross_origin_request(a)

\* ManagementScopeMiddleware and, inside it, OriginCheckMiddleware.
Scope ==
    /\ req.stage = "scope"
    /\ LET a == req.ask IN
       \/ out_of_scope(a) /\ Answer("not found")
       \/ Failing /\ ~a.peer /\ ~is_login_flow_route(a) /\ Answer("unavailable")
       \/ ~out_of_scope(a) /\ ~OriginAllowed(a) /\ Answer("forbidden")
       \/ ~out_of_scope(a) /\ OriginAllowed(a) /\ req' = [req EXCEPT !.stage = "own"]
    /\ UNCHANGED <<session, targets, grants, uses, mfa, edits>>

\* The login flow needs no authorization; the administration API is wrapped in
\* endpoint_auth, which logs a session out whose step-up is overdue.
Own ==
    /\ req.stage = "own"
    /\ LET a == req.ask
           s == Current
       IN  \/ a.route = "login" /\ Answer("served") /\ UNCHANGED session
           \/ a.route # "login" /\ req.auth = NoAuth /\ Answer("unauthorized") /\ UNCHANGED session
           \/ a.route = "enrol" /\ req.auth # NoAuth /\ Answer("served") /\ UNCHANGED session
           \/ /\ a.route = "api" /\ req.auth # NoAuth
              /\ IF Stale(s, req.auth) THEN Store(Answered(req, "unauthorized"), Blank)
                 ELSE Answer("served") /\ UNCHANGED session
    /\ UNCHANGED <<targets, grants, uses, mfa, edits>>

-----------------------------------------------------------------------------
(* Targets.                                                                *)

decide_public_target_access(t, auth) ==
    IF t = None THEN "no"
    ELSE IF ~targets[t].public \/ targets[t].approval THEN "no"
    ELSE IF auth.kind \in {"none", "user", "ticket"} THEN "bypass" ELSE "reject"

\* Faulty variant: an anonymous visitor's authorization is written to the cookie session.
Visit_Kept(t) ==
    IF Current.auth = NoAuth
    THEN /\ session' = [session EXCEPT !.auth = Public(t)]
         /\ req' = [req EXCEPT !.stage = "select", !.auth = Public(t)]
    ELSE /\ req' = [req EXCEPT !.stage = "select", !.auth = Public(t)]
         /\ UNCHANGED session

\* A logged-in visitor of a public target goes by their own name, a ticket for
\* that target by the ticket's; anyone else on a throwaway session.
Visit(t) ==
    LET v == Current.auth IN
    /\ UNCHANGED session
    /\ req' = IF v.kind = "user"
              THEN [req EXCEPT !.stage = "select", !.auth = TicketAuth(v.user, t, None)]
              ELSE IF v.kind = "ticket" /\ v.user # None /\ v.target = t
              THEN [req EXCEPT !.stage = "select", !.auth = v]
              ELSE [req EXCEPT !.stage = "select", !.auth = Public(t), !.temp = TRUE,
                               !.own = [Blank EXCEPT !.auth = Public(t)]]

\* A page is answered with the configured message, sent to the only provider of
\* single sign-on (SsoHandshakes) or to the login page; anything else is refused.
Unauthenticated(a) == IF a.nav THEN {"message", "provider", "log in"} ELSE {"unauthorized"}

\* Whether the target of the request's host is public to this visitor.
try_public_target_bypass(a, auth) ==
    decide_public_target_access(get_target_by_request_host(targets, a.host), auth)

\* TargetOriginCheckMiddleware and page_auth.
Page ==
    /\ req.stage = "page"
    /\ LET a == req.ask
           t == get_target_by_request_host(targets, a.host)
           decision == try_public_target_bypass(a, req.auth)
       IN  IF Loopback /\ ~loopback_request_allowed(a) THEN Answer("forbidden") /\ UNCHANGED session
           ELSE \/ decision = "bypass" /\ Visit(t)
                \/ decision = "reject" /\ Answer("unauthorized") /\ UNCHANGED session
                \/ /\ decision = "no" /\ req.auth = NoAuth
                   /\ \E x \in Unauthenticated(a) : Answer(x)
                   /\ UNCHANGED session
                \/ /\ decision = "no" /\ req.auth # NoAuth /\ Stale(Current, req.auth)
                   /\ \E x \in Unauthenticated(a) : Store(Answered(req, x), Blank)
                \/ /\ decision = "no" /\ req.auth # NoAuth /\ ~Stale(Current, req.auth)
                   /\ req' = [req EXCEPT !.stage = "select"] /\ UNCHANGED session
    /\ UNCHANGED <<targets, grants, uses, mfa, edits>>

\* Faulty variant: the query parameter picks the target on a bound host too.
select_target_name_Query(query, host, remembered) ==
    IF query # None THEN query ELSE IF host # None THEN host ELSE remembered

select_target_name(query, host, remembered) ==
    IF host # None THEN host ELSE IF query # None THEN query ELSE remembered

\* get_target_for_request: a ticket's own target, or the one selected by name
\* if the user's roles give access to it; either only where it is served.
Selected ==
    LET a == req.ask
        t == IF req.auth.kind = "ticket" THEN req.auth.target
             ELSE select_target_name(a.query, get_target_by_request_host(targets, a.host), Current.target)
        reaches == /\ t \in DOMAIN targets
                   /\ served_on_host(t, a.host)
                   /\ \/ req.auth.kind = "ticket"
                      \/ req.auth.kind = "user" /\ <<req.auth.user, t>> \in grants
    IN  IF req.auth.kind \in {"ticket", "user"} /\ reaches THEN t ELSE None

\* The target is read here, with whether it asks for an approval, and is
\* remembered in the session.
Select ==
    /\ req.stage = "select"
    /\ IF Selected = None THEN Answer("choose a target") /\ UNCHANGED session
       ELSE Store([req EXCEPT !.stage = "start", !.target = Selected,
                              !.gated = targets[Selected].approval],
                  [Current EXCEPT !.target = Selected])
    /\ UNCHANGED <<targets, grants, uses, mfa, edits>>

\* start_target_session: a login ended meanwhile is purged; an approval is
\* polled (Approvals) and held or refused requests are answered here.
Start ==
    /\ req.stage = "start"
    /\ \/ Store(Answered(req, "unauthorized"), Blank)
       \/ req.gated /\ Answer("wait") /\ UNCHANGED session
       \/ req' = [req EXCEPT !.stage = "watch"] /\ UNCHANGED session
    /\ UNCHANGED <<targets, grants, uses, mfa, edits>>

\* By what the request goes on: the roles of the user, the sharing of the target.
Rule(auth) ==
    IF auth.kind = "user" THEN "roles"
    ELSE IF auth.kind = "ticket" /\ auth.ticket = None THEN "public" ELSE None

Shared(rows, t) == t \in DOMAIN rows /\ rows[t].public /\ ~rows[t].approval
Granted(rows, roles, u, t) == t \in DOMAIN rows /\ <<u, t>> \in roles

Permitted(r, rows, roles) ==
    CASE Rule(r.auth) = "roles" -> Granted(rows, roles, r.auth.user, r.target)
      [] Rule(r.auth) = "public" -> Shared(rows, r.target)
      [] OTHER -> TRUE

\* Faulty variant: the request is registered for revocation after the check.
Watch_Late ==
    /\ req.stage = "watch"
    /\ IF Permitted(req, targets, grants) THEN req' = [req EXCEPT !.stage = "checked"] ELSE Answer("forbidden")
    /\ UNCHANGED <<session, targets, grants, uses, mfa, edits>>

\* The request is registered for revocation first, and then checked again.
Watch ==
    /\ req.stage = "watch"
    /\ req' = [req EXCEPT !.stage = "checked", !.watch = Rule(req.auth)]
    /\ UNCHANGED <<session, targets, grants, uses, mfa, edits>>

\* The address the target is sent: without what the query says to Warpgate.
Address(parts) == parts \ {"target query", "ticket query"}

\* Faulty variant: the cookies go on as they came.
Upstream_Whole(headers) == headers \ {"ticket", "ticket referer", "warpgate name", "forwarded for"}

\* Of the request's own headers: no session cookie, no ticket, be it in a header
\* or in the referring address, and none of the names only Warpgate may give.
Upstream(headers) ==
    headers \ {"session cookie", "ticket", "ticket referer", "warpgate name", "forwarded for"}

\* Of the target's answer: no cookie of the name of Warpgate's own.
Downstream(headers) == headers \ {"session cookie"}

Asked == {"session cookie", "cookie", "ticket", "credentials", "ticket referer", "warpgate name",
          "forwarded for"}
InQuery == {"target query", "ticket query", "query"}

\* Who the target is told asks: the login or the ticket of the request's session.
Identity(s) == [name |-> s.auth.user, kind |-> s.auth.kind]

\* The check is made again; then the request goes to the target.
Recheck ==
    /\ req.stage = "checked"
    /\ \/ Permitted(req, targets, grants) /\ req' = [req EXCEPT !.stage = "proxy",
                                               !.sent = Upstream(Asked) \cup Address(InQuery),
                                               !.told = Identity(Current)]
       \/ ~Permitted(req, targets, grants) /\ Answer("forbidden")
       \/ Failing /\ req.watch # None /\ Answer("forbidden")
    /\ UNCHANGED <<session, targets, grants, uses, mfa, edits>>

\* The target answers, or cannot be reached; a request cut before is gone.
Proxy ==
    /\ req.stage = "proxy"
    /\ \/ req' = [Answered(req, "served") EXCEPT !.back = Downstream({"session cookie", "cookie"})]
       \/ Answer("bad gateway")
       \/ req.cut /\ Answer("gone")
    /\ UNCHANGED <<session, targets, grants, uses, mfa, edits>>

-----------------------------------------------------------------------------
(* The administrator. A change of roles or of a target is followed by the  *)
(* check of the requests registered for it (LiveStreams).                  *)
Seen(r, rows, roles) ==
    [r EXCEPT !.cut = @ \/ (r.watch # None /\ r.stage \in {"checked", "proxy"} /\ ~Permitted(r, rows, roles)),
              !.held = IF @ = get_target_by_request_host(rows, r.ask.host) THEN @ ELSE None]

Edit(next) ==
    /\ edits < Edits
    /\ edits' = edits + 1
    /\ targets' = next
    /\ UNCHANGED <<session, uses, mfa>>

Share(t) ==
    /\ t \in DOMAIN targets
    /\ \/ Edit([targets EXCEPT ![t].public = ~@])
       \/ Edit([targets EXCEPT ![t].approval = ~@])
    /\ UNCHANGED grants
    /\ req' = Seen(req, targets', grants')

Bind(t, h) ==
    /\ t \in DOMAIN targets /\ targets[t].bound # h
    /\ h = None \/ \A s \in DOMAIN targets : targets[s].bound # h
    /\ Edit([targets EXCEPT ![t].bound = h])
    /\ UNCHANGED grants
    /\ req' = Seen(req, targets', grants')

Delete(t) ==
    /\ t \in DOMAIN targets
    /\ Edit([s \in DOMAIN targets \ {t} |-> targets[s]])
    /\ UNCHANGED grants
    /\ req' = Seen(req, targets', grants')

Revoke(t) ==
    /\ <<User, t>> \in grants
    /\ Edit(targets)
    /\ grants' = grants \ {<<User, t>>}
    /\ req' = Seen(req, targets', grants')

Next ==
    \/ SignOn \/ Age
    \/ \E a \in Asks : Arrive(a)
    \/ TicketMiddleware \/ Inject \/ Scope \/ Own
    \/ Page \/ Select \/ Start \/ Watch \/ Recheck \/ Proxy
    \/ \E t \in Targets : Share(t) \/ Delete(t) \/ Revoke(t)
    \/ \E t \in Targets, h \in {None} \cup Bindings : Bind(t, h)

Spec == Init /\ [][Next]_vars

-----------------------------------------------------------------------------
Done == req.stage = "done"
Proxied == req.stage = "proxy" \/ (Done /\ req.sent # {})

\* On a host bound to a target from its arrival to its answer, a request for
\* Warpgate's own routes outside the login flow is answered as if they were not
\* there, whatever it carries (ManagementScopeMiddleware, inject_request_authorization).
HiddenOnBoundHosts ==
    Done /\ ~req.ask.peer /\ req.held # None /\ req.ask.route \in {"api", "enrol"} =>
        /\ req.answer \in {"not found", "unavailable", "misdirected", "clean address"}
        /\ req.auth = NoAuth

\* A user's request on a host that stays bound to a target reaches that target
\* or none, and a ticket's request reaches the ticket's own (get_target_for_request).
Confined ==
    Proxied =>
        /\ req.auth.kind = "user" /\ req.held # None => req.target = req.held
        /\ req.auth.kind = "ticket" /\ req.auth.ticket # None =>
               req.target = TicketFor[req.auth.ticket].target
        /\ Current.auth.kind \in {"user", "ticket"} \/ Current = Blank

\* The bypass for public targets leaves nothing behind: the browser's session is
\* never authorised by it, and the target is told a name only if it is that of
\* the session's own login or of the ticket (onto_public_target_session).
NothingKept ==
    /\ session.auth.kind = "ticket" => session.auth.ticket # None
    /\ Proxied => req.told.name = req.auth.user

\* A request at its target is permitted there or is being cut: none slips
\* between its first check and its registration (watch_live_stream,
\* watch_public_live_stream).
NoneSlips == req.stage = "proxy" => Permitted(req, targets, grants) \/ req.cut

\* Neither the browser's session nor a ticket reaches a target, in any of the
\* places of a request that may hold one, nor does a target set that session.
SecretsStay ==
    /\ req.sent \cap {"session cookie", "ticket", "ticket referer", "ticket query", "warpgate name"} = {}
    /\ "session cookie" \notin req.back

\* A state-changing request from another origin never acts on the session's
\* authorization on a route of Warpgate's own; and one whose step-up is overdue
\* is served by no target that is not public and by no administration route.
ActsAsOwn ==
    req.stage = "done" /\ req.answer = "served" /\ ~req.ask.peer =>
        /\ Management(req.ask) /\ is_cross_origin_request(req.ask) => req.auth.kind \notin {"user", "ticket"}
        /\ StepUp /\ req.auth.kind = "user" /\ req.ask.route \in {"api", "target"} =>
               session.fresh \/ session.auth = NoAuth

\* A ticket is spent only to authorise a session that it has not authorised yet.
SpentOnce ==
    \A k \in TicketIds : uses'[k] # uses[k] =>
        /\ uses'[k] = uses[k] - 1
        /\ ~(session.auth.kind = "ticket" /\ session.auth.ticket = k) \/ req'.temp

=============================================================================
