---------------------------- MODULE HttpSessions ----------------------------
(***************************************************************************)
(* The browser sessions of the HTTP front end on a cluster of nodes.       *)
(*                                                                         *)
(* A browser holds a cookie with a storage id; the row under that id       *)
(* (http_sessions) names the user session (user_sessions) and carries the  *)
(* authorization.  A request loads a copy of the row, acts on the copy,    *)
(* and the session middleware writes it back when the handler returns      *)
(* without an error.  Every node keeps a registry of the sessions it       *)
(* serves.  A login step that belongs to another node's pending login is   *)
(* forwarded there and its result is adopted afterwards.                   *)
(***************************************************************************)
EXTENDS Naturals, FiniteSets

CONSTANTS Servers,      \* nodes of the cluster
          Clients,      \* browsers, each with one cookie
          Accounts,     \* the users
          People,       \* [Clients -> SUBSET Accounts]: who uses a browser
          Reqs,         \* requests that can be under way at once
          Ids,          \* storage ids, handed out in order
          Sess,         \* user session ids, handed out in order
          Kinds,        \* kinds of requests browsers make
          Closes,       \* whether administrators and the provider end logins
          Leaves,       \* whether clients go away before the answer
          MaxAge,       \* ticks after which a stored row has expired
          MaxTicks,     \* bound on the ticks
          Nothing, Absent

\* Assumed of the constants: ids are numbers, and Nothing is no session.
WebSound ==
    /\ Ids \subseteq Nat /\ Sess \subseteq Nat /\ Nothing \notin Sess
    /\ MaxAge \in Nat /\ People \in [Clients -> SUBSET Accounts]

VARIABLES rows,     \* stored browser sessions
          us,       \* user sessions
          pend,     \* logins in progress, on the node that holds them
          loaded,   \* ids each node has served, RecentlyLoaded
          reg,      \* the session entries of each node and their user
          jar,      \* the storage id in each browser's cookie
          req,      \* the requests under way
          time,     \* ticks so far, and the nodes that ran their housekeeping
          sweep,    \* the expired rows each node's sweep has found
          past      \* history: browsers with requests at once or given up, ids left behind by
                    \* a forwarded login, sessions whose sign-on state was mislaid

webVars == <<rows, us, pend, loaded, reg, jar, req, time, sweep, past>>

\* What a browser session holds; `via' is history, whether its login used single sign-on.
Blank == [handle |-> Nothing, auth |-> Nothing, sso |-> Nothing, via |-> FALSE]

NoRequest ==
    [pc |-> "idle", kind |-> Nothing, b |-> Nothing, node |-> Nothing, at |-> Nothing,
     id |-> Nothing, held |-> Nothing, copy |-> Blank, status |-> "unchanged", before |-> Blank,
     who |-> Nothing, via |-> FALSE, gone |-> {}]

WebInit ==
    /\ rows = [i \in Ids |-> Nothing]
    /\ us = [s \in Sess |-> [st |-> "unused", user |-> Nothing, node |-> Nothing]]
    /\ pend = [n \in Servers |-> [s \in Sess |-> Nothing]]
    /\ loaded = [n \in Servers |-> {}]
    /\ reg = [n \in Servers |-> [s \in Sess |-> Absent]]
    /\ jar = [b \in Clients |-> Nothing]
    /\ req = [r \in Reqs |-> NoRequest]
    /\ time = [now |-> 0, ran |-> Servers]
    /\ sweep = [n \in Servers |-> {}]
    /\ past = [muddled |-> {}, left |-> {}, mislaid |-> {}]

-----------------------------------------------------------------------------
(* The stored rows. *)

Unminted == {s \in Sess : us[s].st = "unused"}
FreshSess == CHOOSE s \in Unminted : \A t \in Unminted : s <= t

UsedIds == {i \in Ids : \/ rows[i] # Nothing
                        \/ \E b \in Clients : jar[b] = i
                        \/ \E n \in Servers : i \in loaded[n]
                        \/ \E r \in Reqs : i \in {req[r].id, req[r].held}}
FreshId == CHOOSE i \in Ids \ UsedIds : \A j \in Ids \ UsedIds : i <= j

Open(s) == us[s].st = "open"

row_is_expired(row) == row.exp < time.now \/ row.upd + MaxAge < time.now

\* The row as it is written; `born' remembers the login of its first write.
Written(i, c) ==
    [handle |-> c.handle, auth |-> c.auth, sso |-> c.sso, via |-> c.via,
     born |-> IF rows[i] = Nothing THEN c.auth ELSE rows[i].born,
     exp |-> time.now + MaxAge, upd |-> time.now]

\* Mutant: the write-back does not look at the user session it is for.
StoreAt_Orphan(n, i, c) ==
    IF i \in loaded[n] /\ rows[i] = Nothing
    THEN rows
    ELSE [rows EXCEPT ![i] = Written(i, c)]

\* update_session: nothing is written for a login that has ended, and an id
\* that this node has loaded is only updated, never inserted again.
StoreAt(n, i, c) ==
    IF \/ (c.handle # Nothing /\ ~Open(c.handle))
       \/ (i \in loaded[n] /\ rows[i] = Nothing)
    THEN rows
    ELSE [rows EXCEPT ![i] = Written(i, c)]

\* mark_ended_in_transaction, for what is still open.  `how' remembers whether the
\* login was ended together with its stored rows ("ended"), or by a request of its
\* own browser, whose row goes when that request finishes ("left").
EndUs(U, S, how) ==
    [s \in Sess |-> IF s \in S /\ U[s].st = "open" THEN [U[s] EXCEPT !.st = how] ELSE U[s]]

\* The browser session stored under an id.
Stored(i) ==
    [handle |-> rows[i].handle, auth |-> rows[i].auth, sso |-> rows[i].sso, via |-> rows[i].via]

Backing(s, R) == {i \in Ids : R[i] # Nothing /\ R[i].handle = s}

\* remove_stored_row: the login ends with its last backing.
RemoveRow(i) ==
    /\ rows' = [rows EXCEPT ![i] = Nothing]
    /\ us' = IF /\ rows[i] # Nothing /\ rows[i].handle # Nothing
                /\ Backing(rows[i].handle, rows) = {i}
             THEN EndUs(us, {rows[i].handle}, "ended")
             ELSE us

-----------------------------------------------------------------------------
(* Resolving the cookie's session on the node that acts. *)

Ok(c, u, g) == [ok |-> TRUE, copy |-> c, us |-> u, reg |-> g, made |-> c.handle]
Refused(kind) == [ok |-> FALSE, why |-> kind]

\* create_handle_for: a new session that belongs to no node, and an entry here.
Created(n, c) ==
    Ok([c EXCEPT !.handle = FreshSess],
       [us EXCEPT ![FreshSess] = [st |-> "open", user |-> Nothing, node |-> Nothing]],
       [reg EXCEPT ![n][FreshSess] = Nothing])

\* handle_for: the live entry of this node, unless it is another user's.
LiveEntry(n, c) ==
    IF reg[n][c.handle] \notin {Nothing, c.auth} THEN Refused("OtherUser") ELSE Ok(c, us, reg)

\* resolve_handle: live entry, re-attached view, refusal, or a new session.
Resolve(n, c) ==
    CASE c.handle = Nothing -> Created(n, c)
      [] c.handle # Nothing /\ reg[n][c.handle] # Absent -> LiveEntry(n, c)
      [] c.handle # Nothing /\ reg[n][c.handle] = Absent /\ Open(c.handle) ->
            IF us[c.handle].user # c.auth THEN Refused("OtherUser")
            ELSE Ok(c, us, [reg EXCEPT ![n][c.handle] = Nothing])
      [] OTHER -> IF c.auth # Nothing THEN Refused("EndedWithAuth") ELSE Created(n, c)

\* handle_for_login: a refused cookie is emptied and gets a session of its own.
ResolveLogin(n, c) == IF Resolve(n, c).ok THEN Resolve(n, c) ELSE Created(n, Blank)

-----------------------------------------------------------------------------
(* Requests. *)

Set(r, f) == req' = [req EXCEPT ![r] = f]

\* mark_session_active dirties a session that has entries.
Touched(c) == IF c = Blank THEN "unchanged" ELSE "changed"

\* The session middleware loads the row of the cookie, on the first hop.
Load(r, b, n, k) ==
    /\ req[r].pc = "idle"
    /\ LET i == jar[b]
           there == i # Nothing /\ rows[i] # Nothing /\ rows[i].exp > time.now
           c == IF there THEN Stored(i) ELSE Blank
       IN /\ loaded' = IF there THEN [loaded EXCEPT ![n] = @ \union {i}] ELSE loaded
          /\ \E u \in People[b] :
                Set(r, [NoRequest EXCEPT !.pc = "act", !.kind = k, !.b = b, !.node = n, !.at = n,
                                    !.id = IF there THEN i ELSE Nothing,
                                    !.held = IF there THEN i ELSE Nothing, !.copy = c, !.before = c,
                                    !.status = Touched(c), !.who = u,
                                    !.gone = {s \in Sess : us[s].st = "ended"}])
    /\ past' = [past EXCEPT !.muddled = IF \E q \in Reqs : req[q].b = b THEN @ \union {b} ELSE @]
    /\ UNCHANGED <<rows, us, pend, reg, jar, time, sweep>>

IsLogin(k) == k \in {"first", "last"}

\* auth_state_owner: the node that holds the login in progress.
AuthStateOwner(r) ==
    IF req[r].copy.handle = Nothing \/ us[req[r].copy.handle].node = Nothing
    THEN req[r].node ELSE us[req[r].copy.handle].node

\* A login step that belongs to another node is forwarded with its cookie; the
\* peer loads the browser session for itself, and begins a new one if it is gone.
Hop(r) ==
    /\ req[r].pc = "act" /\ IsLogin(req[r].kind) /\ req[r].at = req[r].node
    /\ AuthStateOwner(r) # req[r].node
    /\ LET i == req[r].id
           there == rows[i] # Nothing /\ rows[i].exp > time.now
           c == IF there THEN Stored(i) ELSE Blank
       IN /\ loaded' = IF there THEN [loaded EXCEPT ![AuthStateOwner(r)] = @ \union {i}] ELSE loaded
          /\ Set(r, [req[r] EXCEPT !.at = AuthStateOwner(r), !.copy = c, !.status = Touched(c),
                                 !.held = IF there THEN i ELSE Nothing])
    /\ UNCHANGED <<rows, us, pend, reg, jar, time, sweep, past>>

Here(r) == req[r].at # req[r].node \/ AuthStateOwner(r) = req[r].node

\* A page: served through the session's handle, or refused with an error, which
\* skips the write-back.
Page(r) ==
    /\ req[r].pc = "act" /\ req[r].kind = "page" /\ Unminted # {}
    /\ LET o == Resolve(req[r].at, req[r].copy)
       IN IF o.ok
          THEN /\ us' = o.us /\ reg' = o.reg
               /\ Set(r, [req[r] EXCEPT !.pc = "served", !.copy = o.copy, !.status = "changed"])
          ELSE /\ Set(r, NoRequest) /\ UNCHANGED <<us, reg>>
    /\ UNCHANGED <<rows, pend, loaded, jar, time, sweep, past>>

\* The answer of a page has been sent, or its connection has ended.
Served(r) ==
    /\ req[r].pc = "served"
    /\ Set(r, [req[r] EXCEPT !.pc = "finish"])
    /\ UNCHANGED <<rows, us, pend, loaded, reg, jar, time, sweep, past>>

\* The login in progress on the acting node is this user's already.
Begun(r) == /\ req[r].kind = "first" /\ req[r].copy.handle # Nothing
            /\ pend[req[r].at][req[r].copy.handle] # Nothing
            /\ pend[req[r].at][req[r].copy.handle].user = req[r].who

\* The first step of a login: a password, or the return from single sign-on
\* of a user with another factor, leaves a login in progress on this node.
FirstFactor(r) ==
    /\ req[r].pc = "act" /\ req[r].kind \in {"first", "ssofirst"}
    /\ req[r].kind = "first" => Here(r)
    /\ ~Begun(r) /\ Unminted # {}
    /\ LET o == ResolveLogin(req[r].at, req[r].copy)
           n == req[r].at
           via == req[r].kind = "ssofirst"
           c == IF via THEN [o.copy EXCEPT !.sso = req[r].who] ELSE o.copy
       IN /\ us' = [o.us EXCEPT ![o.made].node = n]
          /\ reg' = o.reg
          /\ pend' = [pend EXCEPT ![n][o.made] = [user |-> req[r].who, via |-> via]]
          /\ Set(r, [req[r] EXCEPT !.pc = "finish", !.copy = c, !.status = "changed"])
          /\ past' = [past EXCEPT !.mislaid =
                          IF via /\ o.copy.auth \notin {Nothing, req[r].who} THEN @ \union {o.made} ELSE @]
    /\ UNCHANGED <<rows, loaded, jar, time, sweep>>

\* The password once more, for the login in progress.
FirstAgain(r) ==
    /\ req[r].pc = "act" /\ req[r].kind = "first" /\ Here(r) /\ Begun(r)
    /\ Set(r, [req[r] EXCEPT !.pc = "finish"])
    /\ UNCHANGED <<rows, us, pend, loaded, reg, jar, time, sweep, past>>

\* The last factor of the login in progress is accepted.
LastFactor(r) ==
    /\ req[r].pc = "act" /\ req[r].kind = "last" /\ Here(r)
    /\ LET s == req[r].copy.handle
           p == IF s = Nothing THEN Nothing ELSE pend[req[r].at][s]
       IN Set(r, IF p = Nothing \/ p.user \notin People[req[r].b]
                 THEN [req[r] EXCEPT !.pc = "finish"]
                 ELSE [req[r] EXCEPT !.pc = "authorize", !.who = p.user, !.via = p.via])
    /\ UNCHANGED <<rows, us, pend, loaded, reg, jar, time, sweep, past>>

\* The return from single sign-on of a user with no other factor.
SsoReturn(r) ==
    /\ req[r].pc = "act" /\ req[r].kind = "sso" /\ Unminted # {}
    /\ LET o == ResolveLogin(req[r].at, req[r].copy)
       IN /\ us' = [o.us EXCEPT ![o.made].node = req[r].at]
          /\ reg' = o.reg
          /\ pend' = [pend EXCEPT ![req[r].at][o.made] = [user |-> req[r].who, via |-> TRUE]]
          /\ Set(r, [req[r] EXCEPT !.pc = "authorize", !.copy = o.copy, !.via = TRUE])
    /\ UNCHANGED <<rows, loaded, jar, time, sweep, past>>

\* Mutant: a session that is attributed already is attributed again.
Attribute_Again(n, c, u, U, g) ==
    [copy |-> c, us |-> [U EXCEPT ![c.handle].user = u],
     reg |-> [g EXCEPT ![n][c.handle] = u]]

\* The session is attributed to the user; one of another user ends and is
\* replaced (set_user_info, UserSessionAlreadyAttributed).
Attribute(n, c, u, U, g) ==
    IF U[c.handle].user \in {Nothing, u}
    THEN [copy |-> c, us |-> [U EXCEPT ![c.handle].user = u],
          reg |-> [g EXCEPT ![n][c.handle] = u]]
    ELSE [copy |-> [Blank EXCEPT !.handle = FreshSess],
          us |-> [EndUs(U, {c.handle}, "left") EXCEPT
                    ![FreshSess] = [st |-> "open", user |-> u, node |-> Nothing]],
          reg |-> [g EXCEPT ![n][c.handle] = Absent, ![n][FreshSess] = u]]

\* A second factor completes a sign-on in the session of somebody else, which is
\* cleared: the sign-on state goes with it.
Emptied(r, c, d) == req[r].kind = "last" /\ req[r].via /\ d.handle # c.handle

\* authorize_session, up to the rotation.
Authorize(r) ==
    /\ req[r].pc = "authorize" /\ Unminted # {}
    /\ LET n == req[r].at
           o == Resolve(n, req[r].copy)
           a == Attribute(n, o.copy, req[r].who, o.us, o.reg)
       IN IF o.ok
          THEN /\ us' = a.us /\ reg' = a.reg
               /\ Set(r, [req[r] EXCEPT !.pc = "rotate", !.copy = a.copy])
               /\ past' = [past EXCEPT !.mislaid =
                               IF Emptied(r, o.copy, a.copy) THEN @ \union {a.copy.handle} ELSE @]
          ELSE /\ Set(r, NoRequest) /\ UNCHANGED <<us, reg, past>>
    /\ UNCHANGED <<rows, pend, loaded, jar, time, sweep>>

\* Mutant: the login keeps the storage id it was started under.
RotateId_Keep(r) ==
    /\ req[r].pc = "rotate"
    /\ LET c == [req[r].copy EXCEPT !.auth = req[r].who, !.via = req[r].via,
                     !.sso = IF req[r].kind = "sso" THEN req[r].who ELSE @]
       IN Set(r, [req[r] EXCEPT !.pc = "finish", !.copy = c, !.status = "changed"])
    /\ UNCHANGED <<rows, us, pend, loaded, reg, jar, time, sweep, past>>

\* Mutant: the return from single sign-on does not store its state again.
RotateId_Once(r) ==
    /\ req[r].pc = "rotate"
    /\ LET own == req[r].at = req[r].node
       IN /\ rows' = IF own /\ req[r].id # Nothing THEN [rows EXCEPT ![req[r].id] = Nothing] ELSE rows
          /\ Set(r, [req[r] EXCEPT !.pc = "finish", !.copy.auth = req[r].who,
                     !.copy.via = req[r].via, !.status = IF own THEN "renewed" ELSE "changed"])
    /\ UNCHANGED <<us, pend, loaded, reg, jar, time, sweep, past>>

\* A second factor completes a sign-on whose state is not in the copy, because
\* requests of the browser ran at once or one was given up.
Outdated(r) ==
    /\ req[r].kind = "last" /\ req[r].via /\ req[r].copy.sso # req[r].who
    /\ req[r].b \in past.muddled

\* The end of a login: the storage id is given up, except by a forwarded
\* request, and the authorization is set.
RotateId(r) ==
    /\ req[r].pc = "rotate"
    /\ LET own == req[r].at = req[r].node
           c == [req[r].copy EXCEPT !.auth = req[r].who, !.via = req[r].via,
                     !.sso = IF req[r].kind = "sso" THEN req[r].who ELSE @]
       IN /\ rows' = IF own /\ req[r].id # Nothing THEN [rows EXCEPT ![req[r].id] = Nothing] ELSE rows
          /\ Set(r, [req[r] EXCEPT !.pc = "finish", !.copy = c,
                     !.status = IF own THEN "renewed" ELSE "changed"])
    /\ past' = [past EXCEPT !.mislaid = IF Outdated(r) THEN @ \union {req[r].copy.handle} ELSE @]
    /\ UNCHANGED <<us, pend, loaded, reg, jar, time, sweep>>

\* Logging out: the login ends, this node's entry goes, the session is purged.
EndLogin(r) ==
    /\ req[r].pc = "act" /\ req[r].kind = "logout"
    /\ us' = IF req[r].copy.handle = Nothing THEN us ELSE EndUs(us, {req[r].copy.handle}, "left")
    /\ reg' = IF req[r].copy.handle = Nothing THEN reg
              ELSE [reg EXCEPT ![req[r].node][req[r].copy.handle] = Absent]
    /\ Set(r, [req[r] EXCEPT !.pc = "finish", !.status = "purged"])
    /\ UNCHANGED <<rows, pend, loaded, jar, time, sweep, past>>

\* The peer writes its copy back, or writes it under an id of its own, which the
\* browser is not told; the first hop takes the peer's answer.
PeerFinish(r) ==
    /\ req[r].pc = "finish" /\ req[r].at # req[r].node
    /\ \/ req[r].held # Nothing /\ rows' = StoreAt(req[r].at, req[r].held, req[r].copy)
       \/ req[r].held = Nothing /\ req[r].status = "unchanged" /\ UNCHANGED rows
       \/ /\ req[r].held = Nothing /\ req[r].status # "unchanged" /\ Ids \ UsedIds # {}
          /\ rows' = StoreAt(req[r].at, FreshId, req[r].copy)
    /\ Set(r, [req[r] EXCEPT !.pc = "adopt"])
    /\ UNCHANGED <<us, pend, loaded, reg, jar, time, sweep, past>>

login_changed_to(x, y) == y.auth # Nothing /\ <<x.handle, x.auth>> # <<y.handle, y.auth>>

\* adopt_stored, and the rotation of a login that the peer completed.
Adopt(r) ==
    /\ req[r].pc = "adopt"
    /\ LET i == req[r].id
           c == Stored(i)
           turn == login_changed_to(req[r].before, c)
       IN IF rows[i] = Nothing \/ rows[i].exp <= time.now
          THEN /\ Set(r, [req[r] EXCEPT !.pc = "finish", !.at = req[r].node, !.status = "purged"])
               /\ UNCHANGED rows
          ELSE /\ Set(r, [req[r] EXCEPT !.pc = "finish", !.at = req[r].node, !.copy = c,
                          !.status = IF turn THEN "renewed" ELSE "changed"])
               /\ rows' = IF turn THEN [rows EXCEPT ![i] = Nothing] ELSE rows
    /\ UNCHANGED <<us, pend, loaded, reg, jar, time, sweep, past>>

\* The middleware's end of a request: nothing, a write under the same id, a
\* write under a new id with a new cookie, or the removal of row and cookie.
Finish(r) ==
    /\ req[r].pc = "finish" /\ req[r].at = req[r].node
    /\ LET q == req[r]
           new == q.status = "renewed" \/ (q.status = "changed" /\ q.id = Nothing)
       IN \/ /\ q.status = "unchanged" /\ UNCHANGED <<rows, us, jar>>
          \/ /\ q.status = "changed" /\ q.id # Nothing
             /\ rows' = StoreAt(q.node, q.id, q.copy)
             /\ UNCHANGED <<us, jar>>
          \/ /\ new /\ Ids \ UsedIds # {}
             /\ rows' = StoreAt(q.node, FreshId, q.copy)
             /\ jar' = [jar EXCEPT ![q.b] = FreshId]
             /\ UNCHANGED us
          \/ /\ q.status = "purged"
             /\ IF q.id = Nothing THEN UNCHANGED <<rows, us>> ELSE RemoveRow(q.id)
             /\ jar' = [jar EXCEPT ![q.b] = Nothing]
    /\ Set(r, NoRequest)
    /\ UNCHANGED <<pend, loaded, reg, time, sweep, past>>

\* The client goes away: the handler is dropped where it waits, be it between the
\* peer's write and the rotation that should follow.
ClientLeaves(r) ==
    /\ Leaves /\ req[r].pc \in {"act", "authorize", "rotate", "adopt", "finish"}
    /\ Set(r, NoRequest)
    /\ past' = [past EXCEPT !.muddled = @ \union {req[r].b},
                            !.left = IF req[r].pc = "adopt" THEN @ \union {req[r].id} ELSE @]
    /\ UNCHANGED <<rows, us, pend, loaded, reg, jar, time, sweep>>

-----------------------------------------------------------------------------
(* Ends from outside, housekeeping, and the other browser. *)

\* revoke: the login ends and its stored rows go, in one transaction.
Revoke(S) ==
    /\ us' = EndUs(us, S, "ended")
    /\ rows' = [i \in Ids |-> IF rows[i] # Nothing /\ rows[i].handle \in S THEN Nothing ELSE rows[i]]
    /\ UNCHANGED <<pend, loaded, reg, jar, req, time, sweep, past>>

CloseLogin(s) == Closes /\ Open(s) /\ Revoke({s})

\* The back-channel logout of a user, by the columns of the stored rows.
BackchannelLogout(u) ==
    /\ Closes
    /\ \E i \in Ids : rows[i] # Nothing /\ rows[i].sso = u
    /\ Revoke({rows[i].handle : i \in {j \in Ids : rows[j] # Nothing /\ rows[j].sso = u
                                                  /\ rows[j].handle # Nothing}})

\* The entry of a session that has ended is removed by its close listener.
Detach(n, s) ==
    /\ reg[n][s] # Absent /\ us[s].st \in {"ended", "left"}
    /\ reg' = [reg EXCEPT ![n][s] = Absent]
    /\ UNCHANGED <<rows, us, pend, loaded, jar, req, time, sweep, past>>

Held(n, s) == \E r \in Reqs : req[r].pc = "served" /\ req[r].at = n /\ req[r].copy.handle = s

\* Housekeeping: idle entries are detached, the rows of sessions that are being
\* served are touched, and the expired rows are found.
Housekeep(n) ==
    /\ sweep[n] = {} /\ n \notin time.ran
    /\ reg' = [reg EXCEPT ![n] = [s \in Sess |->
                  IF @[s] # Absent /\ ~Held(n, s) THEN Absent ELSE @[s]]]
    /\ LET R == [i \in Ids |->
                    IF rows[i] # Nothing /\ rows[i].handle # Nothing /\ Held(n, rows[i].handle)
                    THEN [rows[i] EXCEPT !.upd = time.now] ELSE rows[i]]
       IN /\ rows' = R
          /\ sweep' = [sweep EXCEPT ![n] = {i \in Ids : R[i] # Nothing /\ row_is_expired(R[i])}]
    /\ time' = [time EXCEPT !.ran = @ \union {n}]
    /\ UNCHANGED <<us, pend, loaded, jar, req, past>>

\* Mutant: a row that was found is removed without a second look.
Sweep_Blind(n, i) ==
    /\ i \in sweep[n]
    /\ sweep' = [sweep EXCEPT ![n] = @ \ {i}]
    /\ RemoveRow(i)
    /\ UNCHANGED <<pend, loaded, reg, jar, req, time, past>>

\* Each expired row is removed on its own, after a second look under the lock
\* of its user session.
Sweep(n, i) ==
    /\ i \in sweep[n]
    /\ sweep' = [sweep EXCEPT ![n] = @ \ {i}]
    /\ IF rows[i] # Nothing /\ row_is_expired(rows[i]) THEN RemoveRow(i) ELSE UNCHANGED <<rows, us>>
    /\ UNCHANGED <<pend, loaded, reg, jar, req, time, past>>

\* Time passes, at the pace of the housekeeping.
ClockAdvances ==
    /\ time.now < MaxTicks /\ time.ran = Servers /\ \A n \in Servers : sweep[n] = {}
    /\ time' = [now |-> time.now + 1, ran |-> {}]
    /\ UNCHANGED <<rows, us, pend, loaded, reg, jar, req, sweep, past>>

WebNext ==
    \/ \E r \in Reqs, b \in Clients, n \in Servers, k \in Kinds : Load(r, b, n, k)
    \/ \E r \in Reqs : Hop(r)
    \/ \E r \in Reqs : Page(r)
    \/ \E r \in Reqs : Served(r)
    \/ \E r \in Reqs : FirstFactor(r)
    \/ \E r \in Reqs : FirstAgain(r)
    \/ \E r \in Reqs : LastFactor(r)
    \/ \E r \in Reqs : SsoReturn(r)
    \/ \E r \in Reqs : Authorize(r)
    \/ \E r \in Reqs : RotateId(r)
    \/ \E r \in Reqs : EndLogin(r)
    \/ \E r \in Reqs : PeerFinish(r)
    \/ \E r \in Reqs : Adopt(r)
    \/ \E r \in Reqs : Finish(r)
    \/ \E r \in Reqs : ClientLeaves(r)
    \/ \E s \in Sess : CloseLogin(s)
    \/ \E u \in Accounts : BackchannelLogout(u)
    \/ \E n \in Servers, s \in Sess : Detach(n, s)
    \/ \E n \in Servers : Housekeep(n)
    \/ \E n \in Servers, i \in Ids : Sweep(n, i)
    \/ ClockAdvances

WebSpec == WebInit /\ [][WebNext]_webVars

-----------------------------------------------------------------------------
(* Properties. *)

\* A request that began after its login was closed, revoked by the provider or
\* swept is not served under it, whatever nodes still hold entries for it and
\* whatever write-backs were under way (session.rs handle_for_request,
\* update_session).  A login left by its own browser may be: its row is there until
\* the logout finishes.
EndedRefused ==
    \A r \in Reqs : req[r].pc = "served" => req[r].copy.handle \notin req[r].gone

\* A login is never left under a storage id that was in use before it: the id
\* changes with the login, also when a peer completed it, once the forwarded
\* step has been adopted.  The exception is a client that went away between the
\* peer's write and the adoption (run_login_step), although session.rs says that
\* every completed login rotates the id.
RotatedOnLogin ==
    \A i \in Ids :
        \/ rows[i] = Nothing
        \/ rows[i].auth \in {Nothing, rows[i].born}
        \/ \E r \in Reqs : req[r].id = i /\ req[r].at # req[r].node
        \/ i \in past.left

\* An authorization, stored or served, is for the user its session is attributed
\* to, however logins of several people on one session interleave (set_user_info).
AttributedAsAuthorized ==
    /\ \A i \in Ids : rows[i] # Nothing /\ rows[i].auth # Nothing
                           => rows[i].handle # Nothing /\ us[rows[i].handle].user = rows[i].auth
    /\ \A r \in Reqs : req[r].pc = "served" /\ req[r].copy.auth # Nothing
                           => us[req[r].copy.handle].user = req[r].copy.auth

\* What a login can rely on: both of these.
LoginsHonoured == EndedRefused /\ AttributedAsAuthorized

\* A login that used single sign-on is stored with the columns by which a
\* back-channel logout finds it (sso_provider_list.rs, "Stored before any remaining
\* factor so back-channel logout and SLO can find the session"), whatever requests
\* run beside it.  The exceptions need a second factor, or a second account: a sign-on
\* begun as somebody else takes the place of the state; the last factor clears the
\* session of another user (authorize_session); or requests that overlap, or one given
\* up, part the state in the browser session from the login in progress on its node.
SsoFindable ==
    \A i \in Ids : rows[i] # Nothing /\ rows[i].auth # Nothing /\ rows[i].via
                        => rows[i].sso = rows[i].auth \/ rows[i].handle \in past.mislaid

\* The sweep ends no login whose row a request has written within the lifetime
\* of the cookie, also when the write comes between the search and the removal.
SweepsExpired ==
    \A n \in Servers, i \in Ids :
        i \in sweep[n] /\ rows[i] # Nothing /\ rows'[i] = Nothing /\ sweep'[n] = sweep[n] \ {i}
            => row_is_expired(rows[i])

=============================================================================
