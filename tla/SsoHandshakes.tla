---------------------------- MODULE SsoHandshakes ----------------------------
(***************************************************************************)
(* Logins by single sign-on over the web: the handshakes a node keeps      *)
(* between the start of a login and the provider's answer, and the return  *)
(* from the provider, step by step, while other sessions start, return and *)
(* present each other's answers.                                           *)
(***************************************************************************)
EXTENDS Naturals, FiniteSets

CONSTANTS Browsers,     \* browser sessions (their user session ids)
          Users,        \* people with an account at the provider
          Providers,    \* configured providers
          MaxHs,        \* bound on the handshakes ever started
          Capacity,     \* MAX_ENTRIES
          TTL,          \* TTL_SECONDS, in ticks
          MaxNow,       \* bound on the clock
          IpMax,        \* failures that block an address
          Returns,      \* requests to the return URL under way at once
          Factors,      \* users with a second factor
          None

VARIABLES now,       \* the clock
          hs,        \* every handshake started: who, with whom, when
          store,     \* the handshakes kept, SsoRequestStore
          lost,      \* ghost: why a handshake is no longer kept
          code,      \* the code the provider issued for a handshake, if any
          ret,       \* the returns under way
          login,     \* the login of each session
          ip         \* failures of the address, and whether it is blocked

handshakeVars == <<now, hs, store, lost, code, ret, login, ip>>

Hs == 1..MaxHs

\* Assumed of the constants: None is neither a handshake nor a code.
HandshakesSound ==
    /\ MaxHs \in Nat /\ Capacity \in Nat /\ TTL \in Nat /\ Factors \subseteq Users
    /\ None \notin [sess : Browsers, prov : Providers, born : Nat]
    /\ None \notin [user : Users, verified : BOOLEAN, used : BOOLEAN] /\ None # "taken"

Started == {h \in Hs : hs[h] # None}

HandshakeInit ==
    /\ now = 0
    /\ hs = [h \in Hs |-> None] /\ store = {} /\ lost = [h \in Hs |-> None]
    /\ code = [h \in Hs |-> None]
    /\ ret = [r \in Returns |-> [pc |-> "none"]]
    /\ login = [s \in Browsers |-> [st |-> "none"]]
    /\ ip = [failures |-> 0, blocked |-> FALSE]

Expired(h) == now - hs[h].born >= TTL

\* insert_at: expired entries go first, then the oldest when the store is full.
Insert(h, s) ==
    LET kept == {k \in store : ~Expired(k)}
        oldest == {k \in kept : \A j \in kept : hs[k].born <= hs[j].born}
    IN \E out \in IF Cardinality(kept) >= Capacity THEN {{k} : k \in oldest} ELSE {{}} :
          /\ store' = (kept \ out) \union {h}
          /\ lost' = [k \in Hs |-> CASE k \in store \ kept -> "expired"
                                     [] k \in out -> "evicted"
                                     [] OTHER -> lost[k]]

\* start_sso_and_get_auth_url: the state is unguessable, so a new number.
Start(s, p) ==
    LET free == {h \in Hs : hs[h] = None}
        h == CHOOSE k \in free : \A j \in free : k <= j
    IN /\ free # {}
       /\ hs' = [hs EXCEPT ![h] = [sess |-> s, prov |-> p, born |-> now]]
       /\ Insert(h, s)
       /\ UNCHANGED <<now, code, ret, login, ip>>

\* Somebody who follows the authorization URL signs in at the provider, which
\* issues a code bound to the nonce of that handshake; a code is used once.
SignIn(h, u) ==
    /\ h \in Started /\ code[h] = None
    /\ \E verified \in BOOLEAN :
          code' = [code EXCEPT ![h] = [user |-> u, verified |-> verified, used |-> FALSE]]
    /\ UNCHANGED <<now, hs, store, lost, ret, login, ip>>

\* The request comes back with a state and a code, in any session's browser.
Return(r, s, h, c) ==
    /\ ret[r].pc = "none" /\ h \in Started /\ c \in Started /\ code[c] # None
    /\ ret' = [ret EXCEPT ![r] = [pc |-> "take", s |-> s, h |-> h, c |-> c]]
    /\ UNCHANGED <<now, hs, store, lost, code, login, ip>>

Answer(r, what) == ret' = [ret EXCEPT ![r] = [@ EXCEPT !.pc = what]]

\* Mutant: the handshake is consumed whoever presents its state.
Take_Consume(r) ==
    LET h == ret[r].h
        own == h \in store /\ ~Expired(h) /\ hs[h].sess = ret[r].s
    IN /\ ret[r].pc = "take"
       /\ store' = store \ {h}
       /\ lost' = IF h \notin store THEN lost
                  ELSE [lost EXCEPT ![h] = IF own THEN "taken" ELSE "foreign"]
       /\ Answer(r, IF own THEN "verify" ELSE "sso_failed")
       /\ UNCHANGED <<now, hs, code, login, ip>>

\* Mutant: the handshake is not bound to the session that started it.
Bound_Anyone(r) == TRUE

\* The state is presented by the session that the handshake is bound to.
Bound(r) == hs[ret[r].h].sess = ret[r].s

\* Mutant: the handshake stays in the store when it is taken.
Take_Keep(r) ==
    LET h == ret[r].h
        own == h \in store /\ ~Expired(h) /\ Bound(r)
    IN /\ ret[r].pc = "take"
       /\ Answer(r, IF own THEN "verify" ELSE "sso_failed")
       /\ UNCHANGED <<now, hs, store, lost, code, login, ip>>

\* take_at: an expired entry is dropped, a foreign one stays.
Take(r) ==
    LET h == ret[r].h
        own == h \in store /\ ~Expired(h) /\ Bound(r)
        old == h \in store /\ Expired(h)
    IN /\ ret[r].pc = "take"
       /\ store' = IF own \/ old THEN store \ {h} ELSE store
       /\ lost' = CASE own -> [lost EXCEPT ![h] = "taken"]
                    [] old -> [lost EXCEPT ![h] = "expired"]
                    [] OTHER -> lost
       /\ Answer(r, IF own THEN "verify" ELSE "sso_failed")
       /\ UNCHANGED <<now, hs, code, login, ip>>

\* finish_login: a code is redeemed once, and its token carries the nonce of
\* the handshake it was issued for.
TokenFits(r) == ~code[ret[r].c].used /\ ret[r].c = ret[r].h

\* verify_code: the exchange with the provider, which consumes the code.
VerifyCode(r) ==
    /\ ret[r].pc = "verify"
    /\ code' = [code EXCEPT ![ret[r].c].used = TRUE]
    /\ Answer(r, IF TokenFits(r) THEN "claims" ELSE "sso_failed")
    /\ UNCHANGED <<now, hs, store, lost, login, ip>>

\* The e-mail, the provider's configuration, the account and its addresses.
CheckClaims(r) ==
    /\ ret[r].pc = "claims"
    /\ IF ~code[ret[r].c].verified
       THEN Answer(r, "sso_failed")
       ELSE \E next \in {"submit", "no_matching_user", "access_denied"} : Answer(r, next)
    /\ UNCHANGED <<now, hs, store, lost, code, login, ip>>

\* blocked_address_failure.
CheckAddress(r) ==
    /\ ret[r].pc = "submit"
    /\ Answer(r, IF ip.blocked THEN "ip_blocked" ELSE "credential")
    /\ UNCHANGED <<now, hs, store, lost, code, login, ip>>

Recorded == [failures |-> ip.failures + 1, blocked |-> ip.blocked \/ ip.failures + 1 >= IpMax]

\* Mutant: the failure is recorded before the block is looked up.
Reject_Recorded(r) ==
    /\ ret[r].pc = "credential" /\ ip.failures < IpMax
    /\ ip' = Recorded
    /\ ret' = [ret EXCEPT ![r] = [@ EXCEPT !.pc = IF Recorded.blocked THEN "ip_blocked"
                                                  ELSE "sso_failed"]]
    /\ UNCHANGED <<now, hs, store, lost, code, login>>

\* rejected_credential_failure: the account is locked or its credential is
\* gone; the block is looked up before the failure is recorded.
Reject(r) ==
    /\ ret[r].pc = "credential" /\ ip.failures < IpMax
    /\ Answer(r, IF ip.blocked THEN "ip_blocked" ELSE "sso_failed")
    /\ ip' = Recorded
    /\ UNCHANGED <<now, hs, store, lost, code, login>>

\* The credential counts: the session is logged in, or waits for a factor.
Accept(r) ==
    LET u == code[ret[r].c].user
    IN /\ ret[r].pc = "credential"
       /\ login' = [login EXCEPT ![ret[r].s] = [st |-> IF u \in Factors THEN "pending" ELSE "in",
                                                user |-> u, h |-> ret[r].h, c |-> ret[r].c]]
       /\ ip' = IF u \in Factors THEN ip ELSE [ip EXCEPT !.failures = 0]
       /\ Answer(r, "home")
       /\ UNCHANGED <<now, hs, store, lost, code>>

\* The browser has followed the redirect.
Redirected(r) ==
    /\ ret[r].pc \in {"home", "sso_failed", "no_matching_user", "access_denied", "ip_blocked"}
    /\ ret' = [ret EXCEPT ![r] = [pc |-> "none"]]
    /\ UNCHANGED <<now, hs, store, lost, code, login, ip>>

\* vacuum_at, from the housekeeping loop.
Vacuum ==
    /\ \E h \in store : Expired(h)
    /\ store' = {h \in store : ~Expired(h)}
    /\ lost' = [h \in Hs |-> IF h \in store /\ Expired(h) THEN "expired" ELSE lost[h]]
    /\ UNCHANGED <<now, hs, code, ret, login, ip>>

Tick == now < MaxNow /\ now' = now + 1 /\ UNCHANGED <<hs, store, lost, code, ret, login, ip>>

HandshakeNext ==
    \/ \E s \in Browsers, p \in Providers : Start(s, p)
    \/ \E h \in Hs, u \in Users : SignIn(h, u)
    \/ \E r \in Returns, s \in Browsers, h, c \in Hs : Return(r, s, h, c)
    \/ \E r \in Returns : Take(r)
    \/ \E r \in Returns : VerifyCode(r)
    \/ \E r \in Returns : CheckClaims(r)
    \/ \E r \in Returns : CheckAddress(r)
    \/ \E r \in Returns : Reject(r)
    \/ \E r \in Returns : Accept(r)
    \/ \E r \in Returns : Redirected(r)
    \/ Vacuum
    \/ Tick

HandshakeSpec == HandshakeInit /\ [][HandshakeNext]_handshakeVars

-----------------------------------------------------------------------------
\* A session is logged in only through a handshake of its own, with the code
\* that the provider issued for that very handshake and as the person it was
\* issued to, whichever states and codes were presented in whichever browsers
\* (sso_request_store.rs, finish_login).
OwnHandshake ==
    \A s \in Browsers : login[s].st # "none" =>
        /\ hs[login[s].h].sess = s
        /\ login[s].c = login[s].h
        /\ code[login[s].h] # None /\ login[s].user = code[login[s].h].user

\* A handshake whose session has not come back is only ever lost to its age or
\* to a full store: no other session's return uses it up (take_at).
StillTakable ==
    \A h \in Started : h \notin store =>
        \/ lost[h] = "expired" /\ Expired(h)
        \/ lost[h] = "evicted" /\ Cardinality(Started) > Capacity
        \/ lost[h] = "taken"

\* One handshake makes one login: no two sessions, and no session twice,
\* through answers that are presented again or at the same time.
HandshakeOnce ==
    \A r, q \in Returns : r # q /\ ret[r].pc \notin {"none", "take", "sso_failed"}
                               /\ ret[q].pc \notin {"none", "take", "sso_failed"}
        => ret[r].h # ret[q].h

\* The three together: whose login a handshake becomes.
LoginOfOwnHandshake == OwnHandshake /\ HandshakeOnce /\ StillTakable

\* The answer names a blocked address only when the address was blocked before
\* this return failed (rejected_credential_failure).
NamedFirst ==
    \A r \in Returns : ret'[r].pc = "ip_blocked" /\ ret[r].pc # "ip_blocked" => ip.blocked
=============================================================================
