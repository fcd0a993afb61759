------------------------------- MODULE SsoKeys -------------------------------
(***************************************************************************)
(* The signing keys of an identity provider as one node knows them: the    *)
(* metadata cache with its lifetime, the rate limit on forced refreshes,   *)
(* and the verification of tokens (ID tokens of a login, bearer tokens,    *)
(* logout tokens) that retries once when the key is unknown.               *)
(***************************************************************************)
EXTENDS Naturals

CONSTANTS Tokens,       \* tokens that can be under verification at once
          MaxKey,       \* bound on the keys the provider publishes
          MaxNow,       \* bound on the clock
          TTL,          \* METADATA_CACHE_TTL
          MinInterval,  \* METADATA_REFRESH_MIN_INTERVAL
          Forged,       \* whether tokens come with keys nobody publishes
          None

\* Assumed of the constants:
\*     MaxKey \in Nat \ {0} /\ MaxNow \in Nat /\ TTL \in Nat \ {0} /\ MinInterval \in Nat \ {0}

VARIABLES now,      \* the clock
          keys,     \* keys 1..keys are published
          since,    \* when each key was published
          cache,    \* the cache entry: vacant, being built, or a value
          last,     \* the last forced eviction
          tok       \* the verifications

vars == <<now, keys, since, cache, last, tok>>

Vacant == [st |-> "vacant", known |-> 0, made |-> 0, by |-> None]

Init ==
    /\ now = 0 /\ keys = 1 /\ since = [k \in 1..MaxKey |-> 0]
    /\ cache = Vacant /\ last = None
    /\ tok = [t \in Tokens |-> [pc |-> "none", key |-> 0, from |-> 0, known |-> 0, tries |-> 0]]

\* The provider publishes another key and signs with it from then on.
Publish ==
    /\ keys < MaxKey
    /\ keys' = keys + 1 /\ since' = [since EXCEPT ![keys + 1] = now]
    /\ UNCHANGED <<now, cache, last, tok>>

Tick == now < MaxNow /\ now' = now + 1 /\ UNCHANGED <<keys, since, cache, last, tok>>

\* A token arrives: signed with the newest key, or with one nobody publishes.
Begin(t) ==
    /\ tok[t].pc = "none"
    /\ \E k \in {keys} \union (IF Forged THEN {MaxKey + 1} ELSE {}) :
          tok' = [tok EXCEPT ![t] = [pc |-> "discover", key |-> k, from |-> now,
                                     known |-> 0, tries |-> 0]]
    /\ UNCHANGED <<now, keys, since, cache, last>>

\* discover_metadata finds a value that is young enough, ...
Discover(t) ==
    /\ tok[t].pc = "discover" /\ cache.st = "value" /\ now - cache.made < TTL
    /\ tok' = [tok EXCEPT ![t].pc = "verify", ![t].known = cache.known]
    /\ UNCHANGED <<now, keys, since, cache, last>>

\* ... or starts to fetch it; others wait while it is being built.
StartFetch(t) ==
    /\ tok[t].pc = "discover"
    /\ cache.st = "vacant" \/ (cache.st = "value" /\ now - cache.made >= TTL)
    /\ cache' = [st |-> "building", known |-> 0, made |-> 0, by |-> t]
    /\ tok' = [tok EXCEPT ![t].pc = "fetch", ![t].known = keys]
    /\ UNCHANGED <<now, keys, since, last>>

\* The answer holds the keys of some moment since the request; it is stored
\* unless the entry was removed meanwhile.
Fetched(t) ==
    /\ tok[t].pc = "fetch"
    /\ \E k \in tok[t].known..keys :
          /\ tok' = [tok EXCEPT ![t].pc = "verify", ![t].known = k]
          /\ cache' = IF cache.by = t THEN [st |-> "value", known |-> k, made |-> now, by |-> None]
                      ELSE cache
    /\ UNCHANGED <<now, keys, since, last>>

\* The provider cannot be reached, or its document is not acceptable.
FetchFails(t) ==
    /\ tok[t].pc = "fetch"
    /\ tok' = [tok EXCEPT ![t].pc = "error"]
    /\ cache' = IF cache.by = t THEN Vacant ELSE cache
    /\ UNCHANGED <<now, keys, since, last>>

Recent == last # None /\ now - last < MinInterval

\* Mutant: the time of the last eviction moves with every request for one.
Evict_Pushed == /\ last' = now /\ cache' = IF Recent THEN cache ELSE Vacant

\* evict_for_forced_refresh: at most one forced eviction per interval.
Evict ==
    IF Recent THEN UNCHANGED <<last, cache>> ELSE last' = now /\ cache' = Vacant

\* retry_on_unknown_key.
Verify(t) ==
    /\ tok[t].pc = "verify"
    /\ \/ /\ tok[t].key <= tok[t].known
          /\ tok' = [tok EXCEPT ![t].pc = "accepted"]
          /\ UNCHANGED <<cache, last>>
       \/ /\ tok[t].key > tok[t].known /\ tok[t].tries = 0
          /\ Evict
          /\ tok' = [tok EXCEPT ![t].pc = "discover", ![t].tries = 1]
       \/ /\ tok[t].key > tok[t].known /\ tok[t].tries = 1
          /\ tok' = [tok EXCEPT ![t].pc = "refused"]
          /\ UNCHANGED <<cache, last>>
    /\ UNCHANGED <<now, keys, since>>

Done(t) ==
    /\ tok[t].pc \in {"accepted", "refused", "error"}
    /\ tok' = [tok EXCEPT ![t].pc = "none"]
    /\ UNCHANGED <<now, keys, since, cache, last>>

Next ==
    \/ Publish
    \/ Tick
    \/ \E t \in Tokens : Begin(t)
    \/ \E t \in Tokens : Discover(t)
    \/ \E t \in Tokens : StartFetch(t)
    \/ \E t \in Tokens : Fetched(t)
    \/ \E t \in Tokens : FetchFails(t)
    \/ \E t \in Tokens : Verify(t)
    \/ \E t \in Tokens : Done(t)

Spec == Init /\ [][Next]_vars

-----------------------------------------------------------------------------
\* A token whose key has been published for the length of the refresh interval
\* when its verification begins is not refused for its key: not by a stale
\* cache, not by a fetch that was under way during the rotation, and not by the
\* limit on refreshes, whoever asks for them in between.
RotatedKeyAccepted ==
    \A t \in Tokens : tok[t].pc = "refused" /\ tok[t].key <= MaxKey
                         => tok[t].from < since[tok[t].key] + MinInterval
=============================================================================
