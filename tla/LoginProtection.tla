-------------------------- MODULE LoginProtection --------------------------
(***************************************************************************)
(* Login protection: failed attempts are counted in the database, block an *)
(* address or lock an account for a while, and every node mirrors the      *)
(* blocks in a cache that only its own operations update.                  *)
(*                                                                         *)
(* Time is relative: a block carries the time it has left and an attempt   *)
(* its age, and Tick moves them all.  An address and an account are        *)
(* subjects; row[x] is the ip_blocks or the user_lockouts row of x.  A     *)
(* transaction is one step (SQLite has one writer at a time).              *)
(***************************************************************************)
EXTENDS Integers, FiniteSets, Functions

CONSTANTS
    Nodes, Ips, Users,
    Known,         \* the usernames that exist
    AdminUsers,    \* the users that hold an administrative role
    Logins,        \* clients, each of which may try again for ever
    NodeOf, IpOf, UserOf,
    Configs,       \* the settings an administrator switches between
    IpMax, IpWindow, Base, Mult, MaxBlock, Cooldown,   \* IpRateLimitConfig
    UserMax, UserWindow, LockTime, AutoUnlock, ExemptAdmins,  \* UserLockoutConfig
    Retention,     \* age from which cleanup deletes attempts
    MaxCount       \* block_count saturates once its duration is MaxBlock

Subjects == Ips \cup Users
Horizon == IF IpWindow > UserWindow THEN IpWindow ELSE UserWindow
Enough == IF IpMax > UserMax THEN IpMax ELSE UserMax
Forever == MaxBlock + LockTime + 1     \* no expires_at: manual unlock required

ASSUME SubjectsDisjoint == Ips \cap Users = {}
ASSUME Durations ==
    /\ IpWindow \in Nat /\ UserWindow \in Nat /\ Retention \in Nat /\ Cooldown \in Nat
    /\ Base \in Nat /\ Mult \in Nat /\ MaxBlock \in Nat /\ LockTime \in Nat
    /\ IpMax \in Nat /\ UserMax \in Nat /\ MaxCount \in Nat \ {0}
ASSUME Clients ==
    /\ NodeOf \in [Logins -> Nodes]
    /\ IpOf \in [Logins -> Ips]
    /\ UserOf \in [Logins -> Users]
ASSUME Settings ==
    /\ Configs \subseteq [enabled : BOOLEAN, exempt : SUBSET Ips]
    /\ AutoUnlock \in BOOLEAN /\ ExemptAdmins \in BOOLEAN

VARIABLES
    config,    \* the parameters row
    attempts,  \* failed_login_attempts: how many, by address, user and age
    row,       \* ip_blocks and user_lockouts
    cache,     \* LoginProtectionCache of every node: the time left
    login,     \* what every client's request is doing
    clerk,     \* what the administrator's request on every node is doing
    revoked,   \* auxiliary: the time the longest cleared block had left
    last       \* auxiliary: the last block of an address that was not cleared

vars == <<config, attempts, row, cache, login, clerk, revoked, last>>

-----------------------------------------------------------------------------
NoRow == [count |-> 0, left |-> -1, since |-> 0]
IsLive(x) == row[x].count > 0 /\ row[x].left > 0

\* One unit of time less; what has been over for a while stays over.
Older(left) == IF left = Forever \/ left = -1 THEN left ELSE left - 1
Sooner(left) == IF left = Forever \/ left <= 0 THEN left ELSE left - 1

\* Faulty variant: the configured maximum is forgotten.
BlockDuration_Uncapped(count) ==
    LET power[n \in Nat] == IF n = 0 THEN 1 ELSE Mult * power[n - 1]
    IN  Base * power[count - 1]

\* calculate_block_duration: base * multiplier^(count - 1), capped.
BlockDuration(count) ==
    LET power[n \in Nat] == IF n = 0 THEN 1 ELSE Mult * power[n - 1]
        duration == Base * power[count - 1]
    IN  IF duration < MaxBlock THEN duration ELSE MaxBlock

Idle == [pc |-> "idle", stage |-> "ip", phase |-> "front", block |-> 0, lock |-> 0]

Init ==
    /\ config \in Configs
    /\ attempts = [k \in Ips \X Users \X (0..Horizon) |-> 0]
    /\ row = [x \in Subjects |-> NoRow]
    /\ cache = [n \in Nodes |-> [x \in Subjects |-> 0]]
    /\ login = [l \in Logins |-> Idle]
    /\ clerk = [n \in Nodes |-> [pc |-> "idle", on |-> {}]]
    /\ revoked = [x \in Subjects |-> 0]
    /\ last = [x \in Subjects |-> NoRow]

aux == <<revoked, last>>
tables == <<attempts, row>>

-----------------------------------------------------------------------------
(* The checks ahead of a login: check_ip_blocked and check_user_locked,    *)
(* once at the protocol's front door and once more in submit_credential.   *)

Subject(l) == IF login[l].stage = "ip" THEN IpOf[l] ELSE UserOf[l]

\* The subject passes: the user is checked after the address, a credential of a
\* known user is submitted after the first round, and looked at after the second.
Passes(l) ==
    login' = [login EXCEPT ![l] =
        IF @.stage = "ip" THEN [@ EXCEPT !.stage = "user", !.pc = "look"]
        ELSE IF @.phase = "submit" THEN [Idle EXCEPT !.pc = "validate"]
        ELSE IF UserOf[l] \in Known THEN [Idle EXCEPT !.phase = "submit", !.pc = "look"]
        ELSE [Idle EXCEPT !.pc = "record"]]

\* The subject is blocked.  At the front door the request is over, but an SSH
\* connection counts when it ends if all it did was to try (settle_failed_probe); a
\* submitted credential is reported invalid, and its caller counts it.
Denied(l) ==
    \E next \in {"record"} \cup IF login[l].phase = "front" THEN {"idle"} ELSE {} :
        login' = [login EXCEPT ![l] = [Idle EXCEPT !.pc = next]]

\* An active entry was found; an administrator may be exempt from it.
Found(l) ==
    IF login[l].stage = "user" /\ ExemptAdmins /\ UserOf[l] \in AdminUsers
    THEN Passes(l) ELSE Denied(l)

Start(l) ==
    /\ login[l].pc = "idle"
    /\ login' = [login EXCEPT ![l].pc = "look"]
    /\ UNCHANGED <<config, tables, cache, clerk, aux>>

\* The settings and the cache are looked at ...
Look(l) ==
    LET x == Subject(l) IN
    /\ login[l].pc = "look"
    /\ IF ~config.enabled \/ x \in config.exempt THEN Passes(l)
       ELSE IF cache[NodeOf[l]][x] > 0 THEN Found(l)
       ELSE login' = [login EXCEPT ![l].pc = "read"]
    /\ UNCHANGED <<config, tables, cache, clerk, aux>>

\* ... then the table,
Read(l) ==
    LET x == Subject(l) IN
    /\ login[l].pc = "read"
    /\ IF IsLive(x)
       THEN login' = [login EXCEPT ![l].pc = "fill", ![l].block = row[x].left]
       ELSE Passes(l)
    /\ UNCHANGED <<config, tables, cache, clerk, aux>>

\* and what was read is remembered.
Fill(l) ==
    /\ login[l].pc = "fill"
    /\ cache' = [cache EXCEPT ![NodeOf[l]][Subject(l)] = login[l].block]
    /\ Found(l)
    /\ UNCHANGED <<config, tables, clerk, aux>>

\* The credential is right and completes the login, is invalid, calls for another
\* one on the same connection, which is submitted without a look at the front door,
\* or none of these (another gate stops the login).
Validate(l) ==
    /\ login[l].pc = "validate"
    /\ \E next \in {[Idle EXCEPT !.pc = "clear"], [Idle EXCEPT !.pc = "record"],
                    [Idle EXCEPT !.pc = "look", !.phase = "submit"], Idle} :
           login' = [login EXCEPT ![l] = next]
    /\ UNCHANGED <<config, tables, cache, clerk, aux>>

\* clear_failed_attempts.
Clear(l) ==
    /\ login[l].pc = "clear"
    /\ attempts' = [k \in DOMAIN attempts |->
            IF config.enabled /\ k[1] = IpOf[l] /\ k[2] = UserOf[l] THEN 0 ELSE attempts[k]]
    /\ login' = [login EXCEPT ![l] = Idle]
    /\ UNCHANGED <<config, row, cache, clerk, aux>>

-----------------------------------------------------------------------------
(* record_failed_attempt.                                                  *)

\* The counts stop at Enough: nothing distinguishes more.
WithAttempt(i, u) ==
    [attempts EXCEPT ![<<i, u, 0>>] = IF @ < Enough THEN @ + 1 ELSE @]
IpCount(table, i) ==
    SumFunctionOnSet(table, {k \in DOMAIN table : k[1] = i /\ k[3] <= IpWindow})
UserCount(table, u) ==
    SumFunctionOnSet(table, {k \in DOMAIN table : k[2] = u /\ k[3] <= UserWindow})

\* Faulty variant: a retry arms the block of a blocked address again.
MayBlock_Rearms(i) == i \notin config.exempt

\* create_or_update_ip_block leaves a live block as it is.
MayBlock(i) == i \notin config.exempt /\ ~IsLive(i)

\* An address that has not been quiet for long enough is blocked for longer.
NextCount(i) ==
    IF row[i].count > 0 /\ row[i].since <= Cooldown
    THEN IF row[i].count < MaxCount THEN row[i].count + 1 ELSE MaxCount
    ELSE 1

\* create_user_lockout refuses while the user has a row, and its caller when the
\* user does not exist or is an exempt administrator.
MayLock(u) ==
    /\ u \in Known
    /\ ~(u \in AdminUsers /\ ExemptAdmins)
    /\ row[u].count = 0

\* Faulty variant: a retry is told of a block of full length.
Told_Always(made, left) == left

\* What the node is told of the block or the lock, made or not, that the
\* transaction decided on.
Told(made, left) == IF made THEN left ELSE 0

\* The transaction.
Record(l) ==
    LET i == IpOf[l]
        u == UserOf[l]
        table == WithAttempt(i, u)
        blocks == IpCount(table, i) >= IpMax /\ MayBlock(i)
        locks == UserCount(table, u) >= UserMax /\ MayLock(u)
        block == [count |-> NextCount(i), left |-> BlockDuration(NextCount(i)), since |-> 0]
        lock == [count |-> 1, left |-> IF AutoUnlock THEN LockTime ELSE Forever, since |-> 0]
    IN
    /\ login[l].pc = "record"
    /\ IF config.enabled
       THEN /\ attempts' = table
            /\ row' = [x \in Subjects |-> IF x = i /\ blocks THEN block
                                          ELSE IF x = u /\ locks THEN lock ELSE row[x]]
            /\ last' = [last EXCEPT ![i] = IF blocks THEN block ELSE @]
            /\ login' = [login EXCEPT ![l] =
                   [Idle EXCEPT !.pc = "reflect",
                                !.block = Told(blocks, block.left),
                                !.lock = Told(locks, lock.left)]]
       ELSE /\ login' = [login EXCEPT ![l] = Idle]
            /\ UNCHANGED <<tables, last>>
    /\ UNCHANGED <<config, cache, clerk, revoked>>

\* After the commit the node takes note of what it did.
Reflect(l) ==
    LET n == NodeOf[l] IN
    /\ login[l].pc = "reflect"
    /\ cache' = [cache EXCEPT ![n] = [x \in Subjects |->
            IF x = IpOf[l] /\ login[l].block > 0 THEN login[l].block
            ELSE IF x = UserOf[l] /\ login[l].lock > 0 THEN login[l].lock ELSE @[x]]]
    /\ login' = [login EXCEPT ![l] = Idle]
    /\ UNCHANGED <<config, tables, clerk, aux>>

\* A statement fails, and the login with it (a failure to record is only
\* logged), or the client goes away.
Drop(l) ==
    /\ login[l].pc # "idle"
    /\ login' = [login EXCEPT ![l] = Idle]
    /\ UNCHANGED <<config, tables, cache, clerk, aux>>

-----------------------------------------------------------------------------
(* Administrators, cleanup, restarts and the clock.                        *)

\* unblock_ip and unlock_user delete the row,
Unblock(n, x) ==
    /\ clerk[n].pc = "idle"
    /\ row' = [row EXCEPT ![x] = NoRow]
    /\ last' = [last EXCEPT ![x] = NoRow]
    /\ revoked' = [revoked EXCEPT ![x] = IF IsLive(x) /\ row[x].left > @ THEN row[x].left ELSE @]
    /\ clerk' = [clerk EXCEPT ![n] = [pc |-> "attempts", on |-> {x}]]
    /\ UNCHANGED <<config, attempts, cache, login>>

\* then the attempts,
ForgetAttempts(n) ==
    /\ clerk[n].pc = "attempts"
    /\ attempts' = [k \in DOMAIN attempts |->
            IF {k[1], k[2]} \cap clerk[n].on # {} THEN 0 ELSE attempts[k]]
    /\ clerk' = [clerk EXCEPT ![n].pc = "cache"]
    /\ UNCHANGED <<config, row, cache, login, aux>>

\* then the entry in this node's cache.
ForgetEntry(n) ==
    /\ clerk[n].pc = "cache"
    /\ cache' = [cache EXCEPT ![n] = [x \in Subjects |-> IF x \in clerk[n].on THEN 0 ELSE @[x]]]
    /\ clerk' = [clerk EXCEPT ![n] = [pc |-> "idle", on |-> {}]]
    /\ UNCHANGED <<config, tables, login, aux>>

\* Faulty variant: a row is deleted in the last moment of its life.
IsOver_TooSoon(x) == row[x].left <= 1

\* expires_at < now.
IsOver(x) == row[x].left < 0

\* cleanup_expired.  An expired entry in the cache is as good as none.
Cleanup ==
    /\ config.enabled
    /\ row' = [x \in Subjects |-> IF row[x].count > 0 /\ IsOver(x) THEN NoRow ELSE row[x]]
    /\ attempts' = [k \in DOMAIN attempts |-> IF k[3] > Retention THEN 0 ELSE attempts[k]]
    /\ UNCHANGED <<config, cache, login, clerk, aux>>

\* LoginProtectionService::new warms the cache from the tables.
Restart(n) ==
    /\ cache' = [cache EXCEPT ![n] = [x \in Subjects |->
            IF config.enabled /\ IsLive(x) THEN row[x].left ELSE 0]]
    /\ login' = [l \in Logins |-> IF NodeOf[l] = n THEN Idle ELSE login[l]]
    /\ clerk' = [clerk EXCEPT ![n] = [pc |-> "idle", on |-> {}]]
    /\ UNCHANGED <<config, tables, aux>>

\* An administrator saves other settings.
Configure ==
    /\ config' \in Configs \ {config}
    /\ UNCHANGED <<tables, cache, login, clerk, aux>>

\* Time passes.  Attempts that no count looks at any more are dropped.
Tick ==
    LET aged(r) == IF r.count = 0 THEN r
                   ELSE [r EXCEPT !.left = Older(r.left),
                                  !.since = IF r.since <= Cooldown THEN r.since + 1 ELSE r.since]
    IN
    /\ attempts' = [k \in DOMAIN attempts |->
            IF k[3] = 0 THEN 0 ELSE attempts[<<k[1], k[2], k[3] - 1>>]]
    /\ row' = [x \in Subjects |-> aged(row[x])]
    /\ last' = [x \in Subjects |-> aged(last[x])]
    /\ cache' = [n \in Nodes |-> [x \in Subjects |-> Sooner(cache[n][x])]]
    /\ login' = [l \in Logins |-> [login[l] EXCEPT !.block = Sooner(@), !.lock = Sooner(@)]]
    /\ revoked' = [x \in Subjects |-> Sooner(revoked[x])]
    /\ UNCHANGED <<config, clerk>>

-----------------------------------------------------------------------------
Next ==
    \/ \E l \in Logins :
          \/ Start(l) \/ Look(l) \/ Read(l) \/ Fill(l) \/ Validate(l)
          \/ Clear(l) \/ Record(l) \/ Reflect(l) \/ Drop(l)
    \/ \E n \in Nodes :
          \/ \E x \in Subjects : Unblock(n, x)
          \/ ForgetAttempts(n) \/ ForgetEntry(n) \/ Restart(n)
    \/ Cleanup \/ Configure \/ Tick

Spec == Init /\ [][Next]_vars

\* Time passes.  No client has to stop trying, and no administrator to help.
FairSpec == Spec /\ WF_vars(Tick)

-----------------------------------------------------------------------------
(* Properties.                                                             *)

Left == {-1} \cup 0..Forever
Row == [count : 0..MaxCount, left : Left, since : 0..(Cooldown + 1)]
\* Every variable keeps its type.
TypeOK ==
    /\ config \in Configs
    /\ attempts \in [Ips \X Users \X (0..Horizon) -> 0..Enough]
    /\ row \in [Subjects -> Row]
    /\ cache \in [Nodes -> [Subjects -> 0..Forever]]
    /\ login \in [Logins -> [pc : {"idle", "look", "read", "fill", "validate", "clear",
                                   "record", "reflect"},
                             stage : {"ip", "user"}, phase : {"front", "submit"},
                             block : 0..Forever, lock : 0..Forever]]
    /\ clerk \in [Nodes -> [pc : {"idle", "attempts", "cache"}, on : SUBSET Subjects]]
    /\ revoked \in [Subjects -> 0..Forever]
    /\ last \in [Subjects -> Row]

\* "A retry from an address that is still blocked leaves the block as it is"
\* (create_or_update_ip_block): only time shortens a live block, and only an
\* administrator deletes it, whatever cleanup, other clients and nodes do.
BlockStands ==
    [][\A x \in Subjects : IsLive(x) =>
          \/ row'[x].count = row[x].count /\ row'[x].left \in {row[x].left, Older(row[x].left)}
          \/ row'[x].count = 0 /\ revoked'[x] >= row[x].left]_vars

\* A cache never refuses for longer than the database does, except for what an
\* administrator has cleared, and then never past the time it had left
\* (check_ip_blocked, check_user_locked, record_failed_attempt and their fills).
CacheBacked ==
    \A n \in Nodes, x \in Subjects : cache[n][x] > 0 =>
        \/ row[x].count > 0 /\ cache[n][x] <= row[x].left
        \/ cache[n][x] <= revoked[x]

\* A block that has a term; it comes to its end, however often its address tries:
\* "Re-arming it on every attempt meant a client that kept retrying was never let go".
Termed(x) == IsLive(x) /\ row[x].left # Forever

\* "Lock real accounts over the threshold; skip non-existent usernames and
\* (unless exemption is disabled) admins" (record_failed_attempt).
LocksOverThreshold ==
    [][\A l \in Logins : login[l].pc = "record" /\ login'[l].pc = "reflect" =>
          LET u == UserOf[l] IN
          UserCount(attempts', u) >= UserMax /\ u \in Known /\ ~(u \in AdminUsers /\ ExemptAdmins)
              => IsLive(u)']_vars
=============================================================================
