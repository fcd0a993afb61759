----------------------- MODULE LoginProtectionProofs -----------------------
(***************************************************************************)
(* Proofs about LoginProtection: its types, that a live block stands, and  *)
(* that no cache refuses for longer than the database did.                 *)
(***************************************************************************)
EXTENDS LoginProtection, WellFoundedInduction, TLAPS

-----------------------------------------------------------------------------
(* What calculate_block_duration returns.                                  *)

\* A set of naturals has a least element.
LEMMA LeastNat ==
    ASSUME NEW S, S \subseteq Nat, S # {}
    PROVE  \E x \in S : \A y \in S : x <= y
<1>1. \E R : IsWellFoundedOn(R, Nat) /\ \A x, y \in Nat : <<y, x>> \in R <=> y < x
  <2>1. IsWellFoundedOn(OpToRel(<, Nat), Nat)
    BY NatLessThanWellFounded
  <2>2. \A x, y \in Nat : <<y, x>> \in OpToRel(<, Nat) <=> y < x
    BY DEF OpToRel
  <2> QED
    BY <2>1, <2>2
<1>2. PICK R : IsWellFoundedOn(R, Nat) /\ \A x, y \in Nat : <<y, x>> \in R <=> y < x
  BY <1>1
<1>3. PICK x \in S : \A y \in S : ~ (<<y, x>> \in R)
  BY <1>2, WFMin
<1>4. \A y \in S : x <= y
  <2> SUFFICES ASSUME NEW y \in S PROVE x <= y
    OBVIOUS
  <2>1. ~ (y < x)
    BY <1>2, <1>3
  <2> QED
    BY <2>1
<1> QED
  BY <1>3, <1>4

\* Induction on the naturals, over a set.
LEMMA SetInduction ==
    ASSUME NEW S, 0 \in S, \A n \in Nat : n \in S => n + 1 \in S
    PROVE  Nat \subseteq S
<1> SUFFICES ASSUME Nat \ S # {} PROVE FALSE
  OBVIOUS
<1>1. PICK x \in Nat \ S : \A y \in Nat \ S : x <= y
  BY LeastNat
<1>2. x # 0 /\ x - 1 \in Nat /\ x - 1 \notin Nat \ S
  BY <1>1
<1> QED
  BY <1>1, <1>2

\* The powers of the multiplier up to the n-th.
Powers(g, n) == g \in [0 .. n -> Nat] /\ g[0] = 1 /\ \A k \in 1 .. n : g[k] = Mult * g[k - 1]

LEMMA PowersExist == \A n \in Nat : \E g : Powers(g, n)
<1> DEFINE S == {n \in Nat : \E g : Powers(g, n)}
<1>1. 0 \in S
  <2>1. Powers([k \in 0 .. 0 |-> 1], 0)
    BY DEF Powers
  <2> QED
    BY <2>1
<1>2. ASSUME NEW n \in Nat, n \in S PROVE n + 1 \in S
  <2>1. PICK g : Powers(g, n)
    BY <1>2
  <2> DEFINE h == [k \in 0 .. n + 1 |-> IF k = n + 1 THEN Mult * g[n] ELSE g[k]]
  <2>2. g[n] \in Nat /\ Mult * g[n] \in Nat
    BY <2>1, Durations DEF Powers
  <2>3. h \in [0 .. n + 1 -> Nat] /\ h[0] = 1
    BY <2>1, <2>2 DEF Powers
  <2>4. ASSUME NEW k \in 1 .. n + 1 PROVE h[k] = Mult * h[k - 1]
    <3>1. CASE k = n + 1
      BY <3>1
    <3>2. CASE k # n + 1
      <4>1. k \in 1 .. n /\ h[k] = g[k] /\ h[k - 1] = g[k - 1]
        BY <3>2
      <4> QED
        BY <2>1, <4>1 DEF Powers
    <3> QED
      BY <3>1, <3>2
  <2> HIDE DEF h
  <2>5. Powers(h, n + 1)
    BY <2>3, <2>4 DEF Powers
  <2> QED
    BY <2>5
<1> HIDE DEF S
<1>3. Nat \subseteq S
  BY <1>1, <1>2, SetInduction
<1> QED
  BY <1>3 DEF S

LEMMA PowersAgree ==
    ASSUME NEW n \in Nat, NEW g, NEW h, Powers(g, n), Powers(h, n + 1)
    PROVE  g[n] = h[n]
<1> DEFINE S == {k \in Nat : k <= n => g[k] = h[k]}
<1>1. 0 \in S
  BY DEF Powers
<1>2. ASSUME NEW k \in Nat, k \in S PROVE k + 1 \in S
  <2> SUFFICES ASSUME k + 1 <= n PROVE g[k + 1] = h[k + 1]
    OBVIOUS
  <2>1. k + 1 \in 1 .. n /\ k + 1 \in 1 .. n + 1 /\ (k + 1) - 1 = k /\ g[k] = h[k]
    BY <1>2
  <2>2. g[k + 1] = Mult * g[k] /\ h[k + 1] = Mult * h[k]
    BY <2>1 DEF Powers
  <2> QED
    BY <2>1, <2>2
<1> HIDE DEF S
<1>3. n \in S
  BY <1>1, <1>2, SetInduction
<1> QED
  BY <1>3 DEF S

IsPower(f) == f = [n \in Nat |-> IF n = 0 THEN 1 ELSE Mult * f[n - 1]]

LEMMA PowerExists == \E f : IsPower(f)
<1> DEFINE G(n) == CHOOSE g : Powers(g, n)
           F == [n \in Nat |-> G(n)[n]]
<1>1. \A n \in Nat : Powers(G(n), n)
  BY PowersExist
<1> HIDE DEF G
<1>2. ASSUME NEW n \in Nat PROVE F[n] = IF n = 0 THEN 1 ELSE Mult * F[n - 1]
  <2>1. CASE n = 0
    BY <1>1, <2>1 DEF Powers
  <2>2. CASE n # 0
    <3> DEFINE m == n - 1
    <3>1. m \in Nat /\ m + 1 = n
      BY <2>2
    <3>2. G(m)[m] = G(n)[m]
      BY <1>1, <3>1, PowersAgree
    <3>3. n \in 1 .. n /\ G(n)[n] = Mult * G(n)[n - 1]
      BY <1>1, <2>2 DEF Powers
    <3> QED
      BY <2>2, <3>1, <3>2, <3>3
  <2> QED
    BY <2>1, <2>2
<1>3. F = [n \in Nat |-> F[n]]
  OBVIOUS
<1> HIDE DEF F
<1>4. IsPower(F)
  BY <1>2, <1>3 DEF IsPower
<1> QED
  BY <1>4

\* Every block lasts between nothing and the configured maximum.
LEMMA BlockBounded ==
    ASSUME NEW c \in 1 .. MaxCount
    PROVE  BlockDuration(c) \in 0 .. MaxBlock
<1>1. PICK f : /\ IsPower(f)
               /\ BlockDuration(c) = IF Base * f[c - 1] < MaxBlock THEN Base * f[c - 1] ELSE MaxBlock
  BY PowerExists DEF BlockDuration, IsPower
<1>2. f[0] = 1 /\ \A n \in Nat : f[n + 1] = Mult * f[n]
  BY <1>1 DEF IsPower
<1> DEFINE S == {n \in Nat : f[n] \in Nat}
<1>3. 0 \in S
  BY <1>2
<1>4. ASSUME NEW n \in Nat, n \in S PROVE n + 1 \in S
  BY <1>2, <1>4, Durations
<1>5. c - 1 \in Nat
  BY Durations
<1> HIDE DEF S
<1>6. c - 1 \in S
  BY <1>3, <1>4, <1>5, SetInduction
<1>7. f[c - 1] \in Nat
  BY <1>6 DEF S
<1>8. Base * f[c - 1] \in Nat
  BY <1>7, Durations
<1> QED
  BY <1>1, <1>8, Durations

-----------------------------------------------------------------------------
\* A time left that is on its way to a cache, or in one, is no longer than that
\* of the row, or of a row an administrator has deleted.
Backed(x, left) ==
    left > 0 => \/ row[x].count > 0 /\ left <= row[x].left
                \/ left <= revoked[x]

\* CacheBacked, made inductive: what a login carries to its cache is backed too.
Backing ==
    /\ \A n \in Nodes, x \in Subjects : Backed(x, cache[n][x])
    /\ \A l \in Logins :
        /\ login[l].pc = "fill" => Backed(Subject(l), login[l].block)
        /\ login[l].pc = "reflect" =>
            Backed(IpOf[l], login[l].block) /\ Backed(UserOf[l], login[l].lock)

LoginPcs == {"idle", "look", "read", "fill", "validate", "clear", "record", "reflect"}
LoginStates == [pc : LoginPcs, stage : {"ip", "user"}, phase : {"front", "submit"},
                block : 0..Forever, lock : 0..Forever]

-----------------------------------------------------------------------------
(* Lemmas on the operators of the model.                                   *)

LEMMA ForeverIsLast == Forever \in Nat /\ MaxBlock < Forever /\ LockTime < Forever
BY Durations DEF Forever

\* A client's address and its account are subjects.
LEMMA SubjectTypes ==
    ASSUME NEW l \in Logins
    PROVE  IpOf[l] \in Subjects /\ UserOf[l] \in Subjects /\ NodeOf[l] \in Nodes
           /\ Subject(l) \in Subjects
BY Clients DEF Subjects, Subject

\* Time shortens what is left without leaving its range.
LEMMA OlderType == \A v \in Left : Older(v) \in Left
BY ForeverIsLast DEF Older, Left

LEMMA SoonerType == \A v \in 0..Forever : Sooner(v) \in 0..Forever
BY ForeverIsLast DEF Sooner

\* What was no longer than a row, or than a deleted one, stays so as time passes.
LEMMA SoonerThanOlder ==
    \A v \in 0..Forever, r \in Left : v <= r /\ Sooner(v) > 0 => Sooner(v) <= Older(r)
BY ForeverIsLast DEF Older, Sooner, Left

LEMMA SoonerMonotone ==
    \A v, r \in 0..Forever : v <= r /\ Sooner(v) > 0 => Sooner(v) <= Sooner(r)
BY ForeverIsLast DEF Sooner

LEMMA SoonerPositive == \A v \in 0..Forever : Sooner(v) > 0 => v > 0
BY ForeverIsLast DEF Sooner

\* The count of the next block is one the duration is known for.
LEMMA NextCountType ==
    ASSUME TypeOK, NEW i \in Ips
    PROVE  NextCount(i) \in 1..MaxCount
<1>1. row[i] \in Row
  BY DEF TypeOK, Subjects
<1> QED
  BY <1>1, Durations DEF NextCount, Row

\* A login passes, or is denied, with its types intact and nothing to carry.
LEMMA PassesType ==
    ASSUME TypeOK, NEW l \in Logins, Passes(l)
    PROVE  /\ login' \in [Logins -> LoginStates]
           /\ \A m \in Logins : m # l => login'[m] = login[m]
           /\ login'[l].pc \notin {"fill", "reflect"}
<1>1. login \in [Logins -> LoginStates] /\ 0 \in 0..Forever
  BY ForeverIsLast DEF TypeOK, LoginStates, LoginPcs
<1> QED
  BY <1>1 DEF Passes, Idle, LoginStates, LoginPcs

LEMMA FoundType ==
    ASSUME TypeOK, NEW l \in Logins, Found(l)
    PROVE  /\ login' \in [Logins -> LoginStates]
           /\ \A m \in Logins : m # l => login'[m] = login[m]
           /\ login'[l].pc \notin {"fill", "reflect"}
<1>1. login \in [Logins -> LoginStates] /\ 0 \in 0..Forever
  BY ForeverIsLast DEF TypeOK, LoginStates, LoginPcs
<1>2. CASE Passes(l)
  BY <1>2, PassesType
<1>3. CASE Denied(l)
  BY <1>1, <1>3 DEF Denied, Idle, LoginStates, LoginPcs
<1> QED
  BY <1>2, <1>3 DEF Found

-----------------------------------------------------------------------------
(* The inductive invariant.                                                *)

Inv == TypeOK /\ Backing

LEMMA InvInit == Init => Inv
<1> SUFFICES ASSUME Init PROVE Inv
  OBVIOUS
<1>1. 0 \in 0..Forever /\ 0 \in 0..Enough /\ NoRow \in Row
  BY ForeverIsLast, Durations DEF NoRow, Row, Left, Enough
<1>2. TypeOK
  BY <1>1, Settings DEF TypeOK, Init, Idle
<1>3. Backing
  BY DEF Backing, Backed, Init, Idle
<1> QED
  BY <1>2, <1>3 DEF Inv

\* A step of one login that changes no table and no cache, and leaves the login
\* with nothing to carry, preserves the invariant.
LEMMA EmptyHanded ==
    ASSUME Inv, NEW l \in Logins,
           UNCHANGED <<config, tables, cache, clerk, aux>>,
           login' \in [Logins -> LoginStates],
           \A m \in Logins : m # l => login'[m] = login[m],
           login'[l].pc \notin {"fill", "reflect"}
    PROVE  Inv'
<1>1. TypeOK'
  BY DEF Inv, TypeOK, tables, aux, LoginStates, LoginPcs
<1>2. Backing'
  BY DEF Inv, Backing, Backed, Subject, tables, aux
<1> QED
  BY <1>1, <1>2 DEF Inv

\* The steps of a login that only move it on.
LEMMA MovesOn ==
    ASSUME Inv, NEW l \in Logins,
           Start(l) \/ Look(l) \/ Read(l) \/ Validate(l) \/ Drop(l)
    PROVE  Inv'
<1> USE DEF Inv
<1>1. login \in [Logins -> LoginStates] /\ 0 \in 0..Forever
  BY ForeverIsLast DEF TypeOK, LoginStates, LoginPcs
<1>2. CASE Start(l)
  BY <1>1, <1>2, EmptyHanded DEF Start, LoginStates, LoginPcs
<1>3. CASE Look(l)
  <2>1. CASE Passes(l)
    BY <1>3, <2>1, PassesType, EmptyHanded DEF Look
  <2>2. CASE Found(l)
    BY <1>3, <2>2, FoundType, EmptyHanded DEF Look
  <2>3. CASE login' = [login EXCEPT ![l].pc = "read"]
    BY <1>1, <1>3, <2>3, EmptyHanded DEF Look, LoginStates, LoginPcs
  <2> QED
    BY <1>3, <2>1, <2>2, <2>3 DEF Look
<1>4. CASE Read(l)
  <2> DEFINE x == Subject(l)
  <2>1. CASE Passes(l)
    BY <1>4, <2>1, PassesType, EmptyHanded DEF Read
  <2>2. CASE IsLive(x) /\ login' = [login EXCEPT ![l].pc = "fill", ![l].block = row[x].left]
    <3>1. x \in Subjects /\ row[x] \in Row
      BY SubjectTypes DEF TypeOK
    <3>2. row[x].left \in 0..Forever
      BY <2>2, <3>1, ForeverIsLast DEF IsLive, Row, Left
    <3>3. login' \in [Logins -> LoginStates]
      BY <1>1, <2>2, <3>2 DEF LoginStates, LoginPcs
    <3>4. TypeOK'
      BY <1>4, <3>3 DEF Read, TypeOK, tables, aux, LoginStates, LoginPcs
    <3>5. login'[l].block = row[x].left /\ login'[l].pc = "fill" /\ Subject(l)' = x
      BY <1>1, <2>2 DEF Subject, LoginStates
    <3>6. Backing'
      <4>1. \A m \in Logins : m # l => login'[m] = login[m]
        BY <1>1, <2>2
      <4>2. Backed(x, row[x].left)
        BY <2>2, <3>2 DEF Backed, IsLive
      <4> QED
        BY <1>4, <3>5, <4>1, <4>2 DEF Read, Backing, Backed, Subject, tables, aux
    <3> QED
      BY <3>4, <3>6
  <2> QED
    BY <1>4, <2>1, <2>2 DEF Read
<1>5. CASE Validate(l)
  <2>1. PICK next \in {[Idle EXCEPT !.pc = "clear"], [Idle EXCEPT !.pc = "record"],
                       [Idle EXCEPT !.pc = "look", !.phase = "submit"], Idle} :
            login' = [login EXCEPT ![l] = next]
    BY <1>5 DEF Validate
  <2>2. next \in LoginStates /\ next.pc \notin {"fill", "reflect"}
    <3>1. CASE next = [Idle EXCEPT !.pc = "clear"]
      BY <1>1, <3>1 DEF Idle, LoginStates, LoginPcs
    <3>2. CASE next = [Idle EXCEPT !.pc = "record"]
      BY <1>1, <3>2 DEF Idle, LoginStates, LoginPcs
    <3>3. CASE next = [Idle EXCEPT !.pc = "look", !.phase = "submit"]
      BY <1>1, <3>3 DEF Idle, LoginStates, LoginPcs
    <3>4. CASE next = Idle
      BY <1>1, <3>4 DEF Idle, LoginStates, LoginPcs
    <3> QED
      BY <2>1, <3>1, <3>2, <3>3, <3>4
  <2>3. /\ login' \in [Logins -> LoginStates]
        /\ login'[l] = next
        /\ \A m \in Logins : m # l => login'[m] = login[m]
    BY <1>1, <2>1, <2>2
  <2> QED
    BY <1>5, <2>2, <2>3, EmptyHanded DEF Validate
<1>6. CASE Drop(l)
  BY <1>1, <1>6, EmptyHanded DEF Drop, Idle, LoginStates, LoginPcs
<1> QED
  BY <1>2, <1>3, <1>4, <1>5, <1>6

\* The steps of a login that write to its node's cache.
LEMMA Remembers ==
    ASSUME Inv, NEW l \in Logins, Fill(l) \/ Reflect(l)
    PROVE  Inv'
<1> USE DEF Inv
<1>1. /\ login \in [Logins -> LoginStates] /\ 0 \in 0..Forever
      /\ cache \in [Nodes -> [Subjects -> 0..Forever]]
  BY ForeverIsLast DEF TypeOK, LoginStates, LoginPcs
<1>2. UNCHANGED <<config, attempts, row, clerk, revoked, last>>
  BY DEF Fill, Reflect, tables, aux
<1>3. /\ login' \in [Logins -> LoginStates]
      /\ \A m \in Logins : m # l => login'[m] = login[m]
      /\ login'[l].pc \notin {"fill", "reflect"}
  <2>1. CASE Fill(l)
    BY <2>1, FoundType DEF Fill
  <2>2. CASE Reflect(l)
    BY <1>1, <2>2 DEF Reflect, Idle, LoginStates, LoginPcs
  <2> QED
    BY <2>1, <2>2
<1>4. /\ cache' \in [Nodes -> [Subjects -> 0..Forever]]
      /\ \A n \in Nodes, x \in Subjects : Backed(x, cache'[n][x])
  <2>1. CASE Fill(l)
    BY <1>1, <2>1, SubjectTypes DEF Fill, Backing, LoginStates
  <2>2. CASE Reflect(l)
    BY <1>1, <2>2, SubjectTypes DEF Reflect, Backing, LoginStates
  <2> QED
    BY <2>1, <2>2
<1>5. TypeOK'
  BY <1>2, <1>3, <1>4 DEF TypeOK, LoginStates, LoginPcs
<1>6. Backing'
  BY <1>2, <1>3, <1>4 DEF Backing, Backed, Subject
<1> QED
  BY <1>5, <1>6

\* Clearing attempts, for a login or for an administrator, touches no block.
LEMMA Clears ==
    ASSUME Inv, (\E l \in Logins : Clear(l)) \/ (\E n \in Nodes : ForgetAttempts(n))
    PROVE  Inv'
<1> USE DEF Inv
<1>1. 0 \in 0..Enough /\ 0 \in 0..Forever
  BY ForeverIsLast, Durations DEF Enough
<1>2. CASE \E l \in Logins : Clear(l)
  <2>1. PICK l \in Logins : Clear(l)
    BY <1>2
  <2>2. login' = [login EXCEPT ![l] = Idle]
    BY <2>1 DEF Clear
  <2>3. login' \in [Logins -> LoginStates]
    BY <1>1, <2>2 DEF TypeOK, Idle, LoginStates, LoginPcs
  <2>4. attempts' \in [Ips \X Users \X (0..Horizon) -> 0..Enough]
    BY <1>1, <2>1 DEF Clear, TypeOK
  <2>5. TypeOK'
    BY <2>1, <2>3, <2>4 DEF Clear, TypeOK, aux, LoginStates, LoginPcs
  <2>6. \A m \in Logins : login'[m] = login[m] \/ login'[m] = Idle
    BY <2>2 DEF TypeOK
  <2>7. Backing'
    BY <2>1, <2>6 DEF Clear, Backing, Backed, Subject, Idle, aux
  <2> QED
    BY <2>5, <2>7
<1>3. CASE \E n \in Nodes : ForgetAttempts(n)
  <2>1. PICK n \in Nodes : ForgetAttempts(n)
    BY <1>3
  <2>2. attempts' \in [Ips \X Users \X (0..Horizon) -> 0..Enough]
    BY <1>1, <2>1 DEF ForgetAttempts, TypeOK
  <2>3. clerk' \in [Nodes -> [pc : {"idle", "attempts", "cache"}, on : SUBSET Subjects]]
    BY <2>1 DEF ForgetAttempts, TypeOK
  <2>4. UNCHANGED <<config, row, cache, login, revoked, last>>
    BY <2>1 DEF ForgetAttempts, aux
  <2>5. TypeOK'
    BY <2>2, <2>3, <2>4 DEF TypeOK
  <2>6. Backing'
    BY <2>4 DEF Backing, Backed, Subject
  <2> QED
    BY <2>5, <2>6
<1> QED
  BY <1>2, <1>3

\* A step that leaves the caches and the logins alone keeps Backing if every
\* single value stays backed.
LEMMA BackingByValue ==
    ASSUME TypeOK, Backing, UNCHANGED <<cache, login>>,
           ASSUME NEW y \in Subjects, NEW v \in 0..Forever, Backed(y, v)
           PROVE  Backed(y, v)'
    PROVE  Backing'
<1>1. \A n \in Nodes, x \in Subjects : Backed(x, cache[n][x])'
  BY DEF Backing, TypeOK
<1>2. ASSUME NEW m \in Logins
      PROVE  /\ login'[m].pc = "fill" => Backed(Subject(m), login[m].block)'
             /\ login'[m].pc = "reflect" =>
                 Backed(IpOf[m], login[m].block)' /\ Backed(UserOf[m], login[m].lock)'
  <2>1. login[m] \in LoginStates /\ Subject(m)' = Subject(m)
    BY DEF TypeOK, LoginStates, LoginPcs, Subject
  <2>2. Subject(m) \in Subjects /\ IpOf[m] \in Subjects /\ UserOf[m] \in Subjects
    BY SubjectTypes
  <2>3. login[m].block \in 0..Forever /\ login[m].lock \in 0..Forever
    BY <2>1 DEF LoginStates
  <2>4. login[m].pc = "fill" => Backed(Subject(m), login[m].block)
    BY DEF Backing
  <2>5. login[m].pc = "reflect" => Backed(IpOf[m], login[m].block) /\ Backed(UserOf[m], login[m].lock)
    BY DEF Backing
  <2>6. login[m].pc = "fill" => Backed(Subject(m), login[m].block)'
    BY <2>1, <2>2, <2>3, <2>4 DEF Backed
  <2>7. login[m].pc = "reflect" => Backed(IpOf[m], login[m].block)' /\ Backed(UserOf[m], login[m].lock)'
    BY <2>2, <2>3, <2>5 DEF Backed
  <2> QED
    BY <2>6, <2>7
<1> QED
  BY <1>1, <1>2 DEF Backing

\* The transaction writes over no live block, so what a cache holds of the row
\* it replaces was an administrator's to answer for.
LEMMA Records ==
    ASSUME Inv, NEW l \in Logins, Record(l)
    PROVE  Inv'
<1> USE DEF Inv
<1> DEFINE i == IpOf[l]
           u == UserOf[l]
           table == WithAttempt(i, u)
           blocks == IpCount(table, i) >= IpMax /\ MayBlock(i)
           locks == UserCount(table, u) >= UserMax /\ MayLock(u)
           block == [count |-> NextCount(i), left |-> BlockDuration(NextCount(i)), since |-> 0]
           lock == [count |-> 1, left |-> IF AutoUnlock THEN LockTime ELSE Forever, since |-> 0]
<1>1. i \in Ips /\ u \in Users /\ i \in Subjects /\ u \in Subjects
  BY Clients DEF Subjects
<1>2. login \in [Logins -> LoginStates] /\ 0 \in 0..Forever
  BY ForeverIsLast DEF TypeOK, LoginStates, LoginPcs
<1>3. CASE ~config.enabled
  <2>1. login' = [login EXCEPT ![l] = Idle] /\ UNCHANGED <<config, tables, cache, clerk, aux>>
    BY <1>3 DEF Record, tables, aux
  <2> QED
    BY <1>2, <2>1, EmptyHanded DEF Idle, LoginStates, LoginPcs
<1>4. CASE config.enabled
  <2>1. /\ attempts' = table
        /\ row' = [x \in Subjects |-> IF x = i /\ blocks THEN block
                                      ELSE IF x = u /\ locks THEN lock ELSE row[x]]
        /\ last' = [last EXCEPT ![i] = IF blocks THEN block ELSE @]
        /\ login' = [login EXCEPT ![l] =
               [Idle EXCEPT !.pc = "reflect", !.block = Told(blocks, block.left),
                            !.lock = Told(locks, lock.left)]]
        /\ UNCHANGED <<config, cache, clerk, revoked>>
    BY <1>4 DEF Record
  <2>2. block \in Row /\ block.left \in 0..Forever /\ block.count > 0
    <3>1. NextCount(i) \in 1..MaxCount
      BY <1>1, NextCountType
    <3>2. BlockDuration(NextCount(i)) \in 0..MaxBlock
      BY <3>1, BlockBounded
    <3> QED
      BY <3>1, <3>2, ForeverIsLast, Durations DEF Row, Left
  <2>3. lock \in Row /\ lock.left \in 0..Forever /\ lock.count > 0
    BY ForeverIsLast, Durations DEF Row, Left
  <2> HIDE DEF block, lock, blocks, locks
  <2>4. table \in [Ips \X Users \X (0..Horizon) -> 0..Enough]
    <3>1. 0 \in 0..Horizon /\ Enough \in Nat
      BY Durations DEF Horizon, Enough
    <3> QED
      BY <1>1, <3>1 DEF WithAttempt, TypeOK
  <2>5. Told(blocks, block.left) \in 0..Forever /\ Told(locks, lock.left) \in 0..Forever
    BY <1>2, <2>2, <2>3 DEF Told
  <2>6. login' \in [Logins -> LoginStates]
    BY <1>2, <2>1, <2>5 DEF Idle, LoginStates, LoginPcs
  <2>7. TypeOK'
    BY <1>1, <2>1, <2>2, <2>3, <2>4, <2>6 DEF TypeOK, LoginStates, LoginPcs
  <2>8. ASSUME NEW x \in Subjects, NEW v \in 0..Forever, Backed(x, v)
        PROVE  Backed(x, v)'
    <3>1. row[x] \in Row /\ row'[x] \in Row /\ revoked'[x] = revoked[x]
      BY <2>1, <2>7 DEF TypeOK
    <3>2. CASE row'[x] = row[x]
      BY <2>8, <3>1, <3>2 DEF Backed
    <3>3. CASE x = i /\ blocks
      BY <2>8, <3>1, <3>3 DEF blocks, MayBlock, IsLive, Backed, Row, Left
    <3>4. CASE x = u /\ locks
      BY <2>8, <3>1, <3>4 DEF locks, MayLock, Backed, Row, Left
    <3> QED
      BY <2>1, <3>2, <3>3, <3>4
  <2>9. \A m \in Logins : m # l => login'[m] = login[m]
    BY <2>6, <2>1, <1>2
  <2>10. /\ login'[l].pc = "reflect"
         /\ login'[l].block = Told(blocks, block.left)
         /\ login'[l].lock = Told(locks, lock.left)
    BY <1>2, <2>1 DEF Idle
  <2>11. Backed(IpOf[l], login[l].block)' /\ Backed(UserOf[l], login[l].lock)'
    <3>1. blocks => row'[i] = block
      BY <1>1, <2>1
    <3>2. locks => row'[u] = lock
      BY <1>1, <2>1, SubjectsDisjoint
    <3>3. login'[l].block > 0 => row'[i].count > 0 /\ login'[l].block <= row'[i].left
      BY <2>2, <2>10, <3>1 DEF Told
    <3>4. login'[l].lock > 0 => row'[u].count > 0 /\ login'[l].lock <= row'[u].left
      BY <2>3, <2>10, <3>2 DEF Told
    <3> QED
      BY <3>3, <3>4 DEF Backed
  <2>12. Backing'
    <3>1. \A n \in Nodes, x \in Subjects : Backed(x, cache[n][x])'
      BY <2>1, <2>8 DEF Backing, TypeOK
    <3>2. ASSUME NEW m \in Logins, m # l
          PROVE  /\ login'[m].pc = "fill" => Backed(Subject(m), login[m].block)'
                 /\ login'[m].pc = "reflect" =>
                     Backed(IpOf[m], login[m].block)' /\ Backed(UserOf[m], login[m].lock)'
      <4>1. login'[m] = login[m] /\ Subject(m)' = Subject(m) /\ login[m] \in LoginStates
        BY <1>2, <2>9, <3>2 DEF Subject
      <4>2. Subject(m) \in Subjects /\ IpOf[m] \in Subjects /\ UserOf[m] \in Subjects
        BY SubjectTypes
      <4>3. login[m].block \in 0..Forever /\ login[m].lock \in 0..Forever
        BY <4>1 DEF LoginStates
      <4>4. login[m].pc = "fill" => Backed(Subject(m), login[m].block)
        BY DEF Backing
      <4>5. login[m].pc = "reflect" => Backed(IpOf[m], login[m].block) /\ Backed(UserOf[m], login[m].lock)
        BY DEF Backing
      <4>6. login[m].pc = "fill" => Backed(Subject(m), login[m].block)'
        BY <2>8, <4>1, <4>2, <4>3, <4>4 DEF Backed
      <4>7. login[m].pc = "reflect" => Backed(IpOf[m], login[m].block)' /\ Backed(UserOf[m], login[m].lock)'
        BY <2>8, <4>1, <4>2, <4>3, <4>5 DEF Backed
      <4> QED
        BY <4>1, <4>6, <4>7
    <3> QED
      BY <2>10, <2>11, <3>1, <3>2 DEF Backing
  <2> QED
    BY <2>7, <2>12
<1> QED
  BY <1>3, <1>4

\* An administrator's deletion moves what the row vouched for to `revoked`.
LEMMA Unblocks ==
    ASSUME Inv, NEW n \in Nodes, NEW x \in Subjects, Unblock(n, x)
    PROVE  Inv'
<1> USE DEF Inv
<1>1. NoRow \in Row /\ NoRow.count = 0
  BY ForeverIsLast, Durations DEF NoRow, Row, Left
<1>2. row \in [Subjects -> Row] /\ revoked \in [Subjects -> 0..Forever] /\ last \in [Subjects -> Row]
  BY DEF TypeOK
<1>3. revoked' \in [Subjects -> 0..Forever]
  BY <1>2, ForeverIsLast DEF Unblock, IsLive, Row, Left
<1>4. TypeOK'
  BY <1>1, <1>2, <1>3 DEF Unblock, TypeOK
<1>5. ASSUME NEW y \in Subjects, NEW v \in 0..Forever, Backed(y, v)
      PROVE  Backed(y, v)'
  <2>1. CASE y # x
    BY <1>2, <1>5, <2>1 DEF Unblock, Backed
  <2>2. CASE y = x
    BY <1>2, <1>5, <2>2 DEF Unblock, Backed, IsLive, Row, Left
  <2> QED
    BY <2>1, <2>2
<1>6. UNCHANGED <<cache, login>>
  BY DEF Unblock
<1>7. Backing'
  BY <1>4, <1>5, <1>6, BackingByValue
<1> QED
  BY <1>4, <1>7
\* Cleanup deletes no row that still vouches for anything.
LEMMA CleansUp ==
    ASSUME Inv, Cleanup
    PROVE  Inv'
<1> USE DEF Inv
<1>1. NoRow \in Row /\ 0 \in 0..Enough
  BY ForeverIsLast, Durations DEF NoRow, Row, Left, Enough
<1>2. row \in [Subjects -> Row] /\ revoked \in [Subjects -> 0..Forever]
  BY DEF TypeOK
<1>3. attempts' \in [Ips \X Users \X (0..Horizon) -> 0..Enough]
  BY <1>1 DEF Cleanup, TypeOK
<1>4. TypeOK'
  BY <1>1, <1>2, <1>3 DEF Cleanup, TypeOK, aux
<1>5. ASSUME NEW y \in Subjects, NEW v \in 0..Forever, Backed(y, v)
      PROVE  Backed(y, v)'
  BY <1>2, <1>5, ForeverIsLast DEF Cleanup, Backed, IsOver, Row, Left, aux
<1>6. UNCHANGED <<cache, login>>
  BY DEF Cleanup
<1>7. Backing'
  BY <1>5, <1>6, BackingByValue
<1> QED
  BY <1>4, <1>7

\* A restart, and the end of an unblock, rebuild or shorten one node's cache.
LEMMA Rebuilds ==
    ASSUME Inv, NEW n \in Nodes, Restart(n) \/ ForgetEntry(n)
    PROVE  Inv'
<1> USE DEF Inv
<1>1. /\ login \in [Logins -> LoginStates] /\ 0 \in 0..Forever /\ row \in [Subjects -> Row]
      /\ cache \in [Nodes -> [Subjects -> 0..Forever]]
  BY ForeverIsLast DEF TypeOK, LoginStates, LoginPcs
<1>2. UNCHANGED <<config, attempts, row, revoked, last>>
  BY DEF Restart, ForgetEntry, tables, aux
<1>3. /\ login' \in [Logins -> LoginStates]
      /\ \A l \in Logins : login'[l] \in {login[l], Idle}
  BY <1>1 DEF Restart, ForgetEntry, Idle, LoginStates, LoginPcs
<1>4. clerk' \in [Nodes -> [pc : {"idle", "attempts", "cache"}, on : SUBSET Subjects]]
  BY DEF Restart, ForgetEntry, TypeOK
<1>5. /\ cache' \in [Nodes -> [Subjects -> 0..Forever]]
      /\ \A m \in Nodes, x \in Subjects : Backed(x, cache'[m][x])
  <2>1. CASE Restart(n)
    <3>1. \A x \in Subjects : IsLive(x) => row[x].left \in 0..Forever
      BY <1>1, ForeverIsLast DEF IsLive, Row, Left
    <3>2. cache' \in [Nodes -> [Subjects -> 0..Forever]]
      BY <1>1, <2>1, <3>1 DEF Restart
    <3>3. ASSUME NEW m \in Nodes, NEW x \in Subjects
          PROVE  Backed(x, cache'[m][x])
      <4>1. CASE cache'[m][x] = cache[m][x]
        BY <4>1 DEF Backing, Backed
      <4>2. CASE cache'[m][x] = 0
        BY <4>2 DEF Backed
      <4>3. CASE IsLive(x) /\ cache'[m][x] = row[x].left
        BY <3>1, <4>3 DEF Backed, IsLive
      <4> QED
        BY <1>1, <2>1, <4>1, <4>2, <4>3 DEF Restart
    <3> QED
      BY <3>2, <3>3
  <2>2. CASE ForgetEntry(n)
    BY <1>1, <2>2 DEF ForgetEntry, Backing, Backed
  <2> QED
    BY <2>1, <2>2
<1>6. TypeOK'
  BY <1>2, <1>3, <1>4, <1>5 DEF TypeOK, LoginStates, LoginPcs
<1>7. Backing'
  BY <1>2, <1>3, <1>5 DEF Backing, Backed, Subject, Idle
<1> QED
  BY <1>6, <1>7

LEMMA Reconfigures ==
    ASSUME Inv, Configure
    PROVE  Inv'
<1>1. TypeOK'
  BY DEF Inv, Configure, TypeOK, tables, aux
<1>2. Backing'
  BY DEF Inv, Configure, Backing, Backed, Subject, tables, aux
<1> QED
  BY <1>1, <1>2 DEF Inv

\* Time shortens what a cache holds at least as fast as the row behind it.
LEMMA TimePasses ==
    ASSUME Inv, Tick
    PROVE  Inv'
<1> USE DEF Inv
<1>1. /\ row \in [Subjects -> Row] /\ last \in [Subjects -> Row]
      /\ revoked \in [Subjects -> 0..Forever]
      /\ cache \in [Nodes -> [Subjects -> 0..Forever]]
      /\ login \in [Logins -> LoginStates]
  BY DEF TypeOK, LoginStates, LoginPcs
<1> DEFINE aged(r) == IF r.count = 0 THEN r
                      ELSE [r EXCEPT !.left = Older(r.left),
                                     !.since = IF r.since <= Cooldown THEN r.since + 1 ELSE r.since]
<1>2. ASSUME NEW r \in Row
      PROVE  aged(r) \in Row /\ aged(r).count = r.count /\ (r.count > 0 => aged(r).left = Older(r.left))
  <2>1. Older(r.left) \in Left
    BY OlderType DEF Row
  <2>2. (IF r.since <= Cooldown THEN r.since + 1 ELSE r.since) \in 0..(Cooldown + 1)
    BY Durations DEF Row
  <2>3. CASE r.count = 0
    BY <2>3
  <2>4. CASE r.count # 0
    <3>1. aged(r) = [r EXCEPT !.left = Older(r.left),
                              !.since = IF r.since <= Cooldown THEN r.since + 1 ELSE r.since]
      BY <2>4
    <3> HIDE DEF aged
    <3> QED
      BY <2>1, <2>2, <3>1 DEF Row
  <2> QED
    BY <2>3, <2>4
<1>3. /\ row' = [x \in Subjects |-> aged(row[x])]
      /\ last' = [x \in Subjects |-> aged(last[x])]
      /\ cache' = [n \in Nodes |-> [x \in Subjects |-> Sooner(cache[n][x])]]
      /\ login' = [l \in Logins |-> [login[l] EXCEPT !.block = Sooner(@), !.lock = Sooner(@)]]
      /\ revoked' = [x \in Subjects |-> Sooner(revoked[x])]
      /\ UNCHANGED <<config, clerk>>
  BY DEF Tick
<1> HIDE DEF aged
<1>4. login' \in [Logins -> LoginStates]
  BY <1>1, <1>3, SoonerType DEF LoginStates
<1>5. attempts' \in [Ips \X Users \X (0..Horizon) -> 0..Enough]
  <2>1. 0 \in 0..Enough /\ Horizon \in Nat
    BY Durations DEF Enough, Horizon
  <2>2. attempts \in [Ips \X Users \X (0..Horizon) -> 0..Enough]
    BY DEF TypeOK
  <2>3. ASSUME NEW k \in Ips \X Users \X (0..Horizon)
        PROVE  (IF k[3] = 0 THEN 0 ELSE attempts[<<k[1], k[2], k[3] - 1>>]) \in 0..Enough
    <3>1. k[1] \in Ips /\ k[2] \in Users /\ k[3] \in 0..Horizon
      OBVIOUS
    <3>2. k[3] # 0 => k[3] - 1 \in 0..Horizon
      BY <2>1, <3>1
    <3> QED
      BY <2>1, <2>2, <3>1, <3>2
  <2> QED
    BY <2>2, <2>3 DEF Tick
<1>6. TypeOK'
  <2>1. row' \in [Subjects -> Row] /\ last' \in [Subjects -> Row]
    BY <1>1, <1>2, <1>3
  <2>2. revoked' \in [Subjects -> 0..Forever] /\ cache' \in [Nodes -> [Subjects -> 0..Forever]]
    BY <1>1, <1>3, SoonerType
  <2> QED
    BY <1>3, <1>4, <1>5, <2>1, <2>2 DEF TypeOK, LoginStates, LoginPcs
<1>7. ASSUME NEW x \in Subjects, NEW v \in 0..Forever, Backed(x, v)
      PROVE  Sooner(v) > 0 => \/ row'[x].count > 0 /\ Sooner(v) <= row'[x].left
                              \/ Sooner(v) <= revoked'[x]
  <2>1. /\ row[x] \in Row /\ revoked[x] \in 0..Forever
        /\ row'[x].count = row[x].count /\ revoked'[x] = Sooner(revoked[x])
        /\ row[x].count > 0 => row'[x].left = Older(row[x].left)
    BY <1>1, <1>2, <1>3
  <2>2. row[x].left \in Left
    BY <2>1 DEF Row
  <2>3. CASE row[x].count > 0 /\ v <= row[x].left
    BY <2>1, <2>2, <2>3, SoonerThanOlder
  <2>4. CASE v <= revoked[x]
    BY <2>1, <2>4, SoonerMonotone
  <2> QED
    BY <1>7, <2>3, <2>4, SoonerPositive DEF Backed
<1>8. Backing'
  <2>1. \A n \in Nodes, x \in Subjects : Backed(x, cache[n][x])'
    <3> SUFFICES ASSUME NEW n \in Nodes, NEW x \in Subjects PROVE Backed(x, cache[n][x])'
      OBVIOUS
    <3>1. cache[n][x] \in 0..Forever /\ cache'[n][x] = Sooner(cache[n][x]) /\ Backed(x, cache[n][x])
      BY <1>1, <1>3 DEF Backing
    <3> QED
      BY <1>7, <3>1 DEF Backed
  <2>2. ASSUME NEW m \in Logins
        PROVE  /\ login'[m].pc = "fill" => Backed(Subject(m), login[m].block)'
               /\ login'[m].pc = "reflect" =>
                   Backed(IpOf[m], login[m].block)' /\ Backed(UserOf[m], login[m].lock)'
    <3>1. /\ login'[m].pc = login[m].pc /\ login'[m].stage = login[m].stage
          /\ login'[m].block = Sooner(login[m].block) /\ login'[m].lock = Sooner(login[m].lock)
          /\ login[m].block \in 0..Forever /\ login[m].lock \in 0..Forever
      BY <1>1, <1>3 DEF LoginStates
    <3>2. Subject(m)' = Subject(m) /\ Subject(m) \in Subjects /\ IpOf[m] \in Subjects /\ UserOf[m] \in Subjects
      BY <3>1, SubjectTypes DEF Subject
    <3>3. CASE login[m].pc = "fill"
      <4>1. Backed(Subject(m), login[m].block)
        BY <3>3 DEF Backing
      <4> QED
        BY <1>7, <3>1, <3>2, <3>3, <4>1 DEF Backed
    <3>4. CASE login[m].pc = "reflect"
      <4>1. Backed(IpOf[m], login[m].block) /\ Backed(UserOf[m], login[m].lock)
        BY <3>4 DEF Backing
      <4> QED
        BY <1>7, <3>1, <3>2, <3>4, <4>1 DEF Backed
    <3> QED
      BY <3>1, <3>3, <3>4
  <2> QED
    BY <2>1, <2>2 DEF Backing
<1> QED
  BY <1>6, <1>8

LEMMA InvNext ==
    ASSUME Inv, [Next]_vars
    PROVE  Inv'
<1>1. CASE UNCHANGED vars
  <2>1. TypeOK'
    BY <1>1 DEF Inv, vars, TypeOK
  <2>2. Backing'
    BY <1>1 DEF Inv, vars, Backing, Backed, Subject
  <2> QED
    BY <2>1, <2>2 DEF Inv
<1>2. ASSUME NEW l \in Logins,
             \/ Start(l) \/ Look(l) \/ Read(l) \/ Fill(l) \/ Validate(l)
             \/ Clear(l) \/ Record(l) \/ Reflect(l) \/ Drop(l)
      PROVE  Inv'
  BY <1>2, MovesOn, Remembers, Clears, Records
<1>3. ASSUME NEW n \in Nodes,
             (\E x \in Subjects : Unblock(n, x)) \/ ForgetAttempts(n) \/ ForgetEntry(n) \/ Restart(n)
      PROVE  Inv'
  BY <1>3, Unblocks, Clears, Rebuilds
<1> QED
  BY <1>1, <1>2, <1>3, CleansUp, Reconfigures, TimePasses DEF Next

-----------------------------------------------------------------------------
(* Theorems.                                                               *)

\* Every variable keeps its type: no block lasts longer than the configured
\* maximum, however often it is renewed (calculate_block_duration).
THEOREM ThrottleTypes == Spec => []TypeOK
<1>1. Inv => TypeOK
  BY DEF Inv
<1> QED
  BY InvInit, InvNext, <1>1, PTL DEF Spec

\* No node refuses an address or an account for longer than the database did
\* when the block was made, whatever order its fills, the transactions of other
\* nodes and the administrators' deletions come in.
THEOREM CachesAreBacked == Spec => []CacheBacked
<1>1. Inv => CacheBacked
  BY DEF Inv, Backing, Backed, CacheBacked
<1> QED
  BY InvInit, InvNext, <1>1, PTL DEF Spec

\* A live block is neither extended, shortened nor deleted by anything but time
\* and an administrator.
THEOREM BlocksStand == Spec => BlockStands
<1> DEFINE Stands(x) ==
        \/ row'[x].count = row[x].count /\ row'[x].left \in {row[x].left, Older(row[x].left)}
        \/ row'[x].count = 0 /\ revoked'[x] >= row[x].left
<1>1. ASSUME Inv, Next, NEW x \in Subjects, IsLive(x)
      PROVE  Stands(x)
  <2>1. row \in [Subjects -> Row] /\ revoked \in [Subjects -> 0..Forever]
    BY <1>1 DEF Inv, TypeOK
  <2>2. CASE row' = row
    BY <2>2
  <2>3. ASSUME NEW l \in Logins, Record(l)
        PROVE  Stands(x)
    <3>1. row'[x] # row[x] => (x = IpOf[l] /\ MayBlock(x)) \/ (x = UserOf[l] /\ MayLock(x))
      BY <2>1, <2>3 DEF Record, tables
    <3>2. row'[x] = row[x]
      BY <1>1, <3>1 DEF MayBlock, MayLock, IsLive
    <3> QED
      BY <3>2
  <2>4. ASSUME NEW n \in Nodes, NEW y \in Subjects, Unblock(n, y)
        PROVE  Stands(x)
    BY <1>1, <2>1, <2>4 DEF Unblock, IsLive, NoRow, Row, Left
  <2>5. CASE Cleanup
    BY <1>1, <2>1, <2>5 DEF Cleanup, IsLive, IsOver, Row, Left
  <2>6. CASE Tick
    BY <1>1, <2>1, <2>6 DEF Tick, IsLive, Row
  <2> QED
    BY <1>1, <2>2, <2>3, <2>4, <2>5, <2>6
    DEF Next, Start, Look, Read, Fill, Validate, Clear, Reflect, Drop,
        ForgetAttempts, ForgetEntry, Restart, Configure, tables
<1>2. Inv /\ [Next]_vars => [\A x \in Subjects : IsLive(x) => Stands(x)]_vars
  BY <1>1
<1> QED
  BY InvInit, InvNext, <1>2, PTL DEF Spec, BlockStands
=============================================================================
