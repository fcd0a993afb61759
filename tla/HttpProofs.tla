----------------------------- MODULE HttpProofs -----------------------------
(***************************************************************************)
(* Logins by single sign-on, for every number of sessions, handshakes,     *)
(* returns and users, and every size of the store; and browser sessions,   *)
(* for every number of nodes, browsers, people, requests and rows.         *)
(***************************************************************************)
EXTENDS SsoHandshakes, HttpSessions, FiniteSetTheorems, WellFoundedInduction, TLAPS

Handshake == [sess : Browsers, prov : Providers, born : Nat]
Code == [user : Users, verified : BOOLEAN, used : BOOLEAN]

\* Where a return is: still to take its handshake, or refused one; past it; and
\* past the exchange with the provider.
Proven == {"claims", "submit", "credential", "home", "no_matching_user", "access_denied",
           "ip_blocked"}
Past == {"verify"} \cup Proven
Steps == {"take", "sso_failed"} \cup Past

\* What the variables hold.
HsOK == hs \in [Hs -> {None} \cup Handshake]
LostOK == lost \in [Hs -> {None, "expired", "evicted", "taken"}]
RetOK ==
    /\ DOMAIN ret = Returns
    /\ \A r \in Returns :
          \/ ret[r] = [pc |-> "none"]
          \/ /\ ret[r] \in [pc : Steps, s : Browsers, h : Hs, c : Hs]
             /\ ret[r].h \in Started /\ code[ret[r].c] # None
LoginOK ==
    /\ DOMAIN login = Browsers
    /\ \A s \in Browsers :
          \/ login[s] = [st |-> "none"]
          \/ /\ login[s] \in [st : {"in", "pending"}, user : Users, h : Hs, c : Hs]
             /\ login[s].h \in Started
CodeOK == code \in [Hs -> {None} \cup Code]
TypeOK == now \in Nat /\ HsOK /\ store \subseteq Started /\ LostOK /\ CodeOK /\ RetOK /\ LoginOK

\* A handshake that was taken is no longer kept, and one that was not started
\* was not lost.
TakenIsGone ==
    \A h \in Hs : /\ lost[h] = "taken" => h \notin store
                  /\ h \notin Started => lost[h] = None

\* A return past the store has its own session's handshake, which nobody else
\* takes, and past the exchange also the code of that handshake.
Owned ==
    \A r \in Returns : ret[r].pc \in Past =>
        /\ lost[ret[r].h] = "taken" /\ hs[ret[r].h].sess = ret[r].s
        /\ ret[r].pc \in Proven => ret[r].c = ret[r].h

Inv == /\ TypeOK /\ TakenIsGone /\ Owned
       /\ HandshakeOnce /\ OwnHandshake /\ StillTakable

-----------------------------------------------------------------------------
\* A set of naturals has a least element.
LEMMA LeastNat ==
    ASSUME NEW S, S \subseteq Nat, S # {}
    PROVE  \E x \in S : \A y \in S : x <= y
<1>1. \E R : IsWellFoundedOn(R, Nat) /\ \A x, y \in Nat : <<y, x>> \in R <=> y < x
  <2>1. IsWellFoundedOn(OpToRel(<, Nat), Nat)
    BY NatLessThanWellFounded
  <2>2. \A x, y \in Nat : <<y, x>> \in OpToRel(<, Nat) <=> y < x
    BY DEF OpToRel
  <2> QED
    BY <2>1, <2>2
<1>2. PICK R : IsWellFoundedOn(R, Nat) /\ \A x, y \in Nat : <<y, x>> \in R <=> y < x
  BY <1>1
<1>3. PICK x \in S : \A y \in S : ~ (<<y, x>> \in R)
  BY <1>2, WFMin
<1>4. \A y \in S : x <= y
  <2> SUFFICES ASSUME NEW y \in S PROVE x <= y
    OBVIOUS
  <2>1. ~ (y < x)
    BY <1>2, <1>3
  <2> QED
    BY <2>1
<1> QED
  BY <1>3, <1>4

\* There are finitely many handshakes.
LEMMA StartedFinite ==
    ASSUME HandshakesSound
    PROVE  IsFiniteSet(Started)
<1>1. IsFiniteSet(1 .. MaxHs)
  BY FS_Interval DEF HandshakesSound
<1> QED
  BY <1>1, FS_Subset DEF Started, Hs

\* A return that is past the store is one of HandshakeOnce.
LEMMA PastNames ==
    ASSUME RetOK, NEW r \in Returns
    PROVE  ret[r].pc \in Past <=> ret[r].pc \notin {"none", "take", "sso_failed"}
BY DEF RetOK, Past, Proven, Steps

\* The first state.
LEMMA InitInv == ASSUME HandshakesSound PROVE HandshakeInit => Inv
BY DEF HandshakesSound, HandshakeInit, Inv, TypeOK, HsOK, LostOK, RetOK, LoginOK, CodeOK, TakenIsGone, Owned, Past,
       Proven, HandshakeOnce, OwnHandshake, StillTakable, Started, Hs

-----------------------------------------------------------------------------
\* A code keeps the person it was issued to.
CodesKept ==
    /\ CodeOK'
    /\ \A h \in Hs : code[h] # None => code'[h] # None /\ code'[h].user = code[h].user

\* Inserting a handshake: what leaves the store has expired, or was pushed out of
\* a full one.
LEMMA StartStep ==
    ASSUME HandshakesSound, Inv, NEW s \in Browsers, NEW p \in Providers, Start(s, p)
    PROVE  Inv'
<1> DEFINE free == {k \in Hs : hs[k] = None}
           h == CHOOSE k \in free : \A j \in free : k <= j
           kept == {k \in store : ~Expired(k)}
           born == [sess |-> s, prov |-> p, born |-> now]
<1>1. /\ free # {} /\ hs' = [hs EXCEPT ![h] = born] /\ UNCHANGED <<now, code, ret, login, ip>>
      /\ Insert(h, s)
  BY DEF Start
<1>2. PICK out : /\ out \subseteq kept
                 /\ out # {} => Cardinality(kept) >= Capacity
                 /\ store' = (kept \ out) \cup {h}
                 /\ lost' = [k \in Hs |-> CASE k \in store \ kept -> "expired"
                                            [] k \in out -> "evicted"
                                            [] OTHER -> lost[k]]
  <2> DEFINE oldest == {k \in kept : \A j \in kept : hs[k].born <= hs[j].born}
  <2>1. PICK out \in IF Cardinality(kept) >= Capacity THEN {{k} : k \in oldest} ELSE {{}} :
              /\ store' = (kept \ out) \cup {h}
              /\ lost' = [k \in Hs |-> CASE k \in store \ kept -> "expired"
                                         [] k \in out -> "evicted"
                                         [] OTHER -> lost[k]]
    BY <1>1 DEF Insert
  <2>2. out \subseteq kept /\ (out # {} => Cardinality(kept) >= Capacity)
    BY <2>1
  <2> QED
    BY <2>1, <2>2
<1>3. h \in Hs /\ hs[h] = None
  <2>1. free \subseteq Nat
    BY DEF Hs, HandshakesSound
  <2>2. \E k \in free : \A j \in free : k <= j
    BY <1>1, <2>1, LeastNat
  <2>3. h \in free
    BY <2>2
  <2> QED
    BY <2>3
<1> HIDE DEF h
<1>4. born \in Handshake /\ born # None
  BY DEF Handshake, Inv, TypeOK, HandshakesSound
<1>5. /\ HsOK' /\ Started' = Started \cup {h} /\ h \notin Started
      /\ \A k \in Started : hs'[k] = hs[k] /\ (Expired(k)' <=> Expired(k))
  BY <1>1, <1>3, <1>4 DEF Inv, TypeOK, HsOK, Started, Expired
<1>6. /\ store \subseteq Started /\ kept \subseteq store /\ store' \subseteq Started'
      /\ \A k \in Hs : k # h => (k \in store' <=> k \in kept \ out)
  BY <1>2, <1>5 DEF Inv, TypeOK
<1>7. /\ LostOK'
      /\ \A k \in Hs : \/ k \in store \ kept /\ lost'[k] = "expired"
                       \/ k \in out /\ lost'[k] = "evicted"
                       \/ k \notin store \ kept /\ k \notin out /\ lost'[k] = lost[k]
  BY <1>2 DEF Inv, TypeOK, LostOK
<1>8. TypeOK'
  BY <1>1, <1>5, <1>6, <1>7 DEF Inv, TypeOK, RetOK, LoginOK, CodeOK
<1>9. TakenIsGone'
  BY <1>2, <1>3, <1>5, <1>6, <1>7 DEF Inv, TakenIsGone, HandshakesSound
<1>10. \A r \in Returns : ret[r].pc \in Past => ret[r].h \in Started /\ ret[r].h \notin store
  BY DEF Inv, Owned, TakenIsGone, TypeOK, RetOK, Past, Proven, Started
<1>11. Owned'
  BY <1>1, <1>2, <1>5, <1>6, <1>7, <1>10 DEF Inv, Owned, TypeOK, Started
<1>12. HandshakeOnce'
  BY <1>1 DEF Inv, HandshakeOnce
<1>13. OwnHandshake'
  BY <1>1, <1>5 DEF Inv, OwnHandshake, TypeOK, LoginOK
<1>14. StillTakable'
  <2>1. IsFiniteSet(Started) /\ Cardinality(Started) \in Nat /\ Capacity \in Nat
    BY StartedFinite, FS_CardinalityType DEF HandshakesSound
  <2>2. Cardinality(Started') = Cardinality(Started) + 1
    BY <1>5, <2>1, FS_AddElement
  <2>3. Cardinality(kept) \in Nat /\ Cardinality(kept) <= Cardinality(Started)
    BY <1>6, <2>1, FS_Subset, FS_CardinalityType
  <2>4. out # {} => Cardinality(Started') > Capacity
    BY <1>2, <2>1, <2>2, <2>3
  <2>5. Cardinality(Started) > Capacity => Cardinality(Started') > Capacity
    BY <2>1, <2>2
  <2> SUFFICES ASSUME NEW k \in Started', k \notin store'
               PROVE  \/ lost'[k] = "expired" /\ Expired(k)'
                      \/ lost'[k] = "evicted" /\ Cardinality(Started') > Capacity
                      \/ lost'[k] = "taken"
    BY DEF StillTakable
  <2>6. k \in Started /\ k \in Hs /\ (Expired(k)' <=> Expired(k))
    BY <1>2, <1>5 DEF Started
  <2>7. CASE k \in store \ kept
    BY <1>2, <1>7, <2>6, <2>7
  <2>8. CASE k \in out
    BY <1>2, <1>7, <2>4, <2>6, <2>8
  <2>9. CASE k \notin store
    BY <1>2, <1>7, <2>5, <2>6, <2>9 DEF Inv, StillTakable
  <2> QED
    BY <1>2, <2>6, <2>7, <2>8, <2>9
<1> QED
  BY <1>8, <1>9, <1>11, <1>12, <1>13, <1>14 DEF Inv

\* Taking a handshake: it was kept, so nobody had taken it.
LEMMA TakeStep ==
    ASSUME HandshakesSound, Inv, NEW r \in Returns, Take(r)
    PROVE  Inv'
<1> DEFINE h == ret[r].h
           own == h \in store /\ ~Expired(h) /\ Bound(r)
           old == h \in store /\ Expired(h)
           to == IF own THEN "verify" ELSE "sso_failed"
<1>1. /\ ret[r].pc = "take" /\ store' = IF own \/ old THEN store \ {h} ELSE store
      /\ lost' = CASE own -> [lost EXCEPT ![h] = "taken"]
                   [] old -> [lost EXCEPT ![h] = "expired"]
                   [] OTHER -> lost
      /\ ret' = [ret EXCEPT ![r] = [@ EXCEPT !.pc = to]]
      /\ UNCHANGED <<now, hs, code, login, ip>>
  BY DEF Take, Answer
<1>2. /\ ret[r] \in [pc : Steps, s : Browsers, h : Hs, c : Hs] /\ h \in Started /\ h \in Hs
  BY <1>1 DEF Inv, TypeOK, RetOK, Started
<1>3. /\ Started' = Started /\ \A k \in Hs : hs'[k] = hs[k] /\ (Expired(k)' <=> Expired(k))
  BY <1>1 DEF Started, Expired
<1>4. /\ ret'[r] \in [pc : Steps, s : Browsers, h : Hs, c : Hs] /\ DOMAIN ret' = Returns
      /\ ret'[r].h = h /\ ret'[r].s = ret[r].s /\ ret'[r].pc = to
      /\ \A q \in Returns : q # r => ret'[q] = ret[q]
  BY <1>1, <1>2 DEF Inv, TypeOK, RetOK, Steps, Past, Proven
<1>5. /\ \A k \in Hs : k # h => lost'[k] = lost[k] /\ (k \in store' <=> k \in store)
      /\ own => lost'[h] = "taken" /\ h \notin store' /\ h \in store
      /\ old => lost'[h] = "expired" /\ h \notin store'
      /\ ~own /\ ~old => lost' = lost /\ store' = store
      /\ store' \subseteq store /\ LostOK'
  BY <1>1, <1>2 DEF Inv, TypeOK, LostOK
<1>6. own => Bound(r)
  OBVIOUS
<1> HIDE DEF own, old, h
<1>7. TypeOK'
  BY <1>1, <1>2, <1>3, <1>4, <1>5 DEF Inv, TypeOK, HsOK, RetOK, LoginOK, CodeOK
<1>8. TakenIsGone'
  BY <1>2, <1>3, <1>5 DEF Inv, TakenIsGone
<1>9. \A q \in Returns : ret[q].pc \in Past => ret[q].h \in Hs /\ ret[q].h \notin store
  BY DEF Inv, Owned, TakenIsGone, TypeOK, RetOK, Past, Proven
<1>10. ret'[r].pc \in Past => own /\ to = "verify" /\ hs[h].sess = ret[r].s
  BY <1>4, <1>6 DEF Past, Proven, Bound, h
<1>11. ret'[r].pc \notin Proven
  BY <1>4 DEF Proven
<1>12. \A k \in Hs : lost[k] = "taken" => lost'[k] = "taken" \/ k \in store
  BY <1>5 DEF old
<1>13. Owned'
  <2> SUFFICES ASSUME NEW q \in Returns, ret'[q].pc \in Past
               PROVE  /\ lost'[ret'[q].h] = "taken" /\ hs'[ret'[q].h].sess = ret'[q].s
                      /\ ret'[q].pc \in Proven => ret'[q].c = ret'[q].h
    BY DEF Owned
  <2>1. CASE q = r
    BY <1>2, <1>3, <1>4, <1>5, <1>10, <1>11, <2>1
  <2>2. CASE q # r
    <3>1. /\ ret'[q] = ret[q] /\ ret[q].h \in Hs /\ ret[q].h \notin store
          /\ lost[ret[q].h] = "taken" /\ hs[ret[q].h].sess = ret[q].s
          /\ ret[q].pc \in Proven => ret[q].c = ret[q].h
      BY <1>4, <1>9, <2>2 DEF Inv, Owned
    <3> QED
      BY <1>3, <1>12, <3>1
  <2> QED
    BY <2>1, <2>2
<1>14. RetOK'
  BY <1>7 DEF TypeOK
<1>15. \A q \in Returns : q # r /\ ret'[r].pc \in Past /\ ret'[q].pc \in Past => ret'[q].h # h
  BY <1>4, <1>5, <1>9, <1>10
<1>16. HandshakeOnce'
  <2> SUFFICES ASSUME NEW q \in Returns, NEW p \in Returns, q # p,
                      ret'[q].pc \in Past, ret'[p].pc \in Past
               PROVE  ret'[q].h # ret'[p].h
    BY <1>14 DEF HandshakeOnce, RetOK, Past, Proven, Steps
  <2>1. CASE q # r /\ p # r
    BY <1>4, <2>1 DEF Inv, HandshakeOnce, Past, Proven
  <2> QED
    BY <1>4, <1>15, <2>1
<1>17. OwnHandshake'
  BY <1>1 DEF Inv, OwnHandshake
<1>18. StillTakable'
  <2> SUFFICES ASSUME NEW k \in Started, k \notin store'
               PROVE  \/ lost'[k] = "expired" /\ Expired(k)
                      \/ lost'[k] = "evicted" /\ Cardinality(Started) > Capacity
                      \/ lost'[k] = "taken"
    BY <1>3 DEF StillTakable, Started
  <2>1. k \in Hs
    BY DEF Started
  <2>2. CASE k \notin store
    <3>1. lost'[k] = lost[k]
      BY <1>5, <2>1, <2>2 DEF old
    <3> QED
      BY <2>2, <3>1 DEF Inv, StillTakable
  <2>3. CASE k \in store
    <3>1. k = h /\ (own \/ old)
      BY <1>5, <2>1, <2>3
    <3> QED
      BY <1>5, <3>1 DEF old
  <2> QED
    BY <2>2, <2>3
<1> QED
  BY <1>7, <1>8, <1>13, <1>16, <1>17, <1>18 DEF Inv

\* Steps that move one return and leave the store and the handshakes alone: each
\* keeps what the return has, or ends it.
Moves(r) ==
    /\ UNCHANGED <<now, hs, store, lost>> /\ CodesKept
    /\ DOMAIN ret' = Returns /\ \A q \in Returns : q # r => ret'[q] = ret[q]

LEMMA MoveStep ==
    ASSUME HandshakesSound, Inv, NEW r \in Returns, Moves(r), LoginOK', OwnHandshake',
           \/ ret'[r] = [pc |-> "none"]
           \/ /\ ret'[r] \in [pc : Steps, s : Browsers, h : Hs, c : Hs]
              /\ ret'[r].h \in Started /\ code[ret'[r].c] # None
              /\ ret'[r].pc \in Past =>
                    /\ ret[r].pc \in Past /\ ret'[r].h = ret[r].h /\ ret'[r].s = ret[r].s
                    /\ ret'[r].pc \in Proven => ret'[r].c = ret'[r].h
    PROVE  Inv'
<1>1. Started' = Started /\ \A k \in Hs : hs'[k] = hs[k] /\ (Expired(k)' <=> Expired(k))
  BY DEF Moves, Started, Expired
<1>2. TypeOK'
  <2>1. HsOK' /\ CodeOK' /\ LostOK' /\ now' \in Nat /\ store' \subseteq Started'
    BY <1>1 DEF Moves, CodesKept, Inv, TypeOK, HsOK, LostOK
  <2>2. RetOK'
    BY <1>1 DEF Moves, CodesKept, Inv, TypeOK, RetOK
  <2> QED
    BY <2>1, <2>2 DEF TypeOK
<1>3. TakenIsGone'
  BY <1>1 DEF Moves, Inv, TakenIsGone
<1>4. \A q \in Returns : ret'[q].pc \in Past =>
          /\ ret[q].pc \in Past /\ ret'[q].h = ret[q].h /\ ret'[q].s = ret[q].s
          /\ ret'[q].pc \in Proven => ret'[q].c = ret'[q].h
  <2> SUFFICES ASSUME NEW q \in Returns, ret'[q].pc \in Past
               PROVE  /\ ret[q].pc \in Past /\ ret'[q].h = ret[q].h /\ ret'[q].s = ret[q].s
                      /\ ret'[q].pc \in Proven => ret'[q].c = ret'[q].h
    OBVIOUS
  <2>1. CASE q = r
    BY <2>1 DEF Past, Proven
  <2>2. CASE q # r
    BY <2>2 DEF Moves, Inv, Owned
  <2> QED
    BY <2>1, <2>2
<1>5. Owned'
  BY <1>1, <1>4 DEF Moves, Inv, Owned
<1>6. HandshakeOnce'
  <2> SUFFICES ASSUME NEW q \in Returns, NEW p \in Returns, q # p,
                      ret'[q].pc \in Past, ret'[p].pc \in Past
               PROVE  ret'[q].h # ret'[p].h
    BY <1>2 DEF HandshakeOnce, TypeOK, RetOK, Past, Proven, Steps
  <2> QED
    BY <1>4 DEF Inv, HandshakeOnce, Past, Proven
<1>7. StillTakable'
  BY <1>1 DEF Moves, Inv, StillTakable, Started
<1> QED
  BY <1>2, <1>3, <1>5, <1>6, <1>7 DEF Inv

\* What a return goes on to: only what the return already has.
LEMMA AnswerStep ==
    ASSUME HandshakesSound, Inv, NEW r \in Returns, ret[r].pc \in Past, NEW what \in {"sso_failed"} \cup Proven,
           Answer(r, what), UNCHANGED <<now, hs, store, lost>>, CodesKept,
           LoginOK', OwnHandshake',
           what \in Proven => ret[r].c = ret[r].h
    PROVE  Inv'
<1>1. /\ ret[r] \in [pc : Steps, s : Browsers, h : Hs, c : Hs]
      /\ ret[r].h \in Started /\ code[ret[r].c] # None
  BY DEF Inv, TypeOK, RetOK, Past, Proven
<1>2. /\ ret'[r] \in [pc : Steps, s : Browsers, h : Hs, c : Hs] /\ DOMAIN ret' = Returns
      /\ ret'[r].h = ret[r].h /\ ret'[r].s = ret[r].s /\ ret'[r].c = ret[r].c /\ ret'[r].pc = what
      /\ \A q \in Returns : q # r => ret'[q] = ret[q]
  BY <1>1 DEF Inv, TypeOK, RetOK, Answer, Steps, Past
<1> QED
  BY <1>1, <1>2, MoveStep DEF Moves

\* The logins are the same.
LEMMA SameLogins ==
    ASSUME Inv, UNCHANGED <<hs, login>>, CodesKept
    PROVE  LoginOK' /\ OwnHandshake'
BY DEF CodesKept, Inv, TypeOK, LoginOK, OwnHandshake, Started

\* Every other step of a return.
LEMMA ReturnSteps ==
    ASSUME HandshakesSound, Inv, NEW r \in Returns,
           \/ \E s \in Browsers, h, c \in Hs : Return(r, s, h, c)
           \/ VerifyCode(r) \/ CheckClaims(r) \/ CheckAddress(r) \/ Reject(r) \/ Accept(r)
           \/ Redirected(r)
    PROVE  Inv'
<1> USE DEF Past, Proven
<1>0. UNCHANGED code => CodesKept
  BY DEF Inv, TypeOK, CodesKept, CodeOK
<1>1. CASE \E s \in Browsers, h, c \in Hs : Return(r, s, h, c)
  <2>1. PICK s \in Browsers, h \in Hs, c \in Hs : Return(r, s, h, c)
    BY <1>1
  <2>2. /\ ret'[r] = [pc |-> "take", s |-> s, h |-> h, c |-> c] /\ h \in Started
        /\ code[c] # None /\ Moves(r) /\ UNCHANGED <<hs, login, code>>
    BY <1>0, <2>1 DEF Return, Moves, Inv, TypeOK, RetOK
  <2> QED
    BY <1>0, <2>2, MoveStep, SameLogins DEF Steps
<1>2. CASE VerifyCode(r)
  <2>1. UNCHANGED <<now, hs, store, lost, login>> /\ ret[r].pc = "verify"
    BY <1>2 DEF VerifyCode
  <2>0. CodesKept
    <3>1. ret[r].c \in Hs /\ code[ret[r].c] \in Code
      BY <2>1 DEF Inv, TypeOK, RetOK, CodeOK
    <3>2. code' = [code EXCEPT ![ret[r].c] = [@ EXCEPT !.used = TRUE]]
      BY <1>2 DEF VerifyCode
    <3>3. /\ [code[ret[r].c] EXCEPT !.used = TRUE] \in Code
          /\ [code[ret[r].c] EXCEPT !.used = TRUE].user = code[ret[r].c].user
      BY <3>1 DEF Code
    <3> QED
      BY <3>1, <3>2, <3>3 DEF Inv, TypeOK, CodeOK, CodesKept, HandshakesSound, Code
  <2>2. CASE TokenFits(r)
    BY <1>2, <2>0, <2>1, <2>2, AnswerStep, SameLogins DEF VerifyCode, TokenFits
  <2>3. CASE ~TokenFits(r)
    BY <1>2, <2>0, <2>1, <2>3, AnswerStep, SameLogins DEF VerifyCode
  <2> QED
    BY <2>2, <2>3
<1>3. CASE CheckClaims(r)
  <2>1. UNCHANGED <<now, hs, store, lost, code, login>> /\ ret[r].pc = "claims"
    BY <1>3 DEF CheckClaims
  <2>2. ret[r].c = ret[r].h
    BY <2>1 DEF Inv, Owned
  <2>3. PICK next \in {"sso_failed", "submit", "no_matching_user", "access_denied"} : Answer(r, next)
    BY <1>3 DEF CheckClaims
  <2> QED
    BY <1>0, <2>1, <2>2, <2>3, AnswerStep, SameLogins
<1>4. CASE CheckAddress(r)
  <2>1. UNCHANGED <<now, hs, store, lost, code, login>> /\ ret[r].pc = "submit"
    BY <1>4 DEF CheckAddress
  <2>2. ret[r].c = ret[r].h
    BY <2>1 DEF Inv, Owned
  <2>3. PICK next \in {"ip_blocked", "credential"} : Answer(r, next)
    BY <1>4 DEF CheckAddress
  <2> QED
    BY <1>0, <2>1, <2>2, <2>3, AnswerStep, SameLogins
<1>5. CASE Reject(r)
  <2>1. UNCHANGED <<now, hs, store, lost, code, login>> /\ ret[r].pc = "credential"
    BY <1>5 DEF Reject
  <2>2. ret[r].c = ret[r].h
    BY <2>1 DEF Inv, Owned
  <2>3. PICK next \in {"ip_blocked", "sso_failed"} : Answer(r, next)
    BY <1>5 DEF Reject
  <2> QED
    BY <1>0, <2>1, <2>2, <2>3, AnswerStep, SameLogins
<1>6. CASE Accept(r)
  <2> DEFINE u == code[ret[r].c].user
             in == [st |-> IF u \in Factors THEN "pending" ELSE "in", user |-> u,
                    h |-> ret[r].h, c |-> ret[r].c]
  <2>1. /\ UNCHANGED <<now, hs, store, lost, code>> /\ ret[r].pc = "credential"
        /\ Answer(r, "home") /\ login' = [login EXCEPT ![ret[r].s] = in]
    BY <1>6 DEF Accept
  <2>2. /\ ret[r].c = ret[r].h /\ hs[ret[r].h].sess = ret[r].s /\ ret[r].h \in Started
        /\ ret[r] \in [pc : Steps, s : Browsers, h : Hs, c : Hs]
        /\ code[ret[r].h] # None /\ u \in Users
    BY <2>1 DEF Inv, Owned, TypeOK, RetOK, CodeOK, Code
  <2>3. /\ in.st \in {"in", "pending"} /\ in.h = ret[r].h /\ in.c = ret[r].c
        /\ in \in [st : {"in", "pending"}, user : Users, h : Hs, c : Hs] /\ in.user = u
    BY <2>2
  <2> HIDE DEF in
  <2>4. LoginOK'
    BY <2>1, <2>2, <2>3 DEF Inv, TypeOK, LoginOK, Started
  <2>5. OwnHandshake'
    BY <2>1, <2>2, <2>3 DEF Inv, TypeOK, LoginOK, OwnHandshake
  <2> QED
    BY <1>0, <2>1, <2>2, <2>4, <2>5, AnswerStep
<1>7. CASE Redirected(r)
  <2>1. ret'[r] = [pc |-> "none"] /\ Moves(r) /\ UNCHANGED <<hs, login, code>>
    BY <1>0, <1>7 DEF Redirected, Moves, Inv, TypeOK, RetOK
  <2> QED
    BY <1>0, <2>1, MoveStep, SameLogins
<1> QED
  BY <1>1, <1>2, <1>3, <1>4, <1>5, <1>6, <1>7

\* The provider's code, housekeeping and time.
LEMMA OtherSteps ==
    ASSUME HandshakesSound, Inv,
           \/ \E h \in Hs, u \in Users : SignIn(h, u)
           \/ Vacuum \/ Tick \/ UNCHANGED handshakeVars
    PROVE  Inv'
<1>1. UNCHANGED <<hs, ret, login>> /\ Started' = Started /\ now' \in Nat /\ now' >= now
  BY DEF Inv, TypeOK, SignIn, Vacuum, Tick, handshakeVars, Started
<1>0. CodesKept
  <2>1. CASE \E h \in Hs, u \in Users : SignIn(h, u)
    BY <2>1 DEF Inv, TypeOK, CodeOK, CodesKept, SignIn, Code
  <2>2. CASE UNCHANGED code
    BY <2>2 DEF Inv, TypeOK, CodeOK, CodesKept
  <2> QED
    BY <2>1, <2>2 DEF Vacuum, Tick, handshakeVars
<1>2. \A k \in Started : hs[k].born \in Nat /\ (Expired(k) => Expired(k)')
  <2>1. \A k \in Started : hs[k].born \in Nat
    BY DEF Inv, TypeOK, HsOK, Started, Handshake
  <2> QED
    BY <1>1, <2>1 DEF Inv, TypeOK, Expired, HandshakesSound
<1>3. /\ store' \subseteq store /\ LostOK'
      /\ \A k \in Hs : \/ lost'[k] = lost[k] /\ (k \in store <=> k \in store')
                       \/ k \in store /\ k \notin store' /\ lost'[k] = "expired" /\ Expired(k)
  <2>1. CASE Vacuum
    BY <2>1 DEF Inv, TypeOK, LostOK, Vacuum
  <2>2. CASE UNCHANGED <<store, lost>>
    BY <2>2 DEF Inv, TypeOK, LostOK
  <2> QED
    BY <2>1, <2>2 DEF SignIn, Tick, handshakeVars
<1>4. TypeOK'
  BY <1>0, <1>1, <1>3 DEF Inv, TypeOK, HsOK, RetOK, LoginOK, CodesKept
<1>5. TakenIsGone' /\ \A k \in Hs : lost[k] = "taken" => lost'[k] = "taken"
  BY <1>1, <1>3 DEF Inv, TypeOK, TakenIsGone, Started
<1>6. Owned'
  BY <1>1, <1>5 DEF Inv, Owned, TypeOK, RetOK, Past, Proven
<1>7. HandshakeOnce' /\ OwnHandshake'
  BY <1>0, <1>1, SameLogins DEF Inv, HandshakeOnce
<1>8. StillTakable'
  <2> SUFFICES ASSUME NEW k \in Started, k \notin store'
               PROVE  \/ lost'[k] = "expired" /\ Expired(k)'
                      \/ lost'[k] = "evicted" /\ Cardinality(Started) > Capacity
                      \/ lost'[k] = "taken"
    BY <1>1 DEF StillTakable
  <2>1. k \in Hs
    BY DEF Started
  <2> QED
    BY <1>2, <1>3, <2>1 DEF Inv, StillTakable
<1> QED
  BY <1>4, <1>5, <1>6, <1>7, <1>8 DEF Inv

\* Every step.
LEMMA NextInv == ASSUME HandshakesSound PROVE Inv /\ [HandshakeNext]_handshakeVars => Inv'
<1> SUFFICES ASSUME Inv, [HandshakeNext]_handshakeVars
             PROVE  Inv'
  OBVIOUS
<1>1. ASSUME NEW s \in Browsers, NEW p \in Providers, Start(s, p)
      PROVE  Inv'
  BY <1>1, StartStep
<1>2. ASSUME NEW r \in Returns, Take(r)
      PROVE  Inv'
  BY <1>2, TakeStep
<1>3. ASSUME NEW r \in Returns,
             \/ \E s \in Browsers, h, c \in Hs : Return(r, s, h, c)
             \/ VerifyCode(r) \/ CheckClaims(r) \/ CheckAddress(r) \/ Reject(r) \/ Accept(r)
             \/ Redirected(r)
      PROVE  Inv'
  BY <1>3, ReturnSteps
<1>4. CASE \/ \E h \in Hs, u \in Users : SignIn(h, u)
           \/ Vacuum \/ Tick \/ UNCHANGED handshakeVars
  BY <1>4, OtherSteps
<1> QED
  BY <1>1, <1>2, <1>3, <1>4 DEF HandshakeNext

LEMMA Always == ASSUME HandshakesSound PROVE HandshakeSpec => []Inv
BY InitInv, NextInv, PTL DEF HandshakeSpec

-----------------------------------------------------------------------------
\* A session is logged in only through a handshake of its own, once, with the code that
\* the provider issued for that very handshake, and no other session uses it up:
\* whatever states and codes are presented, in whichever browsers, in whichever order
\* (sso_request_store.rs take_at, api/sso_provider_detail.rs finish_login).
THEOREM LoginsAreOwn == ASSUME HandshakesSound PROVE HandshakeSpec => []LoginOfOwnHandshake
<1>1. Inv => LoginOfOwnHandshake
  BY DEF Inv, LoginOfOwnHandshake
<1> QED
  BY <1>1, Always, PTL

\* One handshake makes one login: no two returns are past the store with the same
\* handshake (take_at removes it under the lock of the store).
THEOREM OneLoginPerHandshake == ASSUME HandshakesSound PROVE HandshakeSpec => []HandshakeOnce
<1>1. Inv => HandshakeOnce
  BY DEF Inv
<1> QED
  BY <1>1, Always, PTL

\* A handshake whose session has not come back is lost to its age or to a full
\* store only: a foreign session that presents its state does not use it up
\* (take_at), for every capacity.
THEOREM NobodyElseUsesItUp == ASSUME HandshakesSound PROVE HandshakeSpec => []StillTakable
<1>1. Inv => StillTakable
  BY DEF Inv
<1> QED
  BY <1>1, Always, PTL

\* A handshake that was taken stays taken: no later insertion, return or sweep
\* makes it available again.
TakenForGood == \A h \in Hs : lost[h] = "taken" => lost'[h] = "taken" /\ h \notin store'

THEOREM TakenOnce == ASSUME HandshakesSound PROVE HandshakeSpec => [][TakenForGood]_handshakeVars
<1>1. Inv /\ [HandshakeNext]_handshakeVars => [TakenForGood]_handshakeVars
  <2> SUFFICES ASSUME Inv, HandshakeNext, NEW h \in Hs, lost[h] = "taken"
               PROVE  lost'[h] = "taken" /\ h \notin store'
    BY DEF TakenForGood
  <2>1. h \notin store
    BY DEF Inv, TakenIsGone
  <2>2. lost'[h] = "taken"
    <3>1. CASE UNCHANGED lost
      BY <3>1
    <3>2. ASSUME NEW s \in Browsers, NEW p \in Providers, Start(s, p)
          PROVE  lost'[h] = "taken"
      BY <2>1, <3>2 DEF Start, Insert
    <3>3. ASSUME NEW r \in Returns, Take(r)
          PROVE  lost'[h] = "taken"
      BY <2>1, <3>3 DEF Take, Inv, TypeOK, LostOK
    <3>4. CASE Vacuum
      BY <2>1, <3>4 DEF Vacuum
    <3> QED
      BY <3>1, <3>2, <3>3, <3>4 DEF HandshakeNext, SignIn, Return, VerifyCode, CheckClaims, CheckAddress,
         Reject, Accept, Redirected, Tick
  <2>3. Inv'
    BY NextInv
  <2> QED
    BY <2>2, <2>3 DEF Inv, TakenIsGone
<1> QED
  BY <1>1, Always, PTL DEF HandshakeSpec

\* The answer names a blocked address only if it was blocked before this return
\* failed (rejected_credential_failure).
THEOREM BlockNamedFirst == ASSUME HandshakesSound PROVE HandshakeSpec => [][NamedFirst]_handshakeVars
<1>1. Inv /\ [HandshakeNext]_handshakeVars => [NamedFirst]_handshakeVars
  <2> SUFFICES ASSUME Inv, HandshakeNext, NEW r \in Returns, ret'[r].pc = "ip_blocked",
                      ret[r].pc # "ip_blocked"
               PROVE  ip.blocked
    BY DEF NamedFirst
  <2>1. CASE UNCHANGED ret
    BY <2>1
  <2>2. ASSUME NEW q \in Returns, NEW what, Answer(q, what)
        PROVE  q = r /\ what = "ip_blocked"
    <3>1. q = r
      BY <2>2 DEF Answer, Inv, TypeOK, RetOK
    <3>2. \/ ret[r] = [pc |-> "none"]
          \/ ret[r] \in [pc : Steps, s : Browsers, h : Hs, c : Hs]
      BY DEF Inv, TypeOK, RetOK
    <3>3. ret'[r] = [ret[r] EXCEPT !.pc = what] /\ DOMAIN ret[r] = DOMAIN [ret[r] EXCEPT !.pc = what]
      BY <2>2, <3>1 DEF Answer, Inv, TypeOK, RetOK
    <3>4. ret'[r].pc = what
      BY <3>2, <3>3
    <3> QED
      BY <3>1, <3>4
  <2>3. ASSUME NEW q \in Returns, \/ \E s \in Browsers, h, c \in Hs : Return(q, s, h, c)
                                 \/ Redirected(q)
        PROVE  FALSE
    BY <2>3 DEF Return, Redirected, Inv, TypeOK, RetOK
  <2>4. ASSUME NEW q \in Returns, Take(q) \/ VerifyCode(q) \/ CheckClaims(q) \/ Accept(q)
        PROVE  FALSE
    BY <2>2, <2>4 DEF Take, VerifyCode, CheckClaims, Accept
  <2>5. ASSUME NEW q \in Returns, CheckAddress(q) \/ Reject(q)
        PROVE  ip.blocked
    BY <2>2, <2>5 DEF CheckAddress, Reject
  <2>6. CASE \/ \E s \in Browsers, p \in Providers : Start(s, p)
             \/ \E h \in Hs, u \in Users : SignIn(h, u)
             \/ Vacuum \/ Tick
    BY <2>1, <2>6 DEF Start, SignIn, Vacuum, Tick
  <2> QED
    BY <2>3, <2>4, <2>5, <2>6 DEF HandshakeNext
<1> QED
  BY <1>1, Always, PTL DEF HandshakeSpec

-----------------------------------------------------------------------------
(* The browser sessions: what the variables hold. *)

User == Accounts \cup {Nothing}
Copy == [handle : Sess \cup {Nothing}, auth : User, sso : User, via : BOOLEAN]
StoredRow ==
    [handle : Sess \cup {Nothing}, auth : User, sso : User, via : BOOLEAN, born : User,
     exp : Nat, upd : Nat]
UserSession ==
    [st : {"unused", "open", "ended", "left"}, user : User, node : Servers \cup {Nothing}]
WebRequest ==
    [pc : {"idle", "act", "served", "authorize", "rotate", "finish", "adopt"},
     kind : Kinds \cup {Nothing}, b : Clients \cup {Nothing}, node : Servers \cup {Nothing},
     at : Servers \cup {Nothing}, id : Ids \cup {Nothing}, held : Ids \cup {Nothing}, copy : Copy,
     status : {"unchanged", "changed", "renewed", "purged"}, before : Copy, who : User,
     via : BOOLEAN, gone : SUBSET Sess]

WebTypes ==
    /\ rows \in [Ids -> {Nothing} \cup StoredRow]
    /\ us \in [Sess -> UserSession]
    /\ pend \in [Servers -> [Sess -> {Nothing} \cup [user : User, via : BOOLEAN]]]
    /\ jar \in [Clients -> Ids \cup {Nothing}]
    /\ req \in [Reqs -> WebRequest]
    /\ time \in [now : Nat, ran : SUBSET Servers]

\* A copy of a row names a session that exists, and an authorization is for the
\* user to whom that session is attributed.
Rightful(c, U) ==
    /\ c.handle # Nothing => U[c.handle].st # "unused"
    /\ c.auth # Nothing => c.handle # Nothing /\ U[c.handle].user = c.auth

\* A stored row is not of a session that ended together with its rows.
Standing(x, U) == Rightful(x, U) /\ (x.handle # Nothing => U[x.handle].st # "ended")

\* A request has a place, an id where it needs one, a rightful copy of a session
\* that had not ended when it began, and is about to authorize the user to whom
\* that session is attributed.
Fit(q, U) ==
    /\ q.pc # "idle" => q.at \in Servers /\ q.node \in Servers /\ q.b \in Clients
    /\ q.pc = "act" /\ q.copy.handle # Nothing => q.id \in Ids
    /\ q.pc = "adopt" \/ q.at # q.node => q.id \in Ids
    /\ Rightful(q.copy, U)
    /\ q.copy.handle \notin q.gone
    /\ \A s \in q.gone : U[s].st = "ended"
    /\ q.pc = "rotate" /\ q.who # Nothing
          => q.copy.handle # Nothing /\ U[q.copy.handle].user = q.who

\* Nobody has a session that was not made yet.
NoUserYet(U) == \A s \in Sess : U[s].st = "unused" => U[s].user = Nothing

WebInv ==
    /\ WebTypes /\ NoUserYet(us)
    /\ \A i \in Ids : rows[i] # Nothing => Standing(rows[i], us)
    /\ \A r \in Reqs : Fit(req[r], us)

\* How user sessions change: none is unmade, reopened after it ended with its
\* rows, or given to another user.
Grows(U, V) ==
    \A s \in Sess : /\ U[s].st # "unused" => V[s].st # "unused"
                    /\ U[s].st = "ended" => V[s].st = "ended"
                    /\ U[s].user # Nothing => V[s].user = U[s].user

-----------------------------------------------------------------------------
\* What stays rightful while sessions change.
LEMMA StaysRightful ==
    ASSUME NEW U, NEW V, Grows(U, V), NEW c, c.handle \in Sess \cup {Nothing}, Rightful(c, U)
    PROVE  Rightful(c, V)
BY DEF Grows, Rightful

LEMMA StaysFit ==
    ASSUME NEW U, NEW V, Grows(U, V), NEW q \in WebRequest, Fit(q, U)
    PROVE  Fit(q, V)
<1>1. q.copy.handle \in Sess \cup {Nothing}
  BY DEF WebRequest, Copy
<1>2. Rightful(q.copy, V)
  BY <1>1, StaysRightful DEF Fit
<1>3. \A s \in q.gone : V[s].st = "ended"
  BY DEF Fit, Grows, WebRequest
<1>4. q.pc = "rotate" /\ q.who # Nothing
          => q.copy.handle # Nothing /\ V[q.copy.handle].user = q.who
  BY <1>1 DEF Fit, Grows
<1> QED
  BY <1>2, <1>3, <1>4 DEF Fit

\* The shape of every step: what it leaves of rows is standing, what it sets of
\* requests is fit.
LEMMA WebStep ==
    ASSUME WebInv, WebTypes', Grows(us, us'), NoUserYet(us'),
           \A i \in Ids : rows'[i] # Nothing => Standing(rows'[i], us'),
           \A r \in Reqs : req'[r] = req[r] \/ Fit(req'[r], us')
    PROVE  WebInv' /\ Grows(us, us')
<1>1. ASSUME NEW r \in Reqs PROVE Fit(req'[r], us')
  <2>1. CASE req'[r] = req[r]
    <3>1. req[r] \in WebRequest /\ Fit(req[r], us)
      BY DEF WebInv, WebTypes
    <3> QED
      BY <2>1, <3>1, StaysFit
  <2> QED
    BY <2>1
<1> QED
  BY <1>1 DEF WebInv

LEMMA SameGrows == ASSUME NEW U PROVE Grows(U, U)
BY DEF Grows

\* A step that sets one request and leaves rows and sessions alone.
LEMMA SetStep ==
    ASSUME WebInv, NEW r \in Reqs, NEW f \in WebRequest, Set(r, f), Fit(f, us),
           UNCHANGED <<rows, us, pend, jar, time>>
    PROVE  WebInv' /\ Grows(us, us')
<1>1. req' \in [Reqs -> WebRequest] /\ \A q \in Reqs : req'[q] = req[q] \/ req'[q] = f
  BY DEF Set, WebInv, WebTypes
<1>2. WebTypes'
  BY <1>1 DEF WebInv, WebTypes
<1>3. \A q \in Reqs : req'[q] = req[q] \/ Fit(req'[q], us')
  BY <1>1
<1>4. Grows(us, us') /\ NoUserYet(us')
  BY SameGrows DEF WebInv
<1>5. \A i \in Ids : rows'[i] # Nothing => Standing(rows'[i], us')
  BY DEF WebInv
<1> QED
  BY <1>2, <1>3, <1>4, <1>5, WebStep

\* A request that is over is fit.
LEMMA NoRequestFit ==
    /\ NoRequest \in WebRequest
    /\ \A U : Fit(NoRequest, U)
BY DEF NoRequest, WebRequest, Blank, Copy, User, Fit, Rightful

-----------------------------------------------------------------------------
(* Sessions that are made. *)

LEMMA FreshSessIn ==
    ASSUME WebSound, Unminted # {}
    PROVE  FreshSess \in Sess /\ us[FreshSess].st = "unused"
<1>1. Unminted \subseteq Nat
  BY DEF Unminted, WebSound
<1>2. \E s \in Unminted : \A t \in Unminted : s <= t
  BY <1>1, LeastNat
<1>3. FreshSess \in Unminted
  BY <1>2 DEF FreshSess
<1> QED
  BY <1>3 DEF Unminted

LEMMA FreshIdIn ==
    ASSUME WebSound, Ids \ UsedIds # {}
    PROVE  FreshId \in Ids
<1>1. Ids \ UsedIds \subseteq Nat
  BY DEF WebSound
<1>2. \E i \in Ids \ UsedIds : \A j \in Ids \ UsedIds : i <= j
  BY <1>1, LeastNat
<1> QED
  BY <1>2 DEF FreshId

\* What resolving a cookie's session yields: the session of the copy or a new one,
\* whose authorization, if any, is still rightful; and nothing ends by it.
Resolution(o, c) ==
    /\ o.us \in [Sess -> UserSession] /\ Grows(us, o.us) /\ NoUserYet(o.us)
    /\ \A s \in Sess : o.us[s].st = "ended" => us[s].st = "ended"
    /\ o.copy \in Copy /\ Rightful(o.copy, o.us) /\ o.copy.handle \in Sess
    /\ o.made = o.copy.handle
    /\ o.copy.handle = c.handle \/ us[o.copy.handle].st = "unused"
    /\ us[o.copy.handle].st = "unused" => o.us[o.copy.handle].user = Nothing
    /\ \A s \in Sess \ {o.copy.handle} : o.us[s] = us[s]

LEMMA CreatedOK ==
    ASSUME WebSound, WebInv, Unminted # {}, NEW n, NEW c \in Copy, c.auth = Nothing
    PROVE  Resolution(Created(n, c), c)
<1> DEFINE f == FreshSess
           v == [st |-> "open", user |-> Nothing, node |-> Nothing]
           V == [us EXCEPT ![f] = v]
           d == [c EXCEPT !.handle = f]
<1>1. f \in Sess /\ us[f].st = "unused"
  BY FreshSessIn
<1>2. us \in [Sess -> UserSession] /\ NoUserYet(us)
  BY DEF WebInv, WebTypes
<1>3. v \in UserSession /\ v.st = "open" /\ v.user = Nothing
  BY DEF UserSession, User
<1>4. us[f].user = Nothing
  BY <1>1, <1>2 DEF NoUserYet
<1>5. V \in [Sess -> UserSession] /\ V[f] = v /\ \A s \in Sess \ {f} : V[s] = us[s]
  BY <1>1, <1>2, <1>3
<1> HIDE DEF v, V
<1>6. Grows(us, V) /\ NoUserYet(V) /\ \A s \in Sess : V[s].st = "ended" => us[s].st = "ended"
  BY <1>1, <1>2, <1>3, <1>4, <1>5 DEF Grows, NoUserYet
<1>7. d \in Copy /\ d.handle = f /\ d.auth = Nothing
  BY <1>1 DEF Copy
<1>8. Rightful(d, V)
  BY <1>3, <1>5, <1>7 DEF Rightful
<1>9. /\ Created(n, c).us = V /\ Created(n, c).copy = d /\ Created(n, c).made = d.handle
  BY DEF Created, Ok, V, v
<1> HIDE DEF d
<1> QED
  BY <1>1, <1>3, <1>5, <1>6, <1>7, <1>8, <1>9 DEF Resolution

LEMMA SameResolution ==
    ASSUME WebInv, NEW c \in Copy, Rightful(c, us), c.handle # Nothing, NEW g
    PROVE  Resolution(Ok(c, us, g), c)
<1>1. us \in [Sess -> UserSession] /\ NoUserYet(us) /\ Grows(us, us)
  BY SameGrows DEF WebInv, WebTypes
<1>2. c.handle \in Sess
  BY DEF Copy
<1>3. Ok(c, us, g).us = us /\ Ok(c, us, g).copy = c /\ Ok(c, us, g).made = c.handle
  BY DEF Ok
<1> QED
  BY <1>1, <1>2, <1>3 DEF Resolution, Rightful

LEMMA ResolveOK ==
    ASSUME WebSound, WebInv, Unminted # {}, NEW n, NEW c \in Copy, Rightful(c, us), Resolve(n, c).ok
    PROVE  Resolution(Resolve(n, c), c)
<1>0. Refused("OtherUser").ok = FALSE /\ Refused("EndedWithAuth").ok = FALSE
  BY DEF Refused
<1>1. CASE c.handle = Nothing
  <2>1. c.auth = Nothing
    BY <1>1 DEF Rightful
  <2>2. Resolve(n, c) = Created(n, c)
    BY <1>1 DEF Resolve
  <2> QED
    BY <2>1, <2>2, CreatedOK
<1>2. CASE c.handle # Nothing /\ reg[n][c.handle] # Absent
  <2>1. Resolve(n, c) = LiveEntry(n, c)
    BY <1>2 DEF Resolve
  <2>2. Resolve(n, c) = Ok(c, us, reg)
    BY <1>0, <2>1 DEF LiveEntry
  <2> QED
    BY <1>2, <2>2, SameResolution
<1>3. CASE c.handle # Nothing /\ reg[n][c.handle] = Absent /\ Open(c.handle)
  <2>1. Resolve(n, c) = IF us[c.handle].user # c.auth THEN Refused("OtherUser")
                        ELSE Ok(c, us, [reg EXCEPT ![n][c.handle] = Nothing])
    BY <1>3 DEF Resolve
  <2>2. Resolve(n, c) = Ok(c, us, [reg EXCEPT ![n][c.handle] = Nothing])
    BY <1>0, <2>1
  <2> QED
    BY <1>3, <2>2, SameResolution
<1>4. CASE c.handle # Nothing /\ reg[n][c.handle] = Absent /\ ~Open(c.handle)
  <2>1. Resolve(n, c) = IF c.auth # Nothing THEN Refused("EndedWithAuth") ELSE Created(n, c)
    BY <1>4 DEF Resolve
  <2>2. c.auth = Nothing /\ Resolve(n, c) = Created(n, c)
    BY <1>0, <2>1
  <2> QED
    BY <2>2, CreatedOK
<1> QED
  BY <1>1, <1>2, <1>3, <1>4

\* A login has a session of its own if the cookie's was refused.
LEMMA ResolveLoginOK ==
    ASSUME WebSound, WebInv, Unminted # {}, NEW n, NEW c \in Copy, Rightful(c, us)
    PROVE  Resolution(ResolveLogin(n, c), c)
<1>1. CASE Resolve(n, c).ok
  BY <1>1, ResolveOK DEF ResolveLogin
<1>2. CASE ~Resolve(n, c).ok
  <2>1. ResolveLogin(n, c) = Created(n, Blank)
    BY <1>2 DEF ResolveLogin
  <2>2. Blank \in Copy /\ Blank.auth = Nothing /\ Blank.handle = Nothing
    BY DEF Blank, Copy, User
  <2>3. Resolution(Created(n, Blank), Blank)
    BY <2>2, CreatedOK
  <2>4. Created(n, Blank).copy.handle # Nothing
    BY <2>3 DEF Resolution, WebSound
  <2> QED
    BY <2>1, <2>2, <2>3, <2>4 DEF Resolution
<1> QED
  BY <1>1, <1>2

-----------------------------------------------------------------------------
(* The steps of requests. *)

\* What a request in progress has.
LEMMA RequestHas ==
    ASSUME WebInv, NEW r \in Reqs
    PROVE  /\ req[r] \in WebRequest /\ Fit(req[r], us)
           /\ req[r].copy \in Copy /\ Rightful(req[r].copy, us)
           /\ req[r].id \in Ids \cup {Nothing}
BY DEF WebInv, WebTypes, Fit, WebRequest

\* A step that sets one request and changes sessions, of which none ends with its
\* rows.
LEMMA SessionsStep ==
    ASSUME WebInv, NEW r \in Reqs, NEW f \in WebRequest, Set(r, f), Fit(f, us'),
           us' \in [Sess -> UserSession], Grows(us, us'), NoUserYet(us'),
           \A s \in Sess : us'[s].st = "ended" => us[s].st = "ended",
           pend' \in [Servers -> [Sess -> {Nothing} \cup [user : User, via : BOOLEAN]]],
           UNCHANGED <<rows, jar, time>>
    PROVE  WebInv' /\ Grows(us, us')
<1>1. req' \in [Reqs -> WebRequest] /\ \A q \in Reqs : req'[q] = req[q] \/ req'[q] = f
  BY DEF Set, WebInv, WebTypes
<1>2. WebTypes'
  BY <1>1 DEF WebInv, WebTypes
<1>3. \A q \in Reqs : req'[q] = req[q] \/ Fit(req'[q], us')
  BY <1>1
<1>5. ASSUME NEW i \in Ids, rows'[i] # Nothing PROVE Standing(rows'[i], us')
  <2>1. rows[i] \in StoredRow /\ Standing(rows[i], us) /\ rows'[i] = rows[i]
    BY <1>5 DEF WebInv, WebTypes
  <2>2. rows[i].handle \in Sess \cup {Nothing}
    BY <2>1 DEF StoredRow
  <2>3. Rightful(rows[i], us')
    BY <2>1, <2>2, StaysRightful DEF Standing
  <2> QED
    BY <2>1, <2>2, <2>3 DEF Standing
<1> QED
  BY <1>2, <1>3, <1>5, WebStep

\* The copy that a row gives a request, on the first hop or at a peer.
LEMMA CopyOfRow ==
    ASSUME WebInv, NEW i \in Ids, rows[i] # Nothing
    PROVE  /\ Stored(i) \in Copy /\ Rightful(Stored(i), us)
           /\ Stored(i).handle # Nothing => us[Stored(i).handle].st # "ended"
<1>1. rows[i] \in StoredRow /\ Standing(rows[i], us)
  BY DEF WebInv, WebTypes
<1> QED
  BY <1>1 DEF Standing, Rightful, StoredRow, Copy, Stored

LEMMA BlankOK == Blank \in Copy /\ Blank.handle = Nothing /\ Blank.auth = Nothing /\ \A U : Rightful(Blank, U)
BY DEF Blank, Copy, User, Rightful

LEMMA LoadStep ==
    ASSUME WebSound, WebInv, NEW r \in Reqs, NEW b \in Clients, NEW n \in Servers, NEW k \in Kinds,
           Load(r, b, n, k)
    PROVE  WebInv' /\ Grows(us, us')
<1> DEFINE i == jar[b]
           there == i # Nothing /\ rows[i] # Nothing /\ rows[i].exp > time.now
           c == IF there THEN Stored(i) ELSE Blank
           g == {s \in Sess : us[s].st = "ended"}
           x == IF there THEN i ELSE Nothing
           f(u) == [NoRequest EXCEPT !.pc = "act", !.kind = k, !.b = b, !.node = n, !.at = n,
                                     !.id = x, !.held = x, !.copy = c, !.before = c,
                                     !.status = Touched(c), !.who = u, !.gone = g]
<1>1. PICK u \in People[b] : Set(r, f(u))
  BY DEF Load
<1>2. i \in Ids \cup {Nothing} /\ u \in User
  BY DEF WebInv, WebTypes, WebSound, User
<1>3. /\ c \in Copy /\ Rightful(c, us) /\ (c.handle # Nothing => us[c.handle].st # "ended")
      /\ x \in Ids \cup {Nothing} /\ (c.handle # Nothing => x \in Ids)
  <2>1. CASE there
    <3>1. i \in Ids /\ rows[i] # Nothing
      BY <1>2, <2>1
    <3> QED
      BY <2>1, <3>1, CopyOfRow
  <2>2. CASE ~there
    BY <2>2, BlankOK
  <2> QED
    BY <2>1, <2>2
<1>4. Touched(c) \in {"unchanged", "changed"} /\ g \in SUBSET Sess /\ c.handle \notin g
  BY <1>3 DEF Touched, WebSound
<1> HIDE DEF i, there, c, g, x
<1>5. f(u) \in WebRequest
  BY <1>2, <1>3, <1>4 DEF NoRequest, WebRequest
<1>6. Fit(f(u), us)
  BY <1>3, <1>4 DEF NoRequest, Fit, g
<1>7. UNCHANGED <<rows, us, pend, jar, time>>
  BY DEF Load
<1> QED
  BY <1>1, <1>5, <1>6, <1>7, SetStep

LEMMA HopStep ==
    ASSUME WebSound, WebInv, NEW r \in Reqs, Hop(r)
    PROVE  WebInv' /\ Grows(us, us')
<1> DEFINE i == req[r].id
           there == rows[i] # Nothing /\ rows[i].exp > time.now
           x == IF there THEN i ELSE Nothing
           c == IF there THEN Stored(i) ELSE Blank
           a == AuthStateOwner(r)
           f == [req[r] EXCEPT !.at = a, !.copy = c, !.status = Touched(c), !.held = x]
<1>1. Set(r, f) /\ UNCHANGED <<rows, us, pend, jar, time>> /\ req[r].pc = "act" /\ a # req[r].node
  BY DEF Hop
<1>2. req[r] \in WebRequest /\ Fit(req[r], us)
  BY RequestHas
<1>3. req[r].copy.handle # Nothing /\ a = us[req[r].copy.handle].node /\ a # Nothing
  BY <1>1 DEF AuthStateOwner
<1>4. req[r].copy.handle \in Sess /\ i \in Ids /\ req[r].node \in Servers /\ req[r].b \in Clients
  BY <1>1, <1>2, <1>3 DEF Fit, WebRequest, Copy
<1>5. a \in Servers
  BY <1>3, <1>4 DEF WebInv, WebTypes, UserSession
<1>6. c \in Copy /\ Rightful(c, us) /\ (c.handle # Nothing => us[c.handle].st # "ended")
  BY <1>4, BlankOK, CopyOfRow
<1>7. Touched(c) \in {"unchanged", "changed"} /\ x \in Ids \cup {Nothing}
  BY <1>4 DEF Touched
<1>8. c.handle \notin req[r].gone
  BY <1>2, <1>6 DEF Fit, WebRequest, WebSound
<1> HIDE DEF i, there, c, a, x
<1>9. f \in WebRequest
  BY <1>2, <1>5, <1>6, <1>7 DEF WebRequest
<1>10. Fit(f, us)
  BY <1>1, <1>2, <1>4, <1>5, <1>6, <1>8 DEF Fit, WebRequest, i
<1> QED
  BY <1>1, <1>9, <1>10, SetStep

\* A request that moves on, with nothing else of it changed.
LEMMA MoveOn ==
    ASSUME WebInv, NEW r \in Reqs, req[r].pc # "idle",
           Set(r, [req[r] EXCEPT !.pc = "finish"]), UNCHANGED <<rows, us, pend, jar, time>>
    PROVE  WebInv' /\ Grows(us, us')
<1>1. req[r] \in WebRequest /\ Fit(req[r], us)
  BY RequestHas
<1>2. [req[r] EXCEPT !.pc = "finish"] \in WebRequest
  BY <1>1 DEF WebRequest
<1>3. Fit([req[r] EXCEPT !.pc = "finish"], us)
  BY <1>1 DEF Fit, WebRequest
<1> QED
  BY <1>2, <1>3, SetStep

LEMMA PlainSteps ==
    ASSUME WebSound, WebInv, NEW r \in Reqs,
           Served(r) \/ FirstAgain(r) \/ LastFactor(r) \/ ClientLeaves(r)
    PROVE  WebInv' /\ Grows(us, us')
<1>1. CASE Served(r)
  BY <1>1, MoveOn DEF Served
<1>2. CASE FirstAgain(r)
  BY <1>2, MoveOn DEF FirstAgain
<1>3. CASE LastFactor(r)
  <2> DEFINE s == req[r].copy.handle
             p == IF s = Nothing THEN Nothing ELSE pend[req[r].at][s]
             f == [req[r] EXCEPT !.pc = "authorize", !.who = p.user, !.via = p.via]
  <2>1. req[r].pc = "act" /\ UNCHANGED <<rows, us, pend, jar, time>>
    BY <1>3 DEF LastFactor
  <2>2. Set(r, [req[r] EXCEPT !.pc = "finish"]) \/ (Set(r, f) /\ p # Nothing)
    BY <1>3 DEF LastFactor
  <2>3. CASE Set(r, [req[r] EXCEPT !.pc = "finish"])
    BY <2>1, <2>3, MoveOn
  <2>4. CASE Set(r, f) /\ p # Nothing
    <3>1. req[r] \in WebRequest /\ Fit(req[r], us)
      BY RequestHas
    <3>2. s \in Sess /\ req[r].at \in Servers
      BY <2>1, <2>4, <3>1 DEF Fit, WebRequest, Copy
    <3>3. p \in [user : User, via : BOOLEAN]
      BY <2>4, <3>2 DEF WebInv, WebTypes
    <3> HIDE DEF p, s
    <3>4. f \in WebRequest
      BY <3>1, <3>3 DEF WebRequest
    <3>5. Fit(f, us)
      BY <2>1, <3>1 DEF Fit, WebRequest
    <3> QED
      BY <2>1, <2>4, <3>4, <3>5, SetStep
  <2> QED
    BY <2>2, <2>3, <2>4
<1>4. CASE ClientLeaves(r)
  BY <1>4, SetStep, NoRequestFit DEF ClientLeaves
<1> QED
  BY <1>1, <1>2, <1>3, <1>4

\* A request with the outcome of a resolution in its copy.
LEMMA ResolvedFit ==
    ASSUME WebSound, WebInv, NEW r \in Reqs, req[r].pc # "idle", NEW o, Resolution(o, req[r].copy),
           NEW f \in WebRequest, f.copy.handle = o.copy.handle, f.copy.auth = o.copy.auth,
           f.gone = req[r].gone, f.at = req[r].at, f.node = req[r].node, f.id = req[r].id,
           f.b = req[r].b, f.pc \notin {"act", "rotate", "adopt"}
    PROVE  Fit(f, o.us)
<1>1. req[r] \in WebRequest /\ Fit(req[r], us)
  BY RequestHas
<1>2. Rightful(f.copy, o.us)
  BY DEF Resolution, Rightful
<1>3. o.copy.handle \notin req[r].gone
  BY <1>1 DEF Resolution, Fit
<1>4. \A s \in req[r].gone : o.us[s].st = "ended"
  BY <1>1 DEF Fit, Resolution, Grows, WebRequest
<1> QED
  BY <1>1, <1>2, <1>3, <1>4 DEF Fit

LEMMA PageStep ==
    ASSUME WebSound, WebInv, NEW r \in Reqs, Page(r)
    PROVE  WebInv' /\ Grows(us, us')
<1> DEFINE o == Resolve(req[r].at, req[r].copy)
           f == [req[r] EXCEPT !.pc = "served", !.copy = o.copy, !.status = "changed"]
<1>1. req[r].pc = "act" /\ Unminted # {} /\ UNCHANGED <<rows, pend, jar, time>>
  BY DEF Page
<1>2. \/ o.ok /\ us' = o.us /\ Set(r, f)
      \/ Set(r, NoRequest) /\ UNCHANGED us
  BY DEF Page
<1>3. CASE Set(r, NoRequest) /\ UNCHANGED us
  BY <1>1, <1>3, SetStep, NoRequestFit
<1>4. CASE o.ok /\ us' = o.us /\ Set(r, f)
  <2>1. req[r] \in WebRequest /\ Resolution(o, req[r].copy)
    BY <1>1, <1>4, RequestHas, ResolveOK
  <2> HIDE DEF o
  <2>2. o.copy \in Copy
    BY <2>1 DEF Resolution
  <2>3. f \in WebRequest
    BY <2>1, <2>2 DEF WebRequest
  <2>4. /\ f.copy = o.copy /\ f.gone = req[r].gone /\ f.at = req[r].at /\ f.node = req[r].node
        /\ f.id = req[r].id /\ f.b = req[r].b /\ f.pc = "served"
    BY <2>1 DEF WebRequest
  <2> HIDE DEF f
  <2>5. Fit(f, us')
    BY <1>1, <1>4, <2>1, <2>3, <2>4, ResolvedFit
  <2>6. pend' \in [Servers -> [Sess -> {Nothing} \cup [user : User, via : BOOLEAN]]]
    BY <1>1 DEF WebInv, WebTypes
  <2> QED
    BY <1>1, <1>4, <2>1, <2>3, <2>5, <2>6, SessionsStep DEF Resolution
<1> QED
  BY <1>2, <1>3, <1>4

\* The node of a login in progress is noted with its session, which changes
\* neither its state nor its user.
LEMMA NodeNoted ==
    ASSUME NEW U, NEW V \in [Sess -> UserSession], Grows(us, U), NoUserYet(U),
           \A s \in Sess : V[s].st = U[s].st /\ V[s].user = U[s].user,
           NEW q \in WebRequest, Fit(q, U),
           \A s \in Sess : U[s].st = "ended" => us[s].st = "ended"
    PROVE  /\ Grows(us, V) /\ NoUserYet(V) /\ Fit(q, V)
           /\ \A s \in Sess : V[s].st = "ended" => us[s].st = "ended"
<1>1. Grows(us, V) /\ NoUserYet(V) /\ \A s \in Sess : V[s].st = "ended" => us[s].st = "ended"
  BY DEF Grows, NoUserYet
<1>2. q.copy.handle \in Sess \cup {Nothing} /\ q.gone \subseteq Sess
  BY DEF WebRequest, Copy
<1>3. Fit(q, V)
  BY <1>2 DEF Fit, Rightful
<1> QED
  BY <1>1, <1>3

LEMMA LoginSteps ==
    ASSUME WebSound, WebInv, NEW r \in Reqs, FirstFactor(r) \/ SsoReturn(r)
    PROVE  WebInv' /\ Grows(us, us')
<1> DEFINE o == ResolveLogin(req[r].at, req[r].copy)
           n == req[r].at
           e == [o.copy EXCEPT !.sso = req[r].who]
           f == [req[r] EXCEPT !.pc = "finish", !.copy = o.copy, !.status = "changed"]
           g == [req[r] EXCEPT !.pc = "finish", !.copy = e, !.status = "changed"]
           h == [req[r] EXCEPT !.pc = "authorize", !.copy = o.copy, !.via = TRUE]
<1>1. /\ req[r].pc = "act" /\ Unminted # {} /\ UNCHANGED <<rows, jar, time>>
      /\ us' = [o.us EXCEPT ![o.made].node = n]
  BY DEF FirstFactor, SsoReturn
<1>2. PICK v \in BOOLEAN : pend' = [pend EXCEPT ![n][o.made] = [user |-> req[r].who, via |-> v]]
  <2>1. CASE FirstFactor(r)
    BY <2>1 DEF FirstFactor
  <2>2. CASE SsoReturn(r)
    BY <2>2 DEF SsoReturn
  <2> QED
    BY <2>1, <2>2
<1>3. PICK q : Set(r, q) /\ q \in {f, g, h}
  <2>1. CASE FirstFactor(r)
    BY <2>1 DEF FirstFactor
  <2>2. CASE SsoReturn(r)
    BY <2>2 DEF SsoReturn
  <2> QED
    BY <2>1, <2>2
<1>4. req[r] \in WebRequest /\ Fit(req[r], us) /\ Resolution(o, req[r].copy)
  BY <1>1, RequestHas, ResolveLoginOK
<1> HIDE DEF o
<1>5. o.copy \in Copy /\ o.made \in Sess /\ o.made = o.copy.handle
  BY <1>4 DEF Resolution
<1>6. e \in Copy /\ e.handle = o.copy.handle /\ e.auth = o.copy.auth
  BY <1>4, <1>5 DEF Copy, WebRequest
<1> HIDE DEF e
<1>7. /\ q \in WebRequest /\ q.copy.handle = o.copy.handle /\ q.copy.auth = o.copy.auth
      /\ q.gone = req[r].gone /\ q.at = req[r].at /\ q.node = req[r].node
      /\ q.id = req[r].id /\ q.b = req[r].b /\ q.pc \notin {"act", "rotate", "adopt"}
  <2>1. CASE q = f
    BY <1>4, <1>5, <2>1 DEF WebRequest
  <2>2. CASE q = g
    BY <1>4, <1>6, <2>2 DEF WebRequest
  <2>3. CASE q = h
    BY <1>4, <1>5, <2>3 DEF WebRequest
  <2> QED
    BY <1>3, <2>1, <2>2, <2>3
<1> HIDE DEF f, g, h
<1>8. Fit(q, o.us)
  BY <1>1, <1>4, <1>7, ResolvedFit
<1>9. n \in Servers
  BY <1>1, <1>4 DEF Fit
<1>10. pend' \in [Servers -> [Sess -> {Nothing} \cup [user : User, via : BOOLEAN]]]
  <2>1. [user |-> req[r].who, via |-> v] \in [user : User, via : BOOLEAN]
    BY <1>4 DEF WebRequest
  <2>2. pend \in [Servers -> [Sess -> {Nothing} \cup [user : User, via : BOOLEAN]]]
    BY DEF WebInv, WebTypes
  <2> QED
    BY <1>2, <2>1, <2>2
<1>11. us' \in [Sess -> UserSession] /\ \A s \in Sess : us'[s].st = o.us[s].st /\ us'[s].user = o.us[s].user
  <2>1. o.us \in [Sess -> UserSession]
    BY <1>4 DEF Resolution
  <2> QED
    BY <1>1, <1>5, <1>9, <2>1 DEF UserSession
<1>12. /\ Grows(us, us') /\ NoUserYet(us') /\ Fit(q, us')
       /\ \A s \in Sess : us'[s].st = "ended" => us[s].st = "ended"
  <2>1. Grows(us, o.us) /\ NoUserYet(o.us) /\ \A s \in Sess : o.us[s].st = "ended" => us[s].st = "ended"
    BY <1>4 DEF Resolution
  <2> QED
    BY <1>7, <1>8, <1>11, <2>1, NodeNoted
<1> QED
  BY <1>1, <1>3, <1>7, <1>10, <1>11, <1>12, SessionsStep

\* The session of a login that is not another user's is attributed to this one.
LEMMA AttributeOwn ==
    ASSUME NEW U, Grows(us, U), NoUserYet(U), \A s \in Sess : U[s].st = "ended" => us[s].st = "ended",
           NEW h \in Sess, U[h].st # "unused", NEW V, U[h].user \in {Nothing, V[h].user},
           \A s \in Sess : V[s].st = U[s].st /\ (s # h => V[s].user = U[s].user)
    PROVE  /\ Grows(us, V) /\ Grows(U, V) /\ NoUserYet(V)
           /\ \A s \in Sess : V[s].st = "ended" => us[s].st = "ended"
BY DEF Grows, NoUserYet

\* Ending sessions changes nothing else about them.
LEMMA EndUsOK ==
    ASSUME NEW U \in [Sess -> UserSession], NEW S, NEW how \in {"ended", "left"}
    PROVE  LET V == EndUs(U, S, how)
           IN /\ V \in [Sess -> UserSession] /\ Grows(U, V) /\ (NoUserYet(U) => NoUserYet(V))
              /\ \A s \in Sess : V[s].user = U[s].user
              /\ \A s \in Sess : V[s].st = U[s].st \/ (s \in S /\ V[s].st = how)
<1> DEFINE V == EndUs(U, S, how)
<1>1. ASSUME NEW s \in Sess
      PROVE  /\ V[s] \in UserSession /\ V[s].user = U[s].user
             /\ V[s].st = U[s].st \/ (s \in S /\ U[s].st = "open" /\ V[s].st = how)
  <2>1. U[s] \in UserSession
    OBVIOUS
  <2>2. V[s] = IF s \in S /\ U[s].st = "open" THEN [U[s] EXCEPT !.st = how] ELSE U[s]
    BY DEF EndUs
  <2> QED
    BY <2>1, <2>2 DEF UserSession
<1>2. V \in [Sess -> UserSession]
  <2>1. V = [s \in Sess |-> V[s]]
    BY DEF EndUs
  <2> QED
    BY <1>1, <2>1
<1> HIDE DEF V
<1>3. Grows(U, V) /\ (NoUserYet(U) => NoUserYet(V))
  BY <1>1 DEF Grows, NoUserYet
<1> QED
  BY <1>1, <1>2, <1>3 DEF V

\* The session of another user is left, and a new one attributed to this user.
LEMMA AttributeNew ==
    ASSUME NEW W, Grows(us, W), NoUserYet(W), \A s \in Sess : W[s].st = "ended" => us[s].st = "ended",
           NEW f \in Sess, us[f].st = "unused", us[f].user = Nothing, NEW V, V[f].st = "open",
           \A s \in Sess \ {f} : V[s] = W[s]
    PROVE  /\ Grows(us, V) /\ NoUserYet(V)
           /\ \A s \in Sess : V[s].st = "ended" => us[s].st = "ended"
<1>1. ASSUME NEW s \in Sess
      PROVE  /\ us[s].st # "unused" => V[s].st # "unused"
             /\ us[s].st = "ended" => V[s].st = "ended"
             /\ us[s].user # Nothing => V[s].user = us[s].user
             /\ V[s].st = "unused" => V[s].user = Nothing
             /\ V[s].st = "ended" => us[s].st = "ended"
  <2>1. CASE s = f
    BY <2>1
  <2>2. CASE s # f
    BY <2>2 DEF Grows, NoUserYet
  <2> QED
    BY <2>1, <2>2
<1> QED
  BY <1>1 DEF Grows, NoUserYet

LEMMA AuthorizeStep ==
    ASSUME WebSound, WebInv, NEW r \in Reqs, Authorize(r)
    PROVE  WebInv' /\ Grows(us, us')
<1> DEFINE n == req[r].at
           o == Resolve(n, req[r].copy)
           h == o.copy.handle
           a == Attribute(n, o.copy, req[r].who, o.us, o.reg)
           d == [Blank EXCEPT !.handle = FreshSess]
           f(c) == [req[r] EXCEPT !.pc = "rotate", !.copy = c]
<1>1. req[r].pc = "authorize" /\ Unminted # {} /\ UNCHANGED <<rows, pend, jar, time>>
  BY DEF Authorize
<1>2. \/ o.ok /\ us' = a.us /\ Set(r, f(a.copy))
      \/ Set(r, NoRequest) /\ UNCHANGED us
  BY DEF Authorize
<1>3. CASE Set(r, NoRequest) /\ UNCHANGED us
  BY <1>1, <1>3, SetStep, NoRequestFit
<1>4. CASE o.ok /\ us' = a.us /\ Set(r, f(a.copy))
  <2>1. /\ req[r] \in WebRequest /\ Fit(req[r], us) /\ Resolution(o, req[r].copy)
        /\ req[r].who \in User /\ req[r].via \in BOOLEAN
    BY <1>1, <1>4, RequestHas, ResolveOK DEF WebRequest
  <2>2. pend' \in [Servers -> [Sess -> {Nothing} \cup [user : User, via : BOOLEAN]]]
    BY <1>1 DEF WebInv, WebTypes
  <2>3. ASSUME NEW c \in Copy, c.handle \in Sess, Rightful(c, us'), us'[c.handle].user = req[r].who,
               c.handle \notin req[r].gone, Grows(us, us')
        PROVE  f(c) \in WebRequest /\ Fit(f(c), us')
    <3>1. f(c) \in WebRequest
      BY <2>1 DEF WebRequest
    <3>2. \A s \in req[r].gone : us'[s].st = "ended"
      BY <2>1, <2>3 DEF Fit, Grows, WebRequest
    <3>3. Fit(f(c), us')
      BY <1>1, <2>1, <2>3, <3>2 DEF Fit, WebRequest, WebSound
    <3> QED
      BY <3>1, <3>3
  <2>4. CASE o.us[h].user \in {Nothing, req[r].who}
    <3>1. /\ a.copy = o.copy
          /\ us' = [o.us EXCEPT ![h].user = req[r].who]
      BY <1>4, <2>4 DEF Attribute
    <3> HIDE DEF o, a
    <3>2. /\ us' \in [Sess -> UserSession] /\ Grows(us, us') /\ NoUserYet(us')
          /\ \A s \in Sess : us'[s].st = "ended" => us[s].st = "ended"
          /\ Rightful(o.copy, us') /\ us'[h].user = req[r].who
      <4>1. o.us \in [Sess -> UserSession] /\ h \in Sess
        BY <2>1 DEF Resolution
      <4>2. /\ us' \in [Sess -> UserSession] /\ us'[h].user = req[r].who
            /\ \A s \in Sess : us'[s].st = o.us[s].st /\ (s # h => us'[s].user = o.us[s].user)
        BY <2>1, <3>1, <4>1 DEF UserSession
      <4>3. /\ Grows(us, o.us) /\ NoUserYet(o.us) /\ Rightful(o.copy, o.us) /\ o.copy \in Copy
            /\ \A s \in Sess : o.us[s].st = "ended" => us[s].st = "ended"
            /\ o.us[h].st # "unused"
        BY <2>1, <4>1 DEF Resolution, Rightful, WebSound
      <4>4. o.us[h].user \in {Nothing, us'[h].user}
        BY <2>4, <4>2
      <4>5. /\ Grows(us, us') /\ Grows(o.us, us') /\ NoUserYet(us')
            /\ \A s \in Sess : us'[s].st = "ended" => us[s].st = "ended"
        BY <4>1, <4>2, <4>3, <4>4, AttributeOwn
      <4>6. Rightful(o.copy, us')
        BY <4>1, <4>3, <4>5, StaysRightful
      <4> QED
        BY <4>2, <4>5, <4>6
    <3>3. o.copy \in Copy /\ h \in Sess /\ h \notin req[r].gone
      BY <2>1 DEF Resolution, Fit
    <3>4. f(o.copy) \in WebRequest /\ Fit(f(o.copy), us')
      BY <2>3, <3>2, <3>3
    <3>5. Set(r, f(o.copy))
      BY <1>4, <3>1
    <3> HIDE DEF f
    <3> QED
      BY <1>1, <2>2, <3>2, <3>4, <3>5, SessionsStep
  <2>5. CASE o.us[h].user \notin {Nothing, req[r].who}
    <3>1. /\ a.copy = d
          /\ us' = [EndUs(o.us, {h}, "left") EXCEPT
                    ![FreshSess] = [st |-> "open", user |-> req[r].who, node |-> Nothing]]
      BY <1>4, <2>5 DEF Attribute
    <3> HIDE DEF o, a
    <3>2. /\ us' \in [Sess -> UserSession] /\ Grows(us, us') /\ NoUserYet(us')
          /\ \A s \in Sess : us'[s].st = "ended" => us[s].st = "ended"
          /\ FreshSess \in Sess /\ us[FreshSess].st = "unused"
          /\ us'[FreshSess].st = "open" /\ us'[FreshSess].user = req[r].who
      <4> DEFINE W == EndUs(o.us, {h}, "left")
                 v == [st |-> "open", user |-> req[r].who, node |-> Nothing]
      <4>1. o.us \in [Sess -> UserSession]
        BY <2>1 DEF Resolution
      <4>2. /\ W \in [Sess -> UserSession] /\ Grows(o.us, W) /\ NoUserYet(W)
            /\ \A s \in Sess : W[s].st = o.us[s].st \/ W[s].st = "left"
        <5>1. NoUserYet(o.us)
          BY <2>1 DEF Resolution
        <5> QED
          BY <4>1, <5>1, EndUsOK
      <4>3. FreshSess \in Sess /\ us[FreshSess].st = "unused"
        BY <1>1, FreshSessIn
      <4>4. v \in UserSession /\ v.st = "open" /\ v.user = req[r].who
        BY <2>1 DEF UserSession
      <4>5. us' = [W EXCEPT ![FreshSess] = v]
        BY <3>1
      <4> HIDE DEF v, W
      <4>6. us' \in [Sess -> UserSession] /\ us'[FreshSess] = v /\ \A s \in Sess \ {FreshSess} : us'[s] = W[s]
        BY <4>2, <4>3, <4>4, <4>5
      <4>7. /\ Grows(us, us') /\ NoUserYet(us')
            /\ \A s \in Sess : us'[s].st = "ended" => us[s].st = "ended"
        <5>1. /\ Grows(us, o.us)
              /\ \A s \in Sess : o.us[s].st = "ended" => us[s].st = "ended"
          BY <2>1 DEF Resolution
        <5>2. Grows(us, W) /\ \A s \in Sess : W[s].st = "ended" => us[s].st = "ended"
          BY <4>2, <5>1 DEF Grows
        <5>3. us[FreshSess].user = Nothing
          BY <4>3 DEF WebInv, NoUserYet
        <5>4. us'[FreshSess].st = "open"
          BY <4>4, <4>6
        <5> QED
          BY <4>2, <4>3, <4>6, <5>2, <5>3, <5>4, AttributeNew
      <4> QED
        BY <4>3, <4>4, <4>6, <4>7
    <3>3. d \in Copy /\ d.handle = FreshSess /\ d.auth = Nothing
      BY <3>2 DEF Blank, Copy, User
    <3>4. Rightful(d, us') /\ FreshSess \notin req[r].gone
      BY <2>1, <3>2, <3>3 DEF Rightful, Fit
    <3> HIDE DEF d
    <3>5. f(d) \in WebRequest /\ Fit(f(d), us')
      BY <2>3, <3>2, <3>3, <3>4
    <3>6. Set(r, f(d))
      BY <1>4, <3>1
    <3> HIDE DEF f
    <3> QED
      BY <1>1, <2>2, <3>2, <3>5, <3>6, SessionsStep
  <2> QED
    BY <2>4, <2>5
<1> QED
  BY <1>2, <1>3, <1>4

-----------------------------------------------------------------------------
(* The steps that write rows. *)

RowType == [Ids -> {Nothing} \cup StoredRow]
AllStanding(R, U) == \A i \in Ids : R[i] # Nothing => Standing(R[i], U)

\* A step that sets one request, after which what rows there are are standing.
LEMMA RowsStep ==
    ASSUME WebInv, NEW r \in Reqs, NEW f \in WebRequest, Set(r, f), Fit(f, us'),
           rows' \in RowType, AllStanding(rows', us'), jar' \in [Clients -> Ids \cup {Nothing}],
           us' \in [Sess -> UserSession], Grows(us, us'), NoUserYet(us'), UNCHANGED <<pend, time>>
    PROVE  WebInv' /\ Grows(us, us')
<1>1. req' \in [Reqs -> WebRequest] /\ \A q \in Reqs : req'[q] = req[q] \/ req'[q] = f
  BY DEF Set, WebInv, WebTypes
<1>2. WebTypes'
  BY <1>1 DEF WebInv, WebTypes, RowType
<1>3. \A q \in Reqs : req'[q] = req[q] \/ Fit(req'[q], us')
  BY <1>1
<1>4. \A i \in Ids : rows'[i] # Nothing => Standing(rows'[i], us')
  BY DEF AllStanding
<1> QED
  BY <1>2, <1>3, <1>4, WebStep

LEMMA RowsNow ==
    ASSUME WebInv
    PROVE  /\ rows \in RowType /\ AllStanding(rows, us) /\ us \in [Sess -> UserSession]
           /\ Grows(us, us) /\ NoUserYet(us) /\ jar \in [Clients -> Ids \cup {Nothing}]
BY SameGrows DEF WebInv, WebTypes, RowType, AllStanding

\* A row that goes leaves the others standing.
LEMMA WithoutRow ==
    ASSUME WebInv, NEW i
    PROVE  [rows EXCEPT ![i] = Nothing] \in RowType /\ AllStanding([rows EXCEPT ![i] = Nothing], us)
<1>1. rows \in RowType /\ AllStanding(rows, us)
  BY RowsNow
<1> QED
  BY <1>1 DEF RowType, AllStanding

\* update_session writes for sessions that are open only.
LEMMA StoreAtOK ==
    ASSUME WebSound, WebInv, NEW n, NEW i \in Ids, NEW c \in Copy, Rightful(c, us)
    PROVE  StoreAt(n, i, c) \in RowType /\ AllStanding(StoreAt(n, i, c), us)
<1>1. rows \in RowType /\ AllStanding(rows, us)
  BY RowsNow
<1>2. CASE StoreAt(n, i, c) = rows
  BY <1>1, <1>2
<1>3. CASE StoreAt(n, i, c) = [rows EXCEPT ![i] = Written(i, c)] /\ (c.handle # Nothing => Open(c.handle))
  <2> DEFINE w == Written(i, c)
  <2>1. time.now \in Nat /\ time.now + MaxAge \in Nat
    BY DEF WebInv, WebTypes, WebSound
  <2>2. (IF rows[i] = Nothing THEN c.auth ELSE rows[i].born) \in User
    BY <1>1 DEF RowType, StoredRow, Copy
  <2>3. w \in StoredRow /\ w.handle = c.handle /\ w.auth = c.auth
    BY <2>1, <2>2 DEF Written, StoredRow, Copy
  <2>4. Standing(w, us)
    BY <1>3, <2>3 DEF Standing, Rightful, Open
  <2> HIDE DEF w
  <2>5. StoreAt(n, i, c) = [rows EXCEPT ![i] = w]
    BY <1>3 DEF w
  <2> QED
    BY <1>1, <2>3, <2>4, <2>5 DEF RowType, AllStanding
<1> QED
  BY <1>2, <1>3 DEF StoreAt

LEMMA RotateStep ==
    ASSUME WebSound, WebInv, NEW r \in Reqs, RotateId(r)
    PROVE  WebInv' /\ Grows(us, us')
<1> DEFINE sso == IF req[r].kind = "sso" THEN req[r].who ELSE req[r].copy.sso
           c == [req[r].copy EXCEPT !.auth = req[r].who, !.via = req[r].via, !.sso = sso]
           st == IF req[r].at = req[r].node THEN "renewed" ELSE "changed"
           f == [req[r] EXCEPT !.pc = "finish", !.copy = c, !.status = st]
<1>1. /\ req[r].pc = "rotate" /\ UNCHANGED <<us, pend, jar, time>> /\ Set(r, f)
      /\ rows' = rows \/ rows' = [rows EXCEPT ![req[r].id] = Nothing]
  BY DEF RotateId
<1>2. req[r] \in WebRequest /\ Fit(req[r], us) /\ req[r].copy \in Copy /\ req[r].who \in User
      /\ req[r].via \in BOOLEAN
  BY RequestHas DEF WebRequest
<1>3. sso \in User /\ st \in {"renewed", "changed"}
  BY <1>2 DEF Copy
<1> HIDE DEF sso, st
<1>4. c \in Copy /\ c.handle = req[r].copy.handle /\ c.auth = req[r].who
  BY <1>2, <1>3 DEF Copy
<1> HIDE DEF c
<1>5. f \in WebRequest
  BY <1>2, <1>3, <1>4 DEF WebRequest
<1>6. Fit(f, us')
  BY <1>1, <1>2, <1>4 DEF Fit, Rightful, WebRequest
<1>7. rows' \in RowType /\ AllStanding(rows', us')
  BY <1>1, RowsNow, WithoutRow
<1> QED
  BY <1>1, <1>5, <1>6, <1>7, RowsNow, RowsStep

LEMMA EndLoginStep ==
    ASSUME WebSound, WebInv, NEW r \in Reqs, EndLogin(r)
    PROVE  WebInv' /\ Grows(us, us')
<1> DEFINE f == [req[r] EXCEPT !.pc = "finish", !.status = "purged"]
<1>1. /\ req[r].pc = "act" /\ UNCHANGED <<rows, pend, jar, time>> /\ Set(r, f)
      /\ us' = us \/ us' = EndUs(us, {req[r].copy.handle}, "left")
  BY DEF EndLogin
<1>2. req[r] \in WebRequest /\ Fit(req[r], us)
  BY RequestHas
<1>3. us \in [Sess -> UserSession] /\ NoUserYet(us) /\ Grows(us, us)
  BY RowsNow
<1>4. /\ us' \in [Sess -> UserSession] /\ Grows(us, us') /\ NoUserYet(us')
      /\ \A s \in Sess : us'[s].st = "ended" => us[s].st = "ended"
  <2>1. CASE us' = us
    BY <1>3, <2>1
  <2>2. CASE us' = EndUs(us, {req[r].copy.handle}, "left")
    <3> DEFINE W == EndUs(us, {req[r].copy.handle}, "left")
    <3>1. /\ W \in [Sess -> UserSession] /\ Grows(us, W) /\ NoUserYet(W)
          /\ \A s \in Sess : W[s].st = us[s].st \/ W[s].st = "left"
      BY <1>3, EndUsOK
    <3> HIDE DEF W
    <3>2. us' = W
      BY <2>2 DEF W
    <3> QED
      BY <3>1, <3>2
  <2> QED
    BY <1>1, <2>1, <2>2
<1>5. f \in WebRequest
  BY <1>2 DEF WebRequest
<1>6. Fit(f, us)
  BY <1>1, <1>2 DEF Fit, WebRequest
<1> HIDE DEF f
<1>7. Fit(f, us')
  BY <1>4, <1>5, <1>6, StaysFit
<1>8. pend' \in [Servers -> [Sess -> {Nothing} \cup [user : User, via : BOOLEAN]]]
  BY <1>1 DEF WebInv, WebTypes
<1> QED
  BY <1>1, <1>4, <1>5, <1>7, <1>8, SessionsStep

LEMMA PeerFinishStep ==
    ASSUME WebSound, WebInv, NEW r \in Reqs, PeerFinish(r)
    PROVE  WebInv' /\ Grows(us, us')
<1> DEFINE f == [req[r] EXCEPT !.pc = "adopt"]
<1>1. /\ req[r].pc = "finish" /\ req[r].at # req[r].node /\ UNCHANGED <<us, pend, jar, time>> /\ Set(r, f)
      /\ \/ req[r].held # Nothing /\ rows' = StoreAt(req[r].at, req[r].held, req[r].copy)
         \/ rows' = rows
         \/ Ids \ UsedIds # {} /\ rows' = StoreAt(req[r].at, FreshId, req[r].copy)
  BY DEF PeerFinish
<1>2. req[r] \in WebRequest /\ Fit(req[r], us) /\ req[r].copy \in Copy /\ Rightful(req[r].copy, us)
      /\ req[r].held \in Ids \cup {Nothing}
  BY RequestHas DEF WebRequest
<1>3. rows' \in RowType /\ AllStanding(rows', us')
  BY <1>1, <1>2, RowsNow, StoreAtOK, FreshIdIn
<1>4. f \in WebRequest
  BY <1>2 DEF WebRequest
<1>5. Fit(f, us')
  BY <1>1, <1>2 DEF Fit, WebRequest
<1> QED
  BY <1>1, <1>3, <1>4, <1>5, RowsNow, RowsStep

LEMMA AdoptStep ==
    ASSUME WebSound, WebInv, NEW r \in Reqs, Adopt(r)
    PROVE  WebInv' /\ Grows(us, us')
<1> DEFINE i == req[r].id
           c == Stored(i)
           turn == login_changed_to(req[r].before, c)
           st == IF turn THEN "renewed" ELSE "changed"
           f == [req[r] EXCEPT !.pc = "finish", !.at = req[r].node, !.status = "purged"]
           g == [req[r] EXCEPT !.pc = "finish", !.at = req[r].node, !.copy = c, !.status = st]
<1>1. /\ req[r].pc = "adopt" /\ UNCHANGED <<us, pend, jar, time>>
      /\ \/ Set(r, f) /\ UNCHANGED rows
         \/ /\ rows[i] # Nothing /\ Set(r, g)
            /\ rows' = rows \/ rows' = [rows EXCEPT ![i] = Nothing]
  BY DEF Adopt
<1>2. req[r] \in WebRequest /\ Fit(req[r], us) /\ req[r].node \in Servers
  BY <1>1, RequestHas DEF Fit
<1>3. CASE Set(r, f) /\ UNCHANGED rows
  <2>1. f \in WebRequest
    BY <1>2 DEF WebRequest
  <2>2. Fit(f, us)
    BY <1>1, <1>2 DEF Fit, WebRequest
  <2> QED
    BY <1>1, <1>3, <2>1, <2>2, SetStep
<1>4. CASE /\ rows[i] # Nothing /\ Set(r, g)
           /\ rows' = rows \/ rows' = [rows EXCEPT ![i] = Nothing]
  <2>1. i \in Ids
    BY <1>1, <1>2 DEF Fit
  <2>2. c \in Copy /\ Rightful(c, us) /\ (c.handle # Nothing => us[c.handle].st # "ended")
    BY <1>4, <2>1, CopyOfRow
  <2>3. st \in {"renewed", "changed"} /\ c.handle \notin req[r].gone
    BY <1>2, <2>2 DEF Fit, WebRequest, WebSound
  <2> HIDE DEF i, c, st
  <2>4. g \in WebRequest
    BY <1>2, <2>2, <2>3 DEF WebRequest
  <2>5. Fit(g, us')
    BY <1>1, <1>2, <2>2, <2>3 DEF Fit, WebRequest
  <2>6. rows' \in RowType /\ AllStanding(rows', us')
    BY <1>1, <1>4, RowsNow, WithoutRow
  <2> QED
    BY <1>1, <1>4, <2>4, <2>5, <2>6, RowsNow, RowsStep
<1> QED
  BY <1>1, <1>3, <1>4

\* The sessions that end together with their rows: every row of theirs goes.
LEMMA EndedWithRows ==
    ASSUME WebInv, NEW S, us' = EndUs(us, S, "ended"), rows' \in RowType,
           \A i \in Ids : rows'[i] # Nothing => rows'[i] = rows[i] /\ rows[i].handle \notin S
    PROVE  /\ us' \in [Sess -> UserSession] /\ Grows(us, us') /\ NoUserYet(us')
           /\ AllStanding(rows', us')
<1> DEFINE W == EndUs(us, S, "ended")
<1>1. us \in [Sess -> UserSession] /\ NoUserYet(us) /\ rows \in RowType /\ AllStanding(rows, us)
  BY RowsNow
<1>2. /\ W \in [Sess -> UserSession] /\ Grows(us, W) /\ NoUserYet(W)
      /\ \A s \in Sess : W[s].st = us[s].st \/ s \in S
  BY <1>1, EndUsOK
<1> HIDE DEF W
<1>3. us' = W
  BY DEF W
<1>4. ASSUME NEW i \in Ids, rows'[i] # Nothing PROVE Standing(rows'[i], W)
  <2>1. rows'[i] = rows[i] /\ rows[i].handle \notin S
    BY <1>4
  <2>2. rows[i].handle \in Sess \cup {Nothing} /\ Standing(rows[i], us)
    BY <1>1, <1>4, <2>1 DEF RowType, StoredRow, AllStanding
  <2>3. Rightful(rows[i], W)
    BY <1>2, <2>2, StaysRightful DEF Standing
  <2> QED
    BY <1>2, <2>1, <2>2, <2>3 DEF Standing
<1> QED
  BY <1>2, <1>3, <1>4 DEF AllStanding

\* remove_stored_row: the session ends only with its last row.
LEMMA RemoveRowOK ==
    ASSUME WebInv, NEW i \in Ids, RemoveRow(i)
    PROVE  /\ rows' \in RowType /\ AllStanding(rows', us')
           /\ us' \in [Sess -> UserSession] /\ Grows(us, us') /\ NoUserYet(us')
<1> DEFINE h == rows[i].handle
<1>1. rows' = [rows EXCEPT ![i] = Nothing] /\ rows' \in RowType /\ AllStanding(rows', us)
  BY WithoutRow DEF RemoveRow
<1>2. rows \in RowType
  BY RowsNow
<1>3. CASE rows[i] # Nothing /\ h # Nothing /\ Backing(h, rows) = {i}
  <2>1. us' = EndUs(us, {h}, "ended")
    BY <1>3 DEF RemoveRow
  <2>2. ASSUME NEW j \in Ids, rows'[j] # Nothing PROVE rows'[j] = rows[j] /\ rows[j].handle \notin {h}
    <3>1. j # i /\ rows'[j] = rows[j]
      BY <1>1, <1>2, <2>2 DEF RowType
    <3>2. j \notin Backing(h, rows)
      BY <1>3, <3>1
    <3> QED
      BY <2>2, <3>1, <3>2 DEF Backing
  <2> QED
    BY <1>1, <2>1, <2>2, EndedWithRows
<1>4. CASE us' = us
  BY <1>1, <1>4, RowsNow
<1> QED
  BY <1>3, <1>4 DEF RemoveRow

LEMMA FinishStep ==
    ASSUME WebSound, WebInv, NEW r \in Reqs, Finish(r)
    PROVE  WebInv' /\ Grows(us, us')
<1> DEFINE q == req[r]
<1>1. Set(r, NoRequest) /\ UNCHANGED <<pend, time>>
  BY DEF Finish
<1>2. /\ q.copy \in Copy /\ Rightful(q.copy, us) /\ q.id \in Ids \cup {Nothing}
  BY RequestHas
<1>3. /\ rows' \in RowType /\ AllStanding(rows', us') /\ us' \in [Sess -> UserSession]
      /\ Grows(us, us') /\ NoUserYet(us') /\ jar' \in [Clients -> Ids \cup {Nothing}]
  <2>1. CASE UNCHANGED <<rows, us, jar>>
    BY <2>1, RowsNow
  <2>2. CASE q.id # Nothing /\ rows' = StoreAt(q.node, q.id, q.copy) /\ UNCHANGED <<us, jar>>
    BY <1>2, <2>2, RowsNow, StoreAtOK
  <2>3. CASE /\ Ids \ UsedIds # {} /\ rows' = StoreAt(q.node, FreshId, q.copy)
             /\ jar' = [jar EXCEPT ![q.b] = FreshId] /\ UNCHANGED us
    <3>1. FreshId \in Ids
      BY <2>3, FreshIdIn
    <3>2. jar' \in [Clients -> Ids \cup {Nothing}]
      BY <2>3, <3>1, RowsNow
    <3> QED
      BY <1>2, <2>3, <3>1, <3>2, RowsNow, StoreAtOK
  <2>4. CASE /\ IF q.id = Nothing THEN UNCHANGED <<rows, us>> ELSE RemoveRow(q.id)
             /\ jar' = [jar EXCEPT ![q.b] = Nothing]
    <3>1. jar' \in [Clients -> Ids \cup {Nothing}]
      BY <2>4, RowsNow
    <3> QED
      BY <1>2, <2>4, <3>1, RowsNow, RemoveRowOK
  <2> QED
    BY <2>1, <2>2, <2>3, <2>4 DEF Finish
<1> QED
  BY <1>1, <1>3, NoRequestFit, RowsStep

\* A step of nobody's request.
LEMMA OutsideStep ==
    ASSUME WebInv, rows' \in RowType, AllStanding(rows', us'), us' \in [Sess -> UserSession],
           Grows(us, us'), NoUserYet(us'), time' \in [now : Nat, ran : SUBSET Servers],
           UNCHANGED <<pend, jar, req>>
    PROVE  WebInv' /\ Grows(us, us')
<1>1. WebTypes'
  BY DEF WebInv, WebTypes, RowType
<1>2. \A i \in Ids : rows'[i] # Nothing => Standing(rows'[i], us')
  BY DEF AllStanding
<1>3. \A r \in Reqs : req'[r] = req[r]
  OBVIOUS
<1> QED
  BY <1>1, <1>2, <1>3, WebStep

LEMMA TimeNow == ASSUME WebInv, UNCHANGED time PROVE time' \in [now : Nat, ran : SUBSET Servers]
BY DEF WebInv, WebTypes

LEMMA RevokeStep ==
    ASSUME WebInv, NEW S, Revoke(S)
    PROVE  WebInv' /\ Grows(us, us')
<1>1. /\ us' = EndUs(us, S, "ended") /\ UNCHANGED <<pend, jar, req, time>>
      /\ rows' = [i \in Ids |-> IF rows[i] # Nothing /\ rows[i].handle \in S THEN Nothing ELSE rows[i]]
  BY DEF Revoke
<1>2. rows' \in RowType
  BY <1>1, RowsNow DEF RowType
<1>3. \A i \in Ids : rows'[i] # Nothing => rows'[i] = rows[i] /\ rows[i].handle \notin S
  BY <1>1
<1> QED
  BY <1>1, <1>2, <1>3, EndedWithRows, OutsideStep, TimeNow

LEMMA HousekeepStep ==
    ASSUME WebSound, WebInv, NEW n \in Servers, Housekeep(n)
    PROVE  WebInv' /\ Grows(us, us')
<1> DEFINE t(x) == [x EXCEPT !.upd = time.now]
<1>1. /\ rows' = [i \in Ids |-> IF rows[i] # Nothing /\ rows[i].handle # Nothing /\ Held(n, rows[i].handle)
                                THEN t(rows[i]) ELSE rows[i]]
      /\ time' = [time EXCEPT !.ran = @ \union {n}] /\ UNCHANGED <<us, pend, jar, req>>
  BY DEF Housekeep
<1>2. time \in [now : Nat, ran : SUBSET Servers] /\ rows \in RowType /\ AllStanding(rows, us)
  BY RowsNow DEF WebInv, WebTypes
<1>3. ASSUME NEW x \in StoredRow
      PROVE  t(x) \in StoredRow /\ t(x).handle = x.handle /\ t(x).auth = x.auth
  BY <1>2 DEF StoredRow
<1> HIDE DEF t
<1>4. ASSUME NEW i \in Ids
      PROVE  /\ rows'[i] \in {Nothing} \cup StoredRow
             /\ rows'[i] # Nothing => Standing(rows'[i], us)
  <2>1. CASE rows'[i] = rows[i]
    BY <1>2, <2>1 DEF RowType, AllStanding
  <2>2. CASE rows[i] # Nothing /\ rows'[i] = t(rows[i])
    <3>1. rows[i] \in StoredRow /\ Standing(rows[i], us)
      BY <1>2, <2>2 DEF RowType, AllStanding
    <3>2. t(rows[i]) \in StoredRow /\ t(rows[i]).handle = rows[i].handle /\ t(rows[i]).auth = rows[i].auth
      BY <1>3, <3>1
    <3> QED
      BY <2>2, <3>1, <3>2 DEF Standing, Rightful
  <2> QED
    BY <1>1, <2>1, <2>2
<1>5. rows' \in RowType
  <2>1. rows' = [i \in Ids |-> rows'[i]]
    BY <1>1
  <2> QED
    BY <1>4, <2>1 DEF RowType
<1>6. AllStanding(rows', us')
  BY <1>1, <1>4 DEF AllStanding
<1>7. time' \in [now : Nat, ran : SUBSET Servers]
  BY <1>1, <1>2
<1> QED
  BY <1>1, <1>5, <1>6, <1>7, RowsNow, OutsideStep

LEMMA OtherWebSteps ==
    ASSUME WebSound, WebInv,
           \/ \E s \in Sess : CloseLogin(s)
           \/ \E u \in Accounts : BackchannelLogout(u)
           \/ \E n \in Servers, s \in Sess : Detach(n, s)
           \/ \E n \in Servers, i \in Ids : Sweep(n, i)
           \/ ClockAdvances \/ UNCHANGED webVars
    PROVE  WebInv' /\ Grows(us, us')
<1>1. CASE \E s \in Sess : CloseLogin(s)
  BY <1>1, RevokeStep DEF CloseLogin
<1>2. CASE \E u \in Accounts : BackchannelLogout(u)
  BY <1>2, RevokeStep DEF BackchannelLogout
<1>3. CASE \E n \in Servers, s \in Sess : Detach(n, s)
  <2>1. UNCHANGED <<rows, us, pend, jar, req, time>>
    BY <1>3 DEF Detach
  <2> QED
    BY <2>1, RowsNow, OutsideStep, TimeNow
<1>4. ASSUME NEW n \in Servers, NEW i \in Ids, Sweep(n, i) PROVE WebInv' /\ Grows(us, us')
  <2>1. UNCHANGED <<pend, jar, req, time>> /\ (RemoveRow(i) \/ UNCHANGED <<rows, us>>)
    BY <1>4 DEF Sweep
  <2>2. CASE RemoveRow(i)
    BY <2>1, <2>2, RemoveRowOK, OutsideStep, TimeNow
  <2>3. CASE UNCHANGED <<rows, us>>
    BY <2>1, <2>3, RowsNow, OutsideStep, TimeNow
  <2> QED
    BY <2>1, <2>2, <2>3
<1>5. CASE ClockAdvances
  <2>1. time' = [now |-> time.now + 1, ran |-> {}] /\ UNCHANGED <<rows, us, pend, jar, req>>
    BY <1>5 DEF ClockAdvances
  <2>2. time' \in [now : Nat, ran : SUBSET Servers]
    BY <2>1 DEF WebInv, WebTypes
  <2> QED
    BY <2>1, <2>2, RowsNow, OutsideStep
<1>6. CASE UNCHANGED webVars
  <2>1. UNCHANGED <<rows, us, pend, jar, req, time>>
    BY <1>6 DEF webVars
  <2> QED
    BY <2>1, RowsNow, OutsideStep, TimeNow
<1> QED
  BY <1>1, <1>2, <1>3, <1>4, <1>5, <1>6

-----------------------------------------------------------------------------
LEMMA WebInitInv == ASSUME WebSound PROVE WebInit => WebInv
<1> SUFFICES ASSUME WebInit PROVE WebInv
  OBVIOUS
<1>1. [st |-> "unused", user |-> Nothing, node |-> Nothing] \in UserSession
  BY DEF UserSession, User
<1>2. WebTypes
  BY <1>1, NoRequestFit DEF WebInit, WebTypes
<1>3. NoUserYet(us)
  BY DEF WebInit, NoUserYet
<1>4. \A i \in Ids : rows[i] = Nothing
  BY DEF WebInit
<1>5. \A r \in Reqs : Fit(req[r], us)
  BY NoRequestFit DEF WebInit
<1> QED
  BY <1>2, <1>3, <1>4, <1>5 DEF WebInv

LEMMA WebNextInv == ASSUME WebSound PROVE WebInv /\ [WebNext]_webVars => WebInv' /\ Grows(us, us')
<1> SUFFICES ASSUME WebInv, [WebNext]_webVars PROVE WebInv' /\ Grows(us, us')
  OBVIOUS
<1>1. CASE \E r \in Reqs, b \in Clients, n \in Servers, k \in Kinds : Load(r, b, n, k)
  BY <1>1, LoadStep
<1>2. CASE \E r \in Reqs : Hop(r) \/ Page(r)
  BY <1>2, HopStep, PageStep
<1>3. CASE \E r \in Reqs : Served(r) \/ FirstAgain(r) \/ LastFactor(r) \/ ClientLeaves(r)
  BY <1>3, PlainSteps
<1>4. CASE \E r \in Reqs : FirstFactor(r) \/ SsoReturn(r)
  BY <1>4, LoginSteps
<1>5. CASE \E r \in Reqs : Authorize(r) \/ RotateId(r) \/ EndLogin(r)
  BY <1>5, AuthorizeStep, RotateStep, EndLoginStep
<1>6. CASE \E r \in Reqs : PeerFinish(r) \/ Adopt(r) \/ Finish(r)
  BY <1>6, PeerFinishStep, AdoptStep, FinishStep
<1>7. CASE \E n \in Servers : Housekeep(n)
  BY <1>7, HousekeepStep
<1>8. CASE \/ \E s \in Sess : CloseLogin(s)
           \/ \E u \in Accounts : BackchannelLogout(u)
           \/ \E n \in Servers, s \in Sess : Detach(n, s)
           \/ \E n \in Servers, i \in Ids : Sweep(n, i)
           \/ ClockAdvances \/ UNCHANGED webVars
  BY <1>8, OtherWebSteps
<1> QED
  BY <1>1, <1>2, <1>3, <1>4, <1>5, <1>6, <1>7, <1>8 DEF WebNext

LEMMA WebAlways == ASSUME WebSound PROVE WebSpec => []WebInv
BY WebInitInv, WebNextInv, PTL DEF WebSpec

-----------------------------------------------------------------------------
\* A request that began after its login was closed, revoked by the provider or swept
\* is not served under it, and what is stored or served is authorized for the user to
\* whom the session is attributed: for every number of nodes, browsers, people and
\* requests, whatever entries nodes still hold, whatever copies are written back late
\* and whoever logs in over whom (handle_for_request, update_session, set_user_info).
THEOREM LoginsAreHonoured == ASSUME WebSound PROVE WebSpec => []LoginsHonoured
<1>1. ASSUME WebInv PROVE EndedRefused
  BY <1>1 DEF WebInv, Fit, EndedRefused
<1>2. ASSUME WebInv PROVE AttributedAsAuthorized
  BY <1>2 DEF WebInv, Fit, Standing, Rightful, AttributedAsAuthorized
<1>3. WebInv => LoginsHonoured
  BY <1>1, <1>2 DEF LoginsHonoured
<1> QED
  BY <1>3, WebAlways, PTL

\* A user session is attributed once: whoever else logs in on it gets a session of
\* their own, and one that ended with its rows stays ended (set_user_info,
\* UserSessionAlreadyAttributed).
AttributedForGood ==
    \A s \in Sess : /\ us[s].user # Nothing => us'[s].user = us[s].user
                    /\ us[s].st = "ended" => us'[s].st = "ended"

THEOREM SessionsStayAttributed == ASSUME WebSound PROVE WebSpec => [][AttributedForGood]_webVars
<1>1. WebInv /\ [WebNext]_webVars => [AttributedForGood]_webVars
  BY WebNextInv DEF AttributedForGood, Grows
<1> QED
  BY <1>1, WebAlways, PTL DEF WebSpec

\* What the sweeps have found.
SweepType == sweep \in [Servers -> SUBSET Ids]

\* The sweep ends no login whose row a request has written within the lifetime of the
\* cookie, also when the write came between the search and the removal
\* (remove_stored_row looks again under the lock of the user session).
THEOREM SweepsOnlyExpired == WebSpec => [][SweepsExpired]_webVars
<1>1. WebInit => SweepType
  BY DEF WebInit, SweepType
<1>2. SweepType /\ [WebNext]_webVars => SweepType'
  <2> SUFFICES ASSUME SweepType, [WebNext]_webVars PROVE SweepType'
    OBVIOUS
  <2>1. CASE UNCHANGED sweep
    BY <2>1 DEF SweepType
  <2>2. ASSUME NEW n \in Servers, Housekeep(n) PROVE SweepType'
    BY <2>2 DEF Housekeep, SweepType
  <2>3. ASSUME NEW n \in Servers, NEW i \in Ids, Sweep(n, i) PROVE SweepType'
    BY <2>3 DEF Sweep, SweepType
  <2> QED
    BY <2>1, <2>2, <2>3 DEF WebNext, Load, Hop, Page, Served, FirstFactor, FirstAgain, LastFactor,
       SsoReturn, Authorize, RotateId, EndLogin, PeerFinish, Adopt, Finish, ClientLeaves, CloseLogin,
       BackchannelLogout, Revoke, Detach, ClockAdvances, webVars
<1>3. SweepType /\ [WebNext]_webVars => [SweepsExpired]_webVars
  <2> SUFFICES ASSUME SweepType, WebNext, NEW n \in Servers, NEW i \in Ids,
                      i \in sweep[n], rows[i] # Nothing, rows'[i] = Nothing,
                      sweep'[n] = sweep[n] \ {i}
               PROVE  row_is_expired(rows[i])
    BY DEF SweepsExpired
  <2>1. CASE UNCHANGED sweep
    BY <2>1
  <2>2. ASSUME NEW m \in Servers, Housekeep(m) PROVE row_is_expired(rows[i])
    <3>1. m # n
      BY <2>2 DEF Housekeep
    <3>2. sweep'[n] = sweep[n]
      BY <2>2, <3>1 DEF Housekeep, SweepType
    <3> QED
      BY <3>2
  <2>3. ASSUME NEW m \in Servers, NEW j \in Ids, Sweep(m, j) PROVE row_is_expired(rows[i])
    <3>1. sweep' = [sweep EXCEPT ![m] = sweep[m] \ {j}] /\ j \in sweep[m]
      BY <2>3 DEF Sweep
    <3>2. m = n /\ j = i
      BY <3>1 DEF SweepType
    <3> QED
      BY <2>3, <3>2 DEF Sweep
  <2> QED
    BY <2>1, <2>2, <2>3 DEF WebNext, Load, Hop, Page, Served, FirstFactor, FirstAgain, LastFactor,
       SsoReturn, Authorize, RotateId, EndLogin, PeerFinish, Adopt, Finish, ClientLeaves, CloseLogin,
       BackchannelLogout, Revoke, Detach, ClockAdvances
<1> QED
  BY <1>1, <1>2, <1>3, PTL DEF WebSpec
=============================================================================
