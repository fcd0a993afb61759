------------------------- MODULE LiveStreamsProofs -------------------------
(***************************************************************************)
(* What requests may rely on, for every number of them, of users, targets, *)
(* sessions and nodes: no proxied request slips past a change of its rule, *)
(* as long as no announcement is lost (LiveStreams), the requests of a     *)
(* Kubernetes client share one question and its answer (KubeRequests), and *)
(* users who serve themselves get what they asked for (SelfService).       *)
(***************************************************************************)
EXTENDS LiveStreams, KubeRequests, SelfService, FiniteSetTheorems, TLAPS

\* What the variables hold.
Rules == {Rule(r) : r \in Requests}
TypeOK ==
    /\ request \in [Requests -> {"new", "admitted", "watched", "running", "ended"}]
    /\ todo \in [Nodes -> SUBSET Rules] /\ doomed \in [Nodes -> SUBSET Rules]
    /\ losses \in Nat

\* The rules that one verdict covers hold or fail together.
LEMMA OneVerdict ==
    ASSUME NEW rule, NEW rules, NEW q \in Together(rule, rules)
    PROVE  Holds(q) <=> Holds(rule)
BY DEF Together, Holds

\* No request runs without its rule, uncancelled and with no pass to come.
Inv == TypeOK /\ (losses = 0 => NoneSlips)

\* A request that goes on to run has just been checked.
LEMMA RequestSteps ==
    ASSUME ConstantsOK, Inv, NEW r \in Requests, Admit(r) \/ Watch(r) \/ Recheck(r) \/ Finish(r)
    PROVE  Inv'
<1>1. /\ UNCHANGED <<access, shared, cancelled, announce, posts, told, todo, doomed, losses>>
      /\ request' \in [Requests -> {"new", "admitted", "watched", "running", "ended"}]
  BY DEF Inv, TypeOK, Admit, Watch, Watched, Recheck, Finish, recheck
<1>2. ASSUME NEW q \in Requests, request'[q] = "running"
      PROVE  request[q] = "running" \/ Holds(Rule(q))
  BY <1>2 DEF Inv, TypeOK, Admit, Watch, Watched, Recheck, Finish
<1>3. \A q \in Requests : (Holds(Rule(q))' <=> Holds(Rule(q))) /\ (Coming(q)' <=> Coming(q))
  BY <1>1 DEF Holds, Rule, Coming
<1> QED
  BY <1>1, <1>2, <1>3 DEF Inv, TypeOK, NoneSlips

\* What takes a right away is to be announced.
LEMMA ChangeSteps ==
    ASSUME ConstantsOK, Inv,
           \/ \E n \in Nodes, pair \in Users \X Targets : TakeRole(n, pair)
           \/ \E pair \in Users \X Targets : GiveRole(pair)
           \/ \E n \in Nodes, t \in Targets : Share(n, t)
    PROVE  Inv'
<1>1. TypeOK'
  BY DEF Inv, TypeOK, TakeRole, GiveRole, Share, recheck
<1>2. CASE announce' # {}
  BY <1>1, <1>2 DEF Inv, NoneSlips, Coming
<1>3. CASE \E pair \in Users \X Targets : GiveRole(pair)
  <2>1. /\ UNCHANGED <<shared, request, cancelled, announce, posts, told, todo, doomed, losses>>
        /\ access \subseteq access'
    BY <1>3 DEF GiveRole, recheck
  <2>2. \A q \in Requests : (Holds(Rule(q)) => Holds(Rule(q))') /\ (Coming(q)' <=> Coming(q))
    BY <2>1 DEF Holds, Rule, Coming
  <2> QED
    BY <1>1, <2>1, <2>2 DEF Inv, NoneSlips
<1> QED
  BY <1>2, <1>3 DEF TakeRole, Share

\* The announcement and the pass of a node.
LEMMA PassSteps ==
    ASSUME ConstantsOK, Inv, NEW n \in Nodes,
           Announce(n) \/ Post(n) \/ Begin(n) \/ Judge(n) \/ Cancel(n)
    PROVE  Inv'
<1>1. UNCHANGED <<access, shared, request>>
  BY DEF Announce, Post, Begin, Judge, Cancel
<1>2. TypeOK'
  <2>1. losses' \in Nat
    BY DEF Inv, TypeOK, Announce, Post, Begin, Judge, Cancel
  <2>2. \A m \in Nodes : {Rule(r) : r \in Registered(m)} \subseteq Rules
    BY DEF Rules, Registered
  <2>3. \A rule, rules : Together(rule, rules) \subseteq rules \cup {rule}
    BY DEF Together
  <2>4. todo' \in [Nodes -> SUBSET Rules] /\ doomed' \in [Nodes -> SUBSET Rules]
    BY <2>2, <2>3 DEF Inv, TypeOK, Announce, Post, Begin, Judge, Cancel
  <2>5. Rules' = Rules
    BY DEF Rules, Rule
  <2> QED
    BY <1>1, <2>1, <2>4, <2>5 DEF Inv, TypeOK
<1>3. \A q \in Requests : Holds(Rule(q))' <=> Holds(Rule(q))
  BY <1>1 DEF Holds, Rule
<1>4. ASSUME losses' = 0, NEW r \in Requests, request[r] = "running", ~Holds(Rule(r))
      PROVE  r \in cancelled' \/ Coming(r)'
  <2>0. At[r] \in Nodes /\ Rule(r)' = Rule(r) /\ r \in Registered(At[r])
    BY <1>4 DEF ConstantsOK, Rule, Registered
  <2>1. losses = 0 /\ cancelled \subseteq cancelled'
    BY <1>4 DEF Inv, TypeOK, Announce, Post, Begin, Judge, Cancel
  <2>2. r \in cancelled \/ Coming(r)
    BY <1>4, <2>1 DEF Inv, NoneSlips
  <2>3. CASE Announce(n)
    BY <2>0, <2>1, <2>2, <2>3 DEF Announce, Coming
  <2>4. CASE Post(n)
    BY <1>4, <2>0, <2>1, <2>2, <2>4 DEF Post, Coming
  <2>5. CASE Begin(n)
    <3>1. CASE At[r] = n
      <4>1. Rule(r) \in todo'[n]
        BY <2>0, <2>5, <3>1 DEF Begin, Inv, TypeOK
      <4> QED
        BY <2>0, <3>1, <4>1 DEF Coming
    <3>2. CASE At[r] # n
      BY <2>0, <2>1, <2>2, <2>5, <3>2 DEF Begin, Coming
    <3> QED
      BY <3>1, <3>2
  <2>6. CASE Judge(n)
    <3>1. CASE At[r] = n
      <4>1. PICK rule \in todo[n], fails \in BOOLEAN :
              /\ todo' = [todo EXCEPT ![n] = @ \ Together(rule, todo[n])]
              /\ doomed' = [doomed EXCEPT ![n] = IF Holds(rule) /\ ~fails THEN {}
                                                 ELSE Together(rule, todo[n])]
        BY <2>6 DEF Judge
      <4>2. doomed[n] = {} /\ UNCHANGED <<announce, posts, told, cancelled>>
        BY <2>6 DEF Judge
      <4>3. CASE Rule(r) \in Together(rule, todo[n])
        <5>1. ~Holds(rule)
          BY <1>4, <4>3, OneVerdict
        <5>2. Rule(r) \in doomed'[n]
          BY <4>1, <4>3, <5>1 DEF Inv, TypeOK
        <5> QED
          BY <2>0, <3>1, <5>2 DEF Coming
      <4>4. CASE Rule(r) \notin Together(rule, todo[n])
        <5>1. Rule(r) \in todo[n] => Rule(r) \in todo'[n]
          BY <4>1, <4>4 DEF Inv, TypeOK
        <5> QED
          BY <2>0, <2>2, <3>1, <4>2, <5>1 DEF Coming
      <4> QED
        BY <4>3, <4>4
    <3>2. CASE At[r] # n
      <4>1. todo'[At[r]] = todo[At[r]] /\ doomed'[At[r]] = doomed[At[r]]
        BY <2>0, <2>6, <3>2 DEF Judge, Inv, TypeOK
      <4> QED
        BY <2>0, <2>1, <2>2, <2>6, <4>1 DEF Judge, Coming
    <3> QED
      BY <3>1, <3>2
  <2>7. CASE Cancel(n)
    <3>1. CASE At[r] = n /\ Rule(r) \in doomed[n]
      BY <2>0, <2>7, <3>1 DEF Cancel
    <3>2. CASE At[r] = n /\ Rule(r) \notin doomed[n]
      BY <2>0, <2>1, <2>2, <2>7, <3>2 DEF Cancel, Coming
    <3>3. CASE At[r] # n
      <4>1. doomed'[At[r]] = doomed[At[r]]
        BY <2>0, <2>7, <3>3 DEF Cancel, Inv, TypeOK
      <4> QED
        BY <2>0, <2>1, <2>2, <2>7, <4>1 DEF Cancel, Coming
    <3> QED
      BY <3>1, <3>2, <3>3
  <2> QED
    BY <2>3, <2>4, <2>5, <2>6, <2>7
<1> QED
  BY <1>1, <1>2, <1>3, <1>4 DEF Inv, NoneSlips

\* No request slips between its first check, its registration and the second check: as
\* long as no announcement was lost on its way to a peer, one that runs although its rule
\* is gone is cancelled, or a pass that will find it is on its way (watch_live_stream,
\* watch_public_live_stream, reauthorize_live_streams).
THEOREM NoRequestSlips ==
    ASSUME ConstantsOK
    PROVE  Spec => [](losses = 0 => NoneSlips)
<1>1. Init => Inv
  BY DEF Init, Inv, TypeOK, NoneSlips
<1>2. Inv /\ [Next]_vars => Inv'
  <2> SUFFICES ASSUME Inv, [Next]_vars PROVE Inv'
    OBVIOUS
  <2>1. CASE UNCHANGED vars
    BY <2>1 DEF vars, Inv, TypeOK, NoneSlips, Holds, Rule, Coming
  <2>2. CASE Next
    BY <2>2, RequestSteps, ChangeSteps, PassSteps DEF Next
  <2> QED
    BY <2>1, <2>2
<1>3. Inv => (losses = 0 => NoneSlips)
  BY DEF Inv
<1> QED
  BY <1>1, <1>2, <1>3, PTL DEF Spec

-----------------------------------------------------------------------------
(* The requests of Kubernetes clients.                                     *)

Bearers == {Bearer[r] : r \in ApiRequests}

Leading == {"authorizing", "waiting", "admitting", "asking"}
Serving == {"joined", "entered", "connected", "sent", "streaming", "answered"}
Using == {"connected", "sent", "streaming"}
Placed == {"joining", "abandoned", "registered"} \cup Leading \cup Serving
Places == {"new", "arrived", "checked", "opening", "failed", "cut", "gone"} \cup Placed

\* The types, and that nobody keeps the lock of the correlator from one await to the next.
KubeTypes ==
    /\ pc \in [ApiRequests -> Places] /\ on \in [ApiRequests -> Correlated \cup {NoSession}] /\ lock = Nobody
    /\ handles \in [Bearers -> Correlated \cup {NoSession}]
    /\ slot \in [Correlated -> {"pending", "authorized", "denied"}]
    /\ holder \in [Correlated -> ApiRequests \cup {Nobody}]
    /\ opener \in [Correlated -> Bearers \cup {Nobody}]
    /\ handle \in [Correlated -> {"unborn", "provisional", "confirmed", "deleted", "ended"}]
    /\ question \in [Correlated -> {"none", "need", "accepted", "rejected"}]
    /\ DOMAIN admittedWith = Correlated /\ DOMAIN client = ApiRequests /\ DOMAIN events = ApiRequests

\* A session nobody has registered is nobody's; one that is found is its key's.
SessionsOK ==
    /\ \A s \in Correlated : handle[s] = "unborn" => slot[s] = "pending" /\ holder[s] = Nobody
    /\ \A k \in Bearers : handles[k] # NoSession => opener[handles[k]] = k /\ handle[handles[k]] # "unborn"

\* Nobody else is at the session that r has registered.
Alone(r) ==
    /\ slot[on[r]] = "pending" /\ holder[on[r]] = Nobody
    /\ \A k \in Bearers : handles[k] # on[r]
    /\ \A q \in ApiRequests : q # r /\ pc[q] \in Placed => on[q] # on[r]

Leads(r) ==
    /\ holder[on[r]] = r /\ slot[on[r]] = "pending"
    /\ Live(on[r]) => handles[Bearer[r]] = on[r]

RequestOK(r) ==
    /\ pc[r] \in Placed => on[r] \in Correlated /\ opener[on[r]] = Bearer[r] /\ handle[on[r]] # "unborn"
    /\ pc[r] = "registered" => Alone(r)
    /\ pc[r] \in Leading => Leads(r)
    /\ pc[r] = "waiting" => question[on[r]] # "none"
    /\ pc[r] = "abandoned" => holder[on[r]] = Nobody
    /\ pc[r] \in Serving => slot[on[r]] = "authorized"
    /\ pc[r] \in Using => client[r] = admittedWith[on[r]]

KubeInv == KubeTypes /\ SessionsOK /\ \A r \in ApiRequests : RequestOK(r)

LEMMA KubeBegins == ASSUME KubeSound PROVE KubeInit => KubeInv
<1> SUFFICES ASSUME KubeInit PROVE KubeInv
  OBVIOUS
<1>1. KubeTypes
  BY DEF KubeInit, KubeTypes, Bearers, Places, NoSession
<1>2. SessionsOK
  BY DEF KubeInit, SessionsOK, Bearers
<1>3. \A r \in ApiRequests : RequestOK(r)
  BY DEF KubeInit, RequestOK, Placed, Leading, Serving, Using
<1> QED
  BY <1>1, <1>2, <1>3 DEF KubeInv

\* A request that nothing touched stays in order, if the others leave its session alone.
LEMMA Undisturbed ==
    ASSUME KubeInv, NEW q \in ApiRequests, pc'[q] = pc[q], on'[q] = on[q], client'[q] = client[q],
           pc[q] \in Placed => /\ opener'[on[q]] = opener[on[q]] /\ handle'[on[q]] # "unborn"
                               /\ slot'[on[q]] = slot[on[q]] /\ holder'[on[q]] = holder[on[q]]
                               /\ pc[q] \in Using => admittedWith'[on[q]] = admittedWith[on[q]],
           pc[q] = "waiting" => question'[on[q]] # "none",
           pc[q] \in Leading /\ Live(on[q])' => Live(on[q]) /\ handles'[Bearer[q]] = handles[Bearer[q]],
           pc[q] = "registered" =>
               /\ \A k \in Bearers : handles'[k] # on[q]
               /\ \A p \in ApiRequests : p # q /\ pc'[p] \in Placed => on'[p] # on[q]
    PROVE  RequestOK(q)'
<1>1. RequestOK(q) /\ Placed' = Placed /\ Leading' = Leading /\ Serving' = Serving /\ Using' = Using
  BY DEF KubeInv, Placed, Leading, Serving, Using
<1>2. Leading \subseteq Placed /\ Serving \subseteq Placed /\ Using \subseteq Placed
      /\ {"registered", "abandoned", "waiting"} \subseteq Placed
  BY DEF Placed, Leading, Serving, Using
<1>3. pc[q] = "registered" => Alone(q)'
  BY <1>1, <1>2 DEF RequestOK, Alone
<1>4. pc[q] \in Leading => Leads(q)'
  BY <1>1, <1>2 DEF RequestOK, Leads
<1> QED
  BY <1>1, <1>2, <1>3, <1>4 DEF RequestOK

\* A request goes on; the sessions stay as they are.
LEMMA GoesOn ==
    ASSUME KubeSound, KubeInv, NEW r \in ApiRequests, NEW to \in Places, GoTo(r, to),
           UNCHANGED <<correlator, admittedWith>>, DOMAIN client' = ApiRequests, DOMAIN events' = ApiRequests,
           \A q \in ApiRequests : q # r => on'[q] = on[q] /\ client'[q] = client[q],
           on' \in [ApiRequests -> Correlated \cup {NoSession}],
           RequestOK(r)',
           to \in Placed => \A q \in ApiRequests : q # r /\ pc[q] = "registered" => on[q] # on'[r]
    PROVE  KubeInv'
<1>1. pc' \in [ApiRequests -> Places] /\ pc'[r] = to /\ \A q \in ApiRequests : q # r => pc'[q] = pc[q]
  BY DEF GoTo, KubeInv, KubeTypes
<1>2. UNCHANGED <<lock, handles, refusals, slot, holder, opener, closed, tooOld, handle, question, admittedWith>>
  BY DEF correlator
<1>3. KubeTypes'
  BY <1>1, <1>2 DEF KubeInv, KubeTypes
<1>4. SessionsOK'
  BY <1>2 DEF KubeInv, SessionsOK
<1>5. ASSUME NEW q \in ApiRequests, q # r PROVE RequestOK(q)'
  <2>1. pc'[q] = pc[q] /\ on'[q] = on[q] /\ client'[q] = client[q] /\ RequestOK(q)
    BY <1>1, <1>5 DEF KubeInv
  <2>2. pc[q] = "registered" => /\ \A k \in Bearers : handles'[k] # on[q]
                                /\ \A p \in ApiRequests : p # q /\ pc'[p] \in Placed => on'[p] # on[q]
    BY <1>1, <1>2, <1>5, <2>1 DEF RequestOK, Alone
  <2>3. pc[q] \in Placed => handle[on[q]] # "unborn"
    BY <2>1 DEF RequestOK
  <2>4. pc[q] = "waiting" => question[on[q]] # "none"
    BY <2>1 DEF RequestOK
  <2>5. Live(on[q])' => Live(on[q])
    BY <1>2, <2>1 DEF Live
  <2> QED
    BY <1>2, <2>1, <2>2, <2>3, <2>4, <2>5, Undisturbed
<1> QED
  BY <1>3, <1>4, <1>5 DEF KubeInv

\* A request that stays at its session, or leaves it, is in nobody's way.
LEMMA Continues ==
    ASSUME KubeSound, KubeInv, NEW r \in ApiRequests, NEW to \in Places, GoTo(r, to),
           UNCHANGED <<on, correlator, admittedWith>>, DOMAIN client' = ApiRequests, DOMAIN events' = ApiRequests,
           \A q \in ApiRequests : q # r => client'[q] = client[q],
           pc[r] \in Placed \/ to \notin Placed,
           to # "registered", to \in Leading => pc[r] \in Leading, to = "waiting" => pc[r] = "waiting",
           to = "abandoned" => holder[on[r]] = Nobody, to \in Serving => slot[on[r]] = "authorized",
           to \in Using => client'[r] = admittedWith[on[r]]
    PROVE  KubeInv'
<1>1. pc'[r] = to /\ RequestOK(r) /\ on \in [ApiRequests -> Correlated \cup {NoSession}]
  BY DEF GoTo, KubeInv, KubeTypes
<1>2. UNCHANGED <<lock, handles, refusals, slot, holder, opener, closed, tooOld, handle, question, admittedWith, on>>
  BY DEF correlator
<1>3. to \in Leading => Leads(r)'
  BY <1>1, <1>2 DEF RequestOK, Leads, Live
<1>4. RequestOK(r)'
  BY <1>1, <1>2, <1>3 DEF RequestOK
<1>5. to \in Placed => \A q \in ApiRequests : q # r /\ pc[q] = "registered" => on[q] # on[r]
  BY DEF KubeInv, RequestOK, Alone
<1> QED
  BY <1>1, <1>2, <1>4, <1>5, GoesOn

\* Looking up, joining and everything that happens to a request with its session in hand.
LEMMA Proceeds ==
    ASSUME KubeSound, KubeInv, NEW r \in ApiRequests,
           \/ AuthenticateBearer(r) \/ CheckRefusal(r) \/ Join(r) \/ RegisterFails(r) \/ Enter(r) \/ Connect(r)
           \/ Send(r) \/ Cut(r) \/ StreamEnds(r) \/ \E accepted \in BOOLEAN : Respond(r, accepted)
    PROVE  KubeInv'
<1> USE DEF Places, Placed, Leading, Serving, Using
<1>0. RequestOK(r) /\ DOMAIN client = ApiRequests /\ DOMAIN events = ApiRequests
  BY DEF KubeInv, KubeTypes
<1>1. CASE AuthenticateBearer(r)
  <2>1. PICK to \in {"arrived", "failed"} : GoTo(r, to)
    BY <1>1 DEF AuthenticateBearer
  <2> QED
    BY <1>0, <1>1, <2>1, Continues DEF AuthenticateBearer, upstream
<1>2. CASE CheckRefusal(r)
  <2>1. PICK to \in {"checked", "failed"} : GoTo(r, to)
    BY <1>2 DEF CheckRefusal
  <2> QED
    BY <1>0, <1>2, <2>1, Continues DEF CheckRefusal, upstream
<1>3. CASE Join(r)
  <2>1. lock' = lock
    BY <1>3 DEF Join, KubeInv, KubeTypes
  <2>2. on[r] \in Correlated /\ pc[r] \in Placed
    BY <1>0, <1>3 DEF Join, RequestOK
  <2>3. PICK to \in {"joined", "failed", "abandoned"} :
            GoTo(r, to) /\ (to = "joined" => slot[on[r]] = "authorized")
    BY <1>3, <2>2 DEF Join, KubeInv, KubeTypes
  <2> QED
    BY <1>0, <1>3, <2>1, <2>2, <2>3, Continues DEF Join, upstream, correlator
<1>4. CASE RegisterFails(r)
  BY <1>0, <1>4, Continues DEF RegisterFails, Step, upstream
<1>5. CASE Enter(r)
  <2>1. PICK to \in {"entered", "failed"} : GoTo(r, to)
    BY <1>5 DEF Enter
  <2>2. pc[r] = "joined" /\ slot[on[r]] = "authorized"
    BY <1>0, <1>5 DEF Enter, RequestOK
  <2> QED
    BY <1>0, <1>5, <2>1, <2>2, Continues DEF Enter, upstream
<1>6. CASE Connect(r)
  <2>1. pc[r] = "entered" /\ slot[on[r]] = "authorized"
    BY <1>0, <1>6 DEF Connect, RequestOK
  <2>2. CASE GoTo(r, "failed") /\ UNCHANGED <<client, clients>>
    BY <1>0, <1>6, <2>1, <2>2, Continues DEF Connect
  <2>3. CASE /\ GoTo(r, "connected")
             /\ client' = [client EXCEPT ![r] = IF IsWebsocket(r) THEN admittedWith[on[r]] ELSE get_or_build(r)]
    <3>1. client'[r] = admittedWith[on[r]] /\ DOMAIN client' = ApiRequests /\ \A q \in ApiRequests : q # r => client'[q] = client[q]
      BY <1>0, <2>3 DEF get_or_build
    <3> QED
      BY <1>0, <1>6, <2>1, <2>3, <3>1, Continues DEF Connect
  <2> QED
    BY <1>6, <2>2, <2>3 DEF Connect
<1>7. CASE Send(r)
  <2>1. PICK to \in {"sent", "failed"} : GoTo(r, to)
    BY <1>7 DEF Send
  <2>2. pc[r] = "connected" /\ slot[on[r]] = "authorized" /\ client[r] = admittedWith[on[r]]
    BY <1>0, <1>7 DEF Send, RequestOK
  <2> QED
    BY <1>0, <1>7, <2>1, <2>2, Continues DEF Send, upstream
<1>8. CASE Cut(r)
  BY <1>0, <1>8, Continues DEF Cut, upstream
<1>9. CASE StreamEnds(r)
  <2>1. pc[r] = "streaming" /\ slot[on[r]] = "authorized"
    BY <1>0, <1>9 DEF StreamEnds, Step, RequestOK
  <2> QED
    BY <1>0, <1>9, <2>1, Continues DEF StreamEnds, Step, upstream
<1>10. ASSUME NEW accepted \in BOOLEAN, Respond(r, accepted) PROVE KubeInv'
  <2>1. PICK to \in {"streaming", "answered"} : GoTo(r, to)
    BY <1>10 DEF Respond
  <2>2. pc[r] = "sent" /\ slot[on[r]] = "authorized" /\ client[r] = admittedWith[on[r]]
    BY <1>0, <1>10 DEF Respond, RequestOK
  <2>3. DOMAIN events' = ApiRequests /\ UNCHANGED <<on, correlator, admittedWith, client>>
    BY <1>0, <1>10 DEF Respond
  <2> QED
    BY <1>0, <2>1, <2>2, <2>3, Continues
<1> QED
  BY <1>1, <1>2, <1>3, <1>4, <1>5, <1>6, <1>7, <1>8, <1>9, <1>10

LEMMA LooksUp == ASSUME KubeSound, KubeInv, NEW r \in ApiRequests, LookUpEntry(r) PROVE KubeInv'
<1> USE DEF Places, Placed, Leading, Serving, Using
<1> DEFINE s == Entry(r)
<1>1. /\ UNCHANGED <<correlator, admittedWith, client, events>> /\ on' = [on EXCEPT ![r] = s]
      /\ GoTo(r, IF s = NoSession THEN "opening" ELSE "joining")
  BY DEF LookUpEntry, upstream
<1>2. s \in Correlated \cup {NoSession} /\ (s # NoSession => handles[Bearer[r]] = s /\ opener[s] = Bearer[r] /\ handle[s] # "unborn")
  <2>1. Bearer[r] \in Bearers /\ handles[Bearer[r]] \in Correlated \cup {NoSession}
    BY DEF Bearers, KubeInv, KubeTypes
  <2> QED
    BY <2>1 DEF Entry, CorrelationKey, KubeInv, SessionsOK
<1> HIDE DEF s
<1>3. NoSession \notin Correlated
  BY DEF NoSession, Correlated
<1>4. PICK to \in {"opening", "joining"} : GoTo(r, to) /\ (to = "joining" <=> s # NoSession)
  BY <1>1
<1>5. /\ on'[r] = s /\ on' \in [ApiRequests -> Correlated \cup {NoSession}] /\ pc'[r] = to
      /\ \A q \in ApiRequests : q # r => on'[q] = on[q]
  BY <1>1, <1>2, <1>4 DEF KubeInv, KubeTypes, GoTo
<1>6. UNCHANGED <<opener, handle>>
  BY <1>1 DEF correlator
<1>7. RequestOK(r)'
  BY <1>2, <1>4, <1>5, <1>6 DEF RequestOK
<1>8. to \in Placed => \A q \in ApiRequests : q # r /\ pc[q] = "registered" => on[q] # on'[r]
  <2> SUFFICES ASSUME to \in Placed, NEW q \in ApiRequests, q # r, pc[q] = "registered", on[q] = on'[r] PROVE FALSE
    OBVIOUS
  <2>1. Alone(q) /\ handles[Bearer[r]] = on[q] /\ Bearer[r] \in Bearers
    BY <1>2, <1>4, <1>5 DEF KubeInv, RequestOK, Bearers
  <2> QED
    BY <2>1 DEF Alone
<1>9. DOMAIN client' = ApiRequests /\ DOMAIN events' = ApiRequests /\ client' = client
  BY <1>1 DEF KubeInv, KubeTypes
<1> QED
  BY <1>1, <1>4, <1>5, <1>7, <1>8, <1>9, GoesOn

\* Two requests of which one leads are at different sessions, unless the other only waits to join.
LEMMA LeadersApart ==
    ASSUME KubeSound, KubeInv, NEW r \in ApiRequests, pc[r] \in Leading, NEW q \in ApiRequests, q # r, pc[q] \in Placed, on[q] = on[r]
    PROVE  pc[q] = "joining"
<1>1. holder[on[r]] = r /\ slot[on[r]] = "pending" /\ r # Nobody
  BY DEF KubeInv, RequestOK, Leads, KubeSound
<1>2. pc[r] \in Placed
  BY DEF Placed
<1>3. pc[q] # "registered"
  BY <1>2 DEF KubeInv, RequestOK, Alone
<1>4. pc[q] \notin Leading
  BY <1>1 DEF KubeInv, RequestOK, Leads
<1>5. pc[q] # "abandoned" /\ pc[q] \notin Serving
  BY <1>1 DEF KubeInv, RequestOK
<1> QED
  BY <1>3, <1>4, <1>5 DEF Placed

\* The leader does something to its session and to its entry; those that wait to join see no more
\* of it than the slot.
LEMMA LeaderActs ==
    ASSUME KubeSound, KubeInv, NEW r \in ApiRequests, pc[r] \in Leading, NEW s, s = on[r], KubeTypes', RequestOK(r)',
           UNCHANGED <<on, opener, closed, tooOld, client>>, pc'[r] # "registered",
           \A q \in ApiRequests : q # r => pc'[q] = pc[q],
           \A x \in Correlated : x # s => /\ slot'[x] = slot[x] /\ holder'[x] = holder[x] /\ handle'[x] = handle[x]
                                          /\ question'[x] = question[x] /\ admittedWith'[x] = admittedWith[x],
           handle'[s] # "unborn",
           \A k \in Bearers : handles'[k] = handles[k] \/ (handles'[k] = NoSession /\ handles[k] = s)
    PROVE  KubeInv'
<1>1. s \in Correlated /\ RequestOK(r) /\ handle[s] # "unborn" /\ pc[r] \in Placed
  BY DEF KubeInv, RequestOK, Placed
<1>2. SessionsOK'
  <2>1. \A x \in Correlated : handle'[x] = "unborn" => handle[x] = "unborn" /\ x # s
    OBVIOUS
  <2>2. \A x \in Correlated : handle'[x] = "unborn" => slot'[x] = "pending" /\ holder'[x] = Nobody
    BY <2>1 DEF KubeInv, SessionsOK
  <2>3. \A k \in Bearers : handles'[k] # NoSession => opener[handles[k]] = k /\ handle'[handles[k]] # "unborn" /\ handles'[k] = handles[k]
    BY <2>1 DEF KubeInv, KubeTypes, SessionsOK
  <2> QED
    BY <2>2, <2>3 DEF SessionsOK
<1>3. ASSUME NEW q \in ApiRequests, q # r PROVE RequestOK(q)'
  <2>1. pc'[q] = pc[q] /\ on'[q] = on[q] /\ client'[q] = client[q] /\ RequestOK(q)
    BY <1>3 DEF KubeInv
  <2>2. CASE pc[q] \in Placed /\ on[q] = s
    <3>1. pc[q] = "joining"
      BY <1>3, <2>2, LeadersApart
    <3>2. opener'[on[q]] = Bearer[q] /\ handle'[on[q]] # "unborn" /\ on'[q] \in Correlated
      BY <1>1, <2>1, <2>2 DEF RequestOK
    <3> QED
      BY <2>1, <3>1, <3>2 DEF RequestOK, Leading, Serving, Using
  <2>3. CASE pc[q] \in Placed /\ on[q] # s
    <3>1. on[q] \in Correlated /\ handle[on[q]] # "unborn"
      BY <2>1, <2>3 DEF RequestOK
    <3>2. pc[q] = "waiting" => question'[on[q]] # "none"
      BY <2>1, <2>3, <3>1 DEF RequestOK
    <3>3. pc[q] \in Leading /\ Live(on[q])' => Live(on[q]) /\ handles'[Bearer[q]] = handles[Bearer[q]]
      <4>1. Live(on[q])' => Live(on[q])
        BY DEF Live
      <4>2. Bearer[q] \in Bearers
        BY DEF Bearers
      <4> QED
        BY <2>1, <2>3, <4>1, <4>2 DEF RequestOK, Leads
    <3>4. pc[q] = "registered" => /\ \A k \in Bearers : handles'[k] # on[q]
                                  /\ \A p \in ApiRequests : p # q /\ pc'[p] \in Placed => on'[p] # on[q]
      <4>1. ASSUME pc[q] = "registered" PROVE \A k \in Bearers : handles'[k] # on[q]
        <5>1. on[q] # NoSession /\ Alone(q)
          BY <2>1, <3>1, <4>1 DEF RequestOK, Correlated, NoSession
        <5> QED
          BY <5>1 DEF Alone
      <4>2. \A p \in ApiRequests : pc'[p] \in Placed => pc[p] \in Placed
        BY <1>1
      <4> QED
        BY <2>1, <4>1, <4>2 DEF RequestOK, Alone
    <3> QED
      BY <2>1, <2>3, <3>1, <3>2, <3>3, <3>4, Undisturbed
  <2>4. CASE pc[q] \notin Placed
    BY <2>1, <2>4 DEF RequestOK, Placed, Leading, Serving, Using
  <2> QED
    BY <2>2, <2>3, <2>4
<1> QED
  BY <1>2, <1>3 DEF KubeInv

\* The leader fails: the slot of its session is settled, and its entry goes.
LEMMA Denies ==
    ASSUME KubeSound, KubeInv, NEW r \in ApiRequests, pc[r] \in Leading, NEW refusal \in BOOLEAN, Deny(r, refusal)
    PROVE  KubeInv'
<1> DEFINE s == on[r]
<1>1. s \in Correlated /\ handle[s] # "unborn"
  BY DEF KubeInv, RequestOK, Placed
<1>2. /\ slot' = [slot EXCEPT ![s] = "denied"] /\ handles' = Evicted(r, s)
      /\ question' = [question EXCEPT ![s] = "none"]
      /\ handle' = [handle EXCEPT ![s] = IF question[s] \in {"accepted", "rejected"} THEN "confirmed" ELSE @]
      /\ holder' = [holder EXCEPT ![s] = Nobody]
      /\ pc' = [pc EXCEPT ![r] = "failed"] /\ UNCHANGED <<on, lock, opener, closed, tooOld, admittedWith, client, events>>
  BY DEF Deny, settle_failed_attempt, GoTo, upstream
<1>3. /\ \A k \in Bearers : handles'[k] = handles[k] \/ (handles'[k] = NoSession /\ handles[k] = s)
      /\ handles' \in [Bearers -> Correlated \cup {NoSession}]
  BY <1>2 DEF Evicted, KubeInv, KubeTypes
<1>4. KubeTypes'
  BY <1>1, <1>2, <1>3 DEF KubeInv, KubeTypes, Places
<1>5. pc'[r] = "failed" /\ handle'[s] # "unborn" /\ \A q \in ApiRequests : q # r => pc'[q] = pc[q]
  BY <1>1, <1>2 DEF KubeInv, KubeTypes
<1>6. \A x \in Correlated : x # s => /\ slot'[x] = slot[x] /\ holder'[x] = holder[x] /\ handle'[x] = handle[x]
                                     /\ question'[x] = question[x] /\ admittedWith'[x] = admittedWith[x]
  BY <1>2 DEF KubeInv, KubeTypes
<1>7. RequestOK(r)'
  BY <1>5 DEF RequestOK, Placed, Leading, Serving, Using
<1> QED
  BY <1>2, <1>3, <1>4, <1>5, <1>6, <1>7, LeaderActs

\* The leader is admitted: the slot of its session says so, and it is served.
LEMMA Admits ==
    ASSUME KubeSound, KubeInv, NEW r \in ApiRequests, pc[r] \in Leading, GoTo(r, "joined"),
           slot' = [slot EXCEPT ![on[r]] = "authorized"], handle' = [handle EXCEPT ![on[r]] = "confirmed"],
           holder' = [holder EXCEPT ![on[r]] = Nobody], admittedWith' = [admittedWith EXCEPT ![on[r]] = options[Bearer[r].target]],
           UNCHANGED <<on, lock, handles, opener, closed, tooOld, question, client, events>>
    PROVE  KubeInv'
<1> DEFINE s == on[r]
<1>1. s \in Correlated /\ opener[s] = Bearer[r]
  BY DEF KubeInv, RequestOK, Placed
<1>2. KubeTypes'
  BY <1>1 DEF KubeInv, KubeTypes, Places, Placed, Serving, GoTo
<1>3. /\ pc'[r] = "joined" /\ handle'[s] # "unborn" /\ slot'[s] = "authorized"
      /\ \A q \in ApiRequests : q # r => pc'[q] = pc[q]
  BY <1>1 DEF KubeInv, KubeTypes, GoTo
<1>4. \A x \in Correlated : x # s => /\ slot'[x] = slot[x] /\ holder'[x] = holder[x] /\ handle'[x] = handle[x]
                                     /\ question'[x] = question[x] /\ admittedWith'[x] = admittedWith[x]
  BY DEF KubeInv, KubeTypes
<1>5. RequestOK(r)'
  BY <1>1, <1>3 DEF RequestOK, Placed, Leading, Serving, Using
<1> QED
  BY <1>2, <1>3, <1>4, <1>5, LeaderActs

\* The leader asks the user.
LEMMA AsksUser == ASSUME KubeSound, KubeInv, NEW r \in ApiRequests, AskUser(r) PROVE KubeInv'
<1> DEFINE s == on[r]
<1>1. pc[r] \in Leading
  BY DEF AskUser, Leading
<1>2. s \in Correlated /\ opener[s] = Bearer[r] /\ handle[s] # "unborn" /\ Leads(r)
  BY <1>1 DEF KubeInv, RequestOK, Placed
<1>3. /\ question' = [question EXCEPT ![s] = "need"] /\ pc' = [pc EXCEPT ![r] = "waiting"]
      /\ UNCHANGED <<on, lock, handles, slot, holder, opener, closed, tooOld, handle, admittedWith, client, events>>
  BY DEF AskUser, GoTo, upstream
<1>4. KubeTypes'
  BY <1>2, <1>3 DEF KubeInv, KubeTypes, Places, Placed, Leading
<1>5. pc'[r] = "waiting" /\ question'[s] = "need" /\ \A q \in ApiRequests : q # r => pc'[q] = pc[q]
  BY <1>2, <1>3 DEF KubeInv, KubeTypes
<1>6. \A x \in Correlated : x # s => question'[x] = question[x]
  BY <1>3 DEF KubeInv, KubeTypes
<1>7. Leads(r)'
  BY <1>2, <1>3 DEF Leads, Live
<1>8. RequestOK(r)'
  BY <1>2, <1>3, <1>5, <1>7 DEF RequestOK, Placed, Leading, Serving, Using
<1> QED
  BY <1>1, <1>2, <1>3, <1>4, <1>5, <1>6, <1>8, LeaderActs

\* Everything a leader does on the way to its answer.
LEMMA LeaderSteps ==
    ASSUME KubeSound, KubeInv, NEW r \in ApiRequests,
           \/ AuthorizeAtOnce(r) \/ AnswerArrives(r) \/ RunOut(r) \/ CancelWait(r) \/ AdmitSession(r) \/ Approve(r)
           \/ Refuse(r) \/ CancelAdmission(r)
    PROVE  KubeInv'
<1>0. DOMAIN client = ApiRequests /\ DOMAIN events = ApiRequests
  BY DEF KubeInv, KubeTypes
<1>1. pc[r] \in Leading
  BY DEF AuthorizeAtOnce, AnswerArrives, RunOut, CancelWait, AdmitSession, Approve, Refuse, CancelAdmission, Leading
<1>2. CASE \E refusal \in BOOLEAN : Deny(r, refusal)
  BY <1>1, <1>2, Denies
<1>3. CASE \E to \in {"admitting", "asking"} : GoTo(r, to) /\ UNCHANGED <<on, correlator, authentic, upstream>>
  BY <1>0, <1>1, <1>3, Continues DEF Places, Placed, Leading, Serving, Using, upstream
<1>4. CASE /\ slot' = [slot EXCEPT ![on[r]] = "authorized"] /\ handle' = [handle EXCEPT ![on[r]] = "confirmed"]
           /\ holder' = [holder EXCEPT ![on[r]] = Nobody]
           /\ admittedWith' = [admittedWith EXCEPT ![on[r]] = options[Bearer[r].target]] /\ GoTo(r, "joined")
           /\ UNCHANGED <<on, lock, handles, refusals, opener, closed, tooOld, question, authentic, options, clients, client, events>>
  BY <1>1, <1>4, Admits
<1> QED
  BY <1>2, <1>3, <1>4 DEF AuthorizeAtOnce, AnswerArrives, RunOut, CancelWait, AdmitSession, Approve, Refuse, CancelAdmission

\* Who finds a session abandoned sweeps its entry: nobody leads it, and nobody waits for its answer.
LEMMA Sweeps == ASSUME KubeSound, KubeInv, NEW r \in ApiRequests, SweepEntry(r) PROVE KubeInv'
<1> DEFINE s == on[r]
<1>1. pc[r] = "abandoned" /\ s \in Correlated /\ holder[s] = Nobody
  BY DEF KubeInv, RequestOK, SweepEntry, Placed
<1>2. /\ handles' = Evicted(r, s) /\ question' = [question EXCEPT ![s] = "none"]
      /\ on' = [on EXCEPT ![r] = NoSession] /\ pc' = [pc EXCEPT ![r] = "opening"]
      /\ UNCHANGED <<lock, slot, holder, opener, closed, tooOld, handle, admittedWith, client, events>>
  BY DEF SweepEntry, GoTo, upstream
<1>3. /\ \A k \in Bearers : handles'[k] = handles[k] \/ (handles'[k] = NoSession /\ handles[k] = s)
      /\ handles' \in [Bearers -> Correlated \cup {NoSession}]
  BY <1>2 DEF Evicted, KubeInv, KubeTypes
<1>4. KubeTypes'
  BY <1>1, <1>2, <1>3 DEF KubeInv, KubeTypes, Places
<1>5. SessionsOK'
  BY <1>2, <1>3 DEF KubeInv, SessionsOK
<1>6. /\ pc'[r] = "opening" /\ \A q \in ApiRequests : q # r => pc'[q] = pc[q] /\ on'[q] = on[q]
      /\ \A x \in Correlated : x # s => question'[x] = question[x]
  BY <1>2 DEF KubeInv, KubeTypes
<1>7. ASSUME NEW q \in ApiRequests, q # r PROVE RequestOK(q)'
  <2>1. pc'[q] = pc[q] /\ on'[q] = on[q] /\ client'[q] = client[q] /\ RequestOK(q)
    BY <1>2, <1>6, <1>7 DEF KubeInv
  <2>2. pc[q] \in Leading => on[q] # s /\ on[q] \in Correlated
    BY <1>1, <2>1 DEF RequestOK, Leads, KubeSound, Placed
  <2>3. pc[q] = "waiting" => question'[on[q]] # "none"
    BY <1>6, <2>1, <2>2 DEF RequestOK, Leading
  <2>4. pc[q] \in Leading /\ Live(on[q])' => Live(on[q]) /\ handles'[Bearer[q]] = handles[Bearer[q]]
    <3>1. Live(on[q])' => Live(on[q])
      BY <1>2, <2>1 DEF Live
    <3>2. Bearer[q] \in Bearers
      BY DEF Bearers
    <3> QED
      BY <1>3, <2>1, <2>2, <3>1, <3>2 DEF RequestOK, Leads
  <2>5. pc[q] = "registered" => /\ \A k \in Bearers : handles'[k] # on[q]
                                /\ \A p \in ApiRequests : p # q /\ pc'[p] \in Placed => on'[p] # on[q]
    <3> SUFFICES ASSUME pc[q] = "registered"
                 PROVE  /\ \A k \in Bearers : handles'[k] # on[q]
                        /\ \A p \in ApiRequests : p # q /\ pc'[p] \in Placed => on'[p] # on[q]
      OBVIOUS
    <3>1. on[q] # NoSession /\ Alone(q)
      BY <2>1 DEF RequestOK, Correlated, NoSession, Placed
    <3>2. pc'[r] \notin Placed
      BY <1>6 DEF Placed, Leading, Serving
    <3> QED
      BY <1>3, <1>6, <3>1, <3>2 DEF Alone
  <2>6. pc[q] \in Placed => handle[on[q]] # "unborn"
    BY <2>1 DEF RequestOK
  <2> QED
    BY <1>2, <2>1, <2>3, <2>4, <2>5, <2>6, Undisturbed
<1>8. RequestOK(r)'
  BY <1>6 DEF RequestOK, Placed, Leading, Serving, Using
<1> QED
  BY <1>4, <1>5, <1>7, <1>8 DEF KubeInv

\* A session is registered: nobody was there before.
LEMMA Registers == ASSUME KubeSound, KubeInv, NEW r \in ApiRequests, Register(r) PROVE KubeInv'
<1>1. PICK s \in Correlated : /\ handle[s] = "unborn" /\ handle' = [handle EXCEPT ![s] = "provisional"]
                              /\ opener' = [opener EXCEPT ![s] = Bearer[r]] /\ on' = [on EXCEPT ![r] = s]
  BY DEF Register
<1>2. /\ pc[r] = "opening" /\ pc' = [pc EXCEPT ![r] = "registered"]
      /\ UNCHANGED <<lock, handles, slot, holder, closed, tooOld, question, admittedWith, client, events>>
  BY DEF Register, GoTo, upstream
<1>3. /\ slot[s] = "pending" /\ holder[s] = Nobody /\ \A k \in Bearers : handles[k] # s
      /\ \A q \in ApiRequests : pc[q] \in Placed => on[q] # s
  <2>1. s # NoSession
    BY DEF Correlated, NoSession
  <2> QED
    BY <1>1, <2>1 DEF KubeInv, SessionsOK, RequestOK
<1>4. KubeTypes'
  BY <1>1, <1>2 DEF KubeInv, KubeTypes, Places, Placed, Bearers
<1>5. SessionsOK'
  BY <1>1, <1>2, <1>3 DEF KubeInv, SessionsOK, KubeTypes
<1>6. /\ pc'[r] = "registered" /\ on'[r] = s /\ opener'[s] = Bearer[r] /\ handle'[s] = "provisional"
      /\ \A q \in ApiRequests : q # r => pc'[q] = pc[q] /\ on'[q] = on[q]
      /\ \A x \in Correlated : x # s => opener'[x] = opener[x] /\ handle'[x] = handle[x]
  BY <1>1, <1>2 DEF KubeInv, KubeTypes
<1>7. ASSUME NEW q \in ApiRequests, q # r PROVE RequestOK(q)'
  <2>1. pc'[q] = pc[q] /\ on'[q] = on[q] /\ client'[q] = client[q] /\ RequestOK(q)
    BY <1>2, <1>6, <1>7 DEF KubeInv
  <2>2. pc[q] \in Placed => on[q] \in Correlated /\ on[q] # s /\ handle[on[q]] # "unborn"
    BY <1>3, <2>1 DEF RequestOK
  <2>3. Live(on[q])' => Live(on[q])
    BY <1>2, <2>1 DEF Live
  <2>4. pc[q] = "registered" => /\ \A k \in Bearers : handles'[k] # on[q]
                                /\ \A p \in ApiRequests : p # q /\ pc'[p] \in Placed => on'[p] # on[q]
    <3>1. pc[q] = "registered" => Alone(q) /\ on[q] # s
      BY <2>1, <2>2 DEF RequestOK, Placed
    <3> QED
      BY <1>2, <1>6, <3>1 DEF Alone
  <2>5. pc[q] = "waiting" => question[on[q]] # "none"
    BY <2>1 DEF RequestOK
  <2> QED
    BY <1>2, <1>6, <2>1, <2>2, <2>3, <2>4, <2>5, Undisturbed
<1>8. RequestOK(r)'
  <2>1. Alone(r)'
    BY <1>2, <1>3, <1>6 DEF Alone
  <2> QED
    BY <1>6, <2>1 DEF RequestOK, Placed, Leading, Serving, Using
<1> QED
  BY <1>4, <1>5, <1>7, <1>8 DEF KubeInv

\* The slot is taken before anybody can find it, and only where no live session is found.
LEMMA Claims == ASSUME KubeSound, KubeInv, NEW r \in ApiRequests, Claim(r) PROVE KubeInv'
<1> DEFINE s == on[r]
<1>0. pc[r] = "registered" /\ s \in Correlated /\ opener[s] = Bearer[r] /\ handle[s] # "unborn" /\ Alone(r)
      /\ Bearer[r] \in Bearers /\ s # NoSession /\ DOMAIN client = ApiRequests /\ DOMAIN events = ApiRequests
  BY DEF KubeInv, RequestOK, Claim, Placed, Bearers, KubeTypes, Correlated, NoSession
<1>1. CASE Entry(r) # NoSession
  <2>1. GoTo(r, "arrived") /\ on' = [on EXCEPT ![r] = NoSession] /\ UNCHANGED <<correlator, admittedWith, client, events>>
    BY <1>1 DEF Claim, correlator, upstream
  <2>2. /\ pc'[r] = "arrived" /\ on' \in [ApiRequests -> Correlated \cup {NoSession}]
        /\ \A q \in ApiRequests : q # r => on'[q] = on[q]
    BY <2>1 DEF KubeInv, KubeTypes, GoTo
  <2>3. RequestOK(r)' /\ "arrived" \in Places \ Placed
    BY <2>2 DEF RequestOK, Places, Placed, Leading, Serving, Using
  <2> QED
    BY <1>0, <2>1, <2>2, <2>3, GoesOn
<1>2. CASE Entry(r) = NoSession
  <2>1. /\ pc' = [pc EXCEPT ![r] = "authorizing"] /\ handles' = [handles EXCEPT ![Bearer[r]] = s]
        /\ holder' = [holder EXCEPT ![s] = r]
        /\ UNCHANGED <<on, lock, slot, opener, closed, tooOld, handle, question, admittedWith, client, events>>
    BY <1>2 DEF Claim, CorrelationKey, GoTo, upstream
  <2>2. KubeTypes'
    BY <1>0, <2>1 DEF KubeInv, KubeTypes, Places, Placed, Leading
  <2>3. /\ pc'[r] = "authorizing" /\ handles'[Bearer[r]] = s /\ holder'[s] = r
        /\ \A q \in ApiRequests : q # r => pc'[q] = pc[q]
        /\ \A k \in Bearers : k # Bearer[r] => handles'[k] = handles[k]
        /\ \A x \in Correlated : x # s => holder'[x] = holder[x]
    BY <1>0, <2>1 DEF KubeInv, KubeTypes
  <2>4. SessionsOK'
    BY <1>0, <2>1, <2>3 DEF KubeInv, SessionsOK
  <2>5. ASSUME NEW q \in ApiRequests, q # r PROVE RequestOK(q)'
    <3>1. pc'[q] = pc[q] /\ on'[q] = on[q] /\ client'[q] = client[q] /\ RequestOK(q)
      BY <2>1, <2>3, <2>5 DEF KubeInv
    <3>2. pc[q] \in Placed => on[q] \in Correlated /\ on[q] # s /\ handle[on[q]] # "unborn"
      BY <1>0, <2>5, <3>1 DEF RequestOK, Alone
    <3>3. pc[q] \in Leading /\ Live(on[q])' => Live(on[q]) /\ handles'[Bearer[q]] = handles[Bearer[q]]
      <4> SUFFICES ASSUME pc[q] \in Leading, Live(on[q])'
                   PROVE  Live(on[q]) /\ handles'[Bearer[q]] = handles[Bearer[q]]
        OBVIOUS
      <4>1. Live(on[q]) /\ handles[Bearer[q]] = on[q] /\ on[q] \in Correlated /\ Bearer[q] \in Bearers
        BY <2>1, <3>1 DEF Live, RequestOK, Leads, Placed, Bearers
      <4>2. on[q] # NoSession
        BY <4>1 DEF Correlated, NoSession
      <4>3. Bearer[q] # Bearer[r]
        BY <1>2, <4>1, <4>2 DEF Entry, CorrelationKey
      <4> QED
        BY <2>3, <4>1, <4>3
    <3>4. pc[q] = "registered" => /\ \A k \in Bearers : handles'[k] # on[q]
                                  /\ \A p \in ApiRequests : p # q /\ pc'[p] \in Placed => on'[p] # on[q]
      <4>1. pc[q] = "registered" => Alone(q) /\ on[q] # s
        BY <3>1, <3>2 DEF RequestOK, Placed
      <4>2. \A p \in ApiRequests : pc'[p] \in Placed => pc[p] \in Placed
        BY <1>0, <2>3 DEF Placed
      <4> QED
        BY <2>1, <2>3, <4>1, <4>2 DEF Alone
    <3>5. pc[q] = "waiting" => question[on[q]] # "none"
      BY <3>1 DEF RequestOK
    <3> QED
      BY <2>1, <2>3, <3>1, <3>2, <3>3, <3>4, <3>5, Undisturbed
  <2>6. RequestOK(r)'
    <3>1. Leads(r)'
      BY <1>0, <2>1, <2>3 DEF Leads, Alone
    <3> QED
      BY <1>0, <2>1, <2>3, <3>1 DEF RequestOK, Placed, Leading, Serving, Using
  <2> QED
    BY <2>2, <2>4, <2>5, <2>6 DEF KubeInv
<1> QED
  BY <1>1, <1>2

\* A client goes away: the locks of its request are free, whatever it led.
LEMMA QuitsHeld == ASSUME KubeSound, KubeInv, NEW r \in ApiRequests, Quit(r) PROVE KubeInv'
<1>1. /\ pc' = [pc EXCEPT ![r] = "gone"] /\ lock' = lock
      /\ holder' = [s \in Correlated |-> IF holder[s] = r THEN Nobody ELSE holder[s]]
      /\ UNCHANGED <<on, handles, slot, opener, closed, tooOld, handle, question, admittedWith, client, events>>
  BY DEF Quit, GoTo, KubeInv, KubeTypes, KubeSound, upstream
<1>2. KubeTypes'
  BY <1>1 DEF KubeInv, KubeTypes, Places
<1>3. SessionsOK'
  BY <1>1 DEF KubeInv, SessionsOK
<1>4. pc'[r] = "gone" /\ \A q \in ApiRequests : q # r => pc'[q] = pc[q]
  BY <1>1 DEF KubeInv, KubeTypes
<1>5. RequestOK(r)'
  BY <1>4 DEF RequestOK, Placed, Leading, Serving, Using
<1>6. ASSUME NEW q \in ApiRequests, q # r PROVE RequestOK(q)'
  <2>1. pc'[q] = pc[q] /\ RequestOK(q) /\ (pc[q] \in Placed => on[q] \in Correlated)
    BY <1>4, <1>6 DEF KubeInv, RequestOK
  <2>2. pc[q] = "registered" => Alone(q)'
    <3>1. \A p \in ApiRequests : pc'[p] \in Placed => pc[p] \in Placed
      BY <1>4 DEF Placed, Leading, Serving
    <3> QED
      BY <1>1, <2>1, <3>1 DEF RequestOK, Alone, Placed
  <2>3. pc[q] \in Leading => Leads(q)'
    BY <1>1, <1>6, <2>1 DEF RequestOK, Leads, Live, Placed
  <2> QED
    BY <1>1, <2>1, <2>2, <2>3 DEF RequestOK, Placed
<1> QED
  BY <1>2, <1>3, <1>5, <1>6 DEF KubeInv

\* What people, clocks and administrators do touches no request.
LEMMA WorldSteps ==
    ASSUME KubeSound, KubeInv,
           \/ \E s \in Correlated : UserAnswers(s) \/ Drop(s) \/ Close(s) \/ Age(s)
           \/ \E c \in Credentials : Revoke(c)
           \/ \E k \in DOMAIN handles : ForgetRefusal(k)
           \/ \E t \in TargetsAsked : EditTarget(t)
           \/ VacuumEntries \/ UNCHANGED kubeVars
    PROVE  KubeInv'
<1>1. /\ UNCHANGED <<pc, on, lock, slot, holder, opener, admittedWith, client, events>>
      /\ closed \subseteq closed' /\ tooOld \subseteq tooOld'
  BY DEF UserAnswers, Drop, Close, Age, Revoke, ForgetRefusal, EditTarget, VacuumEntries, kubeVars, correlator, upstream
<1>2. /\ handles' \in [Bearers -> Correlated \cup {NoSession}]
      /\ \A k \in Bearers : handles'[k] = handles[k] \/ (handles'[k] = NoSession /\ ~Live(handles[k]))
  BY DEF UserAnswers, Drop, Close, Age, Revoke, ForgetRefusal, EditTarget, VacuumEntries, kubeVars, correlator, upstream, KubeInv, KubeTypes
<1>3. /\ handle' \in [Correlated -> {"unborn", "provisional", "confirmed", "deleted", "ended"}]
      /\ \A s \in Correlated : handle'[s] = "unborn" <=> handle[s] = "unborn"
  BY DEF UserAnswers, Drop, Close, Age, Revoke, ForgetRefusal, EditTarget, VacuumEntries, kubeVars, correlator, upstream, KubeInv, KubeTypes
<1>4. /\ question' \in [Correlated -> {"none", "need", "accepted", "rejected"}]
      /\ \A s \in Correlated : question[s] # "none" => question'[s] # "none"
  BY DEF UserAnswers, Drop, Close, Age, Revoke, ForgetRefusal, EditTarget, VacuumEntries, kubeVars, correlator, upstream, KubeInv, KubeTypes
<1>5. KubeTypes'
  BY <1>1, <1>2, <1>3, <1>4 DEF KubeInv, KubeTypes
<1>6. SessionsOK'
  <2>1. \A k \in Bearers : handles'[k] # NoSession => handles'[k] = handles[k] /\ handles[k] \in Correlated
    BY <1>2 DEF KubeInv, KubeTypes
  <2> QED
    BY <1>1, <1>3, <2>1 DEF KubeInv, SessionsOK
<1>7. ASSUME NEW q \in ApiRequests PROVE RequestOK(q)'
  <2>1. RequestOK(q) /\ (pc[q] \in Placed => on[q] \in Correlated) /\ Bearer[q] \in Bearers
    BY DEF KubeInv, RequestOK, Bearers
  <2>2. pc[q] \in Placed => handle'[on[q]] # "unborn"
    BY <1>3, <2>1 DEF RequestOK
  <2>3. pc[q] = "waiting" => question'[on[q]] # "none"
    BY <1>4, <2>1 DEF RequestOK, Placed, Leading
  <2>4. pc[q] \in Leading /\ Live(on[q])' => Live(on[q]) /\ handles'[Bearer[q]] = handles[Bearer[q]]
    BY <1>1, <1>2, <2>1 DEF Live, RequestOK, Leads
  <2>5. pc[q] = "registered" => \A k \in Bearers : handles'[k] # on[q]
    <3>1. pc[q] = "registered" => Alone(q) /\ on[q] # NoSession
      BY <2>1 DEF RequestOK, Placed, Correlated, NoSession
    <3> QED
      BY <1>2, <3>1 DEF Alone
  <2>6. pc[q] = "registered" => \A p \in ApiRequests : p # q /\ pc'[p] \in Placed => on'[p] # on[q]
    BY <1>1, <2>1 DEF RequestOK, Alone
  <2> QED
    BY <1>1, <2>1, <2>2, <2>3, <2>4, <2>5, <2>6, Undisturbed
<1> QED
  BY <1>5, <1>6, <1>7 DEF KubeInv

LEMMA KubeGoesOn == ASSUME KubeSound, KubeInv, [KubeNext]_kubeVars PROVE KubeInv'
<1>1. ASSUME NEW r \in ApiRequests, Internal(r) PROVE KubeInv'
  BY <1>1, Proceeds, LooksUp, Sweeps, Registers, Claims, AsksUser, LeaderSteps DEF Internal
<1>2. ASSUME NEW r \in ApiRequests, Approve(r) \/ Quit(r) \/ StreamEnds(r) \/ \E accepted \in BOOLEAN : Respond(r, accepted)
      PROVE  KubeInv'
  BY <1>2, Proceeds, QuitsHeld, LeaderSteps
<1> QED
  BY <1>1, <1>2, WorldSteps DEF KubeNext

LEMMA KubeAlways == ASSUME KubeSound PROVE KubeSpec => []KubeInv
BY KubeBegins, KubeGoesOn, PTL DEF KubeSpec

\* Of any number of requests, sessions and keys: the requests of one client that wait at the same
\* time share a question, unless its session was closed or has aged; the question is there as long
\* as one of them waits for it, and it admits only those it was asked for, whoever goes away, is
\* closed, or sweeps up after others in between (correlated_authorization, join_session, evict).
THEOREM OneQuestionPerClient == ASSUME KubeSound PROVE KubeSpec => []QuestionShared
<1>1. KubeInv => OneQuestion
  <2> SUFFICES ASSUME KubeInv, NEW r \in ApiRequests, NEW q \in ApiRequests, r # q, Bearer[r] = Bearer[q],
                      pc[r] \in Leading, pc[q] \in Leading, Live(on[r]), Live(on[q])
               PROVE  FALSE
    BY DEF OneQuestion, Leading
  <2>1. Leads(r) /\ Leads(q)
    BY DEF KubeInv, RequestOK
  <2> QED
    BY <2>1 DEF Leads
<1>2. KubeInv => QuestionKept
  BY DEF KubeInv, RequestOK, QuestionKept
<1>3. KubeInv => OwnApproval
  BY DEF KubeInv, RequestOK, OwnApproval, Placed, Serving
<1>4. KubeInv => QuestionShared
  BY <1>1, <1>2, <1>3 DEF QuestionShared
<1> QED
  BY <1>4, KubeAlways, PTL

\* A request goes to the cluster with the options its session was admitted with, although an
\* administrator edits the target meanwhile and the clients are shared (get_or_build).
THEOREM OwnClients == ASSUME KubeSound PROVE KubeSpec => []OwnClient
<1>1. KubeInv => OwnClient
  BY DEF KubeInv, RequestOK, OwnClient, Using
<1> QED
  BY <1>1, KubeAlways, PTL

\* No close cuts off a write that has been sent, and of every request that was answered what the
\* audit asks for is on record (end_on_close, audit_events).
THEOREM WritesRunToTheirEnd == ASSUME KubeSound PROVE KubeSpec => []WritesFinish
<1>1. KubeInit => WritesFinish
  BY DEF KubeInit, WritesFinish
<1>2. ASSUME KubeInv, WritesFinish, [KubeNext]_kubeVars PROVE WritesFinish'
  <2>0. pc \in [ApiRequests -> Places] /\ DOMAIN events = ApiRequests
    BY <1>2 DEF KubeInv, KubeTypes
  <2> SUFFICES ASSUME NEW q \in ApiRequests
               PROVE  /\ IsWrite(q) => pc'[q] # "cut"
                      /\ pc'[q] \in {"answered", "streaming"} => EventsOf(q, TRUE) = events'[q] \/ EventsOf(q, FALSE) = events'[q]
    BY DEF WritesFinish, IsWrite, EventsOf
  <2>1. /\ IsWrite(q) => pc[q] # "cut"
        /\ pc[q] \in {"answered", "streaming"} => EventsOf(q, TRUE) = events[q] \/ EventsOf(q, FALSE) = events[q]
    BY <1>2 DEF WritesFinish
  <2>2. CASE events' = events /\ pc'[q] = pc[q]
    BY <2>1, <2>2
  <2>3. ASSUME NEW r \in ApiRequests, Internal(r) \/ Approve(r) \/ Quit(r) \/ StreamEnds(r)
        PROVE  /\ events' = events /\ (pc'[q] # pc[q] => q = r)
               /\ pc'[q] \in {"answered", "streaming"} => pc[q] \in {"answered", "streaming"}
               /\ pc'[q] = "cut" => pc[q] = "cut" \/ ~IsWrite(q)
    <3> DEFINE Elsewhere == {"arrived", "checked", "opening", "joining", "abandoned", "registered", "joined", "failed", "gone"}
                            \cup {"authorizing", "waiting", "admitting", "asking", "entered", "connected", "sent"}
    <3>1. ASSUME NEW to \in Elsewhere, pc' = [pc EXCEPT ![r] = to], events' = events
          PROVE  /\ events' = events /\ (pc'[q] # pc[q] => q = r)
                 /\ pc'[q] \in {"answered", "streaming"} => pc[q] \in {"answered", "streaming"}
                 /\ pc'[q] = "cut" => pc[q] = "cut" \/ ~IsWrite(q)
      BY <2>0, <3>1
    <3>2. CASE Cut(r) \/ StreamEnds(r)
      BY <2>0, <3>2 DEF Cut, Cuttable, StreamEnds, Step, GoTo, upstream
    <3>3. CASE AuthenticateBearer(r) \/ CheckRefusal(r) \/ LookUpEntry(r) \/ SweepEntry(r) \/ Register(r) \/ RegisterFails(r) \/ Claim(r)
      <4>1. events' = events /\ \E to \in Elsewhere : pc' = [pc EXCEPT ![r] = to]
        BY <3>3 DEF AuthenticateBearer, CheckRefusal, LookUpEntry, SweepEntry, Register, RegisterFails, Claim, GoTo, Step, upstream
      <4> QED
        BY <3>1, <4>1
    <3>4. CASE Join(r)
      <4>1. slot[on[r]] \in {"pending", "authorized", "denied"}
        BY <1>2, <3>4 DEF KubeInv, KubeTypes, RequestOK, Join, Placed
      <4>2. events' = events /\ \E to \in Elsewhere : pc' = [pc EXCEPT ![r] = to]
        BY <3>4, <4>1 DEF Join, GoTo, upstream
      <4> QED
        BY <3>1, <4>2
    <3>5. CASE \E refusal \in BOOLEAN : Deny(r, refusal)
      <4>1. events' = events /\ pc' = [pc EXCEPT ![r] = "failed"]
        BY <3>5 DEF Deny, GoTo, upstream
      <4> QED
        BY <3>1, <4>1
    <3>6. CASE AskUser(r) \/ Enter(r) \/ Connect(r) \/ Send(r) \/ Quit(r) \/ Approve(r)
      <4>1. events' = events /\ \E to \in Elsewhere : pc' = [pc EXCEPT ![r] = to]
        BY <3>6 DEF AskUser, Enter, Connect, Send, Quit, Approve, GoTo, upstream
      <4> QED
        BY <3>1, <4>1
    <3>7. CASE events' = events /\ \E to \in {"admitting", "asking", "joined"} : GoTo(r, to)
      BY <3>1, <3>7 DEF GoTo
    <3> QED
      BY <2>3, <3>2, <3>3, <3>4, <3>5, <3>6, <3>7
      DEF Internal, AuthorizeAtOnce, AnswerArrives, RunOut, CancelWait, AdmitSession, Refuse, CancelAdmission, upstream
  <2>4. ASSUME NEW r \in ApiRequests, NEW accepted \in BOOLEAN, Respond(r, accepted)
        PROVE  /\ q # r => events'[q] = events[q] /\ pc'[q] = pc[q]
               /\ q = r => pc'[q] # "cut" /\ (events'[q] = EventsOf(q, TRUE) \/ events'[q] = EventsOf(q, FALSE))
    BY <2>0, <2>4 DEF Respond, GoTo
  <2>5. CASE \E s \in Correlated : UserAnswers(s) \/ Drop(s) \/ Close(s) \/ Age(s)
    BY <2>2, <2>5 DEF UserAnswers, Drop, Close, Age, upstream
  <2>6. CASE \/ \E c \in Credentials : Revoke(c)
             \/ \E k \in DOMAIN handles : ForgetRefusal(k)
             \/ \E t \in TargetsAsked : EditTarget(t)
             \/ VacuumEntries \/ UNCHANGED kubeVars
    BY <2>2, <2>6 DEF Revoke, ForgetRefusal, EditTarget, VacuumEntries, kubeVars, upstream
  <2> QED
    BY <1>2, <2>1, <2>3, <2>4, <2>5, <2>6 DEF KubeNext
<1> QED
  BY <1>1, <1>2, KubeAlways, PTL DEF KubeSpec

-----------------------------------------------------------------------------
(* What users do for themselves.                                           *)

AskRow ==
    [user : Persons, status : {"pending", "approved", "denied"}, duration : Limit,
     ticket : Handlers \cup {None}, old : BOOLEAN]
CredentialKinds == {None} \cup SUBSET {"Password", "Totp"}
Refusals == {"refused", "failed", "notfound", "already", "gone"}
Labels ==
    {"new", "target", "authorize", "pending", "insert", "user", "exists", "decide", "caps",
     "claim", "entered", "upgrade", "delete", "list", "done"} \cup Refusals
Job ==
    [pc : Labels, row : AskRow \cup CredentialKinds, id : Handlers \cup Old \cup {None},
     policy : Settings \cup {None}, target : TargetOptions \cup {None}, access : BOOLEAN,
     duration : Limit, uses : Limit, before : SUBSET (Old \cup Handlers)]

TableTypes ==
    /\ parameters \in Settings /\ target \in TargetOptions \cup {None}
    /\ users \in SUBSET Persons /\ entitled \in [Persons -> BOOLEAN]
TicketTypes ==
    /\ asking \in [Creators -> AskRow \cup {None}]
    /\ ticket \in [Handlers -> TicketRow \cup {None}]
    /\ minted \in SUBSET (Handlers \X Creators) /\ denied \in SUBSET Creators
CredentialTypes ==
    /\ otp \in [Persons -> SUBSET (Old \cup Handlers)]
    /\ password \in [Persons -> SUBSET (Old \cup Handlers)]
    /\ certificate \in [Persons -> SUBSET (Old \cup Handlers)]
    /\ key \in [Old \cup Handlers -> Persons \cup {None}]
    /\ policy \in [Persons -> CredentialKinds]
    /\ locked \in [Persons -> Handlers \cup {None}]
TaskTypes ==
    /\ task \in [Handlers -> Job]
    /\ \A h \in Handlers : Call[h] = "otp" => task[h].row \in CredentialKinds
SelfTypes == TableTypes /\ TicketTypes /\ CredentialTypes /\ TaskTypes /\ edits \in Nat

\* The handler has done what it was called for; it does nothing any more.
HasDone(h) == task[h].pc = "done"

\* What a handler knows of the request it works on and of the limits it has read.
Prepared(h) ==
    LET j == task[h] IN
    /\ Call[h] = "create" =>
        /\ j.pc \in {"target", "authorize", "pending", "insert"} => j.policy \in Settings
        /\ j.pc \in {"authorize", "pending", "insert"} => j.target \in TargetOptions
        /\ j.pc \in {"pending", "insert"}
              => Within(j.duration, Or(j.target.duration, j.policy.duration))
    /\ Call[h] = "activate" =>
        /\ j.pc \in {"target", "caps", "claim"} =>
            /\ j.id \in Creators /\ HasDone(j.id) /\ Who[j.id] = Who[h]
            /\ j.row \in AskRow
            /\ asking[j.id] # None => asking[j.id].duration = j.row.duration
        /\ j.pc \in {"caps", "claim"} => j.target \in TargetOptions
        /\ j.pc = "claim" =>
            /\ j.policy \in Settings
            /\ j.duration = Capped(j.row.duration, Or(j.target.duration, j.policy.duration))
    /\ Call[h] = "approve" /\ j.pc \in {"user", "exists"} => j.id \in Creators
    /\ j.pc = "decide" => j.id \in Creators /\ Call[h] \in {"approve", "deny"}

\* A stored request is its creator's, and a ticket it names is there and is for it.
AskedRight(r) ==
    asking[r] # None =>
        /\ HasDone(r) /\ asking[r].user = Who[r] /\ Who[r] \in users /\ target # None
        /\ asking[r].ticket # None => /\ ticket[asking[r].ticket] # None
                                      /\ ticket[asking[r].ticket].request = r

\* A stored ticket is for the person who asked, and within what was asked and allowed.
TicketRight(k) ==
    ticket[k] # None =>
        /\ HasDone(k) /\ k \in audited
        /\ ticket[k].request \in Creators /\ HasDone(ticket[k].request)
        /\ ticket[k].user = Who[k] /\ Who[ticket[k].request] = Who[k]
        /\ Who[k] \in users /\ target # None
        /\ Within(ticket[k].duration, Or(task[k].target.duration, task[k].policy.duration))
        /\ asking[ticket[k].request] # None
              => Within(ticket[k].duration, asking[ticket[k].request].duration)

\* A request that became a ticket says so for as long as it is stored, so it
\* becomes no other.
MintedRight ==
    /\ \A m \in minted : /\ HasDone(m[2])
                         /\ asking[m[2]] # None => asking[m[2]].ticket # None
    /\ \A m, n \in minted : m[2] = n[2] => m = n

DeniedRight ==
    \A r \in denied : HasDone(r) /\ (asking[r] # None => asking[r].status = "denied")

TicketInv ==
    /\ \A h \in Handlers : Prepared(h)
    /\ \A r \in Creators : AskedRight(r)
    /\ \A k \in Handlers : TicketRight(k)
    /\ MintedRight /\ DeniedRight

\* What a handler that changes credentials relies on: its lock keeps a second factor
\* beside the one it deletes, a certificate is listed before it goes, the passwords
\* from before do not come back, and a key it has found is its user's or gone.
Managed(h) ==
    LET j == task[h]
        u == Who[h] IN
    /\ Call[h] = "otpdelete" /\ j.pc = "delete" =>
        locked[u] = h /\ (j.policy.enforced => \E c \in otp[u] : c # j.id)
    /\ Call[h] = "revoke" /\ j.pc = "delete" => <<u, j.id>> \in revoked
    /\ Call[h] = "password" /\ j.pc \in {"insert", "done"} => password[u] \cap j.before = {}
    /\ Call[h] = "keydelete" /\ j.pc = "delete" =>
        /\ j.id \in Old \cup Handlers /\ key[j.id] \in {None, u}
        /\ j.id \in Handlers => HasDone(j.id)
    /\ \A g \in j.before : g \in Handlers => HasDone(g)

CredentialInv ==
    /\ \A h \in Handlers : Managed(h)
    /\ RevokedIfGone
    /\ \A u \in Persons : \A g \in password[u] : g \in Handlers => HasDone(g)
    /\ \A g \in Handlers : key[g] # None => HasDone(g)

SelfInv == SelfTypes /\ TicketInv /\ CredentialInv

-----------------------------------------------------------------------------
LEMMA SelfBegins == ASSUME SelfSound, SelfInit PROVE SelfInv
<1> USE DEF SelfInit
<1>1. Unread \in Job
  <2>1. "new" \in Labels /\ None \in AskRow \cup CredentialKinds /\ None \in Limit
    BY DEF CredentialKinds, Limit, Labels
  <2> QED
    BY <2>1 DEF Unread, Job
<1>2. TableTypes
  BY DEF TableTypes
<1>3. TicketTypes
  BY DEF TicketTypes
<1>4. CredentialTypes
  BY DEF CredentialTypes, CredentialKinds
<1>5. TaskTypes
  BY <1>1 DEF TaskTypes, Unread, CredentialKinds
<1>6. \A h \in Handlers : task[h] = Unread
  OBVIOUS
<1>7. \A h \in Handlers : Prepared(h)
  BY <1>6 DEF Prepared, Unread
<1>8. TicketInv
  BY <1>7 DEF TicketInv, AskedRight, TicketRight, MintedRight, DeniedRight, Creators
<1>9. \A h \in Handlers : Managed(h)
  BY <1>6 DEF Managed, Unread
<1>10. CredentialInv
  BY <1>9 DEF CredentialInv, RevokedIfGone, SelfSound
<1> QED
  BY <1>2, <1>3, <1>4, <1>5, <1>8, <1>10 DEF SelfInv, SelfTypes

-----------------------------------------------------------------------------
\* What a step of one handler does to the tasks.
Moves(h, j) == h \in Handlers /\ j \in Job /\ task' = [task EXCEPT ![h] = j]

LEMMA OneMoves ==
    ASSUME TaskTypes, NEW h, NEW j, Moves(h, j), task[h].pc # "done"
    PROVE  /\ task'[h] = j
           /\ \A g \in Handlers : g # h => task'[g] = task[g]
           /\ \A g \in Handlers : HasDone(g) => HasDone(g)' /\ task'[g] = task[g]
BY DEF TaskTypes, Moves, HasDone

LEMMA TaskTyped ==
    ASSUME TaskTypes, NEW h, NEW j, Moves(h, j), Call[h] = "otp" => j.row \in CredentialKinds
    PROVE  TaskTypes'
BY DEF TaskTypes, Moves

LEMMA TicketFrame ==
    ASSUME TaskTypes, TicketTypes, TicketInv, NEW h, NEW j, Moves(h, j), task[h].pc # "done",
           UNCHANGED <<tables, tickets, history>>, Prepared(h)'
    PROVE  TicketInv'
<1>0. /\ Creators \subseteq Handlers
      /\ h \in Handlers
  BY DEF Creators, Moves
<1>1. /\ UNCHANGED <<target, users, asking, ticket, minted, denied, audited>>
      /\ \A g \in Handlers : g # h => task'[g] = task[g]
      /\ \A g \in Handlers : HasDone(g) => HasDone(g)' /\ task'[g] = task[g]
  BY OneMoves DEF tables, tickets, history
<1>2. ASSUME NEW g \in Handlers PROVE Prepared(g)'
  <2>1. CASE g = h
    BY <2>1
  <2>2. CASE g # h
    BY <2>2, <1>0, <1>1 DEF Prepared, TicketInv, Within, Or, Capped
  <2> QED
    BY <2>1, <2>2
<1>3. ASSUME NEW r \in Creators PROVE AskedRight(r)'
  BY <1>0, <1>1 DEF TicketInv, AskedRight
<1>4. ASSUME NEW k \in Handlers PROVE TicketRight(k)'
  BY <1>0, <1>1 DEF TicketInv, TicketRight, Within, Or
<1>5. MintedRight' /\ DeniedRight'
  BY <1>0, <1>1 DEF TicketInv, MintedRight, DeniedRight, TicketTypes
<1> QED
  BY <1>2, <1>3, <1>4, <1>5 DEF TicketInv

LEMMA CredentialFrame ==
    ASSUME TaskTypes, CredentialTypes, CredentialInv, NEW h, NEW j, Moves(h, j),
           task[h].pc # "done", UNCHANGED <<users, ownCredentials, locked>>, Managed(h)'
    PROVE  CredentialInv'
<1>1. /\ UNCHANGED <<users, otp, password, key, certificate, revoked, locked>>
      /\ \A g \in Handlers : g # h => task'[g] = task[g]
      /\ \A g \in Handlers : HasDone(g) => HasDone(g)' /\ task'[g] = task[g]
  BY OneMoves DEF ownCredentials
<1>2. ASSUME NEW g \in Handlers PROVE Managed(g)'
  <2>1. CASE g = h
    BY <2>1
  <2>2. CASE g # h
    BY <2>2, <1>1 DEF Managed, CredentialInv
  <2> QED
    BY <2>1, <2>2
<1>3. RevokedIfGone'
  BY <1>1 DEF RevokedIfGone, CredentialInv
<1> QED
  BY <1>1, <1>2, <1>3 DEF CredentialInv
-----------------------------------------------------------------------------
(* Steps that read, and answers.                                           *)

LEMMA TypesFrame ==
    ASSUME SelfTypes, UNCHANGED <<tables, tickets, ownCredentials, locked, edits, history>>,
           TaskTypes'
    PROVE  SelfTypes'
BY DEF SelfTypes, TableTypes, TicketTypes, CredentialTypes, tables, tickets, ownCredentials,
       history

LEMMA Reads ==
    ASSUME SelfInv, NEW h, NEW j, Moves(h, j), task[h].pc # "done",
           Call[h] = "otp" => j.row \in CredentialKinds,
           UNCHANGED <<tables, tickets, ownCredentials, locked, edits, history>>,
           Prepared(h)', Managed(h)'
    PROVE  SelfInv'
<1>1. TaskTypes' /\ SelfTypes'
  BY TaskTyped, TypesFrame DEF SelfInv, SelfTypes
<1>2. TicketInv'
  BY TicketFrame DEF SelfInv, SelfTypes
<1>3. UNCHANGED <<users, ownCredentials, locked>>
  BY DEF tables
<1>4. CredentialInv'
  BY <1>3, CredentialFrame DEF SelfInv, SelfTypes
<1> QED
  BY <1>1, <1>2, <1>4 DEF SelfInv

\* What an answer, or any step that leaves the passwords from before alone, keeps.
LEMMA KeepsBefore ==
    ASSUME SelfInv, NEW h, NEW j, Moves(h, j), task[h].pc # "done",
           j.before = task[h].before
    PROVE  \A g \in task'[h].before : g \in Handlers => HasDone(g)'
<1>1. h \in Handlers /\ task'[h] = j /\ \A g \in Handlers : HasDone(g) => HasDone(g)'
  BY OneMoves DEF SelfInv, SelfTypes, Moves
<1>2. Managed(h)
  BY <1>1 DEF SelfInv, CredentialInv
<1> QED
  BY <1>1, <1>2 DEF Managed

LEMMA Typed ==
    ASSUME SelfInv, NEW h \in Handlers, NEW p \in Labels
    PROVE  /\ [task[h] EXCEPT !.pc = p] \in Job
           /\ [task[h] EXCEPT !.pc = p].pc = p
           /\ [task[h] EXCEPT !.pc = p].before = task[h].before
           /\ [task[h] EXCEPT !.pc = p].row = task[h].row
           /\ [task[h] EXCEPT !.pc = p].id = task[h].id
           /\ [task[h] EXCEPT !.pc = p].policy = task[h].policy
           /\ [task[h] EXCEPT !.pc = p].target = task[h].target
           /\ [task[h] EXCEPT !.pc = p].duration = task[h].duration
           /\ [task[h] EXCEPT !.pc = p].uses = task[h].uses
           /\ Call[h] = "otp" => [task[h] EXCEPT !.pc = p].row \in CredentialKinds
BY DEF SelfInv, SelfTypes, TaskTypes, Job

LEMMA Refuses ==
    ASSUME SelfInv, NEW h \in Handlers, NEW p \in Refusals, Reply(h, p), task[h].pc # "done",
           UNCHANGED <<tables, tickets, ownCredentials, locked, edits, history>>
    PROVE  SelfInv'
<1> DEFINE j == [task[h] EXCEPT !.pc = p]
<1>0. p \in Labels
  BY DEF Labels
<1>1. /\ j \in Job /\ j.pc = p /\ j.before = task[h].before
      /\ Call[h] = "otp" => j.row \in CredentialKinds
  BY <1>0, Typed
<1>2. Moves(h, j)
  BY <1>1 DEF Moves, Reply, Goto
<1>3. task'[h] = j
  BY <1>2, OneMoves DEF SelfInv, SelfTypes
<1> HIDE DEF j
<1>4. Prepared(h)'
  BY <1>1, <1>3 DEF Prepared, Refusals
<1>5. Managed(h)'
  BY <1>1, <1>2, <1>3, KeepsBefore DEF Managed, Refusals
<1> QED
  BY <1>1, <1>2, <1>4, <1>5, Reads
\* A step on a request for a ticket that changes nothing but the task.
LEMMA Advances ==
    ASSUME SelfInv, NEW h \in Handlers, NEW j \in Job, Goto(h, j), task[h].pc # "done",
           Call[h] \notin Managing, j.before = task[h].before,
           UNCHANGED <<tables, tickets, ownCredentials, locked, edits, history>>,
           task'[h] = j => Prepared(h)'
    PROVE  SelfInv'
<1>1. Moves(h, j)
  BY DEF Moves, Goto
<1>2. task'[h] = j
  BY <1>1, OneMoves DEF SelfInv, SelfTypes
<1>3. Managed(h)'
  BY <1>1, <1>2, KeepsBefore DEF Managed, Managing
<1> QED
  BY <1>1, <1>2, <1>3, Reads DEF Managing

-----------------------------------------------------------------------------
(* A request is created.                                                   *)

LEMMA ReadsPolicy == ASSUME SelfSound, SelfInv, NEW h \in Handlers, ReadPolicy(h) PROVE SelfInv'
<1>0. /\ Call[h] = "create" /\ task[h].pc = "new"
      /\ UNCHANGED <<tables, tickets, ownCredentials, locked, edits, history>>
  BY DEF ReadPolicy, Is
<1>1. CASE Reply(h, "refused")
  BY <1>0, <1>1, Refuses DEF Refusals
<1>2. ASSUME NEW d \in Durations,
             Goto(h, [task[h] EXCEPT !.pc = "target", !.policy = parameters, !.duration = d])
      PROVE  SelfInv'
  <2> DEFINE j == [task[h] EXCEPT !.pc = "target", !.policy = parameters, !.duration = d]
  <2>1. /\ task[h] \in Job /\ parameters \in Settings /\ d \in Limit /\ "target" \in Labels
    BY DEF SelfInv, SelfTypes, TaskTypes, TableTypes, SelfSound, Labels
  <2>2. /\ j \in Job /\ j.pc = "target" /\ j.policy = parameters /\ j.before = task[h].before
    BY <2>1 DEF Job
  <2>3. Goto(h, j)
    BY <1>2, <2>2 DEF Goto
  <2> HIDE DEF j
  <2>4. ASSUME task'[h] = j PROVE Prepared(h)'
    BY <1>0, <2>1, <2>2, <2>4 DEF Prepared
  <2> QED
    BY <1>0, <2>2, <2>3, <2>4, Advances DEF Managing
<1> QED
  BY <1>1, <1>2 DEF ReadPolicy

LEMMA ReadsTarget == ASSUME SelfSound, SelfInv, NEW h \in Handlers, ReadTarget(h) PROVE SelfInv'
<1>0. /\ Call[h] = "create" /\ task[h].pc = "target"
      /\ UNCHANGED <<tables, tickets, ownCredentials, locked, edits, history>>
      /\ task[h] \in Job /\ "authorize" \in Labels /\ Prepared(h)
      /\ target \in TargetOptions \cup {None}
  BY DEF ReadTarget, Is, SelfInv, SelfTypes, TaskTypes, TableTypes, Labels, TicketInv
<1>1. CASE target = None
  BY <1>0, <1>1, Refuses DEF Refusals, ReadTarget
<1>2. CASE target # None
  <2> DEFINE j == [task[h] EXCEPT !.pc = "authorize", !.target = target]
  <2>2. /\ j \in Job /\ j.pc = "authorize" /\ j.target = target /\ j.policy = task[h].policy
        /\ j.before = task[h].before
    BY <1>0 DEF Job
  <2>3. Goto(h, j)
    BY <1>2, <2>2 DEF Goto, ReadTarget
  <2> HIDE DEF j
  <2>4. ASSUME task'[h] = j PROVE Prepared(h)'
    BY <1>0, <1>2, <2>2, <2>4 DEF Prepared
  <2> QED
    BY <1>0, <2>2, <2>3, <2>4, Advances DEF Managing
<1> QED
  BY <1>1, <1>2

LEMMA Authorizes == ASSUME SelfSound, SelfInv, NEW h \in Handlers, Authorize(h) PROVE SelfInv'
<1> DEFINE p == task[h].policy
           t == task[h].target
           asked == task[h].duration
           cap == Or(t.duration, p.duration)
           d == IF asked = None THEN cap ELSE asked
           j == [task[h] EXCEPT !.pc = "pending", !.access = entitled[Who[h]],
                                !.duration = d, !.uses = Or(t.uses, p.uses)]
<1>0. /\ Call[h] = "create" /\ task[h].pc = "authorize"
      /\ UNCHANGED <<tables, tickets, ownCredentials, locked, edits, history>>
      /\ Reply(h, "refused") \/ (Goto(h, j) /\ (asked = None \/ Within(asked, cap)))
  BY DEF Authorize, Is
<1>1. CASE Reply(h, "refused")
  BY <1>0, <1>1, Refuses DEF Refusals
<1>2. CASE Goto(h, j) /\ (asked = None \/ Within(asked, cap))
  <2>0. /\ task[h] \in Job /\ "pending" \in Labels /\ Prepared(h)
        /\ entitled[Who[h]] \in BOOLEAN
    BY DEF SelfInv, SelfTypes, TaskTypes, TableTypes, Labels, TicketInv, SelfSound
  <2>1. p \in Settings /\ t \in TargetOptions
    BY <1>0, <2>0 DEF Prepared
  <2>2. /\ cap \in Limit /\ Or(t.uses, p.uses) \in Limit /\ asked \in Limit /\ d \in Limit
    BY <2>0, <2>1 DEF SelfSound, Or, Job
  <2>3. Within(d, cap)
    BY <1>2, <2>2 DEF Within, Limit
  <2> HIDE DEF d, cap
  <2>4. /\ j \in Job /\ j.pc = "pending" /\ j.target = t /\ j.policy = p /\ j.duration = d
        /\ j.before = task[h].before
    BY <2>0, <2>2 DEF Job
  <2>5. Goto(h, j)
    BY <1>2, <2>4 DEF Goto
  <2> HIDE DEF j
  <2>6. ASSUME task'[h] = j PROVE Prepared(h)'
    BY <1>0, <2>1, <2>3, <2>4, <2>6 DEF Prepared, cap
  <2> QED
    BY <1>0, <2>4, <2>5, <2>6, Advances DEF Managing
<1> QED
  BY <1>0, <1>1, <1>2

LEMMA CountsPending == ASSUME SelfSound, SelfInv, NEW h \in Handlers, CountPending(h) PROVE SelfInv'
<1>0. /\ Call[h] = "create" /\ task[h].pc = "pending"
      /\ UNCHANGED <<tables, tickets, ownCredentials, locked, edits, history>>
      /\ Reply(h, "refused") \/ Reply(h, "insert")
      /\ Prepared(h)
  BY DEF CountPending, Is, SelfInv, TicketInv
<1>1. CASE Reply(h, "refused")
  BY <1>0, <1>1, Refuses DEF Refusals
<1>2. CASE Reply(h, "insert")
  <2> DEFINE j == [task[h] EXCEPT !.pc = "insert"]
  <2>1. "insert" \in Labels
    BY DEF Labels
  <2>2. /\ j \in Job /\ j.pc = "insert" /\ j.before = task[h].before
        /\ j.policy = task[h].policy /\ j.target = task[h].target /\ j.duration = task[h].duration
    BY <2>1, Typed
  <2>3. Goto(h, j)
    BY <1>2, <2>2 DEF Reply, Goto
  <2> HIDE DEF j
  <2>4. ASSUME task'[h] = j PROVE Prepared(h)'
    BY <1>0, <2>2, <2>4 DEF Prepared
  <2> QED
    BY <1>0, <2>2, <2>3, <2>4, Advances DEF Managing
<1> QED
  BY <1>0, <1>1, <1>2
-----------------------------------------------------------------------------
(* A request is decided on, and an approved one is looked up.              *)

LEMMA ReadsPending == ASSUME SelfSound, SelfInv, NEW h \in Handlers, ReadPending(h) PROVE SelfInv'
<1>0. /\ Call[h] \in {"approve", "deny"} /\ task[h].pc = "new"
      /\ UNCHANGED <<tables, tickets, ownCredentials, locked, edits, history>>
      /\ task[h] \in Job /\ Creators \subseteq Handlers
  BY DEF ReadPending, SelfInv, SelfTypes, TaskTypes, Creators
<1>1. PICK r \in Creators :
        /\ asking[r] # None
        /\ IF asking[r].status = "pending"
           THEN Goto(h, [task[h] EXCEPT !.pc = IF Call[h] = "deny" THEN "decide" ELSE "user",
                                        !.id = r, !.row = asking[r]])
           ELSE Reply(h, "notfound")
  BY DEF ReadPending
<1>2. CASE Reply(h, "notfound")
  BY <1>0, <1>2, Refuses DEF Refusals
<1>3. CASE asking[r].status = "pending"
  <2> DEFINE p == IF Call[h] = "deny" THEN "decide" ELSE "user"
             j == [task[h] EXCEPT !.pc = p, !.id = r, !.row = asking[r]]
  <2>1. p \in Labels /\ p \in {"decide", "user"} /\ asking[r] \in AskRow
    BY <1>1 DEF Labels, SelfInv, SelfTypes, TicketTypes
  <2>2. Goto(h, j)
    BY <1>1, <1>3
  <2> HIDE DEF p
  <2>3. j \in Job /\ j.pc = p /\ j.id = r /\ j.before = task[h].before
    BY <1>0, <2>1 DEF Job
  <2> HIDE DEF j
  <2>4. ASSUME task'[h] = j PROVE Prepared(h)'
    BY <1>0, <2>1, <2>3, <2>4 DEF Prepared
  <2> QED
    BY <1>0, <2>2, <2>3, <2>4, Advances DEF Managing
<1> QED
  BY <1>1, <1>2, <1>3

LEMMA ChecksExistence ==
    ASSUME SelfSound, SelfInv, NEW h \in Handlers, UserExists(h) \/ TargetExists(h)
    PROVE  SelfInv'
<1>0. /\ Call[h] = "approve" /\ task[h].pc \in {"user", "exists"}
      /\ UNCHANGED <<tables, tickets, ownCredentials, locked, edits, history>>
      /\ task[h] \in Job /\ Prepared(h)
  BY DEF UserExists, TargetExists, Is, SelfInv, SelfTypes, TaskTypes, TicketInv
<1>1. PICK p \in {"failed", "exists", "decide"} : Reply(h, p)
  BY DEF UserExists, TargetExists
<1>2. CASE p = "failed"
  BY <1>0, <1>1, <1>2, Refuses DEF Refusals
<1>3. CASE p \in {"exists", "decide"}
  <2> DEFINE j == [task[h] EXCEPT !.pc = p]
  <2>1. p \in Labels
    BY <1>3 DEF Labels
  <2>2. j \in Job /\ j.pc = p /\ j.id = task[h].id /\ j.before = task[h].before
    BY <2>1, Typed
  <2>3. Goto(h, j)
    BY <1>1 DEF Reply
  <2> HIDE DEF j
  <2>4. ASSUME task'[h] = j PROVE Prepared(h)'
    BY <1>0, <2>2, <2>4 DEF Prepared
  <2> QED
    BY <1>0, <2>2, <2>3, <2>4, Advances DEF Managing
<1> QED
  BY <1>2, <1>3

LEMMA ReadsRequest == ASSUME SelfSound, SelfInv, NEW h \in Handlers, ReadRequest(h) PROVE SelfInv'
<1>0. /\ Call[h] = "activate" /\ task[h].pc = "new"
      /\ UNCHANGED <<tables, tickets, ownCredentials, locked, edits, history>>
      /\ task[h] \in Job /\ Creators \subseteq Handlers
  BY DEF ReadRequest, Is, SelfInv, SelfTypes, TaskTypes, Creators
<1>1. PICK r \in Creators :
        IF Who[h] \in users /\ Activatable(h, r)
        THEN Goto(h, [task[h] EXCEPT !.pc = IF asking[r].ticket # None THEN "already" ELSE "target",
                                     !.id = r, !.row = asking[r]])
        ELSE Reply(h, "notfound")
  BY DEF ReadRequest
<1>2. CASE Reply(h, "notfound")
  BY <1>0, <1>2, Refuses DEF Refusals
<1>3. CASE Who[h] \in users /\ Activatable(h, r)
  <2> DEFINE p == IF asking[r].ticket # None THEN "already" ELSE "target"
             j == [task[h] EXCEPT !.pc = p, !.id = r, !.row = asking[r]]
  <2>1. /\ p \in Labels /\ p \in {"already", "target"} /\ asking[r] \in AskRow
        /\ asking[r] # None /\ asking[r].user = Who[h] /\ AskedRight(r)
    BY <1>3 DEF Labels, Refusals, SelfInv, SelfTypes, TicketTypes, Activatable, TicketInv
  <2>2. Goto(h, j)
    BY <1>1, <1>3
  <2>3. HasDone(r) /\ Who[r] = Who[h] /\ r # h
    BY <1>0, <2>1 DEF AskedRight, HasDone
  <2> HIDE DEF p
  <2>4. j \in Job /\ j.pc = p /\ j.id = r /\ j.row = asking[r] /\ j.before = task[h].before
    BY <1>0, <2>1 DEF Job
  <2>5. HasDone(r)'
    BY <1>0, <2>2, <2>3 DEF HasDone, Goto, SelfInv, SelfTypes, TaskTypes
  <2>6. asking' = asking
    BY <1>0 DEF tickets
  <2> HIDE DEF j
  <2>7. ASSUME task'[h] = j PROVE Prepared(h)'
    BY <1>0, <2>1, <2>3, <2>4, <2>5, <2>6, <2>7 DEF Prepared
  <2> QED
    BY <1>0, <2>2, <2>4, <2>7, Advances DEF Managing
<1> QED
  BY <1>1, <1>2, <1>3

\* What an activation knows stays true while it goes on.
LEMMA StillPrepared ==
    ASSUME SelfInv, NEW h \in Handlers, NEW j \in Job, Goto(h, j), Call[h] = "activate",
           task[h].pc \in {"target", "caps", "claim"}, j.id = task[h].id, j.row = task[h].row,
           asking' = asking, task'[h] = j
    PROVE  /\ j.id \in Creators /\ HasDone(j.id)' /\ Who[j.id] = Who[h] /\ j.row \in AskRow
           /\ asking'[j.id] # None => asking'[j.id].duration = j.row.duration
<1>1. Prepared(h) /\ task \in [Handlers -> Job] /\ Creators \subseteq Handlers
  BY DEF SelfInv, SelfTypes, TaskTypes, TicketInv, Creators
<1>2. /\ j.id \in Creators /\ HasDone(j.id) /\ Who[j.id] = Who[h] /\ j.row \in AskRow
      /\ asking[j.id] # None => asking[j.id].duration = j.row.duration
  BY <1>1 DEF Prepared
<1>3. j.id # h
  BY <1>2 DEF HasDone
<1> QED
  BY <1>1, <1>2, <1>3 DEF Goto, HasDone

LEMMA ReadsActivationTarget ==
    ASSUME SelfSound, SelfInv, NEW h \in Handlers, ReadActivationTarget(h) PROVE SelfInv'
<1>0. /\ Call[h] = "activate" /\ task[h].pc = "target"
      /\ UNCHANGED <<tables, tickets, ownCredentials, locked, edits, history>>
      /\ task[h] \in Job /\ "caps" \in Labels /\ target \in TargetOptions \cup {None}
  BY DEF ReadActivationTarget, Is, SelfInv, SelfTypes, TaskTypes, TableTypes, Labels
<1>1. CASE target = None
  BY <1>0, <1>1, Refuses DEF Refusals, ReadActivationTarget
<1>2. CASE target # None
  <2> DEFINE j == [task[h] EXCEPT !.pc = "caps", !.target = target]
  <2>2. /\ j \in Job /\ j.pc = "caps" /\ j.target = target /\ j.id = task[h].id
        /\ j.row = task[h].row /\ j.before = task[h].before
    BY <1>0 DEF Job
  <2>3. Goto(h, j) /\ asking' = asking
    BY <1>0, <1>2, <2>2 DEF ReadActivationTarget, tickets
  <2> HIDE DEF j
  <2>4. ASSUME task'[h] = j PROVE Prepared(h)'
    BY <1>0, <1>2, <2>2, <2>3, <2>4, StillPrepared DEF Prepared
  <2> QED
    BY <1>0, <2>2, <2>3, <2>4, Advances DEF Managing
<1> QED
  BY <1>1, <1>2

LEMMA ReadsCaps == ASSUME SelfSound, SelfInv, NEW h \in Handlers, ReadCaps(h) PROVE SelfInv'
<1> DEFINE t == task[h].target
           cap == Or(t.duration, parameters.duration)
           d == Capped(task[h].row.duration, cap)
           j == [task[h] EXCEPT !.pc = "claim", !.policy = parameters, !.duration = d,
                                !.uses = Or(t.uses, parameters.uses)]
<1>0. /\ Call[h] = "activate" /\ task[h].pc = "caps"
      /\ UNCHANGED <<tables, tickets, ownCredentials, locked, edits, history>>
      /\ Goto(h, j) /\ asking' = asking
  BY DEF ReadCaps, Is, tickets
<1>1. /\ task[h] \in Job /\ "claim" \in Labels /\ parameters \in Settings /\ Prepared(h)
  BY DEF SelfInv, SelfTypes, TaskTypes, TableTypes, Labels, TicketInv
<1>2. t \in TargetOptions /\ task[h].row \in AskRow
  BY <1>0, <1>1 DEF Prepared
<1>3. cap \in Limit /\ Or(t.uses, parameters.uses) \in Limit /\ task[h].row.duration \in Limit
  BY <1>1, <1>2 DEF SelfSound, Or, AskRow
<1>4. d \in Limit
  BY <1>3 DEF Capped, Or
<1> HIDE DEF d, cap
<1>5. /\ j \in Job /\ j.pc = "claim" /\ j.policy = parameters /\ j.target = t
      /\ j.id = task[h].id /\ j.row = task[h].row /\ j.duration = d /\ j.before = task[h].before
  BY <1>1, <1>3, <1>4 DEF Job
<1> HIDE DEF j
<1>6. ASSUME task'[h] = j PROVE Prepared(h)'
  BY <1>0, <1>1, <1>2, <1>5, <1>6, StillPrepared DEF Prepared, d, cap
<1> QED
  BY <1>0, <1>5, <1>6, Advances DEF Managing
-----------------------------------------------------------------------------
(* Requests and tickets are written.                                       *)

\* The credentials, when a handler for tickets takes a step.
LEMMA CredentialsAside ==
    ASSUME SelfInv, NEW h \in Handlers, NEW j \in Job, Goto(h, j), task[h].pc # "done",
           Call[h] \notin Managing, j.before = task[h].before,
           UNCHANGED <<users, ownCredentials, locked>>
    PROVE  CredentialInv' /\ TaskTypes' /\ CredentialTypes'
<1>1. Moves(h, j)
  BY DEF Moves, Goto
<1>2. task'[h] = j
  BY <1>1, OneMoves DEF SelfInv, SelfTypes
<1>3. Managed(h)'
  BY <1>1, <1>2, KeepsBefore DEF Managed, Managing
<1>4. CredentialInv'
  BY <1>1, <1>3, CredentialFrame DEF SelfInv, SelfTypes
<1>5. TaskTypes'
  BY <1>1, TaskTyped DEF SelfInv, SelfTypes, Managing
<1>6. CredentialTypes'
  BY DEF SelfInv, SelfTypes, CredentialTypes, ownCredentials
<1> QED
  BY <1>4, <1>5, <1>6

LEMMA CappedLimits ==
    ASSUME SelfSound, NEW a \in Limit, NEW c \in Limit
    PROVE  Within(Capped(a, c), a) /\ Within(Capped(a, c), c) /\ Capped(a, c) \in Limit
BY DEF SelfSound, Limit, Within, Capped, Or

LEMMA WithinItself == ASSUME SelfSound, NEW a \in Limit PROVE Within(a, a)
BY DEF SelfSound, Limit, Within

LEMMA InsertsOrNot == ASSUME SelfSound, SelfInv, NEW h \in Handlers, Insert(h) PROVE SelfInv'
<1> DEFINE u == Who[h]
           d == task[h].duration
           auto == task[h].access /\ task[h].policy.auto /\ ~task[h].target.approval
           j == [task[h] EXCEPT !.pc = "done"]
           x == Ticket(h, u, d, task[h].uses)
<1>0. /\ Call[h] = "create" /\ task[h].pc = "insert" /\ h \in Creators
      /\ UNCHANGED <<tables, ownCredentials, locked, edits, denied>>
      /\ task[h] \in Job /\ Prepared(h) /\ "done" \in Labels /\ Creators \subseteq Handlers
  BY DEF Insert, Is, Creators, SelfInv, SelfTypes, TaskTypes, TicketInv, Labels
<1>1. CASE Reply(h, "failed") /\ UNCHANGED <<tickets, minted, audited>>
  BY <1>0, <1>1, Refuses DEF Refusals, history
<1>2. CASE Referenced(u) /\ Reply(h, "done")
  <2>1. /\ j \in Job /\ j.pc = "done" /\ j.before = task[h].before
        /\ j.policy = task[h].policy /\ j.target = task[h].target
    BY <1>0, Typed
  <2>2. Goto(h, j)
    BY <1>2 DEF Reply
  <2> HIDE DEF j
  <2>3. /\ UNCHANGED <<users, ownCredentials, locked>> /\ target' = target /\ denied' = denied
        /\ u \in users /\ target # None /\ u \in Persons
    BY <1>0, <1>2 DEF tables, Referenced, SelfSound
  <2>4. CredentialInv' /\ TaskTypes' /\ CredentialTypes'
    BY <1>0, <2>1, <2>2, <2>3, CredentialsAside DEF Managing
  <2>5. /\ task'[h] = j /\ HasDone(h)' /\ ~HasDone(h)
        /\ \A g \in Handlers : g # h => task'[g] = task[g]
        /\ \A g \in Handlers : HasDone(g) => HasDone(g)' /\ g # h
    BY <1>0, <2>1, <2>2 DEF Goto, HasDone, SelfInv, SelfTypes, TaskTypes
  <2>6. d \in Limit /\ task[h].uses \in Limit /\ Within(d, d)
    BY <1>0, WithinItself DEF Job
  <2>7. x \in TicketRow /\ x # None /\ x.request = h /\ x.user = u /\ x.duration = d
    <3>1. x \in TicketRow /\ x.request = h /\ x.user = u /\ x.duration = d
      BY <2>3, <2>6 DEF Ticket, TicketRow
    <3> QED
      BY <3>1 DEF SelfSound
  <2>8. PICK k \in {None, h}, s \in {"approved", "pending"} :
            /\ asking' = [asking EXCEPT ![h] = Row(u, s, d, k)]
            /\ k = h => ticket' = [ticket EXCEPT ![h] = x] /\ minted' = minted \cup {<<h, h>>}
            /\ k = None => ticket' = ticket /\ minted' = minted
            /\ audited \subseteq audited' /\ (k = h => h \in audited')
    <3>1. CASE /\ ticket' = [ticket EXCEPT ![h] = x]
               /\ asking' = [asking EXCEPT ![h] = Row(u, "approved", d, h)]
               /\ minted' = minted \cup {<<h, h>>} /\ audited' = audited \cup {h}
      BY <3>1 DEF SelfSound
    <3>2. CASE /\ asking' = [asking EXCEPT ![h] = Row(u, "pending", d, None)]
               /\ UNCHANGED <<ticket, minted, audited>>
      BY <3>2 DEF SelfSound
    <3> QED
      BY <1>2, <3>1, <3>2 DEF Insert
  <2> DEFINE y == Row(u, s, d, k)
  <2> HIDE DEF x
  <2>9. y \in AskRow /\ y.user = u /\ y.duration = d /\ y.ticket = k
    BY <2>3, <2>6 DEF Row, AskRow
  <2> HIDE DEF y
  <2>10. /\ asking \in [Creators -> AskRow \cup {None}] /\ ticket \in [Handlers -> TicketRow \cup {None}]
         /\ minted \in SUBSET (Handlers \X Creators) /\ denied \in SUBSET Creators
    BY DEF SelfInv, SelfTypes, TicketTypes
  <2>11. /\ asking'[h] = y /\ \A r \in Creators : r # h => asking'[r] = asking[r]
         /\ \A g \in Handlers : g # h => ticket'[g] = ticket[g]
         /\ k = h => ticket'[h] = x
         /\ k = None => ticket'[h] = ticket[h]
    BY <1>0, <2>8, <2>10 DEF y, SelfSound
  <2>12. TicketTypes'
    BY <1>0, <2>3, <2>7, <2>8, <2>9, <2>10 DEF TicketTypes, y, SelfSound
  <2>13. ASSUME NEW g \in Handlers PROVE Prepared(g)'
    <3>1. CASE g = h
      BY <1>0, <2>1, <2>5, <3>1 DEF Prepared
    <3>2. CASE g # h
      <4>1. Prepared(g) /\ task'[g] = task[g]
        BY <2>5, <3>2 DEF SelfInv, TicketInv
      <4> QED
        BY <1>0, <2>5, <2>11, <4>1 DEF Prepared, Within, Or, Capped
    <3> QED
      BY <3>1, <3>2
  <2>14. ticket[h] = None /\ \A m \in minted : m[2] # h
    BY <2>5, <2>10, <1>0 DEF SelfInv, TicketInv, TicketRight, MintedRight
  <2>15. ASSUME NEW r \in Creators PROVE AskedRight(r)'
    <3>1. CASE r = h
      BY <2>3, <2>5, <2>7, <2>9, <2>11, <3>1 DEF AskedRight, SelfSound
    <3>2. CASE r # h
      <4>1. AskedRight(r) /\ asking'[r] = asking[r]
        BY <2>11, <3>2 DEF SelfInv, TicketInv
      <4>2. ASSUME asking[r] # None, asking[r].ticket # None
            PROVE  asking[r].ticket \in Handlers /\ asking[r].ticket # h
        BY <4>1, <4>2, <2>10, <2>14 DEF AskedRight, AskRow
      <4> QED
        BY <1>0, <2>3, <2>5, <2>11, <4>1, <4>2 DEF AskedRight
    <3> QED
      BY <3>1, <3>2
  <2>16. ASSUME NEW g \in Handlers PROVE TicketRight(g)'
    <3>1. CASE g = h
      <4>1. CASE k = h
        <5>1. Within(d, Or(j.target.duration, j.policy.duration))
          BY <1>0, <2>1 DEF Prepared
        <5> QED
          BY <1>0, <2>3, <2>5, <2>6, <2>7, <2>8, <2>9, <2>11, <3>1, <4>1, <5>1
          DEF TicketRight
      <4>2. CASE k = None
        BY <2>11, <2>14, <3>1, <4>2 DEF TicketRight
      <4> QED
        BY <4>1, <4>2
    <3>2. CASE g # h
      <4>1. TicketRight(g) /\ ticket'[g] = ticket[g] /\ task'[g] = task[g]
        BY <2>5, <2>11, <3>2 DEF SelfInv, TicketInv
      <4>2. ASSUME ticket[g] # None
            PROVE  /\ ticket[g].request \in Creators /\ ticket[g].request # h
                   /\ asking'[ticket[g].request] = asking[ticket[g].request]
        BY <4>1, <4>2, <2>5, <2>11 DEF TicketRight
      <4> QED
        BY <1>0, <2>3, <2>5, <2>8, <4>1, <4>2 DEF TicketRight
    <3> QED
      BY <3>1, <3>2
  <2>17. MintedRight'
    <3>1. MintedRight /\ (minted' = minted \/ (k = h /\ minted' = minted \cup {<<h, h>>}))
      BY <2>8 DEF SelfInv, TicketInv
    <3>2. ASSUME NEW m \in minted'
          PROVE HasDone(m[2])' /\ (asking'[m[2]] # None => asking'[m[2]].ticket # None)
      <4>1. CASE m \in minted
        BY <1>0, <4>1, <3>1, <2>5, <2>10, <2>11, <2>14 DEF MintedRight
      <4>2. CASE m = <<h, h>> /\ k = h
        BY <4>2, <2>5, <2>9, <2>11 DEF SelfSound
      <4> QED
        BY <3>1, <3>2, <4>1, <4>2
    <3>3. ASSUME NEW m \in minted', NEW n \in minted', m[2] = n[2] PROVE m = n
      BY <3>1, <3>3, <2>14 DEF MintedRight
    <3> QED
      BY <3>2, <3>3 DEF MintedRight
  <2>18. DeniedRight'
    BY <1>0, <2>3, <2>5, <2>10, <2>11 DEF SelfInv, TicketInv, DeniedRight
  <2>19. TableTypes' /\ edits' \in Nat
    BY <1>0 DEF SelfInv, SelfTypes, TableTypes, tables
  <2> QED
    BY <2>4, <2>12, <2>13, <2>15, <2>16, <2>17, <2>18, <2>19 DEF SelfInv, SelfTypes, TicketInv
<1> QED
  BY <1>1, <1>2 DEF Insert
\* A decision changes the status of one row only.
LEMMA Decides == ASSUME SelfSound, SelfInv, NEW h \in Handlers, Decide(h) PROVE SelfInv'
<1> DEFINE r == task[h].id
           status == IF Call[h] = "deny" THEN "denied" ELSE "approved"
           j == [task[h] EXCEPT !.pc = "done"]
<1>0. /\ task[h].pc = "decide" /\ "done" \in Labels /\ Creators \subseteq Handlers
      /\ UNCHANGED <<tables, ticket, ownCredentials, locked, edits, minted, audited>>
      /\ task[h] \in Job /\ Prepared(h)
  BY DEF Decide, SelfInv, SelfTypes, TaskTypes, TicketInv, Labels, Creators
<1>1. r \in Creators /\ Call[h] \notin Managing
  BY <1>0 DEF Prepared, Managing
<1>2. CASE Reply(h, "failed") /\ UNCHANGED <<asking, denied>>
  BY <1>0, <1>2, Refuses DEF Refusals, tickets, history
<1>3. CASE /\ asking[r] # None /\ Reply(h, "done")
           /\ asking' = [asking EXCEPT ![r].status = status]
           /\ denied' = IF status = "denied" THEN denied \cup {r} ELSE denied \ {r}
  <2>1. j \in Job /\ j.pc = "done" /\ j.before = task[h].before
    BY <1>0, Typed
  <2>2. Goto(h, j)
    BY <1>3 DEF Reply
  <2> HIDE DEF j
  <2>3. UNCHANGED <<users, ownCredentials, locked>> /\ target' = target
    BY <1>0 DEF tables
  <2>4. CredentialInv' /\ TaskTypes' /\ CredentialTypes'
    BY <1>0, <1>1, <2>1, <2>2, <2>3, CredentialsAside
  <2>5. /\ task'[h] = j /\ \A g \in Handlers : g # h => task'[g] = task[g]
        /\ \A g \in Handlers : HasDone(g) => HasDone(g)' /\ task'[g] = task[g]
    BY <1>0, <2>1, <2>2 DEF Goto, HasDone, SelfInv, SelfTypes, TaskTypes
  <2>6. /\ asking \in [Creators -> AskRow \cup {None}] /\ asking[r] \in AskRow
        /\ minted \in SUBSET (Handlers \X Creators) /\ denied \in SUBSET Creators
        /\ status \in {"denied", "approved"}
    BY <1>1, <1>3 DEF SelfInv, SelfTypes, TicketTypes
  <2> HIDE DEF status
  <2>7. /\ asking' \in [Creators -> AskRow \cup {None}]
        /\ \A q \in Creators : q # r => asking'[q] = asking[q]
        /\ asking'[r].user = asking[r].user /\ asking'[r].ticket = asking[r].ticket
        /\ asking'[r].duration = asking[r].duration /\ asking'[r].status = status
    BY <1>1, <1>3, <2>6 DEF AskRow
  <2>8. TicketTypes' /\ TableTypes' /\ edits' \in Nat
    BY <1>0, <1>1, <1>3, <2>6, <2>7
    DEF SelfInv, SelfTypes, TicketTypes, TableTypes, tables
  <2>9. ASSUME NEW g \in Handlers PROVE Prepared(g)'
    <3>1. CASE g = h
      BY <2>1, <2>5, <3>1 DEF Prepared
    <3>2. CASE g # h
      <4>1. Prepared(g) /\ task'[g] = task[g]
        BY <2>5, <3>2 DEF SelfInv, TicketInv
      <4> QED
        BY <1>0, <1>3, <2>5, <2>7, <4>1 DEF Prepared, Within, Or, Capped
    <3> QED
      BY <3>1, <3>2
  <2>10. ASSUME NEW q \in Creators PROVE AskedRight(q)'
    <3>1. AskedRight(q)
      BY DEF SelfInv, TicketInv
    <3> QED
      BY <1>0, <1>3, <2>3, <2>5, <2>7, <3>1 DEF AskedRight
  <2>11. ASSUME NEW g \in Handlers PROVE TicketRight(g)'
    <3>1. TicketRight(g)
      BY DEF SelfInv, TicketInv
    <3> QED
      BY <1>0, <1>3, <2>3, <2>5, <2>7, <3>1 DEF TicketRight
  <2>12. MintedRight'
    BY <1>0, <1>3, <2>5, <2>6, <2>7 DEF SelfInv, TicketInv, MintedRight
  <2>13. DeniedRight'
    <3>1. HasDone(r)
      BY <1>1, <1>3 DEF SelfInv, TicketInv, AskedRight
    <3>2. ASSUME NEW q \in denied' PROVE HasDone(q)' /\ (asking'[q] # None => asking'[q].status = "denied")
      <4>1. CASE q = r
        BY <1>0, <1>1, <1>3, <2>5, <2>7, <3>1, <3>2, <4>1
      <4>2. CASE q # r /\ q \in denied
        BY <1>0, <2>5, <2>6, <2>7, <4>2 DEF SelfInv, TicketInv, DeniedRight
      <4> QED
        BY <1>3, <3>2, <4>1, <4>2
    <3> QED
      BY <3>2 DEF DeniedRight
  <2> QED
    BY <2>4, <2>8, <2>9, <2>10, <2>11, <2>12, <2>13 DEF SelfInv, SelfTypes, TicketInv
<1> QED
  BY <1>2, <1>3 DEF Decide

\* A claim makes one ticket of a request that has none.
LEMMA ClaimsOrNot == ASSUME SelfSound, SelfInv, NEW h \in Handlers, ClaimRequest(h) PROVE SelfInv'
<1> DEFINE r == task[h].id
           u == Who[h]
           d == task[h].duration
           j == [task[h] EXCEPT !.pc = "done"]
           x == Ticket(r, u, d, task[h].uses)
<1>0. /\ Call[h] = "activate" /\ task[h].pc = "claim" /\ "done" \in Labels
      /\ Creators \subseteq Handlers /\ h \notin Creators
      /\ UNCHANGED <<tables, ownCredentials, locked, edits, denied>>
      /\ task[h] \in Job /\ Prepared(h)
  BY DEF ClaimRequest, Is, SelfInv, SelfTypes, TaskTypes, TicketInv, Labels, Creators
<1>1. ASSUME NEW p \in {"failed", "already", "notfound"}, Reply(h, p),
             UNCHANGED <<tickets, minted, audited>>
      PROVE  SelfInv'
  BY <1>0, <1>1, Refuses DEF Refusals, history
<1>2. CASE /\ Referenced(u) /\ Claimable(h, r) /\ Reply(h, "done")
           /\ ticket' = [ticket EXCEPT ![h] = x]
           /\ asking' = [asking EXCEPT ![r].ticket = h]
           /\ minted' = minted \cup {<<h, r>>} /\ audited' = audited \cup {h}
  <2>1. /\ j \in Job /\ j.pc = "done" /\ j.before = task[h].before
        /\ j.policy = task[h].policy /\ j.target = task[h].target
    BY <1>0, Typed
  <2>2. Goto(h, j)
    BY <1>2 DEF Reply
  <2> HIDE DEF j
  <2>3. /\ UNCHANGED <<users, ownCredentials, locked>> /\ target' = target /\ denied' = denied
        /\ u \in users /\ target # None /\ u \in Persons
    BY <1>0, <1>2 DEF tables, Referenced, SelfSound
  <2>4. CredentialInv' /\ TaskTypes' /\ CredentialTypes'
    BY <1>0, <2>1, <2>2, <2>3, CredentialsAside DEF Managing
  <2>5. /\ task'[h] = j /\ HasDone(h)' /\ ~HasDone(h)
        /\ \A g \in Handlers : g # h => task'[g] = task[g]
        /\ \A g \in Handlers : HasDone(g) => HasDone(g)' /\ g # h
    BY <1>0, <2>1, <2>2 DEF Goto, HasDone, SelfInv, SelfTypes, TaskTypes
  <2>6. /\ r \in Creators /\ HasDone(r) /\ Who[r] = u /\ r # h
        /\ asking[r] # None /\ asking[r].ticket = None
        /\ asking[r].duration = task[h].row.duration /\ task[h].row \in AskRow
        /\ task[h].target \in TargetOptions /\ task[h].policy \in Settings
        /\ d = Capped(task[h].row.duration, Or(task[h].target.duration, task[h].policy.duration))
    BY <1>0, <1>2 DEF Prepared, Claimable, Activatable
  <2>7. /\ d \in Limit /\ task[h].uses \in Limit /\ Within(d, asking[r].duration)
        /\ Within(d, Or(task[h].target.duration, task[h].policy.duration))
    <3>1. /\ task[h].row.duration \in Limit
          /\ Or(task[h].target.duration, task[h].policy.duration) \in Limit
      BY <2>6 DEF AskRow, SelfSound, Or
    <3> QED
      BY <1>0, <2>6, <3>1, CappedLimits DEF Job
  <2>8. x \in TicketRow /\ x # None /\ x.request = r /\ x.user = u /\ x.duration = d
    <3>1. x \in TicketRow /\ x.request = r /\ x.user = u /\ x.duration = d
      BY <1>0, <2>3, <2>6, <2>7 DEF Ticket, TicketRow
    <3> QED
      BY <3>1 DEF SelfSound
  <2> HIDE DEF x, d, r
  <2>9. /\ asking \in [Creators -> AskRow \cup {None}] /\ asking[r] \in AskRow
        /\ ticket \in [Handlers -> TicketRow \cup {None}]
        /\ minted \in SUBSET (Handlers \X Creators) /\ denied \in SUBSET Creators
    BY <2>6 DEF SelfInv, SelfTypes, TicketTypes
  <2>10. /\ asking' \in [Creators -> AskRow \cup {None}]
         /\ \A q \in Creators : q # r => asking'[q] = asking[q]
         /\ asking'[r].user = asking[r].user /\ asking'[r].ticket = h
         /\ asking'[r].duration = asking[r].duration /\ asking'[r].status = asking[r].status
    BY <1>2, <2>6, <2>9 DEF AskRow
  <2>11. /\ ticket' \in [Handlers -> TicketRow \cup {None}] /\ ticket'[h] = x
         /\ \A g \in Handlers : g # h => ticket'[g] = ticket[g]
    BY <1>2, <2>8, <2>9
  <2>12. TicketTypes' /\ TableTypes' /\ edits' \in Nat
    BY <1>0, <1>2, <2>3, <2>6, <2>9, <2>10, <2>11
    DEF SelfInv, SelfTypes, TicketTypes, TableTypes, tables
  <2>13. ASSUME NEW g \in Handlers PROVE Prepared(g)'
    <3>1. CASE g = h
      BY <2>1, <2>5, <3>1 DEF Prepared
    <3>2. CASE g # h
      <4>1. Prepared(g) /\ task'[g] = task[g]
        BY <2>5, <3>2 DEF SelfInv, TicketInv
      <4> QED
        BY <1>0, <2>5, <2>6, <2>10, <4>1 DEF Prepared, Within, Or, Capped
    <3> QED
      BY <3>1, <3>2
  <2>14. ticket[h] = None
    BY <2>5 DEF SelfInv, TicketInv, TicketRight
  <2>15. ASSUME NEW q \in Creators PROVE AskedRight(q)'
    <3>1. AskedRight(q)
      BY DEF SelfInv, TicketInv
    <3>2. CASE q = r
      BY <1>0, <2>3, <2>5, <2>6, <2>8, <2>10, <2>11, <3>1, <3>2 DEF AskedRight
    <3>3. CASE q # r
      <4>1. ASSUME asking[q] # None, asking[q].ticket # None
            PROVE  asking[q].ticket \in Handlers /\ asking[q].ticket # h
        BY <3>1, <4>1, <2>9, <2>14 DEF AskedRight, AskRow
      <4> QED
        BY <1>0, <2>3, <2>5, <2>10, <2>11, <3>1, <3>3, <4>1 DEF AskedRight
    <3> QED
      BY <3>2, <3>3
  <2>16. ASSUME NEW g \in Handlers PROVE TicketRight(g)'
    <3>1. CASE g = h
      BY <1>0, <1>2, <2>1, <2>3, <2>5, <2>6, <2>7, <2>8, <2>10, <2>11, <3>1 DEF TicketRight
    <3>2. CASE g # h
      <4>1. TicketRight(g) /\ ticket'[g] = ticket[g] /\ task'[g] = task[g]
        BY <2>5, <2>11, <3>2 DEF SelfInv, TicketInv
      <4>2. ASSUME ticket[g] # None, asking'[ticket[g].request] # None
            PROVE  /\ asking[ticket[g].request] # None
                   /\ asking'[ticket[g].request].duration = asking[ticket[g].request].duration
        BY <4>1, <4>2, <2>6, <2>10 DEF TicketRight
      <4> QED
        BY <1>0, <1>2, <2>3, <2>5, <4>1, <4>2 DEF TicketRight
    <3> QED
      BY <3>1, <3>2
  <2>17. MintedRight'
    <3>1. MintedRight /\ minted' = minted \cup {<<h, r>>} /\ \A m \in minted : m[2] # r
      BY <1>2, <2>6 DEF SelfInv, TicketInv, MintedRight
    <3>2. ASSUME NEW m \in minted'
          PROVE HasDone(m[2])' /\ (asking'[m[2]] # None => asking'[m[2]].ticket # None)
      <4>1. CASE m \in minted
        BY <1>0, <4>1, <3>1, <2>5, <2>9, <2>10 DEF MintedRight
      <4>2. CASE m = <<h, r>>
        BY <1>0, <4>2, <2>5, <2>6, <2>10 DEF SelfSound
      <4> QED
        BY <3>1, <3>2, <4>1, <4>2
    <3>3. ASSUME NEW m \in minted', NEW n \in minted', m[2] = n[2] PROVE m = n
      BY <3>1, <3>3 DEF MintedRight
    <3> QED
      BY <3>2, <3>3 DEF MintedRight
  <2>18. DeniedRight'
    BY <1>0, <2>3, <2>5, <2>6, <2>9, <2>10 DEF SelfInv, TicketInv, DeniedRight
  <2> QED
    BY <2>4, <2>12, <2>13, <2>15, <2>16, <2>17, <2>18 DEF SelfInv, SelfTypes, TicketInv
<1> QED
  <2>1. CASE ~Referenced(u) /\ Reply(h, "failed") /\ UNCHANGED <<tickets, minted, audited>>
    BY <1>1, <2>1
  <2>2. ASSUME NEW p \in {"already", "notfound"}, Reply(h, p), UNCHANGED <<tickets, minted, audited>>
        PROVE  SelfInv'
    BY <1>1, <2>2
  <2> QED
    BY <1>2, <2>1, <2>2 DEF ClaimRequest
-----------------------------------------------------------------------------
(* Deletions, retention and changes of the settings.                       *)

\* Rows go, age and expire, and nothing is left that refers to what is gone.
LEMMA RowsGo ==
    ASSUME SelfInv, UNCHANGED <<task, minted, denied, audited>>,
           \A r \in Creators : asking'[r] # None =>
              /\ asking[r] # None /\ asking'[r].user = asking[r].user
              /\ asking'[r].ticket = asking[r].ticket /\ asking'[r].status = asking[r].status
              /\ asking'[r].duration = asking[r].duration
              /\ Who[r] \in users' /\ target' # None
              /\ asking[r].ticket # None => ticket'[asking[r].ticket] # None,
           \A k \in Handlers : ticket'[k] # None =>
              /\ ticket[k] # None /\ ticket'[k].user = ticket[k].user
              /\ ticket'[k].request = ticket[k].request
              /\ ticket'[k].duration = ticket[k].duration
              /\ Who[k] \in users' /\ target' # None
    PROVE  TicketInv'
<1>0. /\ Creators \subseteq Handlers /\ asking \in [Creators -> AskRow \cup {None}]
      /\ minted \in SUBSET (Handlers \X Creators) /\ denied \in SUBSET Creators
  BY DEF Creators, SelfInv, SelfTypes, TicketTypes
<1>1. ASSUME NEW h \in Handlers PROVE Prepared(h)'
  <2>1. Prepared(h)
    BY DEF SelfInv, TicketInv
  <2> QED
    BY <2>1 DEF Prepared, HasDone, Within, Or, Capped
<1>2. ASSUME NEW r \in Creators PROVE AskedRight(r)'
  <2>1. AskedRight(r)
    BY DEF SelfInv, TicketInv
  <2>2. ASSUME asking[r] # None, asking[r].ticket # None PROVE asking[r].ticket \in Handlers
    BY <1>0, <2>2 DEF AskRow
  <2> QED
    BY <1>0, <2>1, <2>2 DEF AskedRight, HasDone
<1>3. ASSUME NEW k \in Handlers PROVE TicketRight(k)'
  <2>1. TicketRight(k)
    BY DEF SelfInv, TicketInv
  <2> QED
    BY <2>1 DEF TicketRight, HasDone, Within, Or
<1>4. MintedRight' /\ DeniedRight'
  BY <1>0 DEF SelfInv, TicketInv, MintedRight, DeniedRight, HasDone
<1> QED
  BY <1>1, <1>2, <1>3, <1>4 DEF TicketInv

LEMMA CredentialsRest ==
    ASSUME SelfInv, UNCHANGED <<task, users, ownCredentials, locked>>
    PROVE  CredentialInv' /\ CredentialTypes' /\ TaskTypes'
<1>1. UNCHANGED <<task, users, otp, password, key, certificate, revoked, policy, locked>>
  BY DEF ownCredentials
<1>2. ASSUME NEW h \in Handlers PROVE Managed(h)'
  BY <1>1 DEF SelfInv, CredentialInv, Managed, HasDone
<1>3. CredentialInv'
  BY <1>1, <1>2 DEF SelfInv, CredentialInv, RevokedIfGone, HasDone
<1>4. CredentialTypes' /\ TaskTypes'
  BY <1>1 DEF SelfInv, SelfTypes, CredentialTypes, TaskTypes
<1> QED
  BY <1>3, <1>4

\* What the rows say, for the steps below.
LEMMA RowsSay ==
    ASSUME SelfInv
    PROVE  /\ asking \in [Creators -> AskRow \cup {None}] /\ ticket \in [Handlers -> TicketRow \cup {None}]
           /\ \A r \in Creators : asking[r] # None =>
                /\ asking[r].user = Who[r] /\ Who[r] \in users /\ target # None
                /\ asking[r].ticket # None =>
                     /\ asking[r].ticket \in Handlers /\ ticket[asking[r].ticket] # None
                     /\ Who[asking[r].ticket] = Who[r]
           /\ \A k \in Handlers : ticket[k] # None =>
                ticket[k].user = Who[k] /\ Who[k] \in users /\ target # None
<1>1. asking \in [Creators -> AskRow \cup {None}] /\ ticket \in [Handlers -> TicketRow \cup {None}]
  BY DEF SelfInv, SelfTypes, TicketTypes
<1>2. ASSUME NEW k \in Handlers, ticket[k] # None
      PROVE  /\ ticket[k].user = Who[k] /\ Who[k] \in users /\ target # None
             /\ Who[ticket[k].request] = Who[k]
  BY <1>2 DEF SelfInv, TicketInv, TicketRight
<1>3. ASSUME NEW r \in Creators, asking[r] # None
      PROVE  /\ asking[r].user = Who[r] /\ Who[r] \in users /\ target # None
             /\ asking[r].ticket # None =>
                  asking[r].ticket \in Handlers /\ ticket[asking[r].ticket] # None
                  /\ Who[asking[r].ticket] = Who[r]
  <2>1. AskedRight(r)
    BY DEF SelfInv, TicketInv
  <2> QED
    BY <1>1, <1>2, <1>3, <2>1 DEF AskedRight, AskRow
<1> QED
  BY <1>1, <1>2, <1>3

LEMMA DeletesTicket == ASSUME SelfSound, SelfInv, NEW k \in Handlers, DeleteTicket(k) PROVE SelfInv'
<1>1. /\ ticket' = [ticket EXCEPT ![k] = None]
      /\ asking' = [r \in Creators |-> IF asking[r] # None /\ asking[r].ticket = k THEN None ELSE asking[r]]
      /\ UNCHANGED <<parameters, target, users, entitled, ownCredentials, locked, task, edits,
                     minted, denied, audited>>
  BY DEF DeleteTicket, tables, history
<1>2. TicketTypes' /\ TableTypes' /\ edits' \in Nat
  BY <1>1, RowsSay DEF SelfInv, SelfTypes, TicketTypes, TableTypes
<1>3. TicketInv'
  BY <1>1, RowsSay, RowsGo
<1> QED
  BY <1>1, <1>2, <1>3, CredentialsRest DEF SelfInv, SelfTypes

LEMMA DeletesTarget == ASSUME SelfSound, SelfInv, DeleteTarget PROVE SelfInv'
<1>1. /\ ticket' = [k \in Handlers |-> None] /\ asking' = [r \in Creators |-> None]
      /\ target' = None /\ edits' = edits + 1
      /\ UNCHANGED <<parameters, users, entitled, ownCredentials, locked, task, minted, denied, audited>>
  BY DEF DeleteTarget, history
<1>2. TicketTypes' /\ TableTypes' /\ edits' \in Nat
  BY <1>1 DEF SelfInv, SelfTypes, TicketTypes, TableTypes
<1>3. TicketInv'
  BY <1>1, RowsGo
<1> QED
  BY <1>1, <1>2, <1>3, CredentialsRest DEF SelfInv, SelfTypes

LEMMA AgesRequest == ASSUME SelfSound, SelfInv, NEW r \in Creators, AgeRequest(r) PROVE SelfInv'
<1>1. /\ asking[r] # None /\ asking' = [asking EXCEPT ![r].old = TRUE] /\ ticket' = ticket
      /\ UNCHANGED <<parameters, target, users, entitled, ownCredentials, locked, task, edits,
                     minted, denied, audited>>
  BY DEF AgeRequest, tables, history
<1>2. /\ asking' \in [Creators -> AskRow \cup {None}]
      /\ \A q \in Creators : /\ asking'[q] # None => asking[q] # None
                             /\ asking'[q].user = asking[q].user /\ asking'[q].ticket = asking[q].ticket
                             /\ asking'[q].duration = asking[q].duration
                             /\ asking'[q].status = asking[q].status
  <2>1. asking[r] \in AskRow /\ asking \in [Creators -> AskRow \cup {None}]
    BY <1>1, RowsSay
  <2>2. /\ asking'[r] = [asking[r] EXCEPT !.old = TRUE]
        /\ \A q \in Creators : q # r => asking'[q] = asking[q]
    BY <1>1, <2>1
  <2>3. /\ asking'[r] \in AskRow /\ asking'[r].user = asking[r].user
        /\ asking'[r].ticket = asking[r].ticket /\ asking'[r].status = asking[r].status
        /\ asking'[r].duration = asking[r].duration
    BY <2>1, <2>2 DEF AskRow
  <2> QED
    BY <1>1, <2>1, <2>2, <2>3
<1>3. TicketTypes' /\ TableTypes' /\ edits' \in Nat
  BY <1>1, <1>2 DEF SelfInv, SelfTypes, TicketTypes, TableTypes
<1>4. TicketInv'
  BY <1>1, <1>2, RowsSay, RowsGo
<1> QED
  BY <1>1, <1>3, <1>4, CredentialsRest DEF SelfInv, SelfTypes

LEMMA Expires == ASSUME SelfSound, SelfInv, NEW k \in Handlers, Expire(k) PROVE SelfInv'
<1>1. /\ ticket[k] # None /\ ticket' = [ticket EXCEPT ![k].expired = TRUE] /\ asking' = asking
      /\ UNCHANGED <<parameters, target, users, entitled, ownCredentials, locked, task, edits,
                     minted, denied, audited>>
  BY DEF Expire, tables, history
<1>2. ticket[k] \in TicketRow
  BY <1>1, RowsSay
<1>3. /\ ticket' \in [Handlers -> TicketRow \cup {None}] /\ ticket'[k] \in TicketRow
      /\ \A g \in Handlers : /\ ticket'[g] # None => ticket[g] # None
                             /\ g # k => ticket'[g] = ticket[g]
                             /\ ticket'[g].user = ticket[g].user /\ ticket'[g].request = ticket[g].request
                             /\ ticket'[g].duration = ticket[g].duration
  BY <1>1, <1>2, RowsSay DEF TicketRow
<1>4. ticket'[k] # None
  BY <1>3 DEF SelfSound
<1>5. TicketTypes' /\ TableTypes' /\ edits' \in Nat
  BY <1>1, <1>3 DEF SelfInv, SelfTypes, TicketTypes, TableTypes
<1>6. TicketInv'
  BY <1>1, <1>3, <1>4, RowsSay, RowsGo
<1> QED
  BY <1>1, <1>5, <1>6, CredentialsRest DEF SelfInv, SelfTypes

LEMMA CleansUp == ASSUME SelfSound, SelfInv, CleanupReads \/ CleanupDeletes PROVE SelfInv'
<1>1. /\ ticket' = ticket
      /\ UNCHANGED <<parameters, target, users, entitled, ownCredentials, locked, task, edits,
                     minted, denied, audited>>
      /\ asking' \in [Creators -> AskRow \cup {None}]
      /\ \A r \in Creators : asking'[r] \in {None, asking[r]}
  BY RowsSay DEF CleanupReads, CleanupDeletes, tables, tickets, history
<1>2. TicketTypes' /\ TableTypes' /\ edits' \in Nat
  BY <1>1 DEF SelfInv, SelfTypes, TicketTypes, TableTypes
<1>3. TicketInv'
  BY <1>1, RowsSay, RowsGo
<1> QED
  BY <1>1, <1>2, <1>3, CredentialsRest DEF SelfInv, SelfTypes

LEMMA Configures == ASSUME SelfSound, SelfInv, Configure PROVE SelfInv'
<1>1. /\ UNCHANGED <<users, asking, ticket, ownCredentials, locked, task, minted, denied, audited>>
      /\ edits' = edits + 1
  BY DEF Configure, tickets, history
<1>2. TableTypes' /\ (target # None => target' # None)
  BY <1>1 DEF Configure, SelfInv, SelfTypes, TableTypes, SelfSound
<1>3. TicketTypes' /\ edits' \in Nat
  BY <1>1 DEF SelfInv, SelfTypes, TicketTypes
<1>4. TicketInv'
  BY <1>1, <1>2, RowsSay, RowsGo
<1> QED
  BY <1>1, <1>2, <1>3, <1>4, CredentialsRest DEF SelfInv, SelfTypes

\* With a user go the requests, the tickets and the credentials, while no handler has
\* the one-time passwords locked.
LEMMA DeletesUser == ASSUME SelfSound, SelfInv, NEW u \in Persons, DeleteUser(u) PROVE SelfInv'
<1>1. /\ u \in users /\ locked[u] = None /\ users' = users \ {u} /\ edits' = edits + 1
      /\ ticket' = [k \in Handlers |-> IF ticket[k] # None /\ ticket[k].user = u THEN None ELSE ticket[k]]
      /\ asking' = [r \in Creators |-> IF asking[r] # None /\ asking[r].user = u THEN None ELSE asking[r]]
      /\ otp' = [otp EXCEPT ![u] = {}] /\ password' = [password EXCEPT ![u] = {}]
      /\ certificate' = [certificate EXCEPT ![u] = {}]
      /\ key' = [c \in Old \cup Handlers |-> IF key[c] = u THEN None ELSE key[c]]
      /\ UNCHANGED <<parameters, target, entitled, revoked, policy, locked, task, minted, denied, audited>>
  BY DEF DeleteUser, history
<1>2. TicketTypes' /\ TableTypes' /\ edits' \in Nat
  BY <1>1, RowsSay DEF SelfInv, SelfTypes, TicketTypes, TableTypes
<1>3. CredentialTypes' /\ TaskTypes'
  BY <1>1 DEF SelfInv, SelfTypes, CredentialTypes, TaskTypes
<1>4. TicketInv'
  BY <1>1, RowsSay, RowsGo
<1>5. ASSUME NEW h \in Handlers PROVE Managed(h)'
  <2>1. /\ Managed(h) /\ task[h] \in Job /\ Who[h] \in Persons
        /\ key \in [Old \cup Handlers -> Persons \cup {None}]
        /\ otp \in [Persons -> SUBSET (Old \cup Handlers)]
        /\ password \in [Persons -> SUBSET (Old \cup Handlers)]
    BY DEF SelfInv, SelfTypes, CredentialTypes, TaskTypes, CredentialInv, SelfSound
  <2>2. Call[h] = "otpdelete" /\ task[h].pc = "delete" => Who[h] # u
    BY <1>1, <2>1 DEF Managed, SelfSound
  <2> QED
    BY <1>1, <2>1, <2>2 DEF Managed, HasDone
<1>6. /\ RevokedIfGone'
      /\ \A w \in Persons : \A g \in password'[w] : g \in Handlers => HasDone(g)'
      /\ \A g \in Handlers : key'[g] # None => HasDone(g)'
  <2>1. users \subseteq Persons /\ certificate \in [Persons -> SUBSET (Old \cup Handlers)]
        /\ password \in [Persons -> SUBSET (Old \cup Handlers)]
    BY DEF SelfInv, SelfTypes, CredentialTypes, TableTypes
  <2> QED
    BY <1>1, <2>1 DEF SelfInv, CredentialInv, RevokedIfGone, HasDone
<1> QED
  BY <1>2, <1>3, <1>4, <1>5, <1>6 DEF SelfInv, SelfTypes, CredentialInv
-----------------------------------------------------------------------------
(* Own credentials.                                                        *)

\* What the tasks are after a step of one handler.
LEMMA AfterStep ==
    ASSUME SelfInv, NEW h \in Handlers, NEW j \in Job, Goto(h, j), task[h].pc # "done"
    PROVE  /\ task'[h] = j /\ ~HasDone(h) /\ Moves(h, j)
           /\ \A g \in Handlers : g # h => task'[g] = task[g]
           /\ \A g \in Handlers : HasDone(g) => HasDone(g)' /\ task'[g] = task[g] /\ g # h
BY DEF SelfInv, SelfTypes, TaskTypes, Goto, HasDone, Moves

\* Requests and tickets, when a handler for credentials takes a step.
LEMMA TicketsAside ==
    ASSUME SelfInv, NEW h \in Handlers, NEW j \in Job, Goto(h, j), task[h].pc # "done",
           Call[h] \in Managing, j.pc # "decide", Call[h] = "otp" => j.row \in CredentialKinds,
           UNCHANGED <<tables, tickets, edits, history>>
    PROVE  TicketInv' /\ TaskTypes' /\ TicketTypes' /\ TableTypes' /\ edits' \in Nat
<1>1. task'[h] = j /\ Moves(h, j)
  BY AfterStep
<1>2. Prepared(h)'
  BY <1>1 DEF Prepared, Managing
<1>3. TicketInv'
  BY <1>1, <1>2, TicketFrame DEF SelfInv, SelfTypes
<1>4. TaskTypes'
  BY <1>1, TaskTyped DEF SelfInv, SelfTypes
<1>5. TicketTypes' /\ TableTypes' /\ edits' \in Nat
  BY DEF SelfInv, SelfTypes, TicketTypes, TableTypes, tables, tickets, history
<1> QED
  BY <1>3, <1>4, <1>5

\* A step that reads what is stored.
LEMMA Looks ==
    ASSUME SelfInv, NEW h \in Handlers, NEW j \in Job, Goto(h, j), task[h].pc # "done",
           Call[h] \in Managing, j.pc # "decide", Call[h] = "otp" => j.row \in CredentialKinds,
           UNCHANGED <<tables, tickets, ownCredentials, locked, edits, history>>,
           task'[h] = j => Managed(h)'
    PROVE  SelfInv'
<1>1. task'[h] = j /\ Moves(h, j)
  BY AfterStep
<1>2. Prepared(h)'
  BY <1>1 DEF Prepared, Managing
<1> QED
  BY <1>1, <1>2, Reads

\* What is left to show of a step that writes credentials.
LEMMA CredentialsWritten ==
    ASSUME SelfInv, NEW h \in Handlers, NEW j \in Job, Goto(h, j), task[h].pc # "done",
           Call[h] \in Managing, j.pc # "decide", Call[h] = "otp" => j.row \in CredentialKinds,
           UNCHANGED <<tables, tickets, edits, history>>,
           CredentialTypes', \A g \in Handlers : Managed(g)', RevokedIfGone',
           \A u \in Persons : \A g \in password'[u] : g \in Handlers => HasDone(g)',
           \A g \in Handlers : key'[g] # None => HasDone(g)'
    PROVE  SelfInv'
<1>1. TicketInv' /\ TaskTypes' /\ TicketTypes' /\ TableTypes' /\ edits' \in Nat
  BY TicketsAside
<1>2. CredentialInv'
  BY DEF CredentialInv
<1> QED
  BY <1>1, <1>2 DEF SelfInv, SelfTypes

\* What is known of the credentials and of the task of a handler.
LEMMA CredentialsSay ==
    ASSUME SelfSound, SelfInv, NEW h \in Handlers
    PROVE  /\ otp \in [Persons -> SUBSET (Old \cup Handlers)]
           /\ password \in [Persons -> SUBSET (Old \cup Handlers)]
           /\ certificate \in [Persons -> SUBSET (Old \cup Handlers)]
           /\ key \in [Old \cup Handlers -> Persons \cup {None}]
           /\ policy \in [Persons -> CredentialKinds]
           /\ locked \in [Persons -> Handlers \cup {None}]
           /\ users \subseteq Persons /\ Who[h] \in Persons /\ parameters \in Settings
           /\ task[h] \in Job /\ Managed(h)
           /\ Call[h] = "otp" => task[h].row \in CredentialKinds
           /\ RevokedIfGone
           /\ \A u \in Persons : \A g \in password[u] : g \in Handlers => HasDone(g)
           /\ \A g \in Handlers : key[g] # None => HasDone(g)
BY DEF SelfInv, SelfTypes, CredentialTypes, TableTypes, TaskTypes, CredentialInv, SelfSound

LEMMA Enters == ASSUME SelfSound, SelfInv, NEW h \in Handlers, EnterHandler(h) PROVE SelfInv'
<1> DEFINE j == [task[h] EXCEPT !.pc = "entered", !.policy = parameters,
                                !.row = policy[Who[h]], !.before = password[Who[h]]]
<1>0. /\ Call[h] \in Managing /\ task[h].pc = "new"
      /\ UNCHANGED <<tables, tickets, ownCredentials, locked, edits, history>>
      /\ Reply(h, "refused") \/ Goto(h, j)
  BY DEF EnterHandler
<1>1. CASE Reply(h, "refused")
  BY <1>0, <1>1, Refuses DEF Refusals
<1>2. CASE Goto(h, j)
  <2>1. policy[Who[h]] \in CredentialKinds /\ password[Who[h]] \in SUBSET (Old \cup Handlers)
    BY CredentialsSay
  <2>2. task[h] \in Job /\ parameters \in Settings /\ "entered" \in Labels
    BY CredentialsSay DEF Labels
  <2>3. /\ j \in Job /\ j.pc = "entered" /\ j.before = password[Who[h]]
        /\ j.row \in CredentialKinds
    BY <2>1, <2>2 DEF Job
  <2> HIDE DEF j
  <2>4. \A g \in j.before : g \in Handlers => HasDone(g)'
    BY <1>0, <1>2, <2>3, AfterStep, CredentialsSay
  <2>5. task'[h] = j => Managed(h)'
    BY <2>3, <2>4 DEF Managed
  <2> QED
    BY <1>0, <1>2, <2>3, <2>5, Looks
<1> QED
  BY <1>0, <1>1, <1>2

LEMMA Enrols == ASSUME SelfSound, SelfInv, NEW h \in Handlers, MayEnrol(h) PROVE SelfInv'
<1>0. /\ Call[h] = "otp" /\ task[h].pc = "entered"
      /\ UNCHANGED <<tables, tickets, ownCredentials, locked, edits, history>>
      /\ Reply(h, "insert") \/ Reply(h, "refused")
  BY DEF MayEnrol, Is
<1>1. CASE Reply(h, "refused")
  BY <1>0, <1>1, Refuses DEF Refusals
<1>2. CASE Reply(h, "insert")
  <2> DEFINE j == [task[h] EXCEPT !.pc = "insert"]
  <2>1. /\ j \in Job /\ j.pc = "insert" /\ j.before = task[h].before
        /\ Call[h] = "otp" => j.row \in CredentialKinds
    BY Typed DEF Labels
  <2>2. Goto(h, j)
    BY <1>2 DEF Reply
  <2> HIDE DEF j
  <2>3. task'[h] = j => Managed(h)'
    BY <1>0, <2>1, <2>2, AfterStep, KeepsBefore DEF Managed
  <2> QED
    BY <1>0, <2>1, <2>2, <2>3, Looks DEF Managing
<1> QED
  BY <1>0, <1>1, <1>2

\* A key or a certificate is found.
LEMMA Finds ==
    ASSUME SelfSound, SelfInv, NEW h \in Handlers, FindKey(h) \/ FindCertificate(h) PROVE SelfInv'
<1>0. /\ Call[h] \in {"keydelete", "revoke"} /\ task[h].pc = "entered"
      /\ UNCHANGED <<tables, tickets, ownCredentials, locked, edits, history>>
      /\ key' = key
  BY DEF FindKey, FindCertificate, Is, ownCredentials
<1>1. PICK c \in Old \cup Handlers, p \in {"delete", "list", "notfound"} :
        /\ Goto(h, [task[h] EXCEPT !.pc = p, !.id = c])
        /\ p = "delete" => Call[h] = "keydelete" /\ key[c] = Who[h]
  <2>1. CASE FindKey(h)
    BY <2>1 DEF FindKey, Related, Is
  <2>2. CASE FindCertificate(h)
    BY <2>2 DEF FindCertificate
  <2> QED
    BY <2>1, <2>2
<1> DEFINE j == [task[h] EXCEPT !.pc = p, !.id = c]
<1>2. j \in Job /\ j.pc = p /\ j.id = c /\ j.before = task[h].before
  <2>1. p \in Labels /\ task[h] \in Job
    BY CredentialsSay DEF Labels, Refusals
  <2> QED
    BY <2>1 DEF Job
<1>3. Goto(h, j)
  BY <1>1
<1> HIDE DEF j
<1>4. ASSUME p = "delete", c \in Handlers PROVE HasDone(c)'
  BY <1>0, <1>1, <1>2, <1>3, <1>4, AfterStep, CredentialsSay DEF SelfSound
<1>5. task'[h] = j => Managed(h)'
  BY <1>0, <1>1, <1>2, <1>3, <1>4, AfterStep, KeepsBefore DEF Managed
<1> QED
  BY <1>0, <1>2, <1>3, <1>5, Looks DEF Managing

LEMMA WipesPasswords == ASSUME SelfSound, SelfInv, NEW h \in Handlers, WipePasswords(h) PROVE SelfInv'
<1> DEFINE j == [task[h] EXCEPT !.pc = "insert"]
<1>0. /\ Call[h] = "password" /\ task[h].pc = "entered" /\ Goto(h, j)
      /\ password' = [password EXCEPT ![Who[h]] = {}]
      /\ UNCHANGED <<tables, tickets, users, otp, key, certificate, revoked, policy, locked, edits, history>>
  BY DEF WipePasswords, Is, Reply, tables
<1>1. j \in Job /\ j.pc = "insert" /\ j.before = task[h].before
  BY Typed DEF Labels
<1> HIDE DEF j
<1>2. CredentialTypes'
  BY <1>0, CredentialsSay DEF CredentialTypes
<1>3. ASSUME NEW g \in Handlers PROVE Managed(g)'
  <2>1. Managed(g) /\ Who[g] \in Persons /\ password' \in [Persons -> SUBSET (Old \cup Handlers)]
        /\ password'[Who[g]] \subseteq password[Who[g]] /\ password'[Who[h]] = {}
    BY <1>0, CredentialsSay
  <2>2. CASE g = h
    BY <1>0, <1>1, <2>1, <2>2, AfterStep, KeepsBefore DEF Managed
  <2>3. CASE g # h
    BY <1>0, <1>1, <2>1, <2>3, AfterStep DEF Managed
  <2> QED
    BY <2>2, <2>3
<1>4. RevokedIfGone'
  BY <1>0, CredentialsSay DEF RevokedIfGone
<1>5. /\ \A u \in Persons : \A g \in password'[u] : g \in Handlers => HasDone(g)'
      /\ \A g \in Handlers : key'[g] # None => HasDone(g)'
  BY <1>0, <1>1, AfterStep, CredentialsSay
<1> QED
  BY <1>0, <1>1, <1>2, <1>3, <1>4, <1>5, CredentialsWritten DEF Managing

LEMMA InsertsPassword == ASSUME SelfSound, SelfInv, NEW h \in Handlers, InsertPassword(h) PROVE SelfInv'
<1> DEFINE j == [task[h] EXCEPT !.pc = "done"]
<1>0. /\ Call[h] = "password" /\ task[h].pc = "insert"
      /\ UNCHANGED <<tables, tickets, users, otp, key, certificate, revoked, policy, locked, edits, history>>
  BY DEF InsertPassword, Is, tables
<1>1. CASE Reply(h, "failed") /\ password' = password
  BY <1>0, <1>1, Refuses DEF Refusals, ownCredentials
<1>2. CASE Goto(h, j) /\ password' = [password EXCEPT ![Who[h]] = @ \cup {h}]
  <2>1. j \in Job /\ j.pc = "done" /\ j.before = task[h].before
    BY Typed DEF Labels
  <2> HIDE DEF j
  <2>2. CredentialTypes'
    BY <1>0, <1>2, CredentialsSay DEF CredentialTypes
  <2>3. ASSUME NEW g \in Handlers PROVE Managed(g)'
    <3>1. /\ Managed(g) /\ Who[g] \in Persons /\ password'[Who[g]] \subseteq password[Who[g]] \cup {h}
          /\ h \notin task[g].before /\ ~HasDone(h)
      BY <1>0, <1>2, CredentialsSay DEF Managed, HasDone
    <3>2. CASE g = h
      BY <1>0, <1>2, <2>1, <3>1, <3>2, AfterStep, KeepsBefore DEF Managed
    <3>3. CASE g # h
      BY <1>0, <1>2, <2>1, <3>1, <3>3, AfterStep DEF Managed
    <3> QED
      BY <3>2, <3>3
  <2>4. RevokedIfGone'
    BY <1>0, CredentialsSay DEF RevokedIfGone
  <2>5. HasDone(h)'
    BY <1>0, <1>2, <2>1, AfterStep DEF HasDone
  <2>6. /\ \A u \in Persons : \A g \in password'[u] : g \in Handlers => HasDone(g)'
        /\ \A g \in Handlers : key'[g] # None => HasDone(g)'
    BY <1>0, <1>2, <2>1, <2>5, AfterStep, CredentialsSay
  <2> QED
    BY <1>0, <1>2, <2>1, <2>2, <2>3, <2>4, <2>6, CredentialsWritten DEF Managing
<1> QED
  BY <1>1, <1>2 DEF InsertPassword, Reply
LEMMA InsertsOtp == ASSUME SelfSound, SelfInv, NEW h \in Handlers, InsertOtp(h) PROVE SelfInv'
<1> DEFINE j == [task[h] EXCEPT !.pc = "upgrade"]
<1>0. /\ Call[h] = "otp" /\ task[h].pc = "insert"
      /\ UNCHANGED <<tables, tickets, users, password, key, certificate, revoked, policy, locked, edits, history>>
  BY DEF InsertOtp, Is, tables
<1>1. CASE Reply(h, "failed") /\ otp' = otp
  BY <1>0, <1>1, Refuses DEF Refusals, ownCredentials
<1>2. CASE Goto(h, j) /\ otp' = [otp EXCEPT ![Who[h]] = @ \cup {h}]
  <2>1. /\ j \in Job /\ j.pc = "upgrade" /\ j.before = task[h].before
        /\ Call[h] = "otp" => j.row \in CredentialKinds
    BY Typed DEF Labels
  <2> HIDE DEF j
  <2>2. CredentialTypes'
    BY <1>0, <1>2, CredentialsSay DEF CredentialTypes
  <2>3. ASSUME NEW g \in Handlers PROVE Managed(g)'
    <3>1. Managed(g) /\ Who[g] \in Persons /\ otp[Who[g]] \subseteq otp'[Who[g]]
      BY <1>0, <1>2, CredentialsSay
    <3>2. CASE g = h
      BY <1>0, <1>2, <2>1, <3>1, <3>2, AfterStep, KeepsBefore DEF Managed
    <3>3. CASE g # h
      BY <1>0, <1>2, <2>1, <3>1, <3>3, AfterStep DEF Managed
    <3> QED
      BY <3>2, <3>3
  <2>4. RevokedIfGone'
    BY <1>0, CredentialsSay DEF RevokedIfGone
  <2>5. /\ \A u \in Persons : \A g \in password'[u] : g \in Handlers => HasDone(g)'
        /\ \A g \in Handlers : key'[g] # None => HasDone(g)'
    BY <1>0, <1>2, <2>1, AfterStep, CredentialsSay
  <2> QED
    BY <1>0, <1>2, <2>1, <2>2, <2>3, <2>4, <2>5, CredentialsWritten DEF Managing
<1> QED
  BY <1>1, <1>2 DEF InsertOtp, Reply

LEMMA UpgradesPolicy == ASSUME SelfSound, SelfInv, NEW h \in Handlers, UpgradePolicy(h) PROVE SelfInv'
<1> DEFINE j == [task[h] EXCEPT !.pc = "done"]
<1>0. /\ Call[h] = "otp" /\ task[h].pc = "upgrade"
      /\ UNCHANGED <<tables, tickets, users, otp, password, key, certificate, revoked, locked, edits, history>>
  BY DEF UpgradePolicy, Is, tables
<1>1. CASE Reply(h, "failed") /\ policy' = policy
  BY <1>0, <1>1, Refuses DEF Refusals, ownCredentials
<1>2. CASE /\ Goto(h, j)
           /\ policy' = [policy EXCEPT ![Who[h]] = Upgraded(task[h].row, password[Who[h]])]
  <2>1. /\ j \in Job /\ j.pc = "done" /\ j.before = task[h].before
        /\ Call[h] = "otp" => j.row \in CredentialKinds
    BY Typed DEF Labels
  <2> HIDE DEF j
  <2>2. Upgraded(task[h].row, password[Who[h]]) \in CredentialKinds
    <3>1. task[h].row \in CredentialKinds
      BY <1>0, CredentialsSay
    <3> QED
      BY <3>1 DEF Upgraded, CredentialKinds
  <2>3. CredentialTypes'
    BY <1>0, <1>2, <2>2, CredentialsSay DEF CredentialTypes
  <2>4. ASSUME NEW g \in Handlers PROVE Managed(g)'
    <3>1. Managed(g)
      BY CredentialsSay
    <3>2. CASE g = h
      BY <1>0, <1>2, <2>1, <3>1, <3>2, AfterStep, KeepsBefore DEF Managed
    <3>3. CASE g # h
      BY <1>0, <1>2, <2>1, <3>1, <3>3, AfterStep DEF Managed
    <3> QED
      BY <3>2, <3>3
  <2>5. RevokedIfGone'
    BY <1>0, CredentialsSay DEF RevokedIfGone
  <2>6. /\ \A u \in Persons : \A g \in password'[u] : g \in Handlers => HasDone(g)'
        /\ \A g \in Handlers : key'[g] # None => HasDone(g)'
    BY <1>0, <1>2, <2>1, AfterStep, CredentialsSay
  <2> QED
    BY <1>0, <1>2, <2>1, <2>3, <2>4, <2>5, <2>6, CredentialsWritten DEF Managing
<1> QED
  BY <1>1, <1>2 DEF UpgradePolicy, Reply

\* The lock is taken when there is another one-time password, or none is needed.
LEMMA LocksOtps == ASSUME SelfSound, SelfInv, NEW h \in Handlers, LockOtps(h) PROVE SelfInv'
<1> DEFINE u == Who[h]
<1>0. /\ Call[h] = "otpdelete" /\ task[h].pc = "entered" /\ locked[u] = None
      /\ UNCHANGED <<tables, tickets, users, otp, password, key, certificate, revoked, policy, edits, history>>
  BY DEF LockOtps, Is, Free, ownCredentials, tables
<1>1. ASSUME NEW p \in {"notfound", "refused"}, Reply(h, p), locked' = locked PROVE SelfInv'
  BY <1>0, <1>1, Refuses DEF Refusals, ownCredentials
<1>2. ASSUME NEW c \in otp[u], ~(task[h].policy.enforced /\ Cardinality(otp[u]) <= 1),
             locked' = [locked EXCEPT ![u] = h],
             Goto(h, [task[h] EXCEPT !.pc = "delete", !.id = c])
      PROVE  SelfInv'
  <2> DEFINE j == [task[h] EXCEPT !.pc = "delete", !.id = c]
  <2>0. task[h] \in Job /\ "delete" \in Labels /\ c \in Old \cup Handlers
    BY <1>2, CredentialsSay DEF Labels
  <2>1. /\ j \in Job /\ j.pc = "delete" /\ j.id = c /\ j.before = task[h].before
        /\ j.policy = task[h].policy
    BY <2>0 DEF Job
  <2>2. Goto(h, j)
    BY <1>2
  <2> HIDE DEF j
  <2>3. task[h].policy.enforced => \E d \in otp[u] : d # c
    <3>1. Cardinality({c}) = 1
      BY FS_Singleton
    <3>2. SUFFICES ASSUME \A d \in otp[u] : d = c PROVE Cardinality(otp[u]) <= 1
      BY <1>2
    <3>3. otp[u] = {c}
      BY <1>2, <3>2
    <3> QED
      BY <3>1, <3>3
  <2>4. CredentialTypes'
    BY <1>0, <1>2, CredentialsSay DEF CredentialTypes
  <2>5. ASSUME NEW g \in Handlers PROVE Managed(g)'
    <3>1. Managed(g) /\ Who[g] \in Persons /\ u \in Persons /\ locked'[u] = h
          /\ (Who[g] # u => locked'[Who[g]] = locked[Who[g]])
      BY <1>2, CredentialsSay
    <3>2. CASE g = h
      BY <1>0, <2>1, <2>2, <2>3, <3>1, <3>2, AfterStep, KeepsBefore DEF Managed
    <3>3. CASE g # h
      BY <1>0, <2>1, <2>2, <3>1, <3>3, AfterStep DEF Managed, SelfSound
    <3> QED
      BY <3>2, <3>3
  <2>6. RevokedIfGone'
    BY <1>0, CredentialsSay DEF RevokedIfGone
  <2>7. /\ \A w \in Persons : \A g \in password'[w] : g \in Handlers => HasDone(g)'
        /\ \A g \in Handlers : key'[g] # None => HasDone(g)'
    BY <1>0, <2>1, <2>2, AfterStep, CredentialsSay
  <2> QED
    BY <1>0, <2>1, <2>2, <2>4, <2>5, <2>6, <2>7, CredentialsWritten DEF Managing
<1> QED
  BY <1>1, <1>2 DEF LockOtps

LEMMA DeletesOtp == ASSUME SelfSound, SelfInv, NEW h \in Handlers, DeleteOtp(h) PROVE SelfInv'
<1> DEFINE j == [task[h] EXCEPT !.pc = "done"]
<1>0. /\ Call[h] = "otpdelete" /\ task[h].pc = "delete" /\ Goto(h, j)
      /\ otp' = [otp EXCEPT ![Who[h]] = @ \ {task[h].id}]
      /\ locked' = [locked EXCEPT ![Who[h]] = None]
      /\ UNCHANGED <<tables, tickets, users, password, key, certificate, revoked, policy, edits, history>>
  BY DEF DeleteOtp, Is, Reply, tables
<1>1. j \in Job /\ j.pc = "done" /\ j.before = task[h].before
  BY Typed DEF Labels
<1> HIDE DEF j
<1>2. CredentialTypes'
  BY <1>0, CredentialsSay DEF CredentialTypes
<1>3. ASSUME NEW g \in Handlers PROVE Managed(g)'
  <2>1. /\ Managed(g) /\ Managed(h) /\ Who[g] \in Persons /\ Who[h] \in Persons
        /\ Who[g] # Who[h] => otp'[Who[g]] = otp[Who[g]] /\ locked'[Who[g]] = locked[Who[g]]
    BY <1>0, CredentialsSay
  <2>2. locked[Who[h]] = h
    BY <1>0, <2>1 DEF Managed
  <2>3. CASE g = h
    BY <1>0, <1>1, <2>1, <2>3, AfterStep, KeepsBefore DEF Managed
  <2>4. CASE g # h
    BY <1>0, <1>1, <2>1, <2>2, <2>4, AfterStep DEF Managed
  <2> QED
    BY <2>3, <2>4
<1>4. RevokedIfGone'
  BY <1>0, CredentialsSay DEF RevokedIfGone
<1>5. /\ \A u \in Persons : \A g \in password'[u] : g \in Handlers => HasDone(g)'
      /\ \A g \in Handlers : key'[g] # None => HasDone(g)'
  BY <1>0, <1>1, AfterStep, CredentialsSay
<1> QED
  BY <1>0, <1>1, <1>2, <1>3, <1>4, <1>5, CredentialsWritten DEF Managing

LEMMA AddsKey == ASSUME SelfSound, SelfInv, NEW h \in Handlers, AddKey(h) PROVE SelfInv'
<1> DEFINE j == [task[h] EXCEPT !.pc = "done"]
<1>0. /\ Call[h] = "key" /\ task[h].pc = "entered"
      /\ UNCHANGED <<tables, tickets, users, otp, password, certificate, revoked, policy, locked, edits, history>>
  BY DEF AddKey, Is, tables
<1>1. CASE Reply(h, "failed") /\ key' = key
  BY <1>0, <1>1, Refuses DEF Refusals, ownCredentials
<1>2. CASE Goto(h, j) /\ key' = [key EXCEPT ![h] = Who[h]]
  <2>1. j \in Job /\ j.pc = "done" /\ j.before = task[h].before
    BY Typed DEF Labels
  <2> HIDE DEF j
  <2>2. CredentialTypes'
    BY <1>0, <1>2, CredentialsSay DEF CredentialTypes
  <2>3. ASSUME NEW g \in Handlers PROVE Managed(g)'
    <3>1. /\ Managed(g) /\ ~HasDone(h)
          /\ \A c \in Old \cup Handlers : c # h => key'[c] = key[c]
      BY <1>0, <1>2, CredentialsSay DEF HasDone
    <3>2. CASE g = h
      BY <1>0, <1>2, <2>1, <3>1, <3>2, AfterStep, KeepsBefore DEF Managed
    <3>3. CASE g # h
      BY <1>0, <1>2, <2>1, <3>1, <3>3, AfterStep DEF Managed
    <3> QED
      BY <3>2, <3>3
  <2>4. RevokedIfGone'
    BY <1>0, CredentialsSay DEF RevokedIfGone
  <2>5. HasDone(h)'
    BY <1>0, <1>2, <2>1, AfterStep DEF HasDone
  <2>6. /\ \A u \in Persons : \A g \in password'[u] : g \in Handlers => HasDone(g)'
        /\ \A g \in Handlers : key'[g] # None => HasDone(g)'
    BY <1>0, <1>2, <2>1, <2>5, AfterStep, CredentialsSay
  <2> QED
    BY <1>0, <1>2, <2>1, <2>2, <2>3, <2>4, <2>6, CredentialsWritten DEF Managing
<1> QED
  BY <1>1, <1>2 DEF AddKey, Reply

LEMMA DeletesKey == ASSUME SelfSound, SelfInv, NEW h \in Handlers, DeleteKey(h) PROVE SelfInv'
<1> DEFINE j == [task[h] EXCEPT !.pc = "done"]
<1>0. /\ Call[h] = "keydelete" /\ task[h].pc = "delete" /\ Goto(h, j)
      /\ key' = [key EXCEPT ![task[h].id] = None]
      /\ UNCHANGED <<tables, tickets, users, otp, password, certificate, revoked, policy, locked, edits, history>>
  BY DEF DeleteKey, Is, Reply, tables
<1>1. j \in Job /\ j.pc = "done" /\ j.before = task[h].before
  BY Typed DEF Labels
<1> HIDE DEF j
<1>2. CredentialTypes'
  BY <1>0, CredentialsSay DEF CredentialTypes
<1>3. \A c \in Old \cup Handlers : key'[c] \in {None, key[c]}
  BY <1>0, CredentialsSay
<1>4. ASSUME NEW g \in Handlers PROVE Managed(g)'
  <2>1. Managed(g)
    BY CredentialsSay
  <2>2. CASE g = h
    BY <1>0, <1>1, <2>1, <2>2, AfterStep, KeepsBefore DEF Managed
  <2>3. CASE g # h
    BY <1>0, <1>1, <1>3, <2>1, <2>3, AfterStep DEF Managed
  <2> QED
    BY <2>2, <2>3
<1>5. RevokedIfGone'
  BY <1>0, CredentialsSay DEF RevokedIfGone
<1>6. /\ \A u \in Persons : \A g \in password'[u] : g \in Handlers => HasDone(g)'
      /\ \A g \in Handlers : key'[g] # None => HasDone(g)'
  BY <1>0, <1>1, <1>3, AfterStep, CredentialsSay
<1> QED
  BY <1>0, <1>1, <1>2, <1>4, <1>5, <1>6, CredentialsWritten DEF Managing

LEMMA Certifies == ASSUME SelfSound, SelfInv, NEW h \in Handlers, Certify(h) PROVE SelfInv'
<1> DEFINE j == [task[h] EXCEPT !.pc = "done"]
<1>0. /\ Call[h] = "certify" /\ task[h].pc = "entered"
      /\ UNCHANGED <<tables, tickets, users, otp, password, key, revoked, policy, locked, edits, history>>
  BY DEF Certify, Is, tables
<1>1. CASE Reply(h, "failed") /\ certificate' = certificate
  BY <1>0, <1>1, Refuses DEF Refusals, ownCredentials
<1>2. CASE Goto(h, j) /\ certificate' = [certificate EXCEPT ![Who[h]] = @ \cup {h}]
  <2>1. j \in Job /\ j.pc = "done" /\ j.before = task[h].before
    BY Typed DEF Labels
  <2> HIDE DEF j
  <2>2. CredentialTypes'
    BY <1>0, <1>2, CredentialsSay DEF CredentialTypes
  <2>3. ASSUME NEW g \in Handlers PROVE Managed(g)'
    <3>1. Managed(g)
      BY CredentialsSay
    <3>2. CASE g = h
      BY <1>0, <1>2, <2>1, <3>1, <3>2, AfterStep, KeepsBefore DEF Managed
    <3>3. CASE g # h
      BY <1>0, <1>2, <2>1, <3>1, <3>3, AfterStep DEF Managed
    <3> QED
      BY <3>2, <3>3
  <2>4. \A u \in Persons : certificate[u] \subseteq certificate'[u]
    BY <1>2, CredentialsSay
  <2>5. RevokedIfGone'
    BY <1>0, <2>4, CredentialsSay DEF RevokedIfGone
  <2>6. /\ \A u \in Persons : \A g \in password'[u] : g \in Handlers => HasDone(g)'
        /\ \A g \in Handlers : key'[g] # None => HasDone(g)'
    BY <1>0, <1>2, <2>1, AfterStep, CredentialsSay
  <2> QED
    BY <1>0, <1>2, <2>1, <2>2, <2>3, <2>5, <2>6, CredentialsWritten DEF Managing
<1> QED
  BY <1>1, <1>2 DEF Certify, Reply

\* The certificate is put on the list.
LEMMA ListsRevoked == ASSUME SelfSound, SelfInv, NEW h \in Handlers, RevokeStep(h, "list") PROVE SelfInv'
<1> DEFINE j == [task[h] EXCEPT !.pc = "delete"]
<1>0. /\ Call[h] = "revoke" /\ task[h].pc = "list" /\ Goto(h, j)
      /\ revoked' = revoked \cup {<<Who[h], task[h].id>>}
      /\ UNCHANGED <<tables, tickets, users, otp, password, key, certificate, policy, locked, edits, history>>
  BY DEF RevokeStep, Listing, Is, Reply, tables
<1>1. j \in Job /\ j.pc = "delete" /\ j.before = task[h].before /\ j.id = task[h].id
  BY Typed DEF Labels
<1> HIDE DEF j
<1>2. CredentialTypes'
  BY <1>0, CredentialsSay DEF CredentialTypes
<1>3. ASSUME NEW g \in Handlers PROVE Managed(g)'
  <2>1. Managed(g)
    BY CredentialsSay
  <2>2. CASE g = h
    BY <1>0, <1>1, <2>1, <2>2, AfterStep, KeepsBefore DEF Managed
  <2>3. CASE g # h
    BY <1>0, <1>1, <2>1, <2>3, AfterStep DEF Managed
  <2> QED
    BY <2>2, <2>3
<1>4. RevokedIfGone'
  BY <1>0, CredentialsSay DEF RevokedIfGone
<1>5. /\ \A u \in Persons : \A g \in password'[u] : g \in Handlers => HasDone(g)'
      /\ \A g \in Handlers : key'[g] # None => HasDone(g)'
  BY <1>0, <1>1, AfterStep, CredentialsSay
<1> QED
  BY <1>0, <1>1, <1>2, <1>3, <1>4, <1>5, CredentialsWritten DEF Managing

\* A certificate that is deleted has been listed.
LEMMA DeletesCertificate ==
    ASSUME SelfSound, SelfInv, NEW h \in Handlers, RevokeStep(h, "delete") PROVE SelfInv'
<1> DEFINE j == [task[h] EXCEPT !.pc = "done"]
<1>0. /\ Call[h] = "revoke" /\ task[h].pc = "delete" /\ Goto(h, j)
      /\ certificate' = [certificate EXCEPT ![Who[h]] = @ \ {task[h].id}]
      /\ UNCHANGED <<tables, tickets, users, otp, password, key, revoked, policy, locked, edits, history>>
  BY DEF RevokeStep, Listing, Is, Reply, tables
<1>1. j \in Job /\ j.pc = "done" /\ j.before = task[h].before
  BY Typed DEF Labels
<1> HIDE DEF j
<1>2. CredentialTypes'
  BY <1>0, CredentialsSay DEF CredentialTypes
<1>3. ASSUME NEW g \in Handlers PROVE Managed(g)'
  <2>1. Managed(g)
    BY CredentialsSay
  <2>2. CASE g = h
    BY <1>0, <1>1, <2>1, <2>2, AfterStep, KeepsBefore DEF Managed
  <2>3. CASE g # h
    BY <1>0, <1>1, <2>1, <2>3, AfterStep DEF Managed
  <2> QED
    BY <2>2, <2>3
<1>4. RevokedIfGone'
  <2>1. <<Who[h], task[h].id>> \in revoked
    BY <1>0, CredentialsSay DEF Managed
  <2>2. ASSUME NEW u \in users, NEW c \in Old, c \notin certificate'[u] PROVE <<u, c>> \in revoked
    <3>1. c \notin certificate[u] \/ (u = Who[h] /\ c = task[h].id)
      BY <1>0, <2>2, CredentialsSay
    <3> QED
      BY <2>1, <3>1, CredentialsSay DEF RevokedIfGone
  <2> QED
    BY <1>0, <2>2 DEF RevokedIfGone
<1>5. /\ \A u \in Persons : \A g \in password'[u] : g \in Handlers => HasDone(g)'
      /\ \A g \in Handlers : key'[g] # None => HasDone(g)'
  BY <1>0, <1>1, AfterStep, CredentialsSay
<1> QED
  BY <1>0, <1>1, <1>2, <1>3, <1>4, <1>5, CredentialsWritten DEF Managing

\* A handler that fails gives back its lock, and no other's.
LEMMA FailsCleanly == ASSUME SelfSound, SelfInv, NEW h \in Handlers, Fails(h) PROVE SelfInv'
<1> DEFINE j == [task[h] EXCEPT !.pc = "failed"]
<1>0. /\ task[h].pc # "done" /\ Goto(h, j)
      /\ locked' = [u \in Persons |-> IF locked[u] = h THEN None ELSE locked[u]]
      /\ UNCHANGED <<tables, tickets, ownCredentials, edits, history>>
      /\ UNCHANGED <<users, otp, password, key, certificate, revoked, policy>>
  BY DEF Fails, Ended, Reply, tables, ownCredentials
<1>1. /\ j \in Job /\ j.pc = "failed" /\ j.before = task[h].before
      /\ Call[h] = "otp" => j.row \in CredentialKinds
  BY Typed DEF Labels, Refusals
<1> HIDE DEF j
<1>2. task'[h] = j /\ Moves(h, j)
  BY <1>0, <1>1, AfterStep
<1>3. Prepared(h)'
  BY <1>1, <1>2 DEF Prepared
<1>4. TicketInv'
  BY <1>0, <1>2, <1>3, TicketFrame DEF SelfInv, SelfTypes
<1>5. TaskTypes'
  BY <1>1, <1>2, TaskTyped DEF SelfInv, SelfTypes
<1>6. CredentialTypes'
  BY <1>0, CredentialsSay DEF CredentialTypes
<1>7. SelfTypes'
  BY <1>0, <1>5, <1>6 DEF SelfInv, SelfTypes, TicketTypes, TableTypes, tables, tickets, history
<1>8. ASSUME NEW g \in Handlers PROVE Managed(g)'
  <2>1. Managed(g) /\ Who[g] \in Persons
    BY CredentialsSay
  <2>2. CASE g = h
    BY <1>0, <1>1, <1>2, <2>1, <2>2, KeepsBefore DEF Managed
  <2>3. CASE g # h
    <3>1. locked[Who[g]] = g => locked'[Who[g]] = g
      BY <1>0, <2>1, <2>3
    <3> QED
      BY <1>0, <1>1, <2>1, <2>3, <3>1, AfterStep DEF Managed
  <2> QED
    BY <2>2, <2>3
<1>9. RevokedIfGone'
  BY <1>0, CredentialsSay DEF RevokedIfGone
<1>10. /\ \A u \in Persons : \A g \in password'[u] : g \in Handlers => HasDone(g)'
       /\ \A g \in Handlers : key'[g] # None => HasDone(g)'
  BY <1>0, <1>1, AfterStep, CredentialsSay
<1> QED
  BY <1>4, <1>7, <1>8, <1>9, <1>10 DEF SelfInv, CredentialInv

\* An administrator waits for the lock, so nobody who holds it loses the other factor.
LEMMA AdminDeletes == ASSUME SelfSound, SelfInv, NEW u \in Persons, AdminDeletesOtp(u) PROVE SelfInv'
<1>0. /\ locked[u] = None /\ edits' = edits + 1
      /\ UNCHANGED <<tables, tickets, password, key, certificate, revoked, policy, locked, task, history>>
      /\ UNCHANGED <<parameters, target, users, entitled, asking, ticket, minted, denied, audited>>
  BY DEF AdminDeletesOtp, tables, tickets, history
<1>1. PICK c \in otp[u] : otp' = [otp EXCEPT ![u] = @ \ {c}]
  BY DEF AdminDeletesOtp
<1>2. SelfTypes'
  <2>1. CredentialTypes'
    BY <1>0, <1>1 DEF CredentialTypes, SelfInv, SelfTypes
  <2> QED
    BY <1>0, <2>1 DEF SelfInv, SelfTypes, TableTypes, TicketTypes, TaskTypes
<1>3. TicketInv'
  <2>1. /\ \A h \in Handlers : Prepared(h)'
        /\ \A r \in Creators : AskedRight(r)'
        /\ \A k \in Handlers : TicketRight(k)'
    BY <1>0 DEF SelfInv, TicketInv, Prepared, AskedRight, TicketRight, HasDone
  <2>2. MintedRight' /\ DeniedRight'
    BY <1>0 DEF SelfInv, TicketInv, MintedRight, DeniedRight, HasDone
  <2> QED
    BY <2>1, <2>2 DEF TicketInv
<1>4. ASSUME NEW g \in Handlers PROVE Managed(g)'
  <2>1. Managed(g) /\ Who[g] \in Persons /\ (Who[g] # u => otp'[Who[g]] = otp[Who[g]])
    BY <1>1, CredentialsSay
  <2> QED
    BY <1>0, <2>1 DEF Managed, SelfSound, HasDone
<1>5. RevokedIfGone'
  BY <1>0 DEF RevokedIfGone, SelfInv, CredentialInv
<1> QED
  BY <1>0, <1>2, <1>3, <1>4, <1>5 DEF SelfInv, CredentialInv, HasDone

-----------------------------------------------------------------------------
LEMMA SelfStep == ASSUME SelfSound, SelfInv, [SelfNext]_selfVars PROVE SelfInv'
<1>1. ASSUME NEW h \in Handlers,
             \/ ReadPolicy(h) \/ ReadTarget(h) \/ Authorize(h) \/ CountPending(h) \/ Insert(h)
             \/ ReadPending(h) \/ UserExists(h) \/ TargetExists(h) \/ Decide(h)
             \/ ReadRequest(h) \/ ReadActivationTarget(h) \/ ReadCaps(h) \/ ClaimRequest(h)
      PROVE  SelfInv'
  BY <1>1, ReadsPolicy, ReadsTarget, Authorizes, CountsPending, InsertsOrNot, ReadsPending,
     ChecksExistence, Decides, ReadsRequest, ReadsActivationTarget, ReadsCaps, ClaimsOrNot
<1>2. ASSUME NEW h \in Handlers,
             \/ EnterHandler(h) \/ WipePasswords(h) \/ InsertPassword(h)
             \/ MayEnrol(h) \/ InsertOtp(h) \/ UpgradePolicy(h) \/ LockOtps(h) \/ DeleteOtp(h)
             \/ AddKey(h) \/ FindKey(h) \/ DeleteKey(h) \/ Certify(h) \/ FindCertificate(h)
             \/ RevokeStep(h, "list") \/ RevokeStep(h, "delete")
      PROVE  SelfInv'
  BY <1>2, Enters, WipesPasswords, InsertsPassword, Enrols, InsertsOtp, UpgradesPolicy, LocksOtps,
     DeletesOtp, AddsKey, Finds, DeletesKey, Certifies, ListsRevoked, DeletesCertificate
<1>3. ASSUME NEW h \in Handlers, Fails(h) \/ DeleteTicket(h) \/ Expire(h) PROVE SelfInv'
  BY <1>3, FailsCleanly, DeletesTicket, Expires
<1>4. ASSUME NEW r \in Creators, AgeRequest(r) PROVE SelfInv'
  BY <1>4, AgesRequest
<1>5. ASSUME NEW u \in Persons, DeleteUser(u) \/ AdminDeletesOtp(u) PROVE SelfInv'
  BY <1>5, DeletesUser, AdminDeletes
<1>6. CASE CleanupReads \/ CleanupDeletes \/ DeleteTarget \/ Configure
  BY <1>6, CleansUp, DeletesTarget, Configures
<1>7. CASE UNCHANGED selfVars
  <2>1. UNCHANGED <<parameters, target, users, entitled, asking, ticket, ownCredentials, locked,
                    task, edits, minted, denied, audited>>
    BY <1>7 DEF selfVars, tables, tickets, history
  <2>2. CredentialInv' /\ CredentialTypes' /\ TaskTypes'
    BY <2>1, CredentialsRest
  <2>3. /\ \A h \in Handlers : Prepared(h)'
        /\ \A r \in Creators : AskedRight(r)'
        /\ \A k \in Handlers : TicketRight(k)'
    BY <2>1 DEF SelfInv, TicketInv, Prepared, AskedRight, TicketRight, HasDone
  <2>4. MintedRight' /\ DeniedRight'
    BY <2>1 DEF SelfInv, TicketInv, MintedRight, DeniedRight, HasDone
  <2>5. TableTypes' /\ TicketTypes' /\ edits' \in Nat
    BY <2>1 DEF SelfInv, SelfTypes, TableTypes, TicketTypes
  <2> QED
    BY <2>2, <2>3, <2>4, <2>5 DEF SelfInv, SelfTypes, TicketInv
<1> QED
  BY <1>1, <1>2, <1>3, <1>4, <1>5, <1>6, <1>7 DEF SelfNext

LEMMA SelfAlways == ASSUME SelfSound PROVE SelfSpec => []SelfInv
<1>1. SelfInit => SelfInv
  BY SelfBegins
<1>2. SelfInv /\ [SelfNext]_selfVars => SelfInv'
  BY SelfStep
<1> QED
  BY <1>1, <1>2, PTL DEF SelfSpec

\* A request that was turned into a ticket is in the history with one ticket only.
LEMMA MintedOnce == ASSUME SelfSound, SelfInv PROVE TicketOnce
<1> SUFFICES ASSUME NEW r \in Creators
             PROVE  Cardinality({m \in minted : m[2] = r}) <= 1
  BY DEF TicketOnce
<1> DEFINE S == {m \in minted : m[2] = r}
<1>1. \A m, n \in S : m = n
  BY DEF SelfInv, TicketInv, MintedRight
<1>2. CASE S = {}
  BY <1>2, FS_EmptySet
<1>3. CASE S # {}
  <2>1. PICK m \in S : TRUE
    BY <1>3
  <2>2. S = {m}
    BY <1>1, <2>1
  <2>3. Cardinality({m}) = 1
    BY FS_Singleton
  <2> QED
    BY <2>2, <2>3
<1> QED
  BY <1>2, <1>3

LEMMA InvServes == ASSUME SelfSound, SelfInv PROVE SelfServed
<1>1. TicketOnce
  BY MintedOnce
<1>2. /\ Creators \subseteq Handlers
      /\ \A r \in Creators : AskedRight(r)
      /\ \A k \in Handlers : TicketRight(k)
  BY DEF Creators, SelfInv, TicketInv
<1>3. TicketAsGranted
  BY <1>2 DEF TicketAsGranted, TicketRight
<1>4. ReferencesHold
  BY <1>2 DEF ReferencesHold, AskedRight, TicketRight
<1>5. RevokedIfGone
  BY DEF SelfInv, CredentialInv
<1>6. PasswordReplaced
  BY DEF SelfInv, CredentialInv, PasswordReplaced, Managed, Is
<1> QED
  BY <1>1, <1>3, <1>4, <1>5, <1>6 DEF SelfServed

\* What users get from serving themselves, whatever the number of handlers, persons and
\* settings, and whatever fails in between: a request becomes one ticket at most although
\* activations of it race (commit_activation claims it with one UPDATE), a ticket is its
\* owner's and within the request and the caps, nothing refers to a row that is gone
\* (delete_ticket_closing_sessions, delete_user_records, cleanup_db), a certificate that
\* api_revoke_certificate deleted is listed, and api_change_password leaves no password
\* from before.
THEOREM ServedAsAsked == ASSUME SelfSound PROVE SelfSpec => []SelfServed
<1>1. SelfInv => SelfServed
  BY InvServes
<1> QED
  BY <1>1, SelfAlways, PTL

-----------------------------------------------------------------------------
(* What a step may change.                                                 *)

\* The steps that read, for any handler.
ReadOnly(h) ==
    \/ ReadPolicy(h) \/ ReadTarget(h) \/ Authorize(h) \/ CountPending(h)
    \/ ReadPending(h) \/ UserExists(h) \/ TargetExists(h)
    \/ ReadRequest(h) \/ ReadActivationTarget(h) \/ ReadCaps(h)
    \/ EnterHandler(h) \/ MayEnrol(h) \/ FindKey(h) \/ FindCertificate(h)

LEMMA ReadingChangesNothing ==
    ASSUME NEW h, ReadOnly(h) PROVE UNCHANGED <<minted, otp, key>>
<1>1. CASE \/ ReadPolicy(h) \/ ReadTarget(h) \/ Authorize(h) \/ CountPending(h)
           \/ ReadPending(h) \/ UserExists(h) \/ TargetExists(h)
  BY <1>1 DEF ReadPolicy, ReadTarget, Authorize, CountPending, ReadPending, UserExists,
              TargetExists, history, ownCredentials
<1>2. CASE \/ ReadRequest(h) \/ ReadActivationTarget(h) \/ ReadCaps(h)
           \/ EnterHandler(h) \/ MayEnrol(h) \/ FindKey(h) \/ FindCertificate(h)
  BY <1>2 DEF ReadRequest, ReadActivationTarget, ReadCaps, EnterHandler, MayEnrol, FindKey,
              FindCertificate, history, ownCredentials
<1> QED
  BY <1>1, <1>2 DEF ReadOnly

\* Who issues tickets, who changes one-time passwords, and who changes keys.
LEMMA WhoWrites ==
    ASSUME [SelfNext]_selfVars
    PROVE  /\ UNCHANGED minted \/ \E h \in Handlers : Insert(h) \/ ClaimRequest(h)
           /\ \/ UNCHANGED otp
              \/ \E h \in Handlers : InsertOtp(h) \/ DeleteOtp(h)
              \/ \E u \in Persons : DeleteUser(u) \/ AdminDeletesOtp(u)
           /\ \/ UNCHANGED key
              \/ \E h \in Handlers : AddKey(h) \/ DeleteKey(h)
              \/ \E u \in Persons : DeleteUser(u)
<1>1. ASSUME NEW h \in Handlers, Insert(h) \/ Decide(h) \/ ClaimRequest(h)
      PROVE  UNCHANGED <<otp, key>> /\ (Decide(h) => UNCHANGED minted)
  BY <1>1 DEF Insert, Decide, ClaimRequest, ownCredentials
<1>2. ASSUME NEW h \in Handlers,
             \/ WipePasswords(h) \/ InsertPassword(h) \/ UpgradePolicy(h) \/ Certify(h)
             \/ RevokeStep(h, "list") \/ RevokeStep(h, "delete")
      PROVE  UNCHANGED <<minted, otp, key>>
  BY <1>2 DEF WipePasswords, InsertPassword, UpgradePolicy, Certify, RevokeStep, history
<1>3. ASSUME NEW h \in Handlers, LockOtps(h) \/ Fails(h) \/ DeleteTicket(h) \/ Expire(h)
      PROVE  UNCHANGED <<minted, otp, key>>
  BY <1>3 DEF LockOtps, Fails, DeleteTicket, Expire, history, ownCredentials
<1>4. ASSUME NEW h \in Handlers, InsertOtp(h) \/ DeleteOtp(h)
      PROVE  UNCHANGED <<minted, key>>
  BY <1>4 DEF InsertOtp, DeleteOtp, history
<1>5. ASSUME NEW h \in Handlers, AddKey(h) \/ DeleteKey(h)
      PROVE  UNCHANGED <<minted, otp>>
  BY <1>5 DEF AddKey, DeleteKey, history
<1>6. ASSUME NEW r \in Creators, AgeRequest(r) PROVE UNCHANGED <<minted, otp, key>>
  BY <1>6 DEF AgeRequest, history, ownCredentials
<1>7. ASSUME NEW u \in Persons, DeleteUser(u) \/ AdminDeletesOtp(u)
      PROVE  UNCHANGED minted /\ (AdminDeletesOtp(u) => UNCHANGED key)
  BY <1>7 DEF DeleteUser, AdminDeletesOtp, history
<1>8. CASE CleanupReads \/ CleanupDeletes \/ DeleteTarget \/ Configure \/ UNCHANGED selfVars
  <2>1. UNCHANGED <<minted, otp, key>>
    BY <1>8 DEF CleanupReads, CleanupDeletes, DeleteTarget, Configure, selfVars, history,
                ownCredentials
  <2> QED
    BY <2>1
<1>9. ASSUME NEW h \in Handlers, ReadOnly(h) PROVE UNCHANGED <<minted, otp, key>>
  BY <1>9, ReadingChangesNothing
<1>10. \/ CleanupReads \/ CleanupDeletes \/ DeleteTarget \/ Configure \/ UNCHANGED selfVars
       \/ \E h \in Handlers :
            \/ ReadOnly(h) \/ Insert(h) \/ Decide(h) \/ ClaimRequest(h) \/ WipePasswords(h)
            \/ InsertPassword(h) \/ UpgradePolicy(h) \/ Certify(h) \/ RevokeStep(h, "list")
            \/ RevokeStep(h, "delete") \/ LockOtps(h) \/ Fails(h) \/ DeleteTicket(h) \/ Expire(h)
            \/ InsertOtp(h) \/ DeleteOtp(h) \/ AddKey(h) \/ DeleteKey(h)
       \/ \E r \in Creators : AgeRequest(r)
       \/ \E u \in Persons : DeleteUser(u) \/ AdminDeletesOtp(u)
  BY DEF SelfNext, ReadOnly
<1> QED
  BY <1>1, <1>2, <1>3, <1>4, <1>5, <1>6, <1>7, <1>8, <1>9, <1>10

LEMMA GrantStep ==
    ASSUME SelfSound, SelfInv, [SelfNext]_selfVars PROVE NoneUnlessGranted
<1>1. ASSUME NEW h \in Handlers, Insert(h) PROVE NoneUnlessGranted
  <2>1. h \notin denied
    BY <1>1 DEF SelfInv, TicketInv, DeniedRight, Insert, Is, HasDone
  <2>2. minted' \subseteq minted \cup {<<h, h>>}
    BY <1>1 DEF Insert
  <2> QED
    BY <2>1, <2>2 DEF NoneUnlessGranted
<1>2. ASSUME NEW h \in Handlers, ClaimRequest(h) PROVE NoneUnlessGranted
  <2> DEFINE r == task[h].id
  <2>1. minted' = minted \/ (Claimable(h, r) /\ minted' = minted \cup {<<h, r>>})
    BY <1>2 DEF ClaimRequest
  <2>2. Claimable(h, r) => r \notin denied
    BY DEF Claimable, Activatable, SelfInv, TicketInv, DeniedRight
  <2> QED
    BY <2>1, <2>2 DEF NoneUnlessGranted
<1> QED
  BY <1>1, <1>2, WhoWrites DEF NoneUnlessGranted

\* No ticket is issued for a request whose last decision was a denial: the claim of
\* commit_activation looks at the status again, although prepare_activation read it as
\* approved before deny_ticket_request overwrote it.
THEOREM NoTicketOnceDenied == ASSUME SelfSound PROVE SelfSpec => [][NoneUnlessGranted]_selfVars
<1>1. SelfInv /\ [SelfNext]_selfVars => [NoneUnlessGranted]_selfVars
  BY GrantStep
<1> QED
  BY <1>1, SelfAlways, PTL DEF SelfSpec

LEMMA FactorStep ==
    ASSUME SelfSound, SelfInv, [SelfNext]_selfVars PROVE FactorStays
<1> SUFFICES ASSUME NEW u \in Persons, otp[u] # otp'[u], otp'[u] = {}
             PROVE  \/ edits' # edits
                    \/ \E h \in Handlers : /\ task[h].pc = "delete" /\ task'[h].pc = "done"
                                           /\ ~task[h].policy.enforced
  BY DEF FactorStays
<1>0. edits \in Nat
  BY DEF SelfInv, SelfTypes
<1>1. ASSUME NEW h \in Handlers, InsertOtp(h) PROVE FALSE
  BY <1>1, CredentialsSay DEF InsertOtp
<1>2. ASSUME NEW h \in Handlers, DeleteOtp(h)
      PROVE  task[h].pc = "delete" /\ task'[h].pc = "done" /\ ~task[h].policy.enforced
  <2>1. /\ Call[h] = "otpdelete" /\ task[h].pc = "delete"
        /\ otp' = [otp EXCEPT ![Who[h]] = @ \ {task[h].id}]
        /\ Goto(h, [task[h] EXCEPT !.pc = "done"])
    BY <1>2 DEF DeleteOtp, Is, Reply
  <2>2. u = Who[h] /\ otp[u] \subseteq {task[h].id}
    BY <2>1, CredentialsSay
  <2>3. task[h].policy.enforced => \E c \in otp[u] : c # task[h].id
    BY <2>1, <2>2, CredentialsSay DEF Managed
  <2>4. task'[h].pc = "done"
    <3>1. "done" \in Labels
      BY DEF Labels
    <3>2. [task[h] EXCEPT !.pc = "done"] \in Job /\ [task[h] EXCEPT !.pc = "done"].pc = "done"
      BY <3>1, Typed
    <3> QED
      BY <2>1, <3>2, AfterStep
  <2> QED
    BY <2>1, <2>2, <2>3, <2>4
<1>3. ASSUME NEW w \in Persons, DeleteUser(w) \/ AdminDeletesOtp(w) PROVE edits' # edits
  BY <1>0, <1>3 DEF DeleteUser, AdminDeletesOtp
<1> QED
  BY <1>1, <1>2, <1>3, WhoWrites

\* A user whom the settings oblige to have a second factor keeps one: two runs of
\* delete_own_otp cannot each take the other's last one-time password, since the rows are
\* locked while they are counted.
THEOREM LastFactorKept == ASSUME SelfSound PROVE SelfSpec => [][FactorStays]_selfVars
<1>1. SelfInv /\ [SelfNext]_selfVars => [FactorStays]_selfVars
  BY FactorStep
<1> QED
  BY <1>1, SelfAlways, PTL DEF SelfSpec

LEMMA KeyStep ==
    ASSUME SelfSound, SelfInv, [SelfNext]_selfVars PROVE ByOwnHand
<1> SUFFICES ASSUME NEW c \in Old \cup Handlers, key[c] # None, key'[c] # key[c]
             PROVE  \/ key[c] \notin users'
                    \/ \E h \in Handlers : /\ Who[h] = key[c] /\ Call[h] = "keydelete"
                                           /\ task'[h] # task[h]
  BY DEF ByOwnHand
<1>1. ASSUME NEW h \in Handlers, AddKey(h) PROVE FALSE
  <2>1. ~HasDone(h)
    BY <1>1 DEF AddKey, Is, HasDone
  <2>2. key[h] = None /\ \A d \in Old \cup Handlers : d # h => key'[d] = key[d]
    BY <1>1, <2>1, CredentialsSay DEF AddKey
  <2> QED
    BY <2>2
<1>2. ASSUME NEW h \in Handlers, DeleteKey(h)
      PROVE  Who[h] = key[c] /\ Call[h] = "keydelete" /\ task'[h] # task[h]
  <2>1. /\ Call[h] = "keydelete" /\ task[h].pc = "delete"
        /\ key' = [key EXCEPT ![task[h].id] = None]
        /\ Goto(h, [task[h] EXCEPT !.pc = "done"])
    BY <1>2 DEF DeleteKey, Is, Reply
  <2>2. c = task[h].id
    BY <2>1, CredentialsSay
  <2>3. key[c] = Who[h]
    BY <2>1, <2>2, CredentialsSay DEF Managed
  <2>4. task'[h].pc = "done"
    <3>1. "done" \in Labels
      BY DEF Labels
    <3>2. [task[h] EXCEPT !.pc = "done"] \in Job /\ [task[h] EXCEPT !.pc = "done"].pc = "done"
      BY <3>1, Typed
    <3> QED
      BY <2>1, <3>2, AfterStep
  <2> QED
    BY <2>1, <2>3, <2>4
<1>3. ASSUME NEW u \in Persons, DeleteUser(u) PROVE key[c] \notin users'
  BY <1>3 DEF DeleteUser
<1> QED
  BY <1>1, <1>2, <1>3, WhoWrites

\* A stored public key goes by its owner's hand or with its owner: api_delete_pk deletes
\* by id alone what find_related found to be the caller's, and in between the row became
\* nobody else's.
THEOREM KeysGoByOwnHand == ASSUME SelfSound PROVE SelfSpec => [][ByOwnHand]_selfVars
<1>1. SelfInv /\ [SelfNext]_selfVars => [ByOwnHand]_selfVars
  BY KeyStep
<1> QED
  BY <1>1, SelfAlways, PTL DEF SelfSpec
=============================================================================
