---------------------------- MODULE SignInProofs ----------------------------
(***************************************************************************)
(* What signing in guarantees for every number of attempts, users,         *)
(* targets, keys and tasks: what a person's own decision is worth          *)
(* (UserApprovals), which credentials a login has to present               *)
(* (CredentialPolicies), when a connection is closed (SshTimers), and to   *)
(* which hosts credentials are sent (SshTargets).                          *)
(***************************************************************************)
EXTENDS UserApprovals, CredentialPolicies, SshTimers, SshTargets, FiniteSetTheorems, WellFoundedInduction, TLAPS

-----------------------------------------------------------------------------
(* What the methods of an attempt do to its fields.                        *)

Results == [verdict : {"accepted", "rejected", "need"}, kinds : SUBSET Kinds]

Records == [user : Users, target : Targets, valid : SUBSET Kinds, bypassed : BOOLEAN,
            stepUp : BOOLEAN, rejected : BOOLEAN, sent : Seq(Results)]

\* An attempt as its fields are, but for the results it has sent.
Is(s, u, t, v, b, p, r) ==
    /\ s \in Records
    /\ s.user = u /\ s.target = t /\ s.valid = v
    /\ s.bypassed = b /\ s.stepUp = p /\ s.rejected = r

\* Whether an approval is needed, by the fields.
Wants(v, b, p, r) ==
    /\ ~r
    /\ \/ p /\ ~(~b /\ Web \in v)
       \/ IsSufficient(v).verdict = "need" /\ Web \in IsSufficient(v).kinds

LEMMA VerifyType ==
    ASSUME SignInSound, NEW s \in Records
    PROVE  Verify(s) \in Results
<1>1. Web \in Kinds
  BY DEF Web, Kinds
<1>2. \A v \in SUBSET Kinds : Inner(v) \in Results
  BY DEF Inner, AnySingle, AllCredentials, Accepted, Need, Results, SignInSound
<1>3. \A v \in SUBSET Kinds : IsSufficient(v) \in Results
  BY <1>2 DEF IsSufficient, Need, Results, SignInSound
<1>4. CASE s.rejected
  BY <1>4 DEF Verify, Rejected, Results
<1>5. CASE ~s.rejected /\ s.stepUp /\ ~HasRealWebApproval(s)
  BY <1>1, <1>5 DEF Verify, Need, Results
<1>6. CASE ~s.rejected /\ ~(s.stepUp /\ ~HasRealWebApproval(s))
  <2>1. s.valid \in SUBSET Kinds
    BY DEF Records
  <2>2. Verify(s) = IsSufficient(s.valid)
    BY <1>6 DEF Verify
  <2> QED
    BY <1>3, <2>1, <2>2
<1> QED
  BY <1>4, <1>5, <1>6

\* What maybe_update_verification_state sends changes nothing else.
LEMMA UpdateKeeps ==
    ASSUME SignInSound, NEW s \in Records
    PROVE  Is(Update(s), s.user, s.target, s.valid, s.bypassed, s.stepUp, s.rejected)
<1>1. Verify(s) \in Results
  BY VerifyType
<1> DEFINE v == Verify(s)
<1> HIDE DEF v
<1>2. v \in Results
  BY <1>1 DEF v
<1>3. Update(s) = s \/ Update(s) = [s EXCEPT !.sent = Append(s.sent, v)]
  BY DEF Update, v
<1>4. Append(s.sent, v) \in Seq(Results)
  BY <1>2 DEF Records
<1> QED
  BY <1>3, <1>4 DEF Is, Records

LEMMA NeedsByFields ==
    ASSUME NEW s \in Records
    PROVE  NeedsWebApproval(s) <=> Wants(s.valid, s.bypassed, s.stepUp, s.rejected)
<1>1. CASE s.rejected
  BY <1>1 DEF NeedsWebApproval, Verify, Rejected, Wants
<1>2. CASE ~s.rejected /\ s.stepUp /\ ~HasRealWebApproval(s)
  BY <1>2 DEF NeedsWebApproval, Verify, Need, Wants, HasRealWebApproval
<1>3. CASE ~s.rejected /\ ~(s.stepUp /\ ~HasRealWebApproval(s))
  BY <1>3 DEF NeedsWebApproval, Verify, Wants, HasRealWebApproval
<1> QED
  BY <1>1, <1>2, <1>3

\* Another credential does not make up for an approval that is needed.
LEMMA WantsMore ==
    ASSUME SignInSound, NEW v \in SUBSET Kinds, NEW b, NEW p, NEW r, NEW k \in Presents, Wants(v, b, p, r)
    PROVE  Wants(v \cup {k}, b, p, r)
<1>1. k # Web
  BY DEF SignInSound
<1>2. CASE p /\ ~(~b /\ Web \in v)
  BY <1>1, <1>2 DEF Wants
<1>3. CASE IsSufficient(v).verdict = "need" /\ Web \in IsSufficient(v).kinds
  <2> DEFINE w == v \cup {k}
  <2>1. CASE Web \in Policy.factor
    <3>1. Web \notin v
      BY <1>3, <2>1 DEF IsSufficient, Inner, AnySingle, AllCredentials, Need, Accepted, SignInSound
    <3>2. Web \notin w /\ ~(Policy.factor \subseteq w)
      BY <1>1, <2>1, <3>1
    <3>3. IsSufficient(w) = Need(Inner(w).kinds \cup Policy.factor)
      BY <3>2 DEF IsSufficient
    <3> QED
      BY <2>1, <3>3, <1>3 DEF Wants, Need
  <2>2. CASE Web \notin Policy.factor
    <3>1. Inner(v).verdict = "need" /\ Web \in Inner(v).kinds
      <4>1. Web \in Inner(v).kinds
        BY <1>3, <2>2 DEF IsSufficient, Need
      <4> QED
        BY <4>1 DEF Inner, AnySingle, AllCredentials, Need, Accepted
    <3>2. Web \in Policy.kinds /\ Web \notin v
      BY <3>1 DEF Inner, AnySingle, AllCredentials, Need, Accepted
    <3>3. Inner(w) = Need(Policy.kinds \ w) /\ Web \in Policy.kinds \ w
      <4>1. CASE Policy.inner = "any"
        BY <1>1, <2>2, <3>1, <3>2, <4>1 DEF Inner, AnySingle, Need, Accepted, SignInSound
      <4>2. CASE Policy.inner # "any"
        BY <1>1, <3>2, <4>2 DEF Inner, AllCredentials
      <4> QED
        BY <4>1, <4>2
    <3> DEFINE i == Inner(w)
    <3>4. i.verdict = "need" /\ Web \in i.kinds
      BY <3>3 DEF Need
    <3> HIDE DEF i
    <3>5. IsSufficient(w).verdict = "need" /\ Web \in IsSufficient(w).kinds
      BY <3>4 DEF IsSufficient, Need, i
    <3> QED
      BY <3>5, <1>3 DEF Wants
  <2> QED
    BY <2>1, <2>2
<1> QED
  BY <1>2, <1>3 DEF Wants

\* Nor does a step-up that is required.
LEMMA WantsStepUp ==
    ASSUME NEW v, NEW b, NEW p, NEW r, Wants(v, b, p, r)
    PROVE  Wants(v, b, TRUE, r)
BY DEF Wants

\* The methods, by the fields of the attempt they leave.
LEMMA NewFields ==
    ASSUME SignInSound, NEW u \in Users, NEW t \in Targets
    PROVE  Is(NewAttempt(u, t), u, t, {}, FALSE, FALSE, FALSE)
<1> DEFINE s == [user |-> u, target |-> t, valid |-> {}, bypassed |-> FALSE,
                 stepUp |-> FALSE, rejected |-> FALSE, sent |-> <<>>]
<1>1. /\ s \in Records /\ s.user = u /\ s.target = t /\ s.valid = {}
      /\ s.bypassed = FALSE /\ s.stepUp = FALSE /\ s.rejected = FALSE
  BY DEF Records
<1>2. NewAttempt(u, t) = Update(s)
  BY DEF NewAttempt
<1> HIDE DEF s
<1> QED
  BY <1>1, <1>2, UpdateKeeps

LEMMA SubmitFields ==
    ASSUME SignInSound, NEW s \in Records, NEW k \in Kinds
    PROVE  Is(SubmitCredential(s, k), s.user, s.target, s.valid \cup {k}, s.bypassed, s.stepUp, s.rejected)
<1> DEFINE n == [s EXCEPT !.valid = @ \cup {k}]
<1>1. Is(n, s.user, s.target, s.valid \cup {k}, s.bypassed, s.stepUp, s.rejected)
  BY DEF Records, Is
<1>2. SubmitCredential(s, k) = Update(n)
  BY DEF SubmitCredential
<1> HIDE DEF n
<1> QED
  BY <1>1, <1>2, UpdateKeeps DEF Is

LEMMA ApproveFields ==
    ASSUME SignInSound, NEW s \in Records
    PROVE  Is(AddWebUserApproval(s), s.user, s.target, s.valid \cup {Web}, FALSE, FALSE, s.rejected)
<1> DEFINE n == [s EXCEPT !.stepUp = FALSE, !.bypassed = FALSE, !.valid = @ \cup {Web}]
<1>1. Is(n, s.user, s.target, s.valid \cup {Web}, FALSE, FALSE, s.rejected)
  BY DEF Records, Is, Web, Kinds
<1>2. AddWebUserApproval(s) = Update(n)
  BY DEF AddWebUserApproval
<1> HIDE DEF n
<1> QED
  BY <1>1, <1>2, UpdateKeeps DEF Is

LEMMA BypassFields ==
    ASSUME SignInSound, NEW s \in Records
    PROVE  Is(AddWebUserApprovalViaGraceBypass(s),
              s.user, s.target, s.valid \cup {Web}, TRUE, s.stepUp, s.rejected)
<1> DEFINE n == [s EXCEPT !.bypassed = TRUE, !.valid = @ \cup {Web}]
<1>1. Is(n, s.user, s.target, s.valid \cup {Web}, TRUE, s.stepUp, s.rejected)
  BY DEF Records, Is, Web, Kinds
<1>2. AddWebUserApprovalViaGraceBypass(s) = Update(n)
  BY DEF AddWebUserApprovalViaGraceBypass
<1> HIDE DEF n
<1> QED
  BY <1>1, <1>2, UpdateKeeps DEF Is

LEMMA StepUpFields ==
    ASSUME SignInSound, NEW s \in Records
    PROVE  Is(RequireStepUp(s), s.user, s.target, s.valid, s.bypassed, TRUE, s.rejected)
<1> DEFINE n == [s EXCEPT !.stepUp = TRUE]
<1>1. Is(n, s.user, s.target, s.valid, s.bypassed, TRUE, s.rejected)
  BY DEF Records, Is
<1>2. CASE s.stepUp
  BY <1>2 DEF RequireStepUp, Is, Records
<1>3. CASE ~s.stepUp
  <2>1. RequireStepUp(s) = Update(n)
    BY <1>3 DEF RequireStepUp
  <2> HIDE DEF n
  <2> QED
    BY <1>1, <2>1, UpdateKeeps DEF Is
<1> QED
  BY <1>2, <1>3

LEMMA RejectFields ==
    ASSUME SignInSound, NEW s \in Records
    PROVE  Is(Reject(s), s.user, s.target, s.valid, s.bypassed, s.stepUp, TRUE)
<1> DEFINE n == [s EXCEPT !.rejected = TRUE]
<1>1. Is(n, s.user, s.target, s.valid, s.bypassed, s.stepUp, TRUE)
  BY DEF Records, Is
<1>2. Reject(s) = Update(n)
  BY DEF Reject
<1> HIDE DEF n
<1> QED
  BY <1>1, <1>2, UpdateKeeps DEF Is

-----------------------------------------------------------------------------
(* The invariant.                                                          *)

\* The attempts: the store knows the newest one, or none.
AttemptsOK ==
    /\ auth \in Seq(Records)
    /\ current \in Made \cup {NoAttempt} /\ cached \in Made \cup {NoAttempt}
    /\ current \in {NoAttempt, Len(auth)}

RowRecords ==
    [status : {"pending", "approved", "rejected", "abandoned"}, user : Users, asked : Nat, started : Nat,
     digest : [user : Users, credentials : SUBSET Kinds], scope : GivenScopes \cup {"none"}, consumed : BOOLEAN]

\* A row names the user and the target of the attempt that asked.
RowOK(t) ==
    \/ inbox[t] = NoRequest
    \/ /\ inbox[t] \in RowRecords /\ inbox[t].asked \in Made
       /\ auth[inbox[t].asked].user = inbox[t].user /\ auth[inbox[t].asked].target = t

RowsOK == inbox \in [Targets -> RowRecords \cup {NoRequest}] /\ \A t \in Targets : RowOK(t)

Decided == {t \in Targets : inbox[t].status \in {"approved", "rejected"}}

\* Whoever delivers has a decision that stands, and an attempt to deliver it to.
TaskOK(d) ==
    /\ task[d] \in [pc : {"idle", "next", "deliver", "consume"}, todo : SUBSET Targets,
                     target : Targets \cup {NoAttempt}, attempt : Nat]
    /\ task[d].todo \subseteq Decided
    /\ task[d].pc \in {"deliver", "consume"} => task[d].target \in Decided
    /\ task[d].pc = "deliver" =>
          task[d].attempt \in Made /\ inbox[task[d].target].asked <= task[d].attempt

TasksOK == DOMAIN task = AllDeliverers /\ \A d \in AllDeliverers : TaskOK(d)

\* A decision of the person has reached the attempt.
Reached(a) == \E q \in Made : Granted(a, q) \in granted

GrantsOK ==
    \A g \in granted : \E a, q \in Made : g = Granted(a, q) /\ Alike(a, q) /\ q <= a

\* An approval that is no remembered one was given to the attempt.
ProofsOK ==
    /\ \A a \in Made : Web \in auth[a].valid /\ ~auth[a].bypassed => Reached(a)
    /\ \A a \in stamped : a \in Made /\ Reached(a)

\* What the handler has read is of the attempt it goes on with.
HandlerOK ==
    /\ ssh \in [pc : {"idle", "pull", "pulling", "recall", "bypass", "verdict", "gate", "accept"},
                valid : SUBSET Kinds, bypassed : BOOLEAN]
    /\ ssh.pc # "idle" => cached \in Made
    /\ ssh.pc \in {"gate", "accept"} /\ ProvesStepUp => Reached(cached)

\* The handler waits while its own delivery runs.
Pulling == task["ssh"].pc # "idle" => ssh.pc = "pulling"

Inv == AttemptsOK /\ RowsOK /\ TasksOK /\ GrantsOK /\ ProofsOK /\ HandlerOK /\ NoLeftover

-----------------------------------------------------------------------------
(* Steps.                                                                  *)

LEMMA Initially ==
    ASSUME SignInSound, SignInInit
    PROVE  Inv
<1> USE DEF SignInInit
<1>1. auth \in Seq(Records) /\ Made = {}
  BY DEF Made
<1>2. AttemptsOK
  BY <1>1 DEF AttemptsOK
<1>3. RowsOK /\ NoLeftover
  BY DEF RowsOK, RowOK, NoLeftover, NoRequest
<1>4. TasksOK
  BY DEF TasksOK, TaskOK, Unoccupied, NoAttempt
<1>5. GrantsOK /\ ProofsOK
  BY <1>1 DEF GrantsOK, ProofsOK
<1>6. HandlerOK
  BY DEF HandlerOK
<1> QED
  BY <1>2, <1>3, <1>4, <1>5, <1>6 DEF Inv

\* No attempt goes, or changes hands.
Grows == \A b \in Made : b \in Made' /\ auth'[b].user = auth[b].user /\ auth'[b].target = auth[b].target

\* What is decided stays so, on the question of the same attempt.
Stand == \A t \in Decided : t \in Decided' /\ inbox'[t].asked = inbox[t].asked

LEMMA GrowsSame ==
    ASSUME UNCHANGED auth
    PROVE  Grows /\ Made' = Made
BY DEF Grows, Made

LEMMA AttemptsKept ==
    ASSUME AttemptsOK, UNCHANGED auth,
           current' \in {current, NoAttempt}, cached' \in {cached, NoAttempt}
    PROVE  AttemptsOK'
BY DEF AttemptsOK, Made, Alike

LEMMA RowsKept ==
    ASSUME RowsOK, Grows, UNCHANGED inbox
    PROVE  RowsOK' /\ Stand
BY DEF RowsOK, RowOK, Grows, Decided, Stand

LEMMA TasksKept ==
    ASSUME TasksOK, Grows, UNCHANGED task, Stand
    PROVE  TasksOK'
BY DEF TasksOK, TaskOK, Grows, Stand

LEMMA ReachedKept ==
    ASSUME Grows, granted \subseteq granted', NEW a, Reached(a)
    PROVE  Reached(a)'
BY DEF Reached, Grows, Granted

LEMMA GrantsKept ==
    ASSUME GrantsOK, Grows, UNCHANGED granted
    PROVE  GrantsOK'
<1> SUFFICES ASSUME NEW g \in granted
             PROVE  \E a, q \in Made' : g = Granted(a, q)' /\ Alike(a, q)' /\ q <= a
  BY DEF GrantsOK
<1>1. PICK a, q \in Made : g = Granted(a, q) /\ Alike(a, q) /\ q <= a
  BY DEF GrantsOK
<1>2. a \in Made' /\ q \in Made' /\ Alike(a, q)'
  BY <1>1 DEF Grows, Alike
<1> QED
  BY <1>1, <1>2 DEF Granted

LEMMA HandlerKept ==
    ASSUME HandlerOK, Grows, granted \subseteq granted', UNCHANGED <<ssh, cached>>
    PROVE  HandlerOK'
<1>1. ssh.pc # "idle" => cached \in Made'
  BY DEF HandlerOK, Grows
<1>2. Reached(cached) => Reached(cached)'
  <2>1. Reached(cached) => \E q \in Made' : Granted(cached, q) \in granted'
    BY DEF Reached, Grows
  <2> QED
    BY <2>1 DEF Reached, Granted
<1> QED
  BY <1>1, <1>2 DEF HandlerOK, ProvesStepUp

\* The handler moves on with the same attempt and what it has read.
LEMMA HandlerMoves ==
    ASSUME HandlerOK, Grows, granted \subseteq granted', UNCHANGED cached,
           NEW p \in {"idle", "pull", "pulling", "recall", "bypass", "verdict"},
           ssh' = [ssh EXCEPT !.pc = p], p = "idle" \/ cached \in Made
    PROVE  HandlerOK'
<1>1. /\ ssh' \in [pc : {"idle", "pull", "pulling", "recall", "bypass", "verdict", "gate", "accept"},
                   valid : SUBSET Kinds, bypassed : BOOLEAN]
      /\ ssh'.pc = p
  BY DEF HandlerOK
<1> QED
  BY <1>1 DEF HandlerOK, Grows

LEMMA ProofsKept ==
    ASSUME ProofsOK, UNCHANGED <<auth, stamped>>, granted \subseteq granted'
    PROVE  ProofsOK'
<1>1. Grows /\ Made' = Made
  BY GrowsSame
<1>2. \A a : Reached(a) => Reached(a)'
  BY <1>1, ReachedKept
<1> QED
  BY <1>1, <1>2 DEF ProofsOK

LEMMA LeftoverKept ==
    ASSUME NoLeftover, UNCHANGED <<auth, inbox>>
    PROVE  NoLeftover'
BY DEF NoLeftover, NeedsWebApproval, Verify, HasRealWebApproval

\* A step that writes neither attempts nor rows nor what was granted.
LEMMA OnlyHandlers ==
    ASSUME Inv, UNCHANGED <<auth, inbox, granted>>
    PROVE  /\ Grows /\ Made' = Made /\ Stand
           /\ RowsOK' /\ GrantsOK' /\ NoLeftover'
           /\ UNCHANGED stamped => ProofsOK'
           /\ current' \in {current, NoAttempt} /\ cached' \in {cached, NoAttempt} => AttemptsOK'
           /\ UNCHANGED task => TasksOK'
           /\ UNCHANGED <<ssh, cached>> => HandlerOK'
<1>1. Grows /\ Made' = Made
  BY GrowsSame
<1>2. RowsOK' /\ Stand
  BY <1>1, RowsKept DEF Inv
<1>3. GrantsOK' /\ NoLeftover'
  BY <1>1, GrantsKept, LeftoverKept DEF Inv
<1>4. UNCHANGED stamped => ProofsOK'
  BY ProofsKept DEF Inv
<1>5. current' \in {current, NoAttempt} /\ cached' \in {cached, NoAttempt} => AttemptsOK'
  BY AttemptsKept DEF Inv
<1>6. UNCHANGED task => TasksOK'
  BY <1>1, <1>2, TasksKept DEF Inv
<1>7. UNCHANGED <<ssh, cached>> => HandlerOK'
  BY <1>1, HandlerKept DEF Inv
<1> QED
  BY <1>1, <1>2, <1>3, <1>4, <1>5, <1>6, <1>7

-----------------------------------------------------------------------------
(* An attempt is written.                                                  *)

\* The attempt a becomes s, of the same user and target.
Becomes(a, s) ==
    /\ a \in Made /\ s \in Records
    /\ s.user = auth[a].user /\ s.target = auth[a].target
    /\ auth' = [auth EXCEPT ![a] = s]

LEMMA EditStep ==
    ASSUME Inv, NEW a, NEW s, Becomes(a, s), UNCHANGED <<current, cached>>
    PROVE  /\ Grows /\ Made' = Made /\ AttemptsOK'
           /\ auth'[a] = s /\ \A b \in Made : b # a => auth'[b] = auth[b]
<1>1. auth \in Seq(Records) /\ Made = 1 .. Len(auth)
  BY DEF Inv, AttemptsOK, Made
<1>2. auth' \in Seq(Records) /\ Made' = Made
  BY <1>1 DEF Becomes, Made
<1>3. auth'[a] = s /\ \A b \in Made : b # a => auth'[b] = auth[b]
  BY <1>1 DEF Becomes, Made
<1>4. Grows
  BY <1>2, <1>3 DEF Grows, Becomes
<1>5. Len(auth') = Len(auth)
  BY <1>1 DEF Becomes, Made
<1>6. AttemptsOK'
  BY <1>2, <1>5 DEF Inv, AttemptsOK
<1> QED
  BY <1>2, <1>3, <1>4, <1>6

\* Every question that is still open is one of before, and its attempt still waits.
LEMMA EditLeftover ==
    ASSUME Inv, NEW a, NEW s, Becomes(a, s), UNCHANGED <<current, cached>>,
           \A t \in Targets : inbox'[t].status = "pending" =>
               inbox'[t] = inbox[t] /\ (inbox[t].asked = a => NeedsWebApproval(s))
    PROVE  NoLeftover'
<1> SUFFICES ASSUME NEW t \in Targets, inbox'[t].status = "pending"
             PROVE  NeedsWebApproval(auth'[inbox'[t].asked])
  BY DEF NoLeftover, NeedsWebApproval, Verify, HasRealWebApproval
<1>1. inbox'[t] = inbox[t] /\ inbox[t].status = "pending" /\ (inbox[t].asked = a => NeedsWebApproval(s))
  OBVIOUS
<1>2. inbox[t].asked \in Made /\ NeedsWebApproval(auth[inbox[t].asked])
  BY <1>1 DEF Inv, RowsOK, RowOK, NoRequest, NoLeftover
<1>3. auth'[a] = s /\ \A b \in Made : b # a => auth'[b] = auth[b]
  BY EditStep
<1> QED
  BY <1>1, <1>2, <1>3

LEMMA EditProofs ==
    ASSUME Inv, NEW a, NEW s, Becomes(a, s), UNCHANGED <<current, cached, stamped>>,
           granted \subseteq granted', Web \in s.valid /\ ~s.bypassed => Reached(a)'
    PROVE  ProofsOK'
<1>1. Grows /\ Made' = Made /\ auth'[a] = s /\ \A b \in Made : b # a => auth'[b] = auth[b]
  BY EditStep
<1>2. \A b : Reached(b) => Reached(b)'
  BY <1>1, ReachedKept
<1>3. \A b \in Made : Web \in auth[b].valid /\ ~auth[b].bypassed => Reached(b)
  BY DEF Inv, ProofsOK
<1>4. \A b \in Made' : Web \in auth'[b].valid /\ ~auth'[b].bypassed => Reached(b)'
  BY <1>1, <1>2, <1>3
<1>5. \A b \in stamped : b \in Made /\ Reached(b)
  BY DEF Inv, ProofsOK
<1> QED
  BY <1>1, <1>2, <1>4, <1>5 DEF ProofsOK

LEMMA AttemptType ==
    ASSUME Inv, NEW a \in Made
    PROVE  auth[a] \in Records /\ a \in Nat
BY DEF Inv, AttemptsOK, Made

\* The question of an attempt is the row of its target.
LEMMA QuestionOf ==
    ASSUME Inv, NEW t \in Targets, inbox[t].status # "none"
    PROVE  inbox[t].asked \in Made /\ t = auth[inbox[t].asked].target /\ auth[inbox[t].asked].user = inbox[t].user
BY DEF Inv, RowsOK, RowOK, NoRequest

-----------------------------------------------------------------------------
(* One lemma for each action.                                              *)

LEMMA StartAttemptStep ==
    ASSUME SignInSound, Inv, NEW u \in Users, NEW t \in Targets, StartAttempt(u, t)
    PROVE  Inv'
<1> DEFINE a == Len(auth) + 1
           s == NewAttempt(u, t)
<1>1. /\ auth \in Seq(Records) /\ Made = 1 .. Len(auth) /\ Len(auth) \in Nat
      /\ current \in Made \cup {NoAttempt} /\ cached \in Made \cup {NoAttempt}
  BY DEF Inv, AttemptsOK, Made
<1>2. /\ ssh.pc = "idle" /\ auth' = Append(auth, s) /\ current' = a /\ cached' = a
      /\ ssh' = [ssh EXCEPT !.pc = IF NeedsWebApproval(s) THEN "pull" ELSE "verdict"]
      /\ UNCHANGED <<inbox, task, granted, stamped>>
  BY DEF StartAttempt, AfterCredential
<1>3. Is(s, u, t, {}, FALSE, FALSE, FALSE)
  BY NewFields
<1> HIDE DEF s
<1>4. /\ auth' \in Seq(Records) /\ Made' = Made \cup {a} /\ a \notin Made /\ auth'[a] = s
      /\ \A b \in Made : auth'[b] = auth[b]
  BY <1>1, <1>2, <1>3 DEF Made, Is
<1> HIDE DEF a
<1>5. Grows
  BY <1>4 DEF Grows
<1>6. a = Len(auth')
  BY <1>1, <1>2 DEF a
<1>7. AttemptsOK'
  BY <1>2, <1>4, <1>6 DEF AttemptsOK
<1>8. RowsOK' /\ Stand
  BY <1>2, <1>5, RowsKept DEF Inv
<1>9. TasksOK' /\ GrantsOK'
  BY <1>2, <1>5, <1>8, TasksKept, GrantsKept DEF Inv
<1>10. ProofsOK'
  <2>1. \A b : Reached(b) => Reached(b)'
    BY <1>2, <1>5, ReachedKept
  <2>2. \A b \in Made' : Web \in auth'[b].valid /\ ~auth'[b].bypassed => Reached(b)'
    BY <1>3, <1>4, <2>1 DEF Inv, ProofsOK, Is
  <2> QED
    BY <1>2, <1>4, <2>1, <2>2 DEF Inv, ProofsOK
<1>11. HandlerOK'
  <2>1. cached' \in Made'
    BY <1>2, <1>4
  <2>2. /\ ssh' \in [pc : {"idle", "pull", "pulling", "recall", "bypass", "verdict", "gate", "accept"},
                     valid : SUBSET Kinds, bypassed : BOOLEAN]
        /\ ssh'.pc \in {"pull", "verdict"}
    BY <1>2 DEF Inv, HandlerOK
  <2> QED
    BY <2>1, <2>2 DEF HandlerOK
<1>12. NoLeftover'
  <2> SUFFICES ASSUME NEW v \in Targets, inbox[v].status = "pending"
               PROVE  NeedsWebApproval(auth'[inbox[v].asked])
    BY <1>2 DEF NoLeftover, NeedsWebApproval, Verify, HasRealWebApproval
  <2>1. inbox[v].asked \in Made /\ NeedsWebApproval(auth[inbox[v].asked])
    BY QuestionOf DEF Inv, NoLeftover
  <2> QED
    BY <1>4, <2>1
<1> QED
  BY <1>7, <1>8, <1>9, <1>10, <1>11, <1>12 DEF Inv

LEMMA ContinueStep ==
    ASSUME SignInSound, Inv, NEW offer \in {{}} \cup {{k} : k \in Presents}, ContinueAttempt(offer)
    PROVE  Inv'
<1> DEFINE s == IF offer = {} THEN auth[cached] ELSE SubmitCredential(auth[cached], CHOOSE k \in offer : TRUE)
           old == auth[cached]
<1>1. /\ cached \in Made /\ auth' = [auth EXCEPT ![cached] = s]
      /\ ssh' = [ssh EXCEPT !.pc = IF NeedsWebApproval(s) THEN "pull" ELSE "verdict"]
      /\ UNCHANGED <<current, cached, inbox, task, granted, stamped>>
  BY DEF Inv, AttemptsOK, ContinueAttempt, SubmitOffer, AfterCredential
<1>2. old \in Records
  BY <1>1 DEF Inv, AttemptsOK, Made
<1>3. /\ Becomes(cached, s) /\ (Web \in s.valid /\ ~s.bypassed => Web \in old.valid /\ ~old.bypassed)
      /\ NeedsWebApproval(old) => NeedsWebApproval(s)
  <2>1. CASE offer = {}
    BY <1>1, <1>2, <2>1 DEF Becomes
  <2>2. CASE offer # {}
    <3>1. PICK k \in Presents : offer = {k}
      BY <2>2
    <3>2. s = SubmitCredential(old, k) /\ k \in Kinds /\ k # Web
      BY <2>2, <3>1 DEF SignInSound
    <3>3. Is(s, old.user, old.target, old.valid \cup {k}, old.bypassed, old.stepUp, old.rejected)
      BY <1>2, <3>2, SubmitFields
    <3> HIDE DEF s
    <3>4. NeedsWebApproval(old) => NeedsWebApproval(s)
      <4> SUFFICES ASSUME NeedsWebApproval(old) PROVE NeedsWebApproval(s)
        OBVIOUS
      <4>1. Wants(old.valid, old.bypassed, old.stepUp, old.rejected) /\ old.valid \in SUBSET Kinds
        BY <1>2, NeedsByFields DEF Records
      <4>2. Wants(old.valid \cup {k}, old.bypassed, old.stepUp, old.rejected)
        BY <4>1, WantsMore
      <4> QED
        BY <3>3, <4>2, NeedsByFields DEF Is
    <3>5. Becomes(cached, s)
      BY <1>1, <3>3 DEF Becomes, Is
    <3> QED
      BY <3>2, <3>3, <3>4, <3>5 DEF Is
  <2> QED
    BY <2>1, <2>2
<1> HIDE DEF s
<1>4. Grows /\ Made' = Made /\ AttemptsOK'
  BY <1>1, <1>3, EditStep
<1>5. RowsOK' /\ Stand
  BY <1>1, <1>4, RowsKept DEF Inv
<1>6. TasksOK' /\ GrantsOK'
  BY <1>1, <1>4, <1>5, TasksKept, GrantsKept DEF Inv
<1>7. ProofsOK'
  <2>1. Reached(cached) => Reached(cached)'
    BY <1>1, <1>4, ReachedKept
  <2>2. Web \in old.valid /\ ~old.bypassed => Reached(cached)
    BY <1>1 DEF Inv, ProofsOK
  <2> QED
    BY <1>1, <1>3, <2>1, <2>2, EditProofs
<1>8. HandlerOK'
  <2> DEFINE p == IF NeedsWebApproval(s) THEN "pull" ELSE "verdict"
  <2>1. p \in {"pull", "verdict"} /\ ssh' = [ssh EXCEPT !.pc = p]
    BY <1>1
  <2> QED
    BY <1>1, <1>4, <2>1, HandlerMoves DEF Inv
<1>9. NoLeftover'
  <2>1. \A t \in Targets : inbox[t].status = "pending" /\ inbox[t].asked = cached => NeedsWebApproval(old)
    BY DEF Inv, NoLeftover
  <2> QED
    BY <1>1, <1>3, <2>1, EditLeftover
<1> QED
  BY <1>4, <1>5, <1>6, <1>7, <1>8, <1>9 DEF Inv

LEMMA DropAttemptStep ==
    ASSUME Inv, DropAttempt
    PROVE  Inv'
<1>1. /\ UNCHANGED <<auth, current, inbox, ssh, task, granted, stamped>>
      /\ cached' = NoAttempt /\ ssh.pc = "idle"
  BY DEF DropAttempt
<1>2. HandlerOK'
  BY <1>1 DEF Inv, HandlerOK
<1> QED
  BY <1>1, <1>2, OnlyHandlers DEF Inv

LEMMA PullStep ==
    ASSUME Inv, Pull
    PROVE  Inv'
<1>1. /\ UNCHANGED <<auth, current, cached, inbox, granted, stamped>>
      /\ task' = [task EXCEPT !["ssh"].pc = "next", !["ssh"].todo = Undelivered]
      /\ ssh' = [ssh EXCEPT !.pc = "pulling"] /\ ssh.pc = "pull"
  BY DEF Pull
<1>2. /\ Grows /\ Stand /\ AttemptsOK' /\ RowsOK' /\ GrantsOK' /\ NoLeftover' /\ ProofsOK'
  BY <1>1, OnlyHandlers
<1>3. HandlerOK'
  BY <1>1, <1>2, HandlerMoves DEF Inv, HandlerOK
<1>4. TasksOK'
  <2>1. Undelivered \subseteq Decided /\ Undelivered \subseteq Targets
    BY DEF Undelivered, Decided
  <2>2. "ssh" \in AllDeliverers
    BY DEF AllDeliverers
  <2>3. TaskOK("ssh") /\ DOMAIN task = AllDeliverers
    BY <2>2 DEF Inv, TasksOK
  <2>4. /\ DOMAIN task' = AllDeliverers
        /\ task'["ssh"] = [task["ssh"] EXCEPT !.pc = "next", !.todo = Undelivered]
        /\ \A d \in AllDeliverers : d # "ssh" => task'[d] = task[d]
    BY <1>1, <2>2, <2>3
  <2>5. TaskOK("ssh")'
    BY <1>2, <2>1, <2>3, <2>4 DEF TaskOK, Stand
  <2>6. \A d \in AllDeliverers : d # "ssh" => TaskOK(d)'
    BY <1>1, <1>2, <2>4 DEF Inv, TasksOK, TaskOK, Made, Stand
  <2> QED
    BY <2>4, <2>5, <2>6 DEF TasksOK
<1> QED
  BY <1>2, <1>3, <1>4 DEF Inv

LEMMA RecallForSshStep ==
    ASSUME Inv, RecallForSsh
    PROVE  Inv'
<1>1. /\ UNCHANGED <<auth, current, cached, inbox, task, granted, stamped>> /\ ssh.pc = "recall"
      /\ \/ ssh' = [ssh EXCEPT !.pc = "bypass"]
         \/ ssh' = [ssh EXCEPT !.pc = "verdict"]
  BY DEF RecallForSsh
<1>2. Grows /\ AttemptsOK' /\ RowsOK' /\ GrantsOK' /\ NoLeftover' /\ ProofsOK' /\ TasksOK'
  BY <1>1, OnlyHandlers
<1>3. cached \in Made /\ HandlerOK
  BY <1>1 DEF Inv, HandlerOK
<1>4. HandlerOK'
  BY <1>1, <1>2, <1>3, HandlerMoves
<1> QED
  BY <1>2, <1>4 DEF Inv

LEMMA JudgeStep ==
    ASSUME Inv, Judge
    PROVE  Inv'
<1> DEFINE s == auth[cached]
<1>1. /\ UNCHANGED <<auth, current, cached, inbox, task, granted, stamped>> /\ ssh.pc = "verdict"
      /\ \/ ssh' = [pc |-> "gate", valid |-> s.valid, bypassed |-> s.bypassed]
         \/ ssh' = [ssh EXCEPT !.pc = "idle"]
  BY DEF Judge
<1>2. /\ Grows /\ Made' = Made
      /\ AttemptsOK' /\ RowsOK' /\ GrantsOK' /\ NoLeftover' /\ ProofsOK' /\ TasksOK'
  BY <1>1, OnlyHandlers
<1>3. cached \in Made /\ s \in Records
  BY <1>1 DEF Inv, HandlerOK, AttemptsOK, Made
<1>4. HandlerOK'
  <2>1. CASE ssh' = [ssh EXCEPT !.pc = "idle"]
    BY <1>1, <1>2, <1>3, <2>1, HandlerMoves DEF Inv
  <2>2. CASE ssh' = [pc |-> "gate", valid |-> s.valid, bypassed |-> s.bypassed]
    <3>1. Web \in s.valid /\ ~s.bypassed => Reached(cached)'
      BY <1>1, <1>2, <1>3, ReachedKept DEF Inv, ProofsOK
    <3>2. /\ ssh'.pc = "gate" /\ ssh'.valid = s.valid /\ ssh'.bypassed = s.bypassed
          /\ ssh' \in [pc : {"idle", "pull", "pulling", "recall", "bypass", "verdict", "gate", "accept"},
                       valid : SUBSET Kinds, bypassed : BOOLEAN]
      BY <1>3, <2>2 DEF Records
    <3>3. ProvesStepUp' => Web \in s.valid /\ ~s.bypassed
      BY <3>2 DEF ProvesStepUp
    <3> HIDE DEF s
    <3> QED
      BY <1>1, <1>2, <1>3, <3>1, <3>2, <3>3 DEF HandlerOK
  <2> QED
    BY <1>1, <2>1, <2>2
<1> QED
  BY <1>2, <1>4 DEF Inv

LEMMA GateStep ==
    ASSUME SignInSound, Inv, Gate
    PROVE  Inv'
<1>1. ssh.pc = "gate" /\ UNCHANGED <<current, cached, inbox, task, granted, stamped>> /\ cached \in Made
  BY DEF Gate, Inv, HandlerOK
<1>2. CASE ~GateHolds
  <2>1. UNCHANGED auth /\ ssh' = [ssh EXCEPT !.pc = "accept"]
    BY <1>2 DEF Gate
  <2>2. /\ Grows /\ Made' = Made
        /\ AttemptsOK' /\ RowsOK' /\ GrantsOK' /\ NoLeftover' /\ ProofsOK' /\ TasksOK'
    BY <1>1, <2>1, OnlyHandlers
  <2>3. /\ ssh' \in [pc : {"idle", "pull", "pulling", "recall", "bypass", "verdict", "gate", "accept"},
                     valid : SUBSET Kinds, bypassed : BOOLEAN]
        /\ ssh'.pc = "accept" /\ ssh'.valid = ssh.valid /\ ssh'.bypassed = ssh.bypassed
    BY <2>1 DEF Inv, HandlerOK
  <2>4. ProvesStepUp => Reached(cached)'
    BY <1>1, <2>2, ReachedKept DEF Inv, HandlerOK
  <2>5. ProvesStepUp' => ProvesStepUp
    BY <2>3 DEF ProvesStepUp
  <2>6. HandlerOK'
    BY <1>1, <2>2, <2>3, <2>4, <2>5 DEF HandlerOK
  <2> QED
    BY <2>2, <2>6 DEF Inv
<1>3. CASE GateHolds
  <2> DEFINE old == auth[cached]
             s == RequireStepUp(old)
  <2>1. auth' = [auth EXCEPT ![cached] = s] /\ ssh' = [pc |-> "idle", valid |-> {}, bypassed |-> FALSE]
    BY <1>3 DEF Gate
  <2>2. old \in Records
    BY <1>1 DEF Inv, AttemptsOK, Made
  <2>3. Is(s, old.user, old.target, old.valid, old.bypassed, TRUE, old.rejected)
    BY <2>2, StepUpFields
  <2> HIDE DEF s
  <2>4. Becomes(cached, s)
    BY <1>1, <2>1, <2>3 DEF Becomes, Is
  <2>5. NeedsWebApproval(old) => NeedsWebApproval(s)
    BY <2>2, <2>3, NeedsByFields, WantsStepUp DEF Is
  <2>6. Grows /\ Made' = Made /\ AttemptsOK'
    BY <1>1, <2>4, EditStep
  <2>7. RowsOK' /\ Stand
    BY <1>1, <2>6, RowsKept DEF Inv
  <2>8. TasksOK' /\ GrantsOK'
    BY <1>1, <2>6, <2>7, TasksKept, GrantsKept DEF Inv
  <2>9. ProofsOK'
    <3>1. Reached(cached) => Reached(cached)'
      BY <1>1, <2>6, ReachedKept
    <3>2. Web \in old.valid /\ ~old.bypassed => Reached(cached)
      BY <1>1 DEF Inv, ProofsOK
    <3> QED
      BY <1>1, <2>3, <2>4, <3>1, <3>2, EditProofs DEF Is
  <2>10. HandlerOK'
    BY <2>1 DEF HandlerOK
  <2>11. NoLeftover'
    <3>1. \A t \in Targets : inbox[t].status = "pending" /\ inbox[t].asked = cached => NeedsWebApproval(old)
      BY DEF Inv, NoLeftover
    <3> QED
      BY <1>1, <2>4, <2>5, <3>1, EditLeftover
  <2> QED
    BY <2>6, <2>7, <2>8, <2>9, <2>10, <2>11 DEF Inv
<1> QED
  BY <1>2, <1>3

LEMMA AcceptStep ==
    ASSUME Inv, Accept
    PROVE  Inv'
<1>1. /\ UNCHANGED <<auth, current, cached, inbox, task, granted>> /\ ssh.pc = "accept"
      /\ ssh' = [pc |-> "idle", valid |-> {}, bypassed |-> FALSE]
      /\ stamped' = stamped \/ (stamped' = stamped \cup {cached} /\ ProvesStepUp)
  BY DEF Accept, Stamps
<1>2. /\ Grows /\ Made' = Made
      /\ AttemptsOK' /\ RowsOK' /\ GrantsOK' /\ NoLeftover' /\ TasksOK'
  BY <1>1, OnlyHandlers
<1>3. HandlerOK'
  BY <1>1 DEF HandlerOK
<1>4. ProofsOK'
  <2>1. \A a : Reached(a) => Reached(a)'
    BY <1>1, <1>2, ReachedKept
  <2>2. \A a \in stamped' : a \in Made /\ Reached(a)
    BY <1>1 DEF Inv, ProofsOK, HandlerOK
  <2>3. \A a \in Made : Web \in auth[a].valid /\ ~auth[a].bypassed => Reached(a)
    BY DEF Inv, ProofsOK
  <2> QED
    BY <1>1, <1>2, <2>1, <2>2, <2>3 DEF ProofsOK
<1> QED
  BY <1>2, <1>3, <1>4 DEF Inv

\* A step that writes rows, and no attempt: every row is left as it was, becomes
\* another record of the same question, and a decision stands.
LEMMA RowStep ==
    ASSUME Inv, UNCHANGED <<auth, current, cached, granted, stamped, ssh>>,
           DOMAIN inbox' = Targets,
           \A t \in Targets :
               \/ inbox'[t] = inbox[t]
               \/ /\ inbox[t].status # "none" /\ inbox'[t] \in RowRecords
                  /\ inbox'[t].asked = inbox[t].asked /\ inbox'[t].user = inbox[t].user
                  /\ inbox'[t].status = "pending" => inbox[t].status = "pending"
                  /\ t \in Decided => inbox'[t].status = inbox[t].status,
           inbox' \in [Targets -> RowRecords \cup {NoRequest}]
    PROVE  /\ Grows /\ Made' = Made /\ Stand
           /\ AttemptsOK' /\ RowsOK' /\ GrantsOK' /\ ProofsOK' /\ HandlerOK' /\ NoLeftover'
           /\ UNCHANGED task => TasksOK'
<1>1. Grows /\ Made' = Made
  BY GrowsSame
<1>2. AttemptsOK' /\ GrantsOK' /\ ProofsOK' /\ HandlerOK'
  BY <1>1, AttemptsKept, GrantsKept, ProofsKept, HandlerKept DEF Inv
<1>3. Stand
  BY DEF Decided, Stand
<1>4. \A t \in Targets : RowOK(t)'
  <2> SUFFICES ASSUME NEW t \in Targets PROVE RowOK(t)'
    OBVIOUS
  <2>1. CASE inbox'[t] = inbox[t]
    BY <1>1, <2>1 DEF Inv, RowsOK, RowOK
  <2>2. CASE inbox'[t] # inbox[t]
    <3>1. /\ inbox[t].status # "none" /\ inbox'[t] \in RowRecords
          /\ inbox'[t].asked = inbox[t].asked /\ inbox'[t].user = inbox[t].user
      BY <2>2
    <3>2. inbox[t].asked \in Made /\ t = auth[inbox[t].asked].target /\ auth[inbox[t].asked].user = inbox[t].user
      BY <3>1, QuestionOf
    <3> QED
      BY <1>1, <3>1, <3>2 DEF RowOK
  <2> QED
    BY <2>1, <2>2
<1>5. NoLeftover'
  <2> SUFFICES ASSUME NEW t \in Targets, inbox'[t].status = "pending"
               PROVE  NeedsWebApproval(auth[inbox'[t].asked])
    BY DEF NoLeftover, NeedsWebApproval, Verify, HasRealWebApproval
  <2>1. inbox[t].status = "pending" /\ inbox'[t].asked = inbox[t].asked
    OBVIOUS
  <2> QED
    BY <2>1 DEF Inv, NoLeftover
<1>6. UNCHANGED task => TasksOK'
  BY <1>1, <1>3, TasksKept DEF Inv
<1> QED
  BY <1>1, <1>2, <1>3, <1>4, <1>5, <1>6 DEF RowsOK

\* A row whose status is written.
LEMMA Written ==
    ASSUME Inv, NEW t \in Targets, inbox[t].status # "none",
           NEW st \in {"pending", "approved", "rejected", "abandoned"}
    PROVE  LET r == [inbox[t] EXCEPT !.status = st] IN
           r \in RowRecords /\ r.status = st /\ r.asked = inbox[t].asked /\ r.user = inbox[t].user
<1>1. inbox[t] \in RowRecords
  BY DEF Inv, RowsOK, RowOK, NoRequest
<1> QED
  BY <1>1 DEF RowRecords

LEMMA DecideStep ==
    ASSUME Inv, NEW t \in Targets, NEW d \in Decisions, Decide(t, d)
    PROVE  Inv'
<1> DEFINE r == [inbox[t] EXCEPT !.status = d.status, !.scope = d.scope]
<1>1. /\ inbox[t].status = "pending" /\ UNCHANGED <<auth, current, cached, ssh, task, granted, stamped>>
      /\ inbox' = [inbox EXCEPT ![t].status = d.status, ![t].scope = d.scope]
  BY DEF Decide
<1>2. d.status \in {"approved", "rejected"} /\ d.scope \in GivenScopes \cup {"none"}
  BY DEF Decisions
<1>3. inbox \in [Targets -> RowRecords \cup {NoRequest}] /\ inbox[t] \in RowRecords
  BY <1>1 DEF Inv, RowsOK, RowOK, NoRequest
<1>4. inbox' = [inbox EXCEPT ![t] = r]
  BY <1>1, <1>3
<1>5. r \in RowRecords /\ r.status = d.status /\ r.asked = inbox[t].asked /\ r.user = inbox[t].user
  BY <1>2, <1>3 DEF RowRecords
<1> HIDE DEF r
<1>6. /\ inbox' \in [Targets -> RowRecords \cup {NoRequest}] /\ DOMAIN inbox' = Targets /\ inbox'[t] = r
      /\ \A u \in Targets : u # t => inbox'[u] = inbox[u]
  BY <1>3, <1>4, <1>5
<1>7. t \notin Decided
  BY <1>1 DEF Decided
<1> QED
  BY <1>1, <1>2, <1>5, <1>6, <1>7, RowStep DEF Inv

\* Open questions are closed unanswered: reap_stale, and the end of the session.
LEMMA AbandonStep ==
    ASSUME Inv, NEW rows, inbox' = Abandoned(rows),
           UNCHANGED <<auth, current, cached, ssh, task, granted, stamped>>
    PROVE  Inv'
<1>1. inbox \in [Targets -> RowRecords \cup {NoRequest}]
  BY DEF Inv, RowsOK
<1>2. DOMAIN inbox' = Targets
  BY DEF Abandoned
<1>3. \A t \in Targets :
         \/ inbox'[t] = inbox[t]
         \/ inbox[t].status = "pending" /\ inbox'[t] = [inbox[t] EXCEPT !.status = "abandoned"]
  BY DEF Abandoned
<1>4. \A t \in Targets : inbox[t].status = "pending" =>
         LET r == [inbox[t] EXCEPT !.status = "abandoned"] IN
         r \in RowRecords /\ r.status = "abandoned" /\ r.asked = inbox[t].asked /\ r.user = inbox[t].user
  BY Written
<1>5. \A t \in Targets :
         \/ inbox'[t] = inbox[t]
         \/ /\ inbox[t].status = "pending" /\ inbox'[t] \in RowRecords /\ inbox'[t].status = "abandoned"
            /\ inbox'[t].asked = inbox[t].asked /\ inbox'[t].user = inbox[t].user
  BY <1>3, <1>4
<1>6. inbox' \in [Targets -> RowRecords \cup {NoRequest}]
  <2>1. inbox' = [t \in Targets |-> inbox'[t]]
    BY DEF Abandoned
  <2>2. \A t \in Targets : inbox'[t] \in RowRecords \cup {NoRequest}
    BY <1>1, <1>5
  <2> HIDE <1>1, <1>2, <1>3, <1>4
  <2> QED
    BY <2>1, <2>2
<1>7. \A t \in Targets : inbox[t].status = "pending" => t \notin Decided
  BY DEF Decided
<1> QED
  BY <1>2, <1>5, <1>6, <1>7, RowStep DEF Inv

\* advertise_user_request: the question is of the attempt that asks, which waits.
LEMMA AskStep ==
    ASSUME Inv, NEW a \in Made, AskPerson(a)
    PROVE  Inv'
<1> DEFINE t == auth[a].target
           q == Question(a)
           n == [q EXCEPT !.started = inbox[t].started]
<1>1. UNCHANGED <<auth, current, cached, ssh, task, granted, stamped>> /\ Advertise(a)
  BY DEF AskPerson
<1>2. /\ auth[a] \in Records /\ t \in Targets /\ a \in Nat
      /\ inbox \in [Targets -> RowRecords \cup {NoRequest}]
  <2>1. auth[a] \in Records /\ a \in Nat
    BY AttemptType
  <2> QED
    BY <2>1 DEF Inv, RowsOK, Records
<1>3. /\ Grows /\ Made' = Made
  BY <1>1, GrowsSame
<1>4. /\ q \in RowRecords /\ q.asked = a /\ q.user = auth[a].user /\ q.status = "pending"
  BY <1>2 DEF Question, RowRecords, MatchDigest, Records
<1>5. inbox[t].status = "pending" =>
         n \in RowRecords /\ n.asked = a /\ n.user = auth[a].user /\ n.status = "pending"
  <2> SUFFICES ASSUME inbox[t].status = "pending"
               PROVE n \in RowRecords /\ n.asked = a /\ n.user = auth[a].user /\ n.status = "pending"
    OBVIOUS
  <2>1. inbox[t].started \in Nat
    BY <1>2 DEF RowRecords, NoRequest
  <2> HIDE DEF q
  <2> QED
    BY <1>4, <2>1 DEF RowRecords
<1>6. \/ inbox' = inbox
      \/ /\ NeedsWebApproval(auth[a]) /\ t \notin Decided
         /\ \E r \in RowRecords : inbox' = [inbox EXCEPT ![t] = r] /\ r.asked = a /\ r.user = auth[a].user
  <2>1. CASE ~NeedsWebApproval(auth[a])
    BY <1>1, <2>1 DEF Advertise
  <2>2. CASE NeedsWebApproval(auth[a]) /\ inbox[t].status = "pending"
    BY <1>1, <1>5, <2>2 DEF Advertise, Upsert, Decided
  <2>3. CASE NeedsWebApproval(auth[a]) /\ inbox[t].status \in {"none", "abandoned"}
    BY <1>1, <1>4, <2>3 DEF Advertise, Upsert, Decided
  <2>4. CASE NeedsWebApproval(auth[a]) /\ inbox[t].status \notin {"pending", "none", "abandoned"}
    BY <1>1, <2>4 DEF Advertise, Upsert
  <2> QED
    BY <2>1, <2>2, <2>3, <2>4
<1>7. CASE inbox' = inbox
  BY <1>1, <1>7, OnlyHandlers DEF Inv
<1>8. CASE inbox' # inbox
  <2>1. PICK r \in RowRecords : inbox' = [inbox EXCEPT ![t] = r] /\ r.asked = a /\ r.user = auth[a].user
    BY <1>6, <1>8
  <2>2. NeedsWebApproval(auth[a]) /\ t \notin Decided
    BY <1>6, <1>8
  <2>3. /\ inbox' \in [Targets -> RowRecords \cup {NoRequest}] /\ inbox'[t] = r
        /\ \A u \in Targets : u # t => inbox'[u] = inbox[u]
    BY <1>2, <2>1
  <2>4. \A u \in Targets : RowOK(u)'
    <3> SUFFICES ASSUME NEW u \in Targets PROVE RowOK(u)'
      OBVIOUS
    <3>1. CASE u = t
      BY <1>1, <1>3, <2>1, <2>3, <3>1 DEF RowOK
    <3>2. CASE u # t
      BY <1>1, <1>3, <2>3, <3>2 DEF Inv, RowsOK, RowOK
    <3> QED
      BY <3>1, <3>2
  <2>5. Stand
    BY <2>2, <2>3 DEF Decided, Stand
  <2>6. NoLeftover'
    <3> SUFFICES ASSUME NEW u \in Targets, inbox'[u].status = "pending"
                 PROVE  NeedsWebApproval(auth[inbox'[u].asked])
      BY <1>1 DEF NoLeftover, NeedsWebApproval, Verify, HasRealWebApproval
    <3>1. CASE u = t
      BY <2>1, <2>2, <2>3, <3>1
    <3>2. CASE u # t
      BY <2>3, <3>2 DEF Inv, NoLeftover
    <3> QED
      BY <3>1, <3>2
  <2>7. AttemptsOK' /\ TasksOK' /\ GrantsOK' /\ ProofsOK' /\ HandlerOK'
    BY <1>1, <1>3, <2>5, AttemptsKept, TasksKept, GrantsKept, ProofsKept, HandlerKept DEF Inv
  <2> QED
    BY <2>3, <2>4, <2>6, <2>7 DEF Inv, RowsOK
<1> QED
  BY <1>7, <1>8

\* try_web_approval_bypass: the attempt no longer waits, and its question is closed.
LEMMA TryBypassStep ==
    ASSUME SignInSound, Inv, NEW a \in Made, TryBypass(a), UNCHANGED <<current, cached, task, granted, stamped>>
    PROVE  /\ Grows /\ Made' = Made
           /\ AttemptsOK' /\ RowsOK' /\ TasksOK' /\ GrantsOK' /\ ProofsOK' /\ NoLeftover'
<1>1. CASE ~Bypassable(auth[a])
  <2>1. UNCHANGED <<auth, inbox>>
    BY <1>1 DEF TryBypass
  <2> QED
    BY <2>1, OnlyHandlers DEF Inv
<1>2. CASE Bypassable(auth[a])
  <2> DEFINE old == auth[a]
             s == AddWebUserApprovalViaGraceBypass(old)
             t == old.target
  <2>1. /\ auth' = [auth EXCEPT ![a] = s]
        /\ inbox' = IF inbox[t].status = "pending" THEN [inbox EXCEPT ![t].status = "abandoned"] ELSE inbox
    BY <1>2 DEF TryBypass, Bypass
  <2>2. old \in Records /\ t \in Targets
    BY AttemptType DEF Records
  <2>3. Is(s, old.user, old.target, old.valid \cup {Web}, TRUE, old.stepUp, old.rejected)
    BY <2>2, BypassFields
  <2> HIDE DEF s
  <2>4. Becomes(a, s) /\ s.bypassed
    BY <2>1, <2>3 DEF Becomes, Is
  <2>5. Grows /\ Made' = Made /\ AttemptsOK'
    BY <2>4, EditStep
  <2>6. inbox \in [Targets -> RowRecords \cup {NoRequest}]
    BY DEF Inv, RowsOK
  <2>7. \A u \in Targets :
          \/ inbox'[u] = inbox[u] /\ (inbox[u].status = "pending" => u # t)
          \/ /\ u = t /\ inbox[u].status = "pending" /\ inbox'[u] \in RowRecords /\ inbox'[u].status = "abandoned"
             /\ inbox'[u].asked = inbox[u].asked /\ inbox'[u].user = inbox[u].user
    <3>1. CASE inbox[t].status # "pending"
      BY <2>1, <3>1
    <3>2. CASE inbox[t].status = "pending"
      <4> DEFINE r == [inbox[t] EXCEPT !.status = "abandoned"]
      <4>1. r \in RowRecords /\ r.status = "abandoned" /\ r.asked = inbox[t].asked /\ r.user = inbox[t].user
        BY <2>2, <3>2, Written
      <4>2. inbox' = [inbox EXCEPT ![t] = r]
        BY <2>1, <2>6, <3>2
      <4> HIDE DEF r
      <4>3. inbox'[t] = r /\ \A u \in Targets : u # t => inbox'[u] = inbox[u]
        BY <2>2, <2>6, <4>2
      <4> QED
        BY <3>2, <4>1, <4>3
    <3> QED
      BY <3>1, <3>2
  <2>8. inbox' \in [Targets -> RowRecords \cup {NoRequest}]
    <3>1. DOMAIN inbox' = Targets /\ inbox' = [u \in Targets |-> inbox'[u]]
      BY <2>1, <2>2, <2>6
    <3>2. \A u \in Targets : inbox'[u] \in RowRecords \cup {NoRequest}
      BY <2>6, <2>7
    <3> HIDE <2>6
    <3> QED
      BY <3>1, <3>2
  <2>9. \A u \in Targets : RowOK(u)'
    <3> SUFFICES ASSUME NEW u \in Targets PROVE RowOK(u)'
      OBVIOUS
    <3>1. CASE inbox'[u] = inbox[u]
      BY <2>5, <3>1 DEF Inv, RowsOK, RowOK, Grows
    <3>2. CASE inbox'[u] # inbox[u]
      <4>1. /\ inbox[u].status = "pending" /\ inbox'[u] \in RowRecords
            /\ inbox'[u].asked = inbox[u].asked /\ inbox'[u].user = inbox[u].user
        BY <2>7, <3>2
      <4>2. inbox[u].asked \in Made /\ u = auth[inbox[u].asked].target /\ auth[inbox[u].asked].user = inbox[u].user
        BY <4>1, QuestionOf
      <4> QED
        BY <2>5, <4>1, <4>2 DEF RowOK, Grows
    <3> QED
      BY <3>1, <3>2
  <2>10. Stand
    BY <2>7 DEF Decided, Stand
  <2>11. TasksOK' /\ GrantsOK'
    BY <2>5, <2>10, TasksKept, GrantsKept DEF Inv
  <2>12. ProofsOK'
    BY <2>4, EditProofs
  <2>13. NoLeftover'
    <3>1. \A u \in Targets : inbox'[u].status = "pending" => inbox'[u] = inbox[u] /\ inbox[u].asked # a
      <4> SUFFICES ASSUME NEW u \in Targets, inbox'[u].status = "pending"
                   PROVE  inbox'[u] = inbox[u] /\ inbox[u].asked # a
        OBVIOUS
      <4>1. inbox'[u] = inbox[u] /\ inbox[u].status = "pending" /\ u # t
        BY <2>7
      <4>2. u = auth[inbox[u].asked].target
        BY <4>1, QuestionOf
      <4> QED
        BY <4>1, <4>2
    <3> QED
      BY <2>4, <3>1, EditLeftover
  <2> QED
    BY <2>5, <2>8, <2>9, <2>11, <2>12, <2>13 DEF RowsOK
<1> QED
  BY <1>1, <1>2

LEMMA BypassForSshStep ==
    ASSUME SignInSound, Inv, BypassForSsh
    PROVE  Inv'
<1>1. /\ TryBypass(cached) /\ UNCHANGED <<current, cached, task, granted, stamped>>
      /\ ssh' = [ssh EXCEPT !.pc = "verdict"] /\ cached \in Made
  BY DEF BypassForSsh, Inv, HandlerOK
<1>2. /\ Grows /\ AttemptsOK' /\ RowsOK' /\ TasksOK' /\ GrantsOK' /\ ProofsOK' /\ NoLeftover'
  BY <1>1, TryBypassStep
<1>3. HandlerOK'
  BY <1>1, <1>2, HandlerMoves DEF Inv
<1> QED
  BY <1>2, <1>3 DEF Inv

LEMMA BypassFirstStep ==
    ASSUME SignInSound, Inv, NEW a \in Made, BypassFirst(a)
    PROVE  Inv'
<1>1. TryBypass(a) /\ UNCHANGED <<current, cached, ssh, task, granted, stamped>>
  BY DEF BypassFirst
<1>2. /\ Grows /\ AttemptsOK' /\ RowsOK' /\ TasksOK' /\ GrantsOK' /\ ProofsOK' /\ NoLeftover'
  BY <1>1, TryBypassStep
<1>3. HandlerOK'
  BY <1>1, <1>2, HandlerKept DEF Inv
<1> QED
  BY <1>2, <1>3 DEF Inv

\* A task goes on as n.
LEMMA TaskMoves ==
    ASSUME TasksOK, Grows, NEW d \in AllDeliverers, NEW n, task' = [task EXCEPT ![d] = n],
           Stand,
           n \in [pc : {"idle", "next", "deliver", "consume"}, todo : SUBSET Targets,
                  target : Targets \cup {NoAttempt}, attempt : Nat],
           n.todo \subseteq Decided, n.pc \in {"deliver", "consume"} => n.target \in Decided,
           n.pc = "deliver" => n.attempt \in Made /\ inbox[n.target].asked <= n.attempt
    PROVE  TasksOK'
<1>1. /\ DOMAIN task' = AllDeliverers /\ task'[d] = n
      /\ \A e \in AllDeliverers : e # d => task'[e] = task[e]
  BY DEF TasksOK
<1>2. TaskOK(d)'
  BY <1>1 DEF TaskOK, Grows, Stand
<1>3. \A e \in AllDeliverers : e # d => TaskOK(e)'
  BY <1>1 DEF TasksOK, TaskOK, Grows, Stand
<1> QED
  BY <1>1, <1>2, <1>3 DEF TasksOK

LEMMA SweepStep ==
    ASSUME Inv, NEW d \in Deliverers, Sweep(d)
    PROVE  Inv'
<1> DEFINE n == [task[d] EXCEPT !.pc = "next", !.todo = Undelivered]
<1>1. /\ UNCHANGED <<auth, current, cached, inbox, ssh, granted, stamped>>
      /\ task' = [task EXCEPT ![d].pc = "next", ![d].todo = Undelivered] /\ d \in AllDeliverers
  BY DEF Sweep, AllDeliverers
<1>2. /\ Grows /\ Stand
      /\ AttemptsOK' /\ RowsOK' /\ GrantsOK' /\ NoLeftover' /\ ProofsOK' /\ HandlerOK'
  BY <1>1, OnlyHandlers
<1>3. TaskOK(d) /\ DOMAIN task = AllDeliverers
  BY <1>1 DEF Inv, TasksOK
<1>4. task' = [task EXCEPT ![d] = n]
  BY <1>1, <1>3
<1>5. Undelivered \subseteq Decided /\ Undelivered \subseteq Targets
  BY DEF Undelivered, Decided
<1>6. /\ n \in [pc : {"idle", "next", "deliver", "consume"}, todo : SUBSET Targets,
                target : Targets \cup {NoAttempt}, attempt : Nat]
      /\ n.todo = Undelivered /\ n.pc = "next"
  BY <1>3, <1>5 DEF TaskOK
<1> HIDE DEF n
<1>7. TasksOK'
  BY <1>1, <1>2, <1>4, <1>5, <1>6, TaskMoves DEF Inv
<1> QED
  BY <1>2, <1>7 DEF Inv

LEMMA TakeNextStep ==
    ASSUME Inv, NEW d \in AllDeliverers, NEW t \in Targets, TakeNext(d, t)
    PROVE  Inv'
<1> DEFINE n == [pc |-> IF current = NoAttempt THEN "consume" ELSE "deliver",
                 todo |-> task[d].todo \ {t}, target |-> t, attempt |-> current]
<1>1. /\ UNCHANGED <<auth, current, cached, inbox, ssh, granted, stamped>>
      /\ task' = [task EXCEPT ![d] = n] /\ t \in task[d].todo
  BY DEF TakeNext, Inv, TasksOK
<1>2. /\ Grows /\ Stand
      /\ AttemptsOK' /\ RowsOK' /\ GrantsOK' /\ NoLeftover' /\ ProofsOK' /\ HandlerOK'
  BY <1>1, OnlyHandlers
<1>3. TaskOK(d)
  BY DEF Inv, TasksOK
<1>4. current \in Nat /\ (current # NoAttempt => current \in Made)
  BY AttemptType DEF Inv, AttemptsOK, NoAttempt
<1>5. /\ n \in [pc : {"idle", "next", "deliver", "consume"}, todo : SUBSET Targets,
                target : Targets \cup {NoAttempt}, attempt : Nat]
      /\ n.todo \subseteq Decided /\ n.target \in Decided
      /\ n.pc = "deliver" => n.attempt \in Made /\ inbox[n.target].asked <= n.attempt
  <2>1. t \in Decided /\ inbox[t].asked \in Made
    BY <1>1, <1>3, QuestionOf DEF TaskOK, Decided
  <2>2. current # NoAttempt => inbox[t].asked <= current
    BY <2>1 DEF Inv, AttemptsOK, Made
  <2> QED
    BY <1>1, <1>3, <1>4, <2>1, <2>2 DEF TaskOK
<1> HIDE DEF n
<1>6. TasksOK'
  BY <1>1, <1>2, <1>5, TaskMoves DEF Inv
<1> QED
  BY <1>2, <1>6 DEF Inv

LEMMA ConsumeStep ==
    ASSUME Inv, NEW d \in AllDeliverers, ConsumeDecision(d)
    PROVE  Inv'
<1> DEFINE t == task[d].target
           r == [inbox[t] EXCEPT !.consumed = TRUE]
           n == [task[d] EXCEPT !.pc = "next", !.target = NoAttempt, !.attempt = NoAttempt]
<1>1. /\ UNCHANGED <<auth, current, cached, ssh, granted, stamped>> /\ task[d].pc = "consume"
      /\ inbox' = [inbox EXCEPT ![t].consumed = TRUE]
      /\ task' = [task EXCEPT ![d].pc = "next", ![d].target = NoAttempt, ![d].attempt = NoAttempt]
  BY DEF ConsumeDecision
<1>2. TaskOK(d) /\ DOMAIN task = AllDeliverers /\ t \in Decided /\ t \in Targets
  BY <1>1 DEF Inv, TasksOK, TaskOK, Decided
<1>3. inbox \in [Targets -> RowRecords \cup {NoRequest}] /\ inbox[t] \in RowRecords /\ inbox[t].status # "none"
  BY <1>2 DEF Inv, RowsOK, RowOK, NoRequest, Decided
<1>4. inbox' = [inbox EXCEPT ![t] = r] /\ task' = [task EXCEPT ![d] = n]
  BY <1>1, <1>2, <1>3
<1>5. r \in RowRecords /\ r.status = inbox[t].status /\ r.asked = inbox[t].asked /\ r.user = inbox[t].user
  BY <1>3 DEF RowRecords
<1>6. /\ n \in [pc : {"idle", "next", "deliver", "consume"}, todo : SUBSET Targets,
                target : Targets \cup {NoAttempt}, attempt : Nat]
      /\ n.todo \subseteq Decided /\ n.pc = "next"
  BY <1>2 DEF TaskOK, NoAttempt
<1> HIDE DEF r, n
<1>7. /\ inbox' \in [Targets -> RowRecords \cup {NoRequest}] /\ DOMAIN inbox' = Targets /\ inbox'[t] = r
      /\ \A u \in Targets : u # t => inbox'[u] = inbox[u]
  BY <1>2, <1>3, <1>4, <1>5
<1>8. /\ Grows /\ Stand
      /\ AttemptsOK' /\ RowsOK' /\ GrantsOK' /\ ProofsOK' /\ HandlerOK' /\ NoLeftover'
  BY <1>1, <1>3, <1>5, <1>7, RowStep
<1>9. TasksOK'
  BY <1>4, <1>6, <1>8, TaskMoves DEF Inv
<1> QED
  BY <1>8, <1>9 DEF Inv

LEMMA DeliveredStep ==
    ASSUME Inv, Pulling, NEW d \in AllDeliverers, Delivered(d)
    PROVE  Inv'
<1>1. /\ UNCHANGED <<auth, current, cached, inbox, granted, stamped>> /\ task' = [task EXCEPT ![d] = Unoccupied]
      /\ task[d].pc = "next"
      /\ ssh' = ssh \/ (d = "ssh" /\ ssh' = [ssh EXCEPT !.pc = "recall"])
  BY DEF Delivered
<1>2. /\ Grows /\ Stand
      /\ AttemptsOK' /\ RowsOK' /\ GrantsOK' /\ NoLeftover' /\ ProofsOK'
  BY <1>1, OnlyHandlers
<1>3. TasksOK'
  <2>1. /\ Unoccupied \in [pc : {"idle", "next", "deliver", "consume"}, todo : SUBSET Targets,
                       target : Targets \cup {NoAttempt}, attempt : Nat]
        /\ Unoccupied.todo = {} /\ Unoccupied.pc = "idle"
    BY DEF Unoccupied, NoAttempt
  <2> QED
    BY <1>1, <1>2, <2>1, TaskMoves DEF Inv
<1>4. HandlerOK'
  <2>1. CASE ssh' = ssh
    BY <1>1, <1>2, <2>1, HandlerKept DEF Inv
  <2>2. CASE d = "ssh" /\ ssh' = [ssh EXCEPT !.pc = "recall"]
    <3>1. cached \in Made
      BY <1>1, <2>2 DEF Pulling, Inv, HandlerOK
    <3> QED
      BY <1>1, <1>2, <2>2, <3>1, HandlerMoves DEF Inv
  <2> QED
    BY <1>1, <2>1, <2>2
<1> QED
  BY <1>2, <1>3, <1>4 DEF Inv

\* deliver_user_decision: the row is of the user and the target of the attempt, so
\* that whoever asked was alike; what is decided is no longer asked.
LEMMA DeliverStep ==
    ASSUME SignInSound, Inv, NEW d \in AllDeliverers, Deliver(d)
    PROVE  Inv'
<1> DEFINE n == [task[d] EXCEPT !.pc = "consume"]
<1>1. /\ UNCHANGED <<current, cached, inbox, ssh, stamped>> /\ task[d].pc = "deliver"
      /\ task' = [task EXCEPT ![d].pc = "consume"]
  BY DEF Deliver
<1> PICK t \in Targets, a \in Made : t = task[d].target /\ a = task[d].attempt
  BY <1>1 DEF Inv, TasksOK, TaskOK, Decided
<1>2. TaskOK(d) /\ DOMAIN task = AllDeliverers /\ t \in Decided
  BY <1>1 DEF Inv, TasksOK, TaskOK
<1>3. task' = [task EXCEPT ![d] = n]
  BY <1>1, <1>2
<1>4. /\ n \in [pc : {"idle", "next", "deliver", "consume"}, todo : SUBSET Targets,
                target : Targets \cup {NoAttempt}, attempt : Nat]
      /\ n.todo \subseteq Decided /\ n.pc = "consume" /\ n.target = t
  BY <1>2 DEF TaskOK
<1> HIDE DEF n
<1>5. CASE ~Applies(t, auth[a])
  <2>1. UNCHANGED <<auth, granted>>
    BY <1>5 DEF Deliver
  <2>2. /\ Grows /\ Stand
        /\ AttemptsOK' /\ RowsOK' /\ GrantsOK' /\ NoLeftover' /\ ProofsOK' /\ HandlerOK'
    BY <1>1, <2>1, OnlyHandlers
  <2>3. TasksOK'
    BY <1>2, <1>3, <1>4, <2>2, TaskMoves DEF Inv
  <2> QED
    BY <2>2, <2>3 DEF Inv
<1>6. CASE Applies(t, auth[a])
  <2> DEFINE old == auth[a]
             s == ApplyDecision(old, inbox[t].status)
             q == inbox[t].asked
  <2>1. auth' = [auth EXCEPT ![a] = s] /\ granted' = granted \cup {Granted(a, q)}
    BY <1>6 DEF Deliver
  <2>2. old \in Records /\ t = old.target /\ inbox[t].user = old.user
    BY <1>2, <1>6, AttemptType DEF Applies, Matches
  <2>3. q \in Made /\ t = auth[q].target /\ auth[q].user = inbox[t].user /\ q <= a
    BY <1>1, <1>2, QuestionOf DEF Decided, TaskOK
  <2>4. s \in Records /\ s.user = old.user /\ s.target = old.target
    <3>1. CASE inbox[t].status = "approved"
      BY <2>2, <3>1, ApproveFields DEF ApplyDecision, Is
    <3>2. CASE inbox[t].status # "approved"
      BY <2>2, <3>2, RejectFields DEF ApplyDecision, Is
    <3> QED
      BY <3>1, <3>2
  <2> HIDE DEF s, q
  <2>5. Becomes(a, s)
    BY <1>2, <2>1, <2>4 DEF Becomes
  <2>6. Grows /\ Made' = Made /\ AttemptsOK'
    BY <1>1, <2>5, EditStep
  <2>7. RowsOK' /\ Stand
    BY <1>1, <2>6, RowsKept DEF Inv
  <2>8. TasksOK'
    BY <1>2, <1>3, <1>4, <2>6, <2>7, TaskMoves DEF Inv
  <2>9. Reached(a)'
    BY <2>1, <2>3, <2>6 DEF Reached, Granted
  <2>10. ProofsOK'
    BY <1>1, <2>1, <2>5, <2>9, EditProofs
  <2>11. GrantsOK'
    <3> SUFFICES ASSUME NEW g \in granted'
                 PROVE  \E b, c \in Made' : g = Granted(b, c)' /\ Alike(b, c)' /\ c <= b
      BY DEF GrantsOK
    <3>1. \A b, c \in Made : Alike(b, c) => Alike(b, c)'
      BY <2>6 DEF Grows, Alike
    <3>2. CASE g \in granted
      <4>1. PICK b, c \in Made : g = Granted(b, c) /\ Alike(b, c) /\ c <= b
        BY <3>2 DEF Inv, GrantsOK
      <4> QED
        BY <2>6, <3>1, <4>1 DEF Granted
    <3>3. CASE g = Granted(a, q)
      <4>1. Alike(a, q)
        BY <2>2, <2>3 DEF Alike
      <4> QED
        BY <1>2, <2>3, <2>6, <3>1, <3>3, <4>1 DEF Granted
    <3> QED
      BY <2>1, <3>2, <3>3
  <2>12. HandlerOK'
    BY <1>1, <2>1, <2>6, HandlerKept DEF Inv
  <2>13. NoLeftover'
    <3>1. \A u \in Targets : inbox[u].status = "pending" => inbox[u].asked # a
      <4> SUFFICES ASSUME NEW u \in Targets, inbox[u].status = "pending" PROVE inbox[u].asked # a
        OBVIOUS
      <4>1. u # t
        BY <1>2 DEF Decided
      <4>2. u = auth[inbox[u].asked].target
        BY QuestionOf
      <4> QED
        BY <2>2, <4>1, <4>2
    <3> QED
      BY <1>1, <2>5, <3>1, EditLeftover
  <2> QED
    BY <2>6, <2>7, <2>8, <2>10, <2>11, <2>12, <2>13 DEF Inv
<1> QED
  BY <1>5, <1>6

\* A step of the forwarder that only reads, and of time that only passes.
LEMMA QuietStep ==
    ASSUME Inv, UNCHANGED <<auth, cached, inbox, ssh, task, granted, stamped>>, current' \in {current, NoAttempt}
    PROVE  Inv'
BY OnlyHandlers DEF Inv

-----------------------------------------------------------------------------
(* The theorems.                                                           *)

LEMMA PullingStep ==
    ASSUME SignInSound, Inv, Pulling, [SignInNext]_signInVars
    PROVE  Pulling'
<1>1. CASE UNCHANGED <<ssh, task>>
  BY <1>1 DEF Pulling
<1>2. CASE Handler
  <2>1. CASE Pull
    BY <2>1 DEF Pull, Pulling, Inv, HandlerOK
  <2>2. CASE ~Pull
    <3>1. UNCHANGED task /\ ssh.pc # "pulling"
      BY <1>2, <2>2 DEF Handler, StartAttempt, ContinueAttempt, DropAttempt, RecallForSsh, BypassForSsh, Judge, Gate, Accept
    <3> QED
      BY <3>1 DEF Pulling
  <2> QED
    BY <2>1, <2>2
<1>3. CASE Forwarder
  BY <1>1, <1>3 DEF Forwarder, Forward, Recall, BypassFirst, AskPerson
<1>4. CASE Person
  BY <1>1, <1>4 DEF Person, Decide
<1>5. CASE Delivery
  <2>1. PICK d \in AllDeliverers :
          \/ d \in Deliverers /\ Sweep(d)
          \/ \E t \in Targets : TakeNext(d, t)
          \/ Deliver(d) \/ ConsumeDecision(d) \/ Delivered(d)
    BY <1>5 DEF Delivery, AllDeliverers
  <2>2. TaskOK(d) /\ DOMAIN task = AllDeliverers /\ ssh \in [pc : {"idle", "pull", "pulling", "recall",
            "bypass", "verdict", "gate", "accept"}, valid : SUBSET Kinds, bypassed : BOOLEAN]
    BY DEF Inv, TasksOK, HandlerOK
  <2>3. "ssh" \in AllDeliverers
    BY DEF AllDeliverers
  <2>4. CASE Delivered(d)
    <3>1. CASE d = "ssh"
      BY <2>2, <2>4, <3>1 DEF Delivered, Unoccupied, Pulling
    <3>2. CASE d # "ssh"
      BY <2>2, <2>4, <3>2 DEF Delivered, Pulling
    <3> QED
      BY <3>1, <3>2
  <2>5. CASE d \in Deliverers /\ Sweep(d)
    <3>1. UNCHANGED ssh /\ task'["ssh"] = task["ssh"]
      BY <2>2, <2>5, <2>3 DEF Sweep, SignInSound
    <3> QED
      BY <3>1 DEF Pulling
  <2>6. CASE (\E t \in Targets : TakeNext(d, t)) \/ Deliver(d) \/ ConsumeDecision(d)
    <3>1. /\ UNCHANGED ssh /\ task[d].pc # "idle" /\ \A e \in AllDeliverers : e # d => task'[e] = task[e]
      BY <2>2, <2>6 DEF TakeNext, Deliver, ConsumeDecision
    <3> QED
      BY <2>3, <3>1 DEF Pulling
  <2> QED
    BY <2>1, <2>4, <2>5, <2>6
<1>6. CASE Time
  BY <1>1, <1>6 DEF Time, GrowOld, Vacuum, ReapStale, GrowStale, End
<1> QED
  BY <1>1, <1>2, <1>3, <1>4, <1>5, <1>6 DEF SignInNext, signInVars

LEMMA Inductive ==
    ASSUME SignInSound, Inv, Pulling, [SignInNext]_signInVars
    PROVE  Inv'
<1>1. CASE UNCHANGED signInVars
  BY <1>1, QuietStep DEF signInVars
<1>2. CASE Handler
  BY <1>2, StartAttemptStep, ContinueStep, DropAttemptStep, PullStep, RecallForSshStep, BypassForSshStep,
     JudgeStep, GateStep, AcceptStep DEF Handler
<1>3. CASE Forwarder
  <2>1. PICK a \in Made : Forward(a) \/ Recall(a) \/ BypassFirst(a) \/ AskPerson(a)
    BY <1>3 DEF Forwarder
  <2>2. CASE Forward(a) \/ Recall(a)
    BY <2>2, QuietStep DEF Forward, Recall
  <2> QED
    BY <2>1, <2>2, BypassFirstStep, AskStep
<1>4. CASE Person
  BY <1>4, DecideStep DEF Person
<1>5. CASE Delivery
  BY <1>5, SweepStep, TakeNextStep, DeliverStep, ConsumeStep, DeliveredStep DEF Delivery
<1>6. CASE Time
  <2>1. CASE GrowOld \/ Vacuum \/ GrowStale
    BY <2>1, QuietStep DEF GrowOld, Vacuum, GrowStale
  <2>2. CASE ReapStale \/ End
    BY <2>2, AbandonStep DEF ReapStale, End
  <2> QED
    BY <1>6, <2>1, <2>2 DEF Time
<1> QED
  BY <1>1, <1>2, <1>3, <1>4, <1>5, <1>6 DEF SignInNext

LEMMA Always == ASSUME SignInSound PROVE SignInSpec => [](Inv /\ Pulling)
<1>1. SignInInit => Inv /\ Pulling
  <2>1. SignInInit => task["ssh"].pc = "idle"
    BY DEF SignInInit, Unoccupied, AllDeliverers
  <2> QED
    BY <2>1, Initially DEF Pulling
<1>2. Inv /\ Pulling /\ [SignInNext]_signInVars => (Inv /\ Pulling)'
  BY Inductive, PullingStep
<1> QED
  BY <1>1, <1>2, PTL DEF SignInSpec

\* A decision reaches only attempts of the user and on the target it was asked for,
\* none of them older than the one that asked; the clock of a key moves only for an
\* attempt that a decision has reached; and nobody is asked about a login that no
\* longer waits. For any number of attempts, targets and tasks that deliver, though
\* attempts are given up and the client returns to users and targets it has left
\* (deliver_user_decision, advertise_user_request, try_web_approval_bypass).
THEOREM DecisionsStayWithTheirPerson == ASSUME SignInSound PROVE SignInSpec => []OwnDecisions
<1>1. Inv => OwnDecisions
  <2> SUFFICES ASSUME Inv PROVE OwnDecisions
    OBVIOUS
  <2>1. OwnDecision
    BY DEF OwnDecision, Inv, GrantsOK, Granted
  <2>2. SignOnProved
    <3> SUFFICES ASSUME NEW a \in stamped PROVE \E g \in granted : g.attempt = a
      BY DEF SignOnProved
    <3>1. PICK q \in Made : Granted(a, q) \in granted
      BY DEF Inv, ProofsOK, Reached
    <3> QED
      BY <3>1 DEF Granted
  <2> QED
    BY <2>1, <2>2 DEF OwnDecisions, Inv
<1> QED
  BY <1>1, Always, PTL

-----------------------------------------------------------------------------
(* The policies of logins.                                                 *)

\* The policy of the login, as long as nothing has changed; an approval is one way
\* of several only where a factor or the user's own policy asks for it.
PolicyInv ==
    /\ protocol \in Protocols /\ credentials \subseteq CredentialKinds /\ required \in Required
    /\ changes \in Nat /\ policy.inner \in {"any", "all"}
    /\ methods \subseteq SshMethods /\ switches \subseteq SshMethods
    /\ changes = 0 => policy = get_credential_policy(methods)
    /\ policy.inner = "any" /\ Web \in policy.kinds => policy.kinds = {Web}
    /\ NoNeedlessApproval

LEMMA SupportedFinite ==
    ASSUME PoliciesSound, protocol \in Protocols, NEW offered \in SUBSET SshMethods
    PROVE  IsFiniteSet(Supported(protocol, offered))
<1>1. Supported(protocol, offered) \subseteq {"Password", "PublicKey", "Totp", "Sso", Web}
  BY DEF PoliciesSound, Supported, Carried, SshMethods, WebApproval, Web
<1>2. IsFiniteSet({"Password", "PublicKey", "Totp", "Sso", Web})
  <2>1. IsFiniteSet({"Password"})
    BY FS_Singleton
  <2>2. IsFiniteSet({"Password"} \cup {"PublicKey"})
    BY <2>1, FS_AddElement
  <2>3. IsFiniteSet(({"Password"} \cup {"PublicKey"}) \cup {"Totp"})
    BY <2>2, FS_AddElement
  <2>4. IsFiniteSet((({"Password"} \cup {"PublicKey"}) \cup {"Totp"}) \cup {"Sso"})
    BY <2>3, FS_AddElement
  <2>5. IsFiniteSet(((({"Password"} \cup {"PublicKey"}) \cup {"Totp"}) \cup {"Sso"}) \cup {Web})
    BY <2>4, FS_AddElement
  <2>6. (((({"Password"} \cup {"PublicKey"}) \cup {"Totp"}) \cup {"Sso"}) \cup {Web})
          = {"Password", "PublicKey", "Totp", "Sso", Web}
    OBVIOUS
  <2> QED
    BY <2>5, <2>6
<1> QED
  BY <1>1, <1>2, FS_Subset

\* get_credential_policy offers an approval alone or not at all, unless it is asked for.
LEMMA ApprovalAlone ==
    ASSUME PoliciesSound, protocol \in Protocols, NEW offered \in SUBSET SshMethods
    PROVE  LET p == get_credential_policy(offered) IN p.inner = "any" /\ Web \in p.kinds => p.kinds = {Web}
<1> DEFINE p == get_credential_policy(offered)
           usable == Supported(protocol, offered) \cap (credentials \cup {Web})
<1> SUFFICES ASSUME p.inner = "any", Web \in p.kinds PROVE p.kinds = {Web}
  OBVIOUS
<1>1. p.kinds = AnyKinds(usable)
  BY DEF get_credential_policy, WebApproval, Web
<1>2. Cardinality(usable) = Cardinality(usable)
  BY DEF Cardinality, Cardinality
<1>3. IsFiniteSet(usable) /\ Cardinality(usable) \in Nat
  BY SupportedFinite, FS_Subset, FS_CardinalityType
<1> HIDE DEF p
<1>4. p.kinds = usable /\ Web \in usable /\ Cardinality(usable) <= 1
  BY <1>1, <1>2, <1>3 DEF AnyKinds, WebApproval, Web
<1>5. IsFiniteSet(usable \ {Web}) /\ Cardinality(usable \ {Web}) = Cardinality(usable) - 1
  BY <1>3, <1>4, FS_RemoveElement
<1>6. usable \ {Web} = {}
  <2>1. Cardinality(usable \ {Web}) \in Nat
    BY <1>5, FS_CardinalityType
  <2>2. Cardinality(usable \ {Web}) = 0
    BY <1>3, <1>4, <1>5, <2>1
  <2> QED
    BY <1>5, <2>2, FS_EmptySet
<1> QED
  BY <1>4, <1>6

LEMMA PolicyPresentStep ==
    ASSUME PoliciesSound, PolicyInv, NEW kind \in CredentialKinds \cup {WebApproval}, Present(kind)
    PROVE  PolicyInv'
<1>1. /\ valid' = valid \cup {kind} /\ UNCHANGED <<protocol, credentials, required, enforcement, exempt, switches, methods, policy, changes>>
      /\ kind = Web => Web \in Verdict.kinds
  BY DEF Present, PoliciesSound, WebApproval, Web, PolicyInv
<1>2. get_credential_policy(methods)' = get_credential_policy(methods)
  BY <1>1 DEF get_credential_policy, mfa_required_factor, Enforced, OnWire
<1>3. kind = Web => Web \in policy.factor \/ policy.inner = "all" \/ policy.kinds = {Web}
  <2> SUFFICES ASSUME Web \in Verdict.kinds, Web \notin policy.factor, policy.inner # "all"
               PROVE  policy.kinds = {Web}
    BY <1>1
  <2>1. Web \in A!Inner(valid).kinds
    BY DEF Verdict, A!IsSufficient, A!Need
  <2> QED
    BY <2>1 DEF A!Inner, A!AnySingle, A!AllCredentials, A!Need, A!Accepted, PolicyInv
<1> QED
  BY <1>1, <1>2, <1>3 DEF PolicyInv, NoNeedlessApproval, WebApproval, Web

\* The parameters and the user's credentials change, or another login begins.
LEMMA PolicyChangeStep ==
    ASSUME PoliciesSound, PolicyInv, Change
    PROVE  PolicyInv'
<1>1. changes' = changes + 1 /\ UNCHANGED <<protocol, required, methods, policy, valid>>
  BY DEF Change
<1>2. credentials' \subseteq CredentialKinds /\ switches' \subseteq SshMethods
  BY DEF Change, PolicyInv, PoliciesSound
<1> QED
  BY <1>1, <1>2 DEF PolicyInv, NoNeedlessApproval

LEMMA PolicyOfLogin ==
    ASSUME PoliciesSound, protocol \in Protocols, NEW offered
    PROVE  get_credential_policy(offered).inner \in {"any", "all"}
BY DEF get_credential_policy

LEMMA PolicyBeginStep ==
    ASSUME PoliciesSound, PolicyInv, BeginLogin
    PROVE  PolicyInv'
<1>1. /\ policy' = get_credential_policy(methods') /\ valid' = {} /\ changes > 0
      /\ UNCHANGED <<protocol, credentials, required, enforcement, exempt, switches, changes>>
      /\ methods' \in SUBSET SshMethods
  BY DEF BeginLogin, PolicyInv, get_allowed_auth_methods
<1>2. policy'.inner = "any" /\ Web \in policy'.kinds => policy'.kinds = {Web}
  BY <1>1, ApprovalAlone DEF PolicyInv
<1>3. policy'.inner \in {"any", "all"}
  BY <1>1, PolicyOfLogin DEF PolicyInv
<1> QED
  BY <1>1, <1>2, <1>3 DEF PolicyInv, NoNeedlessApproval

LEMMA PolicyAlways == ASSUME PoliciesSound PROVE PolicySpec => []PolicyInv
<1>1. PolicyInit => PolicyInv
  <2> SUFFICES ASSUME PolicyInit PROVE PolicyInv
    OBVIOUS
  <2>1. /\ policy = get_credential_policy(methods) /\ protocol \in Protocols /\ valid = {}
        /\ switches \in SUBSET SshMethods /\ methods \in SUBSET SshMethods
    BY DEF PolicyInit, PoliciesSound, get_allowed_auth_methods
  <2>2. policy.inner = "any" /\ Web \in policy.kinds => policy.kinds = {Web}
    BY <2>1, ApprovalAlone
  <2>3. policy.inner \in {"any", "all"}
    BY <2>1, PolicyOfLogin
  <2> QED
    BY <2>1, <2>2, <2>3 DEF PolicyInv, PolicyInit, NoNeedlessApproval
<1>2. PolicyInv /\ [PolicyNext]_policyVars => PolicyInv'
  <2> SUFFICES ASSUME PolicyInv, [PolicyNext]_policyVars PROVE PolicyInv'
    OBVIOUS
  <2>1. CASE UNCHANGED policyVars
    BY <2>1 DEF policyVars, PolicyInv, NoNeedlessApproval, get_credential_policy, mfa_required_factor, Enforced,
       OnWire
  <2> QED
    BY <2>1, PolicyPresentStep, PolicyChangeStep, PolicyBeginStep DEF PolicyNext
<1> QED
  BY <1>1, <1>2, PTL DEF PolicySpec

\* The second factor of a login whose policy is still the one in force.
LEMMA FactorNow ==
    ASSUME PoliciesSound, PolicyInv, changes = 0
    PROVE  /\ policy = get_credential_policy(methods) /\ policy.factor = mfa_required_factor
           /\ protocol \in {"Http", "Ssh", "Postgres", "MySql", "Kubernetes"}
BY DEF PolicyInv, PoliciesSound, get_credential_policy

\* With keyboard-interactive, SSH carries codes and approvals.
LEMMA Prompting ==
    ASSUME protocol = "Ssh", ~NoWayToAsk
    PROVE  {"Totp", WebApproval} \subseteq Supported(protocol, methods)
<1>1. "KeyboardInteractive" \in methods
  BY DEF NoWayToAsk
<1>2. Carried("KeyboardInteractive") = {"Totp", WebApproval}
  BY DEF Carried
<1>3. Supported(protocol, methods) = UNION {Carried(m) : m \in methods}
  BY DEF Supported
<1> QED
  BY <1>1, <1>2, <1>3

\* For every set of protocols, credentials, own policies and SSH methods: whoever has to give a
\* second factor gives one; nobody is asked for a factor or a sign-on that cannot be given on
\* the protocol, unless the methods allowed leave no way to ask for any; a code alone lets
\* nobody in unless the user's own policy asks for nothing else; and nobody is sent to the
\* browser without a reason (get_credential_policy, mfa_required_factor).
THEOREM PoliciesAskWhatTheyMust == ASSUME PoliciesSound PROVE PolicySpec => []FactorsAsRequired
<1>1. PolicyInv => FactorsAsRequired
  <2> SUFFICES ASSUME PolicyInv PROVE FactorsAsRequired
    OBVIOUS
  <2>1. FactorRequired
    <3> SUFFICES ASSUME changes = 0, Verdict.verdict = "accepted", enforcement = "Require",
                        ~(exempt /\ "Sso" \in credentials), protocol = "Http" => "Totp" \in credentials
                 PROVE  valid \cap {"Totp", Web} # {}
      BY DEF FactorRequired, WebApproval, Web
    <3>1. policy.factor \subseteq valid
      BY DEF Verdict, A!IsSufficient, A!Need
    <3>2. Enforced = "Require"
      BY DEF Enforced
    <3>3. mfa_required_factor # {} /\ mfa_required_factor \subseteq {"Totp", Web}
      BY <3>2, FactorNow DEF mfa_required_factor, WebApproval, Web
    <3> QED
      BY <3>1, <3>3, FactorNow
  <2>2. FactorWithinReach
    <3> SUFFICES ASSUME changes = 0, ~NoWayToAsk, A!Inner(valid).verdict = "accepted",
                        Verdict.verdict = "need", NEW kind \in Verdict.kinds
                 PROVE  Askable(kind)
      BY DEF FactorWithinReach
    <3>1. A!Inner(valid).kinds = {}
      BY DEF A!Inner, A!AnySingle, A!AllCredentials, A!Need, A!Accepted
    <3>2. kind \in policy.factor
      BY <3>1 DEF Verdict, A!IsSufficient, A!Need
    <3> QED
      BY <3>2, FactorNow, Prompting DEF mfa_required_factor, Askable, Supported, SupportsWebApproval, WebApproval, NoWayToAsk
  <2>3. SignOnWithinReach
    <3> SUFFICES ASSUME changes = 0, protocol = "Ssh", ~NoWayToAsk, required[protocol] = {{"Sso"}},
                        Verdict.verdict = "need"
                 PROVE  \E kind \in Verdict.kinds : Askable(kind)
      BY DEF SignOnWithinReach
    <3>1. policy.inner = "all" /\ policy.kinds = {Web}
      <4>1. UNION {{"Sso"}} = {"Sso"} /\ {{"Sso"}} # {}
        OBVIOUS
      <4>2. policy.inner = "all" /\ policy.kinds = OnWire(UNION {{"Sso"}})
        BY <4>1, FactorNow DEF get_credential_policy
      <4>3. OnWire({"Sso"}) = {Web}
        BY DEF OnWire, WebApproval, Web
      <4> QED
        BY <4>1, <4>2, <4>3
    <3>2. Askable(Web) /\ \A kind \in policy.factor : Askable(kind)
      BY FactorNow, Prompting DEF mfa_required_factor, Askable, SupportsWebApproval, WebApproval, Web, NoWayToAsk
    <3>3. CASE policy.factor \subseteq valid
      <4>1. Verdict = A!AllCredentials(valid)
        BY <3>1, <3>3 DEF Verdict, A!IsSufficient, A!Inner
      <4>2. Web \notin valid
        BY <3>1, <4>1 DEF A!AllCredentials, A!Accepted
      <4> QED
        BY <3>1, <3>2, <4>1, <4>2 DEF A!AllCredentials, A!Need
    <3>4. CASE ~(policy.factor \subseteq valid)
      <4>1. policy.factor \subseteq Verdict.kinds
        BY <3>4 DEF Verdict, A!IsSufficient, A!Need
      <4> QED
        BY <3>2, <3>4, <4>1
    <3> QED
      BY <3>3, <3>4
  <2>4. CodeNotAlone
    <3> SUFFICES ASSUME Verdict.verdict = "accepted"
                 PROVE  valid # {} /\ (valid = {"Totp"} => policy.inner = "all" /\ policy.kinds \subseteq {"Totp"})
      BY DEF CodeNotAlone
    <3>1. A!Inner(valid).verdict = "accepted"
      BY DEF Verdict, A!IsSufficient, A!Need
    <3>2. CASE policy.inner = "any"
      BY <3>1, <3>2 DEF A!Inner, A!AnySingle, A!Need, A!Accepted
    <3>3. CASE policy.inner = "all"
      BY <3>1, <3>3 DEF A!Inner, A!AllCredentials, A!Need, A!Accepted
    <3> QED
      BY <3>2, <3>3 DEF PolicyInv
  <2> QED
    BY <2>1, <2>2, <2>3, <2>4 DEF FactorsAsRequired, PolicyInv
<1> QED
  BY <1>1, PolicyAlways, PTL

-----------------------------------------------------------------------------
(* The clocks of a connection.                                             *)

\* A set of naturals has a least element.
LEMMA LeastNat ==
    ASSUME NEW S, S \subseteq Nat, S # {}
    PROVE  \E x \in S : \A y \in S : x <= y
<1>1. \E R : IsWellFoundedOn(R, Nat) /\ \A x, y \in Nat : <<y, x>> \in R <=> y < x
  <2>1. IsWellFoundedOn(OpToRel(<, Nat), Nat)
    BY NatLessThanWellFounded
  <2>2. \A x, y \in Nat : <<y, x>> \in OpToRel(<, Nat) <=> y < x
    BY DEF OpToRel
  <2> QED
    BY <2>1, <2>2
<1>2. PICK R : IsWellFoundedOn(R, Nat) /\ \A x, y \in Nat : <<y, x>> \in R <=> y < x
  BY <1>1
<1>3. PICK x \in S : \A y \in S : ~ (<<y, x>> \in R)
  BY <1>2, WFMin
<1>4. \A y \in S : x <= y
  <2> SUFFICES ASSUME NEW y \in S PROVE x <= y
    OBVIOUS
  <2>1. ~ (y < x)
    BY <1>2, <1>3
  <2> QED
    BY <2>1
<1> QED
  BY <1>3, <1>4

\* The state of the world and of the loop.
TimesOK ==
    /\ now \in Nat /\ interval \in Intervals \cup {Never}
    /\ last \in [Keys -> Nat \cup {Never}] /\ keys \subseteq Keys
    /\ recheck \in Nat \cup {Never} /\ failures \in Nat
    /\ idleSince \in Nat /\ lastEvent = idleSince /\ staleSince \in Nat \cup {Never}

\* An open connection is looked at again within the longest pause, is known to be
\* shut for as long as it is, and each failed look puts the end off by one pause.
LoopOK ==
    phase = "open" =>
        /\ recheck # Never /\ now <= recheck /\ recheck <= now + RecheckMax
        /\ failures < MaxFailures /\ (~MayFail => failures = 0)
        /\ staleSince # Never <=> Shut
        /\ staleSince # Never => staleSince <= now /\ recheck <= staleSince + (failures + 1) * RecheckMax

\* Before the login nothing has failed or been found shut, and the database answers
\* unless it may fail.
LoginOK ==
    /\ phase = "login" => failures = 0 /\ staleSince = Never
    /\ ~MayFail => failing = FALSE

IdleOK == phase = "open" /\ ~held => now <= idleSince + IdleTimeout

TimersInv == TimesOK /\ LoopOK /\ LoginOK /\ IdleOK

\* Pauses add up.
LEMMA Pauses ==
    ASSUME NEW r \in Nat, NEW f \in Nat
    PROVE  /\ (f + 1) * r \in Nat /\ r <= (f + 1) * r /\ (f + 2) * r = (f + 1) * r + r
           /\ \A m \in Nat : f < m => (f + 1) * r <= m * r
<1>1. f * r \in Nat
  OBVIOUS
<1>2. (f + 1) * r = f * r + r /\ (f + 2) * r = f * r + 2 * r
  OBVIOUS
<1>3. \A m \in Nat : f < m => (f + 1) * r <= m * r
  <2> SUFFICES ASSUME NEW m \in Nat, f < m PROVE (f + 1) * r <= m * r
    OBVIOUS
  <2>1. m - (f + 1) \in Nat
    OBVIOUS
  <2>2. (m - (f + 1)) * r \in Nat
    BY <2>1
  <2>3. m * r = (f + 1) * r + (m - (f + 1)) * r
    BY <2>1
  <2> QED
    BY <1>1, <1>2, <2>2, <2>3
<1> QED
  BY <1>1, <1>2, <1>3

\* A window that is open has some time left.
LEMMA TimeLeft ==
    ASSUME ClocksSound, TimesOK, ~Shut, interval # Never
    PROVE  Left \in Nat
<1> DEFINE S == {last[k] + interval - now : k \in keys}
<1>1. keys # {} /\ \A k \in keys : last[k] # Never /\ now <= last[k] + interval
  BY DEF Shut, ShutAt, is_fresh
<1>2. interval \in Nat /\ now \in Nat /\ \A k \in keys : last[k] \in Nat
  BY <1>1 DEF TimesOK, ClocksSound
<1>3. S \subseteq Nat /\ S # {}
  BY <1>1, <1>2
<1> HIDE DEF S
<1>4. \E x \in S : \A y \in S : x <= y
  BY <1>3, LeastNat
<1>5. Min(S) \in S
  BY <1>4 DEF Min
<1> QED
  BY <1>3, <1>5 DEF Left, S

\* Whether the window is shut, after a step that leaves it alone.
LEMMA ShutSame ==
    ASSUME UNCHANGED <<interval, last, keys, now>>
    PROVE  Shut' <=> Shut
BY DEF Shut, ShutAt, is_fresh

\* The history of the window in a step of the world or of a login.
LEMMA StaleFromNow ==
    ASSUME TimesOK, StaleFrom(Shut'), ClocksSound
    PROVE  /\ staleSince' \in Nat \cup {Never} /\ (staleSince' # Never <=> Shut')
           /\ staleSince' # Never => staleSince' = now \/ (staleSince' = staleSince /\ staleSince # Never)
BY DEF StaleFrom, TimesOK, ClocksSound

LEMMA LoginTimes ==
    ASSUME ClocksSound, TimersInv, Login
    PROVE  TimersInv'
<1>1. PICK m \in SUBSET Keys, approved \in BOOLEAN : try_auth_eager(m, approved)
  BY DEF Login
<1>2. /\ phase = "login" /\ phase' = "open" /\ keys' = m /\ recheck' = now /\ idleSince' = now /\ lastEvent' = now
      /\ UNCHANGED <<now, interval, failing, known, failures, held>>
      /\ StaleFrom(ShutAt(interval, last', m, now))
  BY <1>1 DEF try_auth_eager
<1>3. last' \in [Keys -> Nat \cup {Never}]
  <2>1. PICK stamps \in BOOLEAN : last' = [k \in Keys |-> IF stamps /\ k \in m THEN now ELSE last[k]]
    BY <1>1 DEF try_auth_eager
  <2> QED
    BY <2>1 DEF TimersInv, TimesOK
<1>4. StaleFrom(Shut')
  BY <1>2 DEF StaleFrom, Shut, ShutAt, is_fresh
<1>5. /\ staleSince = Never /\ failures = 0 /\ now \in Nat
      /\ staleSince' \in Nat \cup {Never} /\ (staleSince' # Never <=> Shut')
      /\ staleSince' # Never => staleSince' = now
  BY <1>2, <1>4, StaleFromNow DEF TimersInv, TimesOK, LoginOK
<1>6. TimesOK'
  BY <1>2, <1>3, <1>5 DEF TimersInv, TimesOK
<1>7. LoopOK'
  <2>1. RecheckMax \in Nat /\ MaxFailures \in Nat /\ 0 < MaxFailures /\ now # Never
    BY <1>5 DEF ClocksSound
  <2>2. (failures' + 1) * RecheckMax = RecheckMax
    BY <1>2, <1>5, <2>1
  <2>3. recheck' # Never /\ now' <= recheck' /\ recheck' <= now' + RecheckMax
    BY <1>2, <1>5, <2>1
  <2>4. failures' < MaxFailures /\ failures' = 0
    BY <1>2, <1>5, <2>1
  <2>5. staleSince' # Never => staleSince' <= now' /\ recheck' <= staleSince' + (failures' + 1) * RecheckMax
    BY <1>2, <1>5, <2>1, <2>2
  <2> QED
    BY <1>5, <2>3, <2>4, <2>5 DEF LoopOK
<1>8. LoginOK' /\ IdleOK'
  BY <1>2, <1>5 DEF TimersInv, LoginOK, IdleOK, ClocksSound
<1> QED
  BY <1>6, <1>7, <1>8 DEF TimersInv

\* A step that does not look: the next look stands.
LEMMA LoopKept ==
    ASSUME TimersInv, UNCHANGED <<now, interval, last, phase, keys, recheck, failures, staleSince>>
    PROVE  LoopOK'
<1>1. Shut' <=> Shut
  BY ShutSame
<1> QED
  BY <1>1 DEF TimersInv, LoopOK

LEMMA WorldTimes ==
    ASSUME ClocksSound, TimersInv, World
    PROVE  TimersInv'
<1>1. /\ UNCHANGED <<now, phase, keys, recheck, known, failures, idleSince, held, lastEvent>>
      /\ StaleFrom(phase = "open" /\ ShutAt(interval', last', keys, now))
  BY DEF World
<1>2. /\ interval' \in Intervals \cup {Never} /\ last' \in [Keys -> Nat \cup {Never}]
      /\ ~MayFail => failing' = failing
  BY DEF World, TimersInv, TimesOK
<1>3. RecheckMax \in Nat /\ now \in Nat /\ failures \in Nat /\ Never \notin Nat
  BY DEF TimersInv, TimesOK, ClocksSound
<1>4. staleSince' \in {Never, now, staleSince}
  BY <1>1 DEF StaleFrom
<1>5. TimesOK'
  BY <1>1, <1>2, <1>3, <1>4 DEF TimersInv, TimesOK
<1>6. LoopOK'
  <2> SUFFICES ASSUME phase = "open" PROVE LoopOK'
    BY <1>1 DEF LoopOK
  <2>1. StaleFrom(Shut')
    BY <1>1 DEF StaleFrom, Shut, ShutAt, is_fresh
  <2>2. /\ (staleSince' # Never <=> Shut')
        /\ staleSince' # Never => staleSince' = now \/ (staleSince' = staleSince /\ staleSince # Never)
    BY <2>1, StaleFromNow DEF TimersInv
  <2>3. /\ recheck # Never /\ now <= recheck /\ recheck <= now + RecheckMax
        /\ failures < MaxFailures /\ (~MayFail => failures = 0)
        /\ staleSince # Never => staleSince <= now /\ recheck <= staleSince + (failures + 1) * RecheckMax
    BY DEF TimersInv, LoopOK
  <2>4. recheck \in Nat
    BY <2>3 DEF TimersInv, TimesOK
  <2>5. (failures + 1) * RecheckMax \in Nat /\ RecheckMax <= (failures + 1) * RecheckMax
    BY <1>3, Pauses
  <2>6. now <= now /\ recheck <= now + (failures + 1) * RecheckMax
    BY <1>3, <2>3, <2>4, <2>5
  <2>7. staleSince' # Never => staleSince' <= now /\ recheck <= staleSince' + (failures + 1) * RecheckMax
    BY <2>2, <2>3, <2>6
  <2> QED
    BY <1>1, <2>2, <2>3, <2>7 DEF LoopOK
<1>7. LoginOK' /\ IdleOK'
  <2>1. phase = "login" => staleSince' = Never
    BY <1>1 DEF StaleFrom
  <2> QED
    BY <1>1, <1>2, <2>1 DEF TimersInv, LoginOK, IdleOK
<1> QED
  BY <1>5, <1>6, <1>7 DEF TimersInv

\* The clock goes on only while nothing is due.
LEMMA TickTimes ==
    ASSUME ClocksSound, TimersInv, Tick
    PROVE  TimersInv'
<1>1. /\ UNCHANGED <<interval, last, failing, phase, keys, recheck, known, failures, idleSince, held, lastEvent>>
      /\ now' = now + 1 /\ ~IdleDue /\ ~StepUpDue
      /\ staleSince' = IF phase # "open" \/ ~ShutAt(interval, last, keys, now + 1) THEN Never
                       ELSE IF staleSince = Never THEN now + 1 ELSE staleSince
  BY DEF Tick, world
<1>2. /\ RecheckMax \in Nat /\ now \in Nat /\ failures \in Nat /\ Never \notin Nat /\ idleSince \in Nat
      /\ IdleTimeout \in Nat
  BY DEF TimersInv, TimesOK, ClocksSound
<1>3. TimesOK'
  BY <1>1, <1>2 DEF TimersInv, TimesOK
<1>4. LoopOK'
  <2> SUFFICES ASSUME phase = "open" PROVE LoopOK'
    BY <1>1 DEF LoopOK
  <2>1. Shut' <=> ShutAt(interval, last, keys, now + 1)
    BY <1>1 DEF Shut, ShutAt, is_fresh
  <2>2. staleSince' # Never <=> Shut'
    BY <1>1, <1>2, <2>1
  <2>3. staleSince' # Never => staleSince' = now + 1 \/ (staleSince' = staleSince /\ staleSince # Never)
    BY <1>1
  <2>4. /\ recheck # Never /\ recheck <= now + RecheckMax
        /\ failures < MaxFailures /\ (~MayFail => failures = 0)
        /\ staleSince # Never => staleSince <= now /\ recheck <= staleSince + (failures + 1) * RecheckMax
    BY DEF TimersInv, LoopOK
  <2>5. recheck \in Nat /\ (staleSince # Never => staleSince \in Nat)
    BY <2>4 DEF TimersInv, TimesOK
  <2>6. now < recheck
    BY <1>1, <1>2, <2>4, <2>5 DEF StepUpDue
  <2>7. now' <= recheck /\ recheck <= now' + RecheckMax
    BY <1>1, <1>2, <2>4, <2>5, <2>6
  <2>8. (failures + 1) * RecheckMax \in Nat /\ RecheckMax <= (failures + 1) * RecheckMax
    BY <1>2, Pauses
  <2>9. recheck <= (now + 1) + (failures + 1) * RecheckMax
    BY <1>2, <2>4, <2>5, <2>8
  <2>10. staleSince' # Never => staleSince' <= now' /\ recheck <= staleSince' + (failures + 1) * RecheckMax
    <3>1. staleSince # Never => staleSince <= now + 1
      BY <1>2, <2>4, <2>5
    <3> QED
      BY <1>1, <2>3, <2>4, <2>9, <3>1, <1>2
  <2> QED
    BY <1>1, <2>2, <2>4, <2>7, <2>10 DEF LoopOK
<1>5. LoginOK'
  BY <1>1 DEF TimersInv, LoginOK
<1>6. IdleOK'
  <2> SUFFICES ASSUME phase = "open", ~held PROVE now' <= idleSince' + IdleTimeout
    BY <1>1 DEF IdleOK
  <2>1. now < idleSince + IdleTimeout
    BY <1>1, <1>2 DEF IdleDue
  <2> QED
    BY <1>1, <1>2, <2>1
<1> QED
  BY <1>3, <1>4, <1>5, <1>6 DEF TimersInv

\* The connection is closed.
LEMMA CloseTimes ==
    ASSUME TimersInv, phase' = "closed", recheck' \in Nat \cup {Never}, failures' \in Nat,
           UNCHANGED <<now, interval, last, failing, keys, idleSince, held, lastEvent, staleSince>>
    PROVE  TimersInv'
BY DEF TimersInv, TimesOK, LoopOK, LoginOK, IdleOK

\* The next look at a connection that stays open.
LEMMA LookTimes ==
    ASSUME ClocksSound, TimersInv, StepUpDue, ~Shut,
           recheck' \in Nat, now <= recheck', recheck' <= now + RecheckMax, failures' = 0,
           UNCHANGED <<now, interval, last, failing, phase, keys, idleSince, held, lastEvent, staleSince>>
    PROVE  TimersInv'
<1>1. TimesOK' /\ LoginOK' /\ IdleOK'
  BY DEF TimersInv, TimesOK, LoginOK, IdleOK
<1>2. LoopOK'
  <2>1. phase = "open" /\ staleSince = Never /\ 0 < MaxFailures
    BY DEF StepUpDue, TimersInv, LoopOK, ClocksSound
  <2>2. Shut' <=> Shut
    BY ShutSame
  <2>3. recheck' # Never
    BY DEF ClocksSound
  <2> QED
    BY <2>1, <2>2, <2>3 DEF LoopOK
<1> QED
  BY <1>1, <1>2 DEF TimersInv

LEMMA ReadFailedTimes ==
    ASSUME ClocksSound, TimersInv, StepUpDue, failing, step_up_read_failed
    PROVE  TimersInv'
<1>1. /\ phase = "open" /\ recheck # Never /\ recheck \in Nat /\ now \in Nat /\ failures \in Nat /\ RecheckMax \in Nat
      /\ now >= recheck /\ now <= recheck /\ Never \notin Nat
  BY DEF StepUpDue, TimersInv, TimesOK, LoopOK, ClocksSound
<1>2. failures' = failures + 1 /\ MaxFailures \in Nat
  BY DEF step_up_read_failed, ClocksSound
<1>3. CASE (known # Never /\ now > known) \/ failures + 1 >= MaxFailures
  <2>1. close_for_step_up
    BY <1>3 DEF step_up_read_failed
  <2> QED
    BY <1>1, <1>2, <2>1, CloseTimes DEF close_for_step_up, world
<1>4. CASE ~((known # Never /\ now > known) \/ failures + 1 >= MaxFailures)
  <2>1. /\ recheck' = now + RecheckMax
        /\ UNCHANGED <<now, interval, last, failing, phase, keys, known, idleSince, held, lastEvent, staleSince>>
    BY <1>4 DEF step_up_read_failed, world
  <2>2. TimesOK' /\ LoginOK' /\ IdleOK'
    BY <1>1, <1>2, <2>1 DEF TimersInv, TimesOK, LoginOK, IdleOK
  <2>3. (Shut' <=> Shut) /\ MayFail
    BY <2>1, ShutSame DEF TimersInv, LoginOK
  <2>4. /\ staleSince # Never <=> Shut
        /\ staleSince # Never => staleSince <= now /\ recheck <= staleSince + (failures + 1) * RecheckMax
    BY <1>1 DEF TimersInv, LoopOK
  <2>5. failures' < MaxFailures /\ recheck' # Never /\ now' <= recheck' /\ recheck' <= now' + RecheckMax
    BY <1>1, <1>2, <1>4, <2>1
  <2>6. staleSince' # Never => staleSince' <= now' /\ recheck' <= staleSince' + (failures' + 1) * RecheckMax
    <3> SUFFICES ASSUME staleSince # Never PROVE now + RecheckMax <= staleSince + (failures' + 1) * RecheckMax
      BY <2>1, <2>4
    <3>1. staleSince \in Nat
      BY DEF TimersInv, TimesOK
    <3>2. (failures + 1) * RecheckMax \in Nat /\ (failures' + 1) * RecheckMax = (failures + 1) * RecheckMax + RecheckMax
      <4>1. failures' + 1 = failures + 2
        BY <1>1, <1>2
      <4> QED
        BY <1>1, <4>1, Pauses
    <3>3. now <= staleSince + (failures + 1) * RecheckMax
      BY <1>1, <2>4, <3>1, <3>2
    <3> QED
      BY <1>1, <3>1, <3>2, <3>3
  <2>7. LoopOK'
    BY <2>1, <2>3, <2>4, <2>5, <2>6 DEF LoopOK
  <2> QED
    BY <2>2, <2>7 DEF TimersInv
<1> QED
  BY <1>3, <1>4

LEMMA EnforceTimes ==
    ASSUME ClocksSound, TimersInv, enforce_step_up_window
    PROVE  TimersInv'
<1>1. StepUpDue /\ now \in Nat /\ RecheckMin \in Nat /\ RecheckMax \in Nat /\ RecheckMin <= RecheckMax
  BY DEF enforce_step_up_window, TimersInv, TimesOK, ClocksSound
<1>2. CASE failing /\ step_up_read_failed
  BY <1>1, <1>2, ReadFailedTimes
<1>3. CASE close_for_step_up /\ failures' = 0
  BY <1>3, CloseTimes DEF close_for_step_up, world
<1>4. CASE ~Shut /\ interval # Never /\ Remains
  <2>1. Left \in Nat
    BY <1>4, TimeLeft DEF TimersInv
  <2>2. /\ recheck' = NextLook(Left) /\ failures' = 0
        /\ UNCHANGED <<now, interval, last, failing, phase, keys, idleSince, held, lastEvent, staleSince>>
    BY <1>4 DEF Remains, world
  <2>3. \A left \in Nat : /\ NextLook(left) \in Nat /\ now <= NextLook(left)
                          /\ NextLook(left) <= now + RecheckMax
    BY <1>1 DEF NextLook
  <2> QED
    BY <1>1, <1>4, <2>1, <2>2, <2>3, LookTimes
<1>5. CASE interval = Never /\ NotApplicable
  <2>1. ~Shut
    BY <1>5 DEF Shut, ShutAt
  <2>2. /\ recheck' = now + RecheckMax /\ failures' = 0
        /\ UNCHANGED <<now, interval, last, failing, phase, keys, idleSince, held, lastEvent, staleSince>>
    BY <1>5 DEF NotApplicable, world
  <2>3. recheck' \in Nat /\ now <= recheck' /\ recheck' <= now + RecheckMax
    BY <1>1, <2>2
  <2> QED
    BY <1>1, <2>1, <2>2, <2>3, LookTimes
<1> QED
  BY <1>2, <1>3, <1>4, <1>5 DEF enforce_step_up_window

LEMMA EventTimes ==
    ASSUME ClocksSound, TimersInv, Event \/ Held
    PROVE  TimersInv'
<1>1. /\ UNCHANGED <<now, interval, last, failing, phase, keys, recheck, known, failures, staleSince>>
      /\ idleSince' = now /\ lastEvent' = now
  BY DEF Event, Held, world
<1>2. TimesOK' /\ LoginOK'
  BY <1>1 DEF TimersInv, TimesOK, LoginOK
<1>3. IdleOK'
  BY <1>1 DEF TimersInv, TimesOK, IdleOK, ClocksSound
<1>4. LoopOK'
  BY <1>1, LoopKept
<1> QED
  BY <1>2, <1>3, <1>4 DEF TimersInv

LEMMA TimersAlways == ASSUME ClocksSound PROVE ClockSpec => []TimersInv
<1>1. ClockInit => TimersInv
  BY DEF ClockInit, TimersInv, TimesOK, LoopOK, LoginOK, IdleOK, ClocksSound
<1>2. TimersInv /\ [ClockNext]_clockVars => TimersInv'
  <2> SUFFICES ASSUME TimersInv, [ClockNext]_clockVars PROVE TimersInv'
    OBVIOUS
  <2>1. CASE UNCHANGED clockVars
    <3>1. LoopOK'
      BY <2>1, LoopKept DEF clockVars
    <3>2. TimesOK' /\ LoginOK' /\ IdleOK'
      BY <2>1 DEF clockVars, TimersInv, TimesOK, LoginOK, IdleOK
    <3> QED
      BY <3>1, <3>2 DEF TimersInv
  <2>2. CASE CloseIdle
    <3>1. recheck' \in Nat \cup {Never} /\ failures' \in Nat
      BY <2>2 DEF CloseIdle, TimersInv, TimesOK
    <3> QED
      BY <2>2, <3>1, CloseTimes DEF CloseIdle, world
  <2> QED
    BY <2>1, <2>2, LoginTimes, EnforceTimes, EventTimes, WorldTimes, TickTimes DEF ClockNext
<1> QED
  BY <1>1, <1>2, PTL DEF ClockSpec

\* For every number of keys, every interval and every timeout: a connection whose
\* step-up window has shut is closed within one pause between two looks, and within
\* as many pauses as looks may fail where reads fail; a connection on which nothing
\* happens is closed at its timeout (enforce_step_up_window, step_up_read_failed).
THEOREM ConnectionsCloseInTime == ASSUME ClocksSound PROVE ClockSpec => []ClosedWhenDue
<1>1. TimersInv => ClosedWhenDue
  <2> SUFFICES ASSUME TimersInv PROVE ClosedWhenDue
    OBVIOUS
  <2>1. IdleCloses
    BY DEF IdleCloses, TimersInv, IdleOK, TimesOK
  <2>2. ShutCloses
    <3> SUFFICES ASSUME phase = "open", staleSince # Never
                 PROVE  now <= staleSince + (failures + 1) * RecheckMax /\ failures < MaxFailures
      BY DEF ShutCloses
    <3>1. /\ now <= recheck /\ recheck <= staleSince + (failures + 1) * RecheckMax
          /\ failures < MaxFailures /\ recheck # Never
      BY DEF TimersInv, LoopOK
    <3>2. staleSince \in Nat /\ recheck \in Nat /\ now \in Nat /\ (failures + 1) * RecheckMax \in Nat
      BY <3>1 DEF TimersInv, TimesOK, ClocksSound
    <3> QED
      BY <3>1, <3>2
  <2> QED
    BY <2>1, <2>2 DEF ClosedWhenDue
<1> QED
  BY <1>1, TimersAlways, PTL

-----------------------------------------------------------------------------
(* The chain of hosts to a target, and where credentials go.               *)

\* Induction on the naturals, over a set.
LEMMA SetInduction ==
    ASSUME NEW S, 0 \in S, \A n \in Nat : n \in S => n + 1 \in S
    PROVE  Nat \subseteq S
<1> SUFFICES ASSUME Nat \ S # {} PROVE FALSE
  OBVIOUS
<1>1. PICK x \in Nat \ S : \A y \in Nat \ S : x <= y
  BY LeastNat
<1>2. x # 0 /\ x - 1 \in Nat /\ x - 1 \notin Nat \ S
  BY <1>1
<1> QED
  BY <1>1, <1>2

\* One link further along path p.
Further(p) ==
    IF p = <<>> \/ Last(p) \in gone THEN <<>>
    ELSE IF jump[Last(p)] = NoPeer THEN p
    ELSE IF jump[Last(p)] \in Range(p) THEN <<>>
    ELSE Append(p, jump[Last(p)])

IsWalk(f, start, n) == f = [i \in 0 .. n |-> IF i = 0 THEN <<start>> ELSE Further(f[i - 1])]

LEMMA WalkExists ==
    ASSUME NEW start, NEW n \in Nat
    PROVE  \E f : IsWalk(f, start, n)
<1> DEFINE S == {m \in Nat : \E f : IsWalk(f, start, m)}
<1>1. 0 \in S
  <2>1. IsWalk([i \in 0 .. 0 |-> <<start>>], start, 0)
    BY DEF IsWalk
  <2> QED
    BY <2>1
<1>2. ASSUME NEW m \in Nat, m \in S PROVE m + 1 \in S
  <2>1. PICK g : IsWalk(g, start, m)
    BY <1>2
  <2> DEFINE f == [i \in 0 .. m + 1 |-> IF i = m + 1 THEN Further(g[m]) ELSE g[i]]
  <2>2. \A i \in 0 .. m : g[i] = IF i = 0 THEN <<start>> ELSE Further(g[i - 1])
    BY <2>1 DEF IsWalk
  <2>3. ASSUME NEW i \in 0 .. m + 1 PROVE f[i] = IF i = 0 THEN <<start>> ELSE Further(f[i - 1])
    <3>1. CASE i = m + 1
      <4>1. f[i - 1] = g[m] /\ f[i] = Further(g[m])
        BY <3>1
      <4> QED
        BY <3>1, <4>1
    <3>2. CASE i # m + 1
      <4>1. i \in 0 .. m /\ f[i] = g[i]
        BY <3>2
      <4>2. i # 0 => f[i - 1] = g[i - 1]
        BY <3>2
      <4> QED
        BY <2>2, <4>1, <4>2
    <3> QED
      BY <3>1, <3>2
  <2>4. IsWalk(f, start, m + 1)
    <3>1. f = [i \in 0 .. m + 1 |-> f[i]]
      OBVIOUS
    <3> HIDE DEF f
    <3> QED
      BY <2>3, <3>1 DEF IsWalk
  <2> QED
    BY <2>4
<1> HIDE DEF S
<1>3. n \in S
  BY <1>1, <1>2, SetInduction
<1> QED
  BY <1>3 DEF S

\* A path from start along the links, to hosts that are there, without a repetition.
OnPath(start, p) ==
    /\ p \in Seq(Hosts) /\ Len(p) >= 1 /\ p[1] = start
    /\ \A i, j \in 1 .. Len(p) : p[i] = p[j] => i = j
    /\ \A i \in 1 .. Len(p) - 1 : jump[p[i]] = p[i + 1] /\ p[i] \notin gone

Whole(p) == jump[p[Len(p)]] = NoPeer /\ p[Len(p)] \notin gone

LEMMA FurtherOnPath ==
    ASSUME DialsSound, jump \in [Hosts -> Hosts \cup {NoPeer}], NEW start, NEW p, OnPath(start, p)
    PROVE  \/ Further(p) = <<>>
           \/ Further(p) = p /\ Whole(p)
           \/ OnPath(start, Further(p)) /\ Len(Further(p)) = Len(p) + 1
<1>1. p \in Seq(Hosts) /\ Len(p) \in Nat \ {0} /\ p # <<>> /\ p[Len(p)] \in Hosts /\ Last(p) = p[Len(p)]
  BY DEF OnPath, Last
<1>2. CASE Last(p) \in gone \/ jump[Last(p)] = NoPeer \/ jump[Last(p)] \in Range(p)
  BY <1>1, <1>2 DEF Further, Whole
<1>3. CASE Last(p) \notin gone /\ jump[Last(p)] # NoPeer /\ jump[Last(p)] \notin Range(p)
  <2> DEFINE h == jump[Last(p)]  q == Append(p, h)
  <2>1. Further(p) = q /\ h \in Hosts
    BY <1>1, <1>3 DEF Further
  <2>2. q \in Seq(Hosts) /\ Len(q) = Len(p) + 1 /\ q[Len(p) + 1] = h /\ \A i \in 1 .. Len(p) : q[i] = p[i]
    BY <1>1, <2>1
  <2>3. \A i \in 1 .. Len(p) : p[i] # h
    BY <1>1, <1>3 DEF Range
  <2> HIDE DEF q
  <2>4. q[1] = start
    BY <1>1, <2>2 DEF OnPath
  <2>5. \A i, j \in 1 .. Len(q) : q[i] = q[j] => i = j
    <3> SUFFICES ASSUME NEW i \in 1 .. Len(q), NEW j \in 1 .. Len(q), q[i] = q[j] PROVE i = j
      OBVIOUS
    <3>1. CASE i \in 1 .. Len(p) /\ j \in 1 .. Len(p)
      BY <2>2, <3>1 DEF OnPath
    <3>2. CASE i = Len(p) + 1 \/ j = Len(p) + 1
      BY <1>1, <2>2, <2>3, <3>2
    <3> QED
      BY <1>1, <2>2, <3>1, <3>2
  <2>6. \A i \in 1 .. Len(q) - 1 : jump[q[i]] = q[i + 1] /\ q[i] \notin gone
    <3> SUFFICES ASSUME NEW i \in 1 .. Len(q) - 1 PROVE jump[q[i]] = q[i + 1] /\ q[i] \notin gone
      OBVIOUS
    <3>1. CASE i = Len(p)
      BY <1>1, <1>3, <2>2, <3>1
    <3>2. CASE i # Len(p)
      <4>1. i \in 1 .. Len(p) - 1 /\ q[i] = p[i] /\ q[i + 1] = p[i + 1]
        BY <1>1, <2>2, <3>2
      <4> QED
        BY <4>1 DEF OnPath
    <3> QED
      BY <3>1, <3>2
  <2>7. OnPath(start, q)
    BY <1>1, <2>2, <2>4, <2>5, <2>6 DEF OnPath
  <2> QED
    BY <2>1, <2>2, <2>7
<1> QED
  BY <1>2, <1>3

\* What resolve_chain_ids returns.
LEMMA ChainResolved ==
    ASSUME DialsSound, jump \in [Hosts -> Hosts \cup {NoPeer}], NEW start \in Hosts,
           resolve_chain_ids(start) # <<>>
    PROVE  OnPath(start, resolve_chain_ids(start)) /\ Whole(resolve_chain_ids(start))
<1> DEFINE N == Cardinality(Hosts)
<1>1. N \in Nat
  BY FS_CardinalityType DEF DialsSound
<1>2. \E f : IsWalk(f, start, N)
  BY <1>1, WalkExists
<1>3. PICK f : IsWalk(f, start, N) /\ resolve_chain_ids(start) = f[N]
  BY <1>2 DEF resolve_chain_ids, IsWalk, Further
<1>4. f[0] = <<start>> /\ \A i \in 1 .. N : f[i] = Further(f[i - 1])
  BY <1>1, <1>3 DEF IsWalk
<1> DEFINE Kept(p, n) == p = <<>> \/ (OnPath(start, p) /\ (Whole(p) \/ Len(p) = n + 1))
           S == {n \in Nat : n <= N => Kept(f[n], n)}
<1> HIDE DEF N
<1>5. 0 \in S
  <2>1. OnPath(start, <<start>>) /\ Len(<<start>>) = 1
    BY DEF OnPath
  <2> QED
    BY <1>4, <2>1
<1>6. ASSUME NEW n \in Nat, n \in S PROVE n + 1 \in S
  <2> SUFFICES ASSUME n + 1 <= N PROVE Kept(f[n + 1], n + 1)
    OBVIOUS
  <2>1. f[n + 1] = Further(f[n]) /\ Kept(f[n], n)
    BY <1>1, <1>4, <1>6
  <2>2. CASE f[n] = <<>>
    BY <2>1, <2>2 DEF Further
  <2>3. CASE f[n] # <<>>
    <3>1. OnPath(start, f[n]) /\ (Whole(f[n]) \/ Len(f[n]) = n + 1)
      BY <2>1, <2>3
    <3>2. \/ Further(f[n]) = <<>>
          \/ Further(f[n]) = f[n] /\ Whole(f[n])
          \/ OnPath(start, Further(f[n])) /\ Len(Further(f[n])) = Len(f[n]) + 1
      BY <3>1, FurtherOnPath
    <3>3. Whole(f[n]) => Further(f[n]) = f[n]
      <4>1. f[n] # <<>> /\ Last(f[n]) = f[n][Len(f[n])]
        BY <2>3 DEF Last
      <4> QED
        BY <4>1 DEF Whole, Further
    <3>4. CASE Whole(f[n])
      BY <2>1, <3>1, <3>3, <3>4
    <3>5. CASE ~Whole(f[n])
      BY <2>1, <3>1, <3>2, <3>5
    <3> QED
      BY <3>4, <3>5
  <2> QED
    BY <2>2, <2>3
<1>7. Kept(f[N], N)
  <2> HIDE DEF S
  <2>1. N \in S
    BY <1>1, <1>5, <1>6, SetInduction
  <2> QED
    BY <1>1, <2>1 DEF S
<1> DEFINE p == f[N]
<1>8. OnPath(start, p) /\ (Whole(p) \/ Len(p) = N + 1)
  BY <1>3, <1>7
<1>9. Len(p) # N + 1
  <2> SUFFICES ASSUME Len(p) = N + 1 PROVE FALSE
    OBVIOUS
  <2>1. IsFiniteSet(1 .. N + 1) /\ Cardinality(1 .. N + 1) = N + 1
    BY <1>1, FS_Interval
  <2>2. p \in [1 .. N + 1 -> Hosts]
    BY <1>8 DEF OnPath
  <2>3. IsFiniteSet(Hosts) /\ Cardinality(Hosts) < Cardinality(1 .. N + 1)
    BY <1>1, <2>1 DEF DialsSound, N
  <2> HIDE DEF p
  <2>4. \E x, y \in 1 .. N + 1 : x # y /\ p[x] = p[y]
    BY <2>1, <2>2, <2>3, FS_PigeonHole
  <2> QED
    BY <1>8, <2>4 DEF OnPath
<1> QED
  BY <1>3, <1>8, <1>9

-----------------------------------------------------------------------------
\* The chain of an attempt: the hosts before the one that is wanted are others.
ChainOf(d, c) ==
    /\ c \in Seq(Hosts) /\ Len(c) >= 1 /\ c[Len(c)] = Wanted[d]
    /\ \A i, j \in 1 .. Len(c) : c[i] = c[j] => i = j

Events == Seq({"received", "unknown"})

DialRecords ==
    [st : {"idle", "waiting", "authenticating", "up", "failed", "timedOut", "stopped", "aborted"}, chain : Seq(Hosts), hop : Nat,
     task : {"none", "dialling", "shown", "asking", "accepted", "done", "error"}, key : HostKeys \cup {NoPeer},
     events : Events, expired : BOOLEAN, prompted : BOOLEAN,
     reply : {"none", "asked", "yes", "no", "dropped"}, vetted : SUBSET (Hosts \X (HostKeys \cup {NoPeer}))]

\* An attempt that has not begun has sent nothing; one whose handshake runs is at a
\* host of its chain, and where that is done the key has been vetted. What a check
\* hears first of its own host is the key, which ends it.
DialOK(d, r) ==
    /\ r.st = "idle" => r = Fresh
    /\ r.st \in {"waiting", "authenticating"} => r.task # "none"
    /\ r.task = "none" => r.reply = "none"
    /\ r.task = "dialling" => r.events = <<>>
    /\ r.task # "none" => ChainOf(d, r.chain) /\ r.hop \in 1 .. Len(r.chain)
    /\ r.task \in {"accepted", "done"} => <<r.chain[r.hop], r.key>> \in r.vetted
    /\ d \in Checks /\ r.st = "waiting" /\ r.hop = Len(r.chain) /\ r.task # "dialling"
          => r.events # <<>> /\ Head(r.events) = "received"

LinksOK == jump \in [Hosts -> Hosts \cup {NoPeer}] /\ gone \subseteq Hosts /\ shows \in [Hosts -> HostKeys]

SentOK ==
    \A s \in sent : /\ s \in Dials \X Hosts \X (HostKeys \cup {NoPeer}) /\ dial[s[1]].st # "idle"
                    /\ <<s[2], s[3]>> \in dial[s[1]].vetted /\ (s[1] \in Checks => s[2] # Wanted[s[1]])

DialInv ==
    /\ LinksOK /\ dial \in [Dials -> DialRecords] /\ SentOK
    /\ \A d \in Dials : DialOK(d, dial[d])

LEMMA EventsType ==
    /\ <<>> \in Events
    /\ \A q \in Events, e \in {"received", "unknown"} :
          Append(q, e) \in Events /\ Append(q, e) # <<>> /\ Head(Append(q, e)) = IF q = <<>> THEN e ELSE Head(q)
    /\ \A q \in Events : q # <<>> => Tail(q) \in Events /\ Head(q) \in {"received", "unknown"}
<1> DEFINE E == {"received", "unknown"}
<1> HIDE DEF E
<1>1. <<>> \in Seq(E)
  OBVIOUS
<1>2. ASSUME NEW q \in Seq(E), NEW e \in E
      PROVE  Append(q, e) \in Seq(E) /\ Append(q, e) # <<>> /\ Head(Append(q, e)) = IF q = <<>> THEN e ELSE Head(q)
  <2>1. Append(q, e) \in Seq(E) /\ Len(Append(q, e)) = Len(q) + 1 /\ Append(q, e)[Len(q) + 1] = e
        /\ \A i \in 1 .. Len(q) : Append(q, e)[i] = q[i]
    OBVIOUS
  <2>2. Len(q) \in Nat /\ (Len(q) = 0 <=> q = <<>>)
    OBVIOUS
  <2>3. Append(q, e) # <<>> /\ Head(Append(q, e)) = Append(q, e)[1]
    BY <2>1, <2>2
  <2>4. q # <<>> => Head(q) = q[1]
    OBVIOUS
  <2> QED
    BY <2>1, <2>2, <2>3, <2>4
<1>3. \A q \in Seq(E) : q # <<>> => Tail(q) \in Seq(E) /\ Head(q) \in E
  OBVIOUS
<1> QED
  BY <1>1, <1>2, <1>3 DEF Events, E

LEMMA FreshType ==
    Fresh \in DialRecords /\ \A d : DialOK(d, Fresh)
BY EventsType DEF Fresh, DialRecords, DialOK

LEMMA DialsInitially ==
    ASSUME DialsSound, DialInit
    PROVE  DialInv
<1>1. LinksOK
  BY DEF DialInit, DialsSound, LinksOK
<1>2. dial \in [Dials -> DialRecords] /\ SentOK /\ \A d \in Dials : DialOK(d, dial[d])
  BY FreshType DEF DialInit, SentOK
<1> QED
  BY <1>1, <1>2 DEF DialInv

\* One attempt moves on, and neither forgets what it vetted nor begins again.
LEMMA DialMoves ==
    ASSUME DialInv, LinksOK', UNCHANGED sent, NEW d \in Dials, NEW r \in DialRecords,
           dial' = [dial EXCEPT ![d] = r], DialOK(d, r), dial[d].st # "idle" => r.st # "idle",
           dial[d].vetted \subseteq r.vetted \/ dial[d].st = "idle"
    PROVE  DialInv'
<1>1. dial' \in [Dials -> DialRecords] /\ \A e \in Dials : DialOK(e, dial'[e])
  BY DEF DialInv
<1>2. SentOK'
  <2> SUFFICES ASSUME NEW s \in sent
               PROVE  /\ s \in Dials \X Hosts \X (HostKeys \cup {NoPeer}) /\ dial'[s[1]].st # "idle"
                      /\ <<s[2], s[3]>> \in dial'[s[1]].vetted /\ (s[1] \in Checks => s[2] # Wanted[s[1]])
    BY DEF SentOK
  <2>1. /\ s \in Dials \X Hosts \X (HostKeys \cup {NoPeer}) /\ dial[s[1]].st # "idle"
        /\ <<s[2], s[3]>> \in dial[s[1]].vetted /\ (s[1] \in Checks => s[2] # Wanted[s[1]])
    BY DEF DialInv, SentOK
  <2>2. s[1] \in Dials
    BY <2>1
  <2>3. CASE s[1] = d
    BY <2>1, <2>3 DEF DialInv
  <2>4. CASE s[1] # d
    BY <2>1, <2>2, <2>4 DEF DialInv
  <2> QED
    BY <2>3, <2>4
<1> QED
  BY <1>1, <1>2 DEF DialInv

\* What is dialled is the chain that the links name.
LEMMA ChainReversed ==
    ASSUME DialsSound, LinksOK, NEW d \in Dials, resolve_chain_ids(Wanted[d]) # <<>>,
           NEW c, c = Reverse(resolve_chain_ids(Wanted[d]))
    PROVE  /\ ChainOf(d, c) /\ jump[c[1]] = NoPeer /\ Range(c) \cap gone = {}
           /\ \A i \in 2 .. Len(c) : jump[c[i]] = c[i - 1]
<1> DEFINE p == resolve_chain_ids(Wanted[d])
<1>1. OnPath(Wanted[d], p) /\ Whole(p)
  BY ChainResolved DEF DialsSound, LinksOK
<1> HIDE DEF p
<1>2. p \in Seq(Hosts) /\ Len(p) \in Nat \ {0} /\ p[1] = Wanted[d]
  BY <1>1 DEF OnPath
<1>3. c = [i \in 1 .. Len(p) |-> p[(Len(p) - i) + 1]]
  BY DEF Reverse, p
<1>4. c \in Seq(Hosts) /\ Len(c) = Len(p)
  BY <1>2, <1>3
<1>5. \A i \in 1 .. Len(c) : c[i] = p[(Len(p) - i) + 1] /\ (Len(p) - i) + 1 \in 1 .. Len(p)
  BY <1>2, <1>3, <1>4
<1>6. ChainOf(d, c)
  <2>1. \A i, j \in 1 .. Len(c) : c[i] = c[j] => i = j
    <3> SUFFICES ASSUME NEW i \in 1 .. Len(c), NEW j \in 1 .. Len(c), c[i] = c[j] PROVE i = j
      OBVIOUS
    <3>1. (Len(p) - i) + 1 = (Len(p) - j) + 1
      <4>1. p[(Len(p) - i) + 1] = p[(Len(p) - j) + 1]
        BY <1>5
      <4> QED
        BY <1>1, <1>5, <4>1 DEF OnPath
    <3> QED
      BY <1>2, <1>4, <3>1
  <2>2. c[Len(c)] = Wanted[d]
    BY <1>2, <1>4, <1>5
  <2> QED
    BY <1>2, <1>4, <2>1, <2>2 DEF ChainOf
<1>7. jump[c[1]] = NoPeer
  BY <1>1, <1>2, <1>4, <1>5 DEF Whole
<1>8. \A i \in 1 .. Len(p) : p[i] \notin gone
  BY <1>1, <1>2 DEF OnPath, Whole
<1>9. Range(c) \cap gone = {}
  <2> SUFFICES ASSUME NEW h \in Range(c), h \in gone PROVE FALSE
    OBVIOUS
  <2>1. PICK i \in 1 .. Len(c) : h = c[i]
    BY <1>4 DEF Range
  <2> QED
    BY <1>5, <1>8, <2>1
<1>10. ASSUME NEW i \in 2 .. Len(c) PROVE jump[c[i]] = c[i - 1]
  <2> DEFINE k == (Len(p) - i) + 1
  <2>a. i \in 1 .. Len(c) /\ i - 1 \in 1 .. Len(c)
    BY <1>2, <1>4
  <2>b. c[i] = p[(Len(p) - i) + 1] /\ c[i - 1] = p[(Len(p) - (i - 1)) + 1]
    BY <1>5, <2>a
  <2>c. k \in 1 .. Len(p) - 1 /\ (Len(p) - (i - 1)) + 1 = k + 1
    BY <1>2, <1>4
  <2>1. k \in 1 .. Len(p) - 1 /\ c[i] = p[k] /\ c[i - 1] = p[k + 1]
    BY <2>b, <2>c
  <2> HIDE DEF k
  <2> QED
    BY <1>1, <2>1 DEF OnPath
<1> QED
  BY <1>6, <1>7, <1>9, <1>10

\* A field of an attempt changes.
LEMMA FieldTypes ==
    ASSUME NEW r \in DialRecords
    PROVE  /\ \A v \in {"waiting", "authenticating", "up", "failed", "timedOut", "stopped", "aborted"} : [r EXCEPT !.st = v] \in DialRecords
           /\ \A v \in Nat : [r EXCEPT !.hop = v] \in DialRecords
           /\ \A v \in Seq(Hosts) : [r EXCEPT !.chain = v] \in DialRecords
           /\ \A v \in {"dialling", "shown", "asking", "accepted", "done", "error"} : [r EXCEPT !.task = v] \in DialRecords
           /\ \A v \in HostKeys \cup {NoPeer} : [r EXCEPT !.key = v] \in DialRecords
           /\ \A v \in Events : [r EXCEPT !.events = v] \in DialRecords
           /\ \A v \in BOOLEAN : [r EXCEPT !.expired = v] \in DialRecords /\ [r EXCEPT !.prompted = v] \in DialRecords
           /\ \A v \in {"none", "asked", "yes", "no", "dropped"} : [r EXCEPT !.reply = v] \in DialRecords
BY DEF DialRecords

LEMMA ShakesType ==
    ASSUME NEW d, NEW r \in DialRecords, NEW hop \in Nat, ChainOf(d, r.chain), hop \in 1 .. Len(r.chain)
    PROVE  /\ Shakes(r, hop) \in DialRecords /\ DialOK(d, Shakes(r, hop))
           /\ Shakes(r, hop).st = "waiting" /\ Shakes(r, hop).vetted = r.vetted
           /\ Shakes(r, hop).chain = r.chain
<1> DEFINE r1 == [r EXCEPT !.st = "waiting"]       r2 == [r1 EXCEPT !.hop = hop]
           r3 == [r2 EXCEPT !.task = "dialling"]   r4 == [r3 EXCEPT !.key = NoPeer]
           r5 == [r4 EXCEPT !.events = <<>>]       r6 == [r5 EXCEPT !.expired = FALSE]
           r7 == [r6 EXCEPT !.prompted = FALSE]    r8 == [r7 EXCEPT !.reply = "none"]
<1>1. Shakes(r, hop) = r8
  BY DEF Shakes
<1>2. r8 \in DialRecords
  <2>1. r2 \in DialRecords
    <3>1. r1 \in DialRecords
      BY FieldTypes
    <3> HIDE DEF r1
    <3> QED
      BY <3>1, FieldTypes
  <2>2. r4 \in DialRecords
    <3>1. r3 \in DialRecords
      <4> HIDE DEF r2
      <4> QED
        BY <2>1, FieldTypes
    <3> HIDE DEF r3
    <3> QED
      BY <3>1, FieldTypes
  <2>3. r6 \in DialRecords
    <3>1. r5 \in DialRecords
      <4> HIDE DEF r4
      <4> QED
        BY <2>2, FieldTypes, EventsType
    <3> HIDE DEF r5
    <3> QED
      BY <3>1, FieldTypes
  <2>4. r7 \in DialRecords
    <3> HIDE DEF r6
    <3> QED
      BY <2>3, FieldTypes
  <2> HIDE DEF r7
  <2> QED
    BY <2>4, FieldTypes
<1>3. /\ Shakes(r, hop).st = "waiting" /\ Shakes(r, hop).vetted = r.vetted /\ Shakes(r, hop).chain = r.chain
      /\ Shakes(r, hop).hop = hop /\ Shakes(r, hop).task = "dialling" /\ Shakes(r, hop).events = <<>>
  BY DEF Shakes, DialRecords
<1> HIDE DEF r8
<1> QED
  BY <1>1, <1>2, <1>3 DEF DialOK

LEMMA ConnectStep ==
    ASSUME DialsSound, DialInv, NEW d \in Dials, ConnectChain(d)
    PROVE  DialInv'
<1>1. LinksOK' /\ UNCHANGED sent /\ dial[d].st = "idle"
  BY DEF ConnectChain, LinksOK, DialInv
<1> DEFINE ids == resolve_chain_ids(Wanted[d])
<1>2. CASE ids = <<>>
  <2> DEFINE r == [Fresh EXCEPT !.st = "failed"]
  <2>1. r \in DialRecords
    BY FreshType, FieldTypes
  <2>2. DialOK(d, r)
    BY DEF Fresh, DialOK
  <2>3. dial' = [dial EXCEPT ![d] = r]
    BY <1>2 DEF ConnectChain
  <2> HIDE DEF r
  <2> QED
    BY <1>1, <2>1, <2>2, <2>3, DialMoves
<1>3. CASE ids # <<>>
  <2> DEFINE f == [Fresh EXCEPT !.chain = Reverse(ids)]  r == Shakes(f, 1)
  <2>1. ChainOf(d, Reverse(ids))
    BY <1>3, ChainReversed DEF DialInv
  <2>2. f \in DialRecords
    BY <2>1, FreshType, FieldTypes DEF ChainOf
  <2>3. f.chain = Reverse(ids)
    BY DEF Fresh
  <2>4. 1 \in 1 .. Len(f.chain)
    BY <2>1, <2>3 DEF ChainOf
  <2>5. dial' = [dial EXCEPT ![d] = r]
    BY <1>3 DEF ConnectChain
  <2> HIDE DEF f
  <2>6. r \in DialRecords /\ DialOK(d, r) /\ r.st = "waiting"
    BY <2>1, <2>2, <2>3, <2>4, ShakesType
  <2> HIDE DEF r
  <2> QED
    BY <1>1, <2>5, <2>6, DialMoves
<1> QED
  BY <1>2, <1>3

\* The rest of the state in a step of an attempt.
LEMMA StepMoves ==
    ASSUME DialInv, NEW d \in Dials, NEW r, MovesTo(d, r), r \in DialRecords, DialOK(d, r),
           r.st # "idle", dial[d].vetted \subseteq r.vetted
    PROVE  DialInv'
BY DialMoves DEF MovesTo, LinksOK, DialInv

LEMMA TaskStep ==
    ASSUME DialsSound, DialInv, NEW d \in Dials, Task(d)
    PROVE  DialInv'
<1> DEFINE a == dial[d]
<1>1. a \in DialRecords /\ DialOK(d, a)
  BY DEF DialInv
<1>2. a.task # "none" /\ a.st # "idle"
  BY <1>1, FreshType DEF Task, ShowsKey, Validate, KeyAnswered, Completes, DialOK, Fresh
<1>3. ChainOf(d, a.chain) /\ a.hop \in 1 .. Len(a.chain) /\ Host(d) = a.chain[a.hop] /\ Host(d) \in Hosts
  BY <1>1, <1>2 DEF DialOK, ChainOf, Host
<1>4. CASE ShowsKey(d)
  <2> DEFINE e == [a EXCEPT !.task = "shown"]
             k == [e EXCEPT !.key = shows[Host(d)]]
             r == [k EXCEPT !.events = Append(@, "received")]
  <2>1. a.task = "dialling" /\ a.st = "waiting" /\ shows[Host(d)] \in HostKeys
    BY <1>3, <1>4 DEF ShowsKey, DialInv, LinksOK
  <2>2. MovesTo(d, r)
    BY <1>4 DEF ShowsKey
  <2>3. e \in DialRecords
    BY <1>1, FieldTypes
  <2>4. k \in DialRecords
    <3> HIDE DEF e
    <3> QED
      BY <2>1, <2>3, FieldTypes
  <2>5. k.events = a.events /\ k.events \in Events
    BY <1>1 DEF DialRecords
  <2>6. r \in DialRecords
    <3> HIDE DEF k
    <3> QED
      BY <2>4, <2>5, FieldTypes, EventsType
  <2>7. r.st = a.st /\ r.chain = a.chain /\ r.hop = a.hop /\ r.task = "shown" /\ r.vetted = a.vetted
        /\ r.events = Append(a.events, "received")
    BY <1>1 DEF DialRecords
  <2>8. r.events # <<>> /\ Head(r.events) = "received"
    BY <1>1, <2>1, <2>7, EventsType DEF DialOK
  <2> HIDE DEF r, a
  <2>9. DialOK(d, r)
    BY <1>2, <1>3, <2>7, <2>8 DEF DialOK
  <2> QED
    BY <1>2, <2>2, <2>6, <2>7, <2>9, StepMoves DEF a
\* The task says no more, and has vetted the key if it accepts it.
<1>5. ASSUME NEW r, MovesTo(d, r), r = Vets(d), a.task # "dialling" PROVE DialInv'
  <2>1. r \in DialRecords
    <3>1. [a EXCEPT !.task = "accepted"] \in DialRecords /\ <<Host(d), a.key>> \in Hosts \X (HostKeys \cup {NoPeer})
      <4>1. a.key \in HostKeys \cup {NoPeer}
        BY <1>1 DEF DialRecords
      <4> QED
        BY <1>1, <1>3, <4>1, FieldTypes
    <3>2. r = [[a EXCEPT !.task = "accepted"] EXCEPT !.vetted = @ \cup {<<Host(d), a.key>>}]
      BY <1>5 DEF Vets
    <3>3. \A s \in DialRecords, x \in Hosts \X (HostKeys \cup {NoPeer}) : [s EXCEPT !.vetted = @ \cup {x}] \in DialRecords
      BY DEF DialRecords
    <3> HIDE DEF a
    <3> QED
      BY <3>1, <3>2, <3>3
  <2>2. /\ r.st = a.st /\ r.chain = a.chain /\ r.hop = a.hop /\ r.task = "accepted" /\ r.events = a.events /\ r.key = a.key
        /\ r.vetted = a.vetted \cup {<<Host(d), a.key>>}
    BY <1>1, <1>5 DEF Vets, DialRecords
  <2> HIDE DEF a
  <2>3. DialOK(d, r)
    BY <1>1, <1>2, <1>3, <1>5, <2>2 DEF DialOK
  <2> QED
    BY <1>2, <1>5, <2>1, <2>2, <2>3, StepMoves DEF a
<1>6. ASSUME NEW r, MovesTo(d, r), r = [a EXCEPT !.task = "error"], a.task # "dialling" PROVE DialInv'
  <2>1. r \in DialRecords
    BY <1>1, <1>6, FieldTypes
  <2>2. r.st = a.st /\ r.chain = a.chain /\ r.hop = a.hop /\ r.task = "error" /\ r.events = a.events /\ r.vetted = a.vetted
    BY <1>1, <1>6 DEF DialRecords
  <2> HIDE DEF a
  <2>3. DialOK(d, r)
    BY <1>1, <1>2, <1>3, <1>6, <2>2 DEF DialOK
  <2> QED
    BY <1>2, <1>6, <2>1, <2>2, <2>3, StepMoves DEF a
<1>7. ASSUME NEW r, MovesTo(d, r), r = [a EXCEPT !.task = "asking", !.events = Append(@, "unknown")], a.task = "shown"
      PROVE  DialInv'
  <2>1. r.st = a.st /\ r.chain = a.chain /\ r.hop = a.hop /\ r.task = "asking" /\ r.vetted = a.vetted
        /\ r.events = Append(a.events, "unknown")
    BY <1>1, <1>7 DEF DialRecords
  <2>2. a.events \in Events
    BY <1>1 DEF DialRecords
  <2>3. r \in DialRecords
    <3>1. [a EXCEPT !.task = "asking"] \in DialRecords /\ Append(a.events, "unknown") \in Events
      BY <1>1, <2>2, FieldTypes, EventsType
    <3>2. r = [[a EXCEPT !.task = "asking"] EXCEPT !.events = Append(a.events, "unknown")]
      BY <1>1, <1>7 DEF DialRecords
    <3> QED
      BY <3>1, <3>2, FieldTypes
  <2> HIDE DEF a
  <2>4. DialOK(d, r)
    BY <1>1, <1>2, <1>3, <1>7, <2>1, <2>2, EventsType DEF DialOK
  <2> QED
    BY <1>2, <1>7, <2>1, <2>3, <2>4, StepMoves DEF a
<1>8. CASE Validate(d)
  BY <1>5, <1>6, <1>7, <1>8 DEF Validate
<1>9. CASE KeyAnswered(d)
  BY <1>5, <1>6, <1>9 DEF KeyAnswered
<1>10. ASSUME NEW r, MovesTo(d, r), r = [a EXCEPT !.task = "done"], a.task = "accepted" PROVE DialInv'
  <2>1. r \in DialRecords
    BY <1>1, <1>10, FieldTypes
  <2>2. /\ r.st = a.st /\ r.chain = a.chain /\ r.hop = a.hop /\ r.task = "done" /\ r.events = a.events
        /\ r.key = a.key /\ r.vetted = a.vetted
    BY <1>1, <1>10 DEF DialRecords
  <2> HIDE DEF a
  <2>3. DialOK(d, r)
    BY <1>1, <1>2, <1>3, <1>10, <2>2 DEF DialOK
  <2> QED
    BY <1>2, <1>10, <2>1, <2>2, <2>3, StepMoves DEF a
<1>11. CASE Completes(d)
  BY <1>6, <1>10, <1>11 DEF Completes
<1> QED
  BY <1>4, <1>8, <1>9, <1>11 DEF Task

\* Steps of the waiting side and of the session that leave the chain, the task and the
\* key alone.
LEMMA WaitingMoves ==
    ASSUME DialInv, NEW d \in Dials, NEW r \in DialRecords, MovesTo(d, r), r.st = "waiting" => dial[d].st = "waiting",
           dial[d].task # "none", dial[d].st # "idle", r.st # "idle",
           r.chain = dial[d].chain, r.hop = dial[d].hop, r.task = dial[d].task, r.key = dial[d].key, r.vetted = dial[d].vetted,
           \/ r.events = dial[d].events
           \/ dial[d].events # <<>> /\ r.events = Tail(dial[d].events)
              /\ (r.st = "waiting" => ~(d \in Checks /\ Final(d)) \/ Head(dial[d].events) # "received")
    PROVE  DialInv'
<1> DEFINE a == dial[d]
<1>1. DialOK(d, a) /\ Final(d) = (a.hop = Len(a.chain))
  BY DEF DialInv, Final
<1>2. r.task = "dialling" => r.events = <<>>
  BY <1>1 DEF DialOK
<1>3. d \in Checks /\ r.st = "waiting" /\ r.hop = Len(r.chain) /\ r.task # "dialling"
          => r.events # <<>> /\ Head(r.events) = "received"
  BY <1>1 DEF DialOK
<1>4. DialOK(d, r)
  BY <1>1, <1>2, <1>3 DEF DialOK
<1> QED
  BY <1>4, StepMoves

\* An attempt ends, or goes on to authenticate.
LEMMA StateMoves ==
    ASSUME DialInv, NEW d \in Dials, NEW v \in {"up", "failed", "timedOut", "stopped", "aborted"},
           dial[d].st \in {"waiting", "authenticating"}, MovesTo(d, [dial[d] EXCEPT !.st = v])
    PROVE  DialInv'
<1> DEFINE a == dial[d]  r == [a EXCEPT !.st = v]
<1>1. a \in DialRecords /\ DialOK(d, a)
  BY DEF DialInv
<1>2. a.task # "none"
  BY <1>1 DEF DialOK
<1>3. r \in DialRecords
  BY <1>1, FieldTypes
<1>4. /\ r.st = v /\ r.chain = a.chain /\ r.hop = a.hop /\ r.task = a.task /\ r.key = a.key
      /\ r.vetted = a.vetted /\ r.events = a.events
  BY <1>1 DEF DialRecords
<1> HIDE DEF r
<1> QED
  BY <1>2, <1>3, <1>4, WaitingMoves DEF r

LEMMA WaitStep ==
    ASSUME DialsSound, DialInv, NEW d \in Dials,
           \/ TimesOut(d) \/ TakesEvent(d) \/ Refused(d) \/ Abort(d) \/ Expire(d)
           \/ \E x \in {"yes", "no", "dropped"} : Answers(d, x)
    PROVE  DialInv'
<1> DEFINE a == dial[d]
<1>1. a \in DialRecords /\ DialOK(d, a)
  BY DEF DialInv
<1>2. a.st # "idle" /\ a.task # "none"
  <2>1. a.st \in {"waiting", "authenticating"} \/ a.reply = "asked"
    BY DEF TimesOut, TakesEvent, Refused, Ready, Abort, Expire, Answers
  <2> QED
    BY <1>1, <2>1 DEF DialOK, Fresh
<1>4. CASE TimesOut(d) \/ Refused(d) \/ Abort(d)
  BY <1>4, StateMoves DEF TimesOut, Refused, Abort, Ready
<1>5. CASE Expire(d)
  <2> DEFINE r == [a EXCEPT !.expired = TRUE]
  <2>1. r \in DialRecords /\ MovesTo(d, r)
    BY <1>1, <1>5, FieldTypes DEF Expire
  <2>2. /\ r.st = a.st /\ r.chain = a.chain /\ r.hop = a.hop /\ r.task = a.task /\ r.key = a.key
        /\ r.vetted = a.vetted /\ r.events = a.events
    BY <1>1 DEF DialRecords
  <2> HIDE DEF r
  <2> QED
    BY <1>2, <2>1, <2>2, WaitingMoves
<1>6. ASSUME NEW x \in {"yes", "no", "dropped"}, Answers(d, x) PROVE DialInv'
  <2> DEFINE r == [a EXCEPT !.reply = x]
  <2>1. r \in DialRecords /\ MovesTo(d, r)
    BY <1>1, <1>6, FieldTypes DEF Answers
  <2>2. /\ r.st = a.st /\ r.chain = a.chain /\ r.hop = a.hop /\ r.task = a.task /\ r.key = a.key
        /\ r.vetted = a.vetted /\ r.events = a.events
    BY <1>1 DEF DialRecords
  <2> HIDE DEF r
  <2> QED
    BY <1>2, <2>1, <2>2, WaitingMoves
<1>7. CASE TakesEvent(d)
  <2>1. a.st = "waiting" /\ a.events # <<>> /\ a.events \in Events
    BY <1>1, <1>7 DEF TakesEvent, DialRecords
  <2> DEFINE e == [a EXCEPT !.events = Tail(@)]
  <2>2. e \in DialRecords
    BY <1>1, <2>1, FieldTypes, EventsType
  <2>3. /\ e.st = a.st /\ e.chain = a.chain /\ e.hop = a.hop /\ e.task = a.task /\ e.key = a.key
        /\ e.vetted = a.vetted /\ e.events = Tail(a.events)
    BY <1>1 DEF DialRecords
  <2>4. PICK r : /\ MovesTo(d, r)
                 /\ \/ Head(a.events) = "received" /\ d \in Checks /\ Final(d) /\ r = [e EXCEPT !.st = "stopped", !.reply = "dropped"]
                    \/ Head(a.events) = "received" /\ ~(d \in Checks /\ Final(d)) /\ r = e
                    \/ Head(a.events) # "received" /\ r = [e EXCEPT !.prompted = TRUE, !.reply = IF d \in Checks THEN "no" ELSE "asked"]
    BY <1>7 DEF TakesEvent
  <2> HIDE DEF e
  <2>5. CASE Head(a.events) = "received" /\ d \in Checks /\ Final(d) /\ r = [e EXCEPT !.st = "stopped", !.reply = "dropped"]
    <3>1. r = [[e EXCEPT !.st = "stopped"] EXCEPT !.reply = "dropped"]
      BY <2>2, <2>5 DEF DialRecords
    <3>2. r \in DialRecords
      BY <2>2, <3>1, FieldTypes
    <3>3. /\ r.st = "stopped" /\ r.chain = a.chain /\ r.hop = a.hop /\ r.task = a.task /\ r.key = a.key
          /\ r.vetted = a.vetted /\ r.events = Tail(a.events)
      BY <2>2, <2>3, <2>5 DEF DialRecords
    <3> QED
      BY <1>2, <2>1, <2>4, <3>2, <3>3, WaitingMoves
  <2>6. CASE Head(a.events) = "received" /\ ~(d \in Checks /\ Final(d)) /\ r = e
    BY <1>2, <2>1, <2>2, <2>3, <2>4, <2>6, WaitingMoves
  <2>7. CASE Head(a.events) # "received" /\ r = [e EXCEPT !.prompted = TRUE, !.reply = IF d \in Checks THEN "no" ELSE "asked"]
    <3> DEFINE x == IF d \in Checks THEN "no" ELSE "asked"
    <3>1. r = [[e EXCEPT !.prompted = TRUE] EXCEPT !.reply = x] /\ x \in {"no", "asked"}
      BY <2>2, <2>7 DEF DialRecords
    <3> HIDE DEF x
    <3>2. r \in DialRecords
      BY <2>2, <3>1, FieldTypes
    <3>3. /\ r.st = a.st /\ r.chain = a.chain /\ r.hop = a.hop /\ r.task = a.task /\ r.key = a.key
          /\ r.vetted = a.vetted /\ r.events = Tail(a.events)
      BY <2>2, <2>3, <2>7 DEF DialRecords
    <3> QED
      BY <1>2, <2>1, <2>4, <2>7, <3>2, <3>3, WaitingMoves
  <2> QED
    BY <2>4, <2>5, <2>6, <2>7
<1> QED
  BY <1>4, <1>5, <1>6, <1>7

LEMMA AuthenticatesStep ==
    ASSUME DialsSound, DialInv, NEW d \in Dials, Authenticates(d)
    PROVE  DialInv'
<1> DEFINE a == dial[d]  s == <<d, Host(d), a.key>>
<1>1. a \in DialRecords /\ DialOK(d, a) /\ a.st = "waiting" /\ a.events = <<>> /\ a.task = "done"
  BY DEF DialInv, Authenticates, Ready
<1>2. LinksOK' /\ dial \in [Dials -> DialRecords]
  BY DEF Authenticates, LinksOK, DialInv
<1>3. ChainOf(d, a.chain) /\ a.hop \in 1 .. Len(a.chain) /\ Host(d) = a.chain[a.hop] /\ Host(d) \in Hosts
  <2>1. a.task # "none"
    BY <1>1
  <2>2. ChainOf(d, a.chain) /\ a.hop \in 1 .. Len(a.chain)
    BY <1>1, <2>1 DEF DialOK
  <2>3. Host(d) = a.chain[a.hop]
    BY DEF Host
  <2> HIDE DEF a
  <2> QED
    BY <2>2, <2>3 DEF ChainOf
\* A check sends nothing to the host it is about.
<1>4. ~(d \in Checks /\ Final(d))
  BY <1>1 DEF DialOK, Final
<1>5. <<Host(d), a.key>> \in a.vetted /\ (d \in Checks => Host(d) # Wanted[d])
  BY <1>1, <1>3, <1>4 DEF DialOK, ChainOf, Final
<1>6. PICK r \in DialRecords : /\ dial' = [dial EXCEPT ![d] = r] /\ DialOK(d, r) /\ r.st # "idle" /\ r.vetted = a.vetted
                               /\ sent' \in {sent, sent \cup {s}}
  <2>1. ASSUME NEW v \in {"failed", "authenticating"}
        PROVE  /\ [a EXCEPT !.st = v] \in DialRecords /\ DialOK(d, [a EXCEPT !.st = v])
               /\ [a EXCEPT !.st = v].st # "idle" /\ [a EXCEPT !.st = v].vetted = a.vetted
    <3> DEFINE r == [a EXCEPT !.st = v]
    <3>1. r \in DialRecords
      BY <1>1, FieldTypes
    <3>2. /\ r.st = v /\ r.chain = a.chain /\ r.hop = a.hop /\ r.task = a.task /\ r.key = a.key
          /\ r.vetted = a.vetted /\ r.events = a.events /\ r.reply = a.reply
      BY <1>1 DEF DialRecords
    <3> HIDE DEF r
    <3>3. DialOK(d, r)
      BY <1>1, <3>2 DEF DialOK
    <3> QED
      BY <3>1, <3>2, <3>3 DEF r
  <2>2. CASE dial' = [dial EXCEPT ![d] = [a EXCEPT !.st = "failed"]] /\ sent' \in {sent, sent \cup {s}}
    <3> DEFINE r == [a EXCEPT !.st = "failed"]
    <3>1. r \in DialRecords /\ DialOK(d, r) /\ r.st # "idle" /\ r.vetted = a.vetted
      BY <2>1
    <3> HIDE DEF r
    <3> QED
      BY <2>2, <3>1 DEF r
  <2>3. CASE dial' = [dial EXCEPT ![d] = [a EXCEPT !.st = "authenticating"]] /\ sent' \in {sent, sent \cup {s}}
    <3> DEFINE r == [a EXCEPT !.st = "authenticating"]
    <3>1. r \in DialRecords /\ DialOK(d, r) /\ r.st # "idle" /\ r.vetted = a.vetted
      BY <2>1
    <3> HIDE DEF r
    <3> QED
      BY <2>3, <3>1 DEF r
  <2> QED
    BY <1>2, <2>2, <2>3 DEF Authenticates
<1>7. dial' \in [Dials -> DialRecords] /\ \A e \in Dials : DialOK(e, dial'[e])
  BY <1>2, <1>6 DEF DialInv
<1>8. ASSUME NEW q \in sent'
      PROVE  /\ q \in Dials \X Hosts \X (HostKeys \cup {NoPeer}) /\ dial'[q[1]].st # "idle"
             /\ <<q[2], q[3]>> \in dial'[q[1]].vetted /\ (q[1] \in Checks => q[2] # Wanted[q[1]])
  <2>1. CASE q \in sent
    <3>1. /\ q \in Dials \X Hosts \X (HostKeys \cup {NoPeer}) /\ dial[q[1]].st # "idle"
          /\ <<q[2], q[3]>> \in dial[q[1]].vetted /\ (q[1] \in Checks => q[2] # Wanted[q[1]])
      BY <2>1 DEF DialInv, SentOK
    <3>2. q[1] \in Dials
      BY <3>1
    <3>3. dial'[q[1]].st # "idle" /\ dial'[q[1]].vetted = dial[q[1]].vetted
      BY <1>2, <1>6, <3>1, <3>2
    <3> QED
      BY <3>1, <3>3
  <2>2. CASE q = s
    <3>1. a.key \in HostKeys \cup {NoPeer}
      BY <1>1 DEF DialRecords
    <3>2. dial'[d].st # "idle" /\ dial'[d].vetted = a.vetted
      BY <1>2, <1>6
    <3> QED
      BY <1>3, <1>5, <2>2, <3>1, <3>2
  <2> QED
    BY <1>6, <2>1, <2>2
<1> QED
  BY <1>2, <1>7, <1>8 DEF DialInv, SentOK

LEMMA AuthenticatedStep ==
    ASSUME DialsSound, DialInv, NEW d \in Dials, Authenticated(d)
    PROVE  DialInv'
<1> DEFINE a == dial[d]
<1>1. a \in DialRecords /\ DialOK(d, a) /\ a.st = "authenticating"
  BY DEF DialInv, Authenticated
<1>2. ChainOf(d, a.chain) /\ a.hop \in 1 .. Len(a.chain)
  BY <1>1 DEF DialOK
<1>3. \/ \E v \in {"up", "failed", "stopped"} : MovesTo(d, [a EXCEPT !.st = v])
      \/ ~Final(d) /\ MovesTo(d, Shakes(a, a.hop + 1))
  BY DEF Authenticated
<1>4. CASE \E v \in {"up", "failed", "stopped"} : MovesTo(d, [a EXCEPT !.st = v])
  BY <1>1, <1>4, StateMoves
<1>5. CASE ~Final(d) /\ MovesTo(d, Shakes(a, a.hop + 1))
  <2>1. a.hop + 1 \in Nat /\ a.hop + 1 \in 1 .. Len(a.chain)
    BY <1>2, <1>5 DEF Final, ChainOf
  <2> DEFINE r == Shakes(a, a.hop + 1)
  <2>2. r \in DialRecords /\ DialOK(d, r) /\ r.st # "idle" /\ r.vetted = a.vetted
    BY <1>1, <1>2, <2>1, ShakesType
  <2> HIDE DEF r
  <2> QED
    BY <1>5, <2>2, StepMoves DEF r
<1> QED
  BY <1>3, <1>4, <1>5

LEMMA DialsAlways ==
    ASSUME DialsSound
    PROVE  DialSpec => []DialInv
<1>1. DialInit => DialInv
  BY DialsInitially
<1>2. DialInv /\ [DialNext]_dialVars => DialInv'
  <2> SUFFICES ASSUME DialInv, [DialNext]_dialVars PROVE DialInv'
    OBVIOUS
  <2>1. ASSUME NEW d \in Dials, ConnectChain(d) PROVE DialInv'
    BY <2>1, ConnectStep
  <2>2. ASSUME NEW d \in Dials, Task(d) PROVE DialInv'
    BY <2>2, TaskStep
  <2>3. ASSUME NEW d \in Dials, Wait(d) \/ Authenticated(d) \/ Abort(d) \/ Expire(d) PROVE DialInv'
    BY <2>3, WaitStep, AuthenticatesStep, AuthenticatedStep DEF Wait
  <2>4. ASSUME NEW d \in Dials, NEW x \in {"yes", "no", "dropped"}, Answers(d, x) PROVE DialInv'
    BY <2>4, WaitStep
  <2>5. CASE Edit \/ UNCHANGED dialVars
    <3>1. UNCHANGED <<dial, sent>>
      BY <2>5 DEF Edit, dialVars
    <3>2. LinksOK'
      BY <2>5 DEF Edit, dialVars, LinksOK, DialInv, DialsSound
    <3> QED
      BY <3>1, <3>2 DEF DialInv, SentOK
  <2> QED
    BY <2>1, <2>2, <2>3, <2>4, <2>5 DEF DialNext
<1> QED
  BY <1>1, <1>2, PTL DEF DialSpec

LEMMA ChainsFollowed ==
    ASSUME DialsSound, DialInv, DialNext
    PROVE  WholeChains
<1> SUFFICES ASSUME NEW d \in Dials, dial[d].st = "idle", dial'[d].chain # <<>>
             PROVE  LET c == dial'[d].chain
                    IN /\ c[Len(c)] = Wanted[d] /\ jump[c[1]] = NoPeer /\ Range(c) \cap gone = {}
                       /\ \A i \in 2 .. Len(c) : jump[c[i]] = c[i - 1]
  BY DEF WholeChains
<1>1. dial[d] = Fresh /\ dial \in [Dials -> DialRecords] /\ dial[d].chain = <<>>
  <2>1. dial[d] = Fresh /\ dial \in [Dials -> DialRecords]
    BY DEF DialInv, DialOK
  <2>2. Fresh.chain = <<>>
    BY DEF Fresh
  <2> QED
    BY <2>1, <2>2
<1>2. CASE ConnectChain(d)
  <2> DEFINE ids == resolve_chain_ids(Wanted[d])  c == Reverse(ids)  f == [Fresh EXCEPT !.chain = c]
  <2>1. ids # <<>> /\ dial'[d] = Shakes(f, 1)
    <3>1. [Fresh EXCEPT !.st = "failed"].chain = <<>>
      BY DEF Fresh
    <3> QED
      BY <1>1, <1>2, <3>1 DEF ConnectChain
  <2>2. /\ ChainOf(d, c) /\ jump[c[1]] = NoPeer /\ Range(c) \cap gone = {}
        /\ \A i \in 2 .. Len(c) : jump[c[i]] = c[i - 1]
    BY <2>1, ChainReversed DEF DialInv
  <2>3. dial'[d].chain = c
    <3>1. f.chain = c
      BY DEF Fresh
    <3>2. Shakes(f, 1).chain = f.chain
      BY DEF Shakes, Fresh
    <3> QED
      BY <2>1, <3>1, <3>2
  <2> QED
    BY <2>2, <2>3 DEF ChainOf
<1>3. CASE ~ConnectChain(d)
  <2>1. dial'[d] = dial[d]
    <3>1. ASSUME NEW e \in Dials, e # d, ConnectChain(e) \/ Task(e) \/ Wait(e) \/ Authenticated(e) \/ Abort(e) \/ Expire(e)
          PROVE  dial'[d] = dial[d]
      BY <1>1, <3>1 DEF ConnectChain, Task, ShowsKey, Validate, KeyAnswered, Completes, Wait, TimesOut, TakesEvent,
                        Refused, Authenticates, Authenticated, Abort, Expire, MovesTo
    <3>2. ~(Task(d) \/ Wait(d) \/ Authenticated(d) \/ Abort(d) \/ Expire(d))
      BY <1>1 DEF Task, ShowsKey, Validate, KeyAnswered, Completes, Wait, TimesOut, TakesEvent, Refused, Authenticates,
                  Authenticated, Ready, Abort, Expire, Fresh
    <3>3. ASSUME NEW e \in Dials, NEW x, Answers(e, x) PROVE dial'[d] = dial[d]
      BY <1>1, <3>3 DEF Answers, MovesTo, Fresh
    <3> QED
      BY <1>1, <1>3, <3>1, <3>2, <3>3 DEF DialNext, Edit
  <2> QED
    BY <1>1, <2>1
<1> QED
  BY <1>2, <1>3

\* For every set of hosts, keys, links and attempts: credentials go only to a host
\* whose key this attempt has vetted, a check of a host key sends its host nothing, and
\* what is dialled is the whole chain that the jump hosts name, without a cycle or a
\* deleted host, or nothing (check_server_key, wait_for_connection, resolve_chain_ids).
THEOREM OnlyVettedPeers == ASSUME DialsSound PROVE DialSpec => PeersVetted
<1>1. DialInv => VettedFirst /\ CheckStops
  BY DEF DialInv, SentOK, VettedFirst, CheckStops
<1>2. DialInv /\ [DialNext]_dialVars => [WholeChains]_dialVars
  BY ChainsFollowed
<1> QED
  BY <1>1, <1>2, DialsAlways, PTL DEF DialSpec, PeersVetted

=============================================================================
