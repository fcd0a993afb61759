------------------------------- MODULE AuthState -------------------------------
(***************************************************************************)
(* One login attempt (warpgate-common/src/auth/state.rs) and the policy    *)
(* that says which credentials are enough (auth/policy.rs).  An attempt is *)
(* a record; the operators below are its methods and return the attempt    *)
(* they leave behind.  They are used by every module in which a login is   *)
(* in progress.                                                            *)
(***************************************************************************)
EXTENDS Sequences, FiniteSets

CONSTANTS
    Policy          \* of the user on this protocol: [inner, kinds, factor]

Kinds == {"Password", "PublicKey", "Totp", "WebUserApproval"}

Web == "WebUserApproval"

Accepted == [verdict |-> "accepted", kinds |-> {}]
Rejected == [verdict |-> "rejected", kinds |-> {}]
Need(kinds) == [verdict |-> "need", kinds |-> kinds]

\* AnySingleCredentialPolicy: a one-time password alone is never enough.
AnySingle(valid) ==
    IF \E k \in valid : k # "Totp" THEN Accepted ELSE Need(Policy.kinds \ valid)

\* AllCredentialsPolicy
AllCredentials(valid) ==
    IF valid # {} /\ Policy.kinds \subseteq valid
    THEN Accepted
    ELSE Need(Policy.kinds \ valid)

Inner(valid) ==
    IF Policy.inner = "any" THEN AnySingle(valid) ELSE AllCredentials(valid)

\* MfaEnforcementPolicy: the factors required on top of the user's own policy
\* (at most one for a protocol).
IsSufficient(valid) ==
    IF Policy.factor \subseteq valid
    THEN Inner(valid)
    ELSE Need(Inner(valid).kinds \cup Policy.factor)

----------------------------------------------------------------------------
HasRealWebApproval(s) == ~s.bypassed /\ Web \in s.valid

\* current_verification_state
Verify(s) ==
    CASE s.rejected -> Rejected
      [] ~s.rejected /\ s.stepUp /\ ~HasRealWebApproval(s) -> Need({Web})
      [] OTHER -> IsSufficient(s.valid)

NeedsWebApproval(s) == Verify(s).verdict = "need" /\ Web \in Verify(s).kinds

\* A slip: the last result is sent again.
Update_Always(s) == [s EXCEPT !.sent = Append(@, Verify(s))]

\* maybe_update_verification_state: a result that differs from the last one is
\* sent to whoever subscribed.
Update(s) ==
    IF s.sent # <<>> /\ s.sent[Len(s.sent)] = Verify(s)
    THEN s
    ELSE [s EXCEPT !.sent = Append(@, Verify(s))]

NewAttempt(user, target) ==
    Update([user |-> user, target |-> target, valid |-> {}, bypassed |-> FALSE,
            stepUp |-> FALSE, rejected |-> FALSE, sent |-> <<>>])

SubmitCredential(s, kind) == Update([s EXCEPT !.valid = @ \cup {kind}])

AddWebUserApproval(s) ==
    Update([s EXCEPT !.stepUp = FALSE, !.bypassed = FALSE, !.valid = @ \cup {Web}])

\* A slip: the approval is not marked as a remembered one.
AddWebUserApprovalViaGraceBypass_Unmarked(s) ==
    Update([s EXCEPT !.valid = @ \cup {Web}])

AddWebUserApprovalViaGraceBypass(s) ==
    Update([s EXCEPT !.bypassed = TRUE, !.valid = @ \cup {Web}])

RequireStepUp(s) == IF s.stepUp THEN s ELSE Update([s EXCEPT !.stepUp = TRUE])

Reject(s) == Update([s EXCEPT !.rejected = TRUE])

\* What an approval of this attempt is remembered by: the user and the stored
\* credentials presented so far.
MatchDigest(s) == [user |-> s.user, credentials |-> s.valid \ {Web}]
================================================================================
