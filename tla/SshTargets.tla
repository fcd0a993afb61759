------------------------------- MODULE SshTargets -------------------------------
(***************************************************************************)
(* How an SSH target is reached (warpgate-protocol-ssh/src: client/mod.rs, *)
(* client/handler.rs, client/certificate.rs, known_hosts.rs): the chain of *)
(* jump hosts, one handshake after another, each tunnelled through the one *)
(* before; the key each host shows, checked against the known hosts or put *)
(* to a person; the credentials that are sent once it is accepted.  The    *)
(* handshake runs in a task of its own and tells the waiting side by       *)
(* events.  Several sessions and administrator's checks share the known    *)
(* hosts, which administrators edit meanwhile.                             *)
(***************************************************************************)
EXTENDS Naturals, Sequences, SequencesExt, FiniteSets

CONSTANTS
    Hosts,          \* SSH targets, each its own host and port
    HostKeys,       \* keys a host may show
    JumpHosts,      \* the jump hosts the targets may be given: a set of [Hosts -> Hosts \cup {NoPeer}]
    Dials,          \* connection attempts
    Checks,         \* the attempts that are checks of a host key
    Wanted,         \* the target each attempt is for
    HasDeadline,    \* target_handshake_timeout is not 0
    Edits,          \* bound on the changes administrators and hosts make
    NoPeer          \* no host, no key

VARIABLES
    jump,       \* jump_host of each target
    gone,       \* targets deleted, or made something other than SSH targets
    shows,      \* the key each host shows
    knownHosts, \* KnownHost rows
    mode,       \* verification is off, or not
    dial,       \* the attempts
    edits,      \* changes so far
    sent        \* <<attempt, host, key>> credentials were sent on (history)

dialVars == <<jump, gone, shows, knownHosts, mode, dial, edits, sent>>

Fresh == [st |-> "idle", chain |-> <<>>, hop |-> 0, task |-> "none", key |-> NoPeer,
          events |-> <<>>, expired |-> FALSE, prompted |-> FALSE, reply |-> "none", vetted |-> {}]

DialTypeOK ==
    /\ jump \in [Hosts -> Hosts \cup {NoPeer}] /\ gone \subseteq Hosts /\ shows \in [Hosts -> HostKeys]
    /\ knownHosts \subseteq Hosts \X HostKeys /\ mode \in {"Verify", "Ignore"}
    /\ \A d \in Dials :
          /\ dial[d].st \in {"idle", "waiting", "authenticating", "up", "failed", "timedOut", "stopped", "aborted"}
          /\ dial[d].hop \in 0..Len(dial[d].chain)

DialInit ==
    /\ jump \in JumpHosts /\ gone = {} /\ knownHosts = {} /\ mode = "Verify"
    /\ shows = [h \in Hosts |-> CHOOSE k \in HostKeys : TRUE]
    /\ dial = [d \in Dials |-> Fresh] /\ edits = 0 /\ sent = {}

-----------------------------------------------------------------------------
(* The chain.                                                              *)

\* Mutant: a jump host that is no more is skipped.
resolve_chain_ids_Short(start) ==
    LET walk[n \in 0..Cardinality(Hosts)] ==
            IF n = 0 THEN <<start>>
            ELSE LET p == walk[n - 1] IN
                 IF jump[Last(p)] \in {NoPeer} \cup gone THEN p ELSE Append(p, jump[Last(p)])
    IN LET path == walk[Cardinality(Hosts)] IN
       IF IsInjective(path) THEN path ELSE <<>>

\* Follows the links from start; a target that repeats or is no more fails (<<>>).
resolve_chain_ids(start) ==
    LET walk[n \in 0..Cardinality(Hosts)] ==
            IF n = 0 THEN <<start>>
            ELSE LET p == walk[n - 1] IN
                 IF p = <<>> \/ Last(p) \in gone THEN <<>>
                 ELSE IF jump[Last(p)] = NoPeer THEN p
                 ELSE IF jump[Last(p)] \in Range(p) THEN <<>>
                 ELSE Append(p, jump[Last(p)])
    IN walk[Cardinality(Hosts)]

Shakes(r, hop) == [r EXCEPT !.st = "waiting", !.hop = hop, !.task = "dialling", !.key = NoPeer,
                   !.events = <<>>, !.expired = FALSE, !.prompted = FALSE, !.reply = "none"]

\* resolve_ssh_chain, and the first hop of connect_chain
ConnectChain(d) ==
    /\ dial[d].st = "idle"
    /\ LET ids == resolve_chain_ids(Wanted[d]) IN
       dial' = [dial EXCEPT ![d] =
                  IF ids = <<>> THEN [Fresh EXCEPT !.st = "failed"]
                  ELSE Shakes([Fresh EXCEPT !.chain = Reverse(ids)], 1)]
    /\ UNCHANGED <<jump, gone, shows, knownHosts, mode, edits, sent>>

Host(d) == dial[d].chain[dial[d].hop]

Final(d) == dial[d].hop = Len(dial[d].chain)

-----------------------------------------------------------------------------
(* The task of the handshake: ClientHandler::check_server_key.             *)

MovesTo(d, r) == dial' = [dial EXCEPT ![d] = r] /\ UNCHANGED <<jump, gone, shows, mode, edits, sent>>

ShowsKey(d) ==
    /\ dial[d].task = "dialling" /\ dial[d].st = "waiting"
    /\ MovesTo(d, [dial[d] EXCEPT !.task = "shown", !.key = shows[Host(d)], !.events = Append(@, "received")])
    /\ UNCHANGED knownHosts

Vets(d) == [dial[d] EXCEPT !.task = "accepted", !.vetted = @ \cup {<<Host(d), dial[d].key>>}]

\* Mutant: a key is judged by the host alone.
Validate_AnyKey(d) ==
    /\ dial[d].task = "shown"
    /\ MovesTo(d, CASE mode = "Ignore" -> Vets(d)
                 [] mode # "Ignore" /\ \E k \in HostKeys : <<Host(d), k>> \in knownHosts -> [dial[d] EXCEPT !.task = "accepted"]
                 [] OTHER -> [dial[d] EXCEPT !.task = "asking", !.events = Append(@, "unknown")])
    /\ UNCHANGED knownHosts

\* The mode, and KnownHosts::validate.
Validate(d) ==
    /\ dial[d].task = "shown"
    /\ LET rows == {k \in HostKeys : <<Host(d), k>> \in knownHosts} IN
       MovesTo(d, CASE mode = "Ignore" \/ dial[d].key \in rows -> Vets(d)
                 [] mode # "Ignore" /\ rows # {} /\ dial[d].key \notin rows -> [dial[d] EXCEPT !.task = "error"]
                 [] OTHER -> IF dial[d].st # "waiting" THEN [dial[d] EXCEPT !.task = "error"]
                             ELSE [dial[d] EXCEPT !.task = "asking", !.events = Append(@, "unknown")])
    /\ UNCHANGED knownHosts

\* The answer: an accepted key is stored, or accepted where it cannot be.
KeyAnswered(d) ==
    /\ dial[d].task = "asking" /\ dial[d].reply \in {"yes", "no", "dropped"}
    /\ IF dial[d].reply = "yes"
       THEN MovesTo(d, Vets(d)) /\ knownHosts' \in {knownHosts, knownHosts \cup {<<Host(d), dial[d].key>>}}
       ELSE MovesTo(d, [dial[d] EXCEPT !.task = "error"]) /\ UNCHANGED knownHosts

\* The handshake is resumed and the host ends it, or breaks it off.
Completes(d) ==
    /\ dial[d].task = "accepted" /\ dial[d].st = "waiting"
    /\ \E outcome \in {"done", "error"} : MovesTo(d, [dial[d] EXCEPT !.task = outcome])
    /\ UNCHANGED knownHosts

-----------------------------------------------------------------------------
(* The waiting side: wait_for_connection.  The deadline comes first, then  *)
(* the events, then the connection.                                        *)

\* Mutant: only the connection to the first hop has a deadline.
Due_FirstHop(d) == HasDeadline /\ dial[d].expired /\ ~dial[d].prompted /\ dial[d].hop = 1

Due(d) == HasDeadline /\ dial[d].expired /\ ~dial[d].prompted

TimesOut(d) ==
    /\ dial[d].st = "waiting" /\ Due(d)
    /\ MovesTo(d, [dial[d] EXCEPT !.st = "timedOut"]) /\ UNCHANGED knownHosts

\* A check stops at the key of the last host.  An unknown key is put to the
\* session, and from then on the wait is the person's; a check answers no.
TakesEvent(d) ==
    /\ dial[d].st = "waiting" /\ ~Due(d) /\ dial[d].events # <<>>
    /\ LET e == Head(dial[d].events)
           r == [dial[d] EXCEPT !.events = Tail(@)] IN
       MovesTo(d, CASE e = "received" /\ d \in Checks /\ Final(d) -> [r EXCEPT !.st = "stopped", !.reply = "dropped"]
                 [] e = "received" /\ ~(d \in Checks /\ Final(d)) -> r
                 [] OTHER -> [r EXCEPT !.prompted = TRUE, !.reply = IF d \in Checks THEN "no" ELSE "asked"])
    /\ UNCHANGED knownHosts

\* Mutant: whichever is ready is taken.
Ready_Unordered(d) == dial[d].st = "waiting"

Ready(d) == dial[d].st = "waiting" /\ ~Due(d) /\ dial[d].events = <<>>

Refused(d) ==
    /\ Ready(d) /\ dial[d].task = "error"
    /\ MovesTo(d, [dial[d] EXCEPT !.st = "failed"]) /\ UNCHANGED knownHosts

\* authenticate_session sends the credential, or fails before that: there is no
\* key, or an issued certificate fails its check.
Authenticates(d) ==
    /\ Ready(d) /\ dial[d].task = "done"
    /\ \/ dial' = [dial EXCEPT ![d].st = "failed"] /\ UNCHANGED sent
       \/ dial' = [dial EXCEPT ![d].st = "authenticating"] /\ sent' = sent \cup {<<d, Host(d), dial[d].key>>}
    /\ UNCHANGED <<jump, gone, shows, knownHosts, mode, edits>>

\* The host's answer, for which nothing sets a limit, and what connect_chain does next.
Authenticated(d) ==
    /\ dial[d].st = "authenticating"
    /\ \E accepted \in BOOLEAN :
          MovesTo(d, IF ~accepted THEN [dial[d] EXCEPT !.st = "failed"]
                     ELSE IF d \in Checks /\ Final(d) THEN [dial[d] EXCEPT !.st = "stopped"]
                     ELSE IF Final(d) THEN [dial[d] EXCEPT !.st = "up"]
                     ELSE Shakes(dial[d], dial[d].hop + 1))
    /\ UNCHANGED knownHosts

-----------------------------------------------------------------------------
(* The session, the hosts and the administrators.                          *)

Answers(d, a) ==
    /\ dial[d].reply = "asked" /\ MovesTo(d, [dial[d] EXCEPT !.reply = a]) /\ UNCHANGED knownHosts

\* RemoteClient::disconnect while connecting, or the jump host's connection lost.
Abort(d) ==
    /\ dial[d].st \in {"waiting", "authenticating"} /\ MovesTo(d, [dial[d] EXCEPT !.st = "aborted"]) /\ UNCHANGED knownHosts

Expire(d) ==
    /\ dial[d].st = "waiting" /\ ~dial[d].expired
    /\ MovesTo(d, [dial[d] EXCEPT !.expired = TRUE]) /\ UNCHANGED knownHosts

Edit ==
    /\ edits < Edits /\ edits' = edits + 1
    /\ \/ \E h \in Hosts, k \in HostKeys : shows' = [shows EXCEPT ![h] = k] /\ UNCHANGED <<jump, gone, knownHosts, mode>>
       \/ \E h \in Hosts, k \in HostKeys :
             knownHosts' \in {knownHosts \cup {<<h, k>>}, knownHosts \ {<<h, k>>}} /\ UNCHANGED <<jump, gone, shows, mode>>
       \/ mode' = (IF mode = "Ignore" THEN "Verify" ELSE "Ignore") /\ UNCHANGED <<jump, gone, shows, knownHosts>>
       \/ \E h \in Hosts : gone' = gone \cup {h} /\ UNCHANGED <<jump, shows, knownHosts, mode>>
       \/ jump' \in JumpHosts /\ UNCHANGED <<gone, shows, knownHosts, mode>>
    /\ UNCHANGED <<dial, sent>>

Task(d) == ShowsKey(d) \/ Validate(d) \/ KeyAnswered(d) \/ Completes(d)
Wait(d) == TimesOut(d) \/ TakesEvent(d) \/ Refused(d) \/ Authenticates(d)

DialNext ==
    \/ \E d \in Dials : ConnectChain(d) \/ Task(d) \/ Wait(d) \/ Authenticated(d) \/ Abort(d) \/ Expire(d)
    \/ \E d \in Dials, a \in {"yes", "no", "dropped"} : Answers(d, a)
    \/ Edit

\* The waiting side runs, and its clock; neither the host nor the person need answer.
DialFairness ==
    \A d \in Dials : WF_dialVars(Wait(d)) /\ WF_dialVars(ConnectChain(d)) /\ WF_dialVars(Expire(d))
                     /\ WF_dialVars(Validate(d)) /\ WF_dialVars(KeyAnswered(d))

DialSpec == DialInit /\ [][DialNext]_dialVars
DialFairSpec == DialSpec /\ DialFairness

-----------------------------------------------------------------------------
(* Properties.                                                             *)

\* Credentials go only to a host whose key this attempt has found among the
\* known hosts, had accepted, or was told not to check, however the known
\* hosts, the mode or the host's key change meanwhile (check_server_key).
VettedFirst == \A s \in sent : <<s[2], s[3]>> \in dial[s[1]].vetted

\* A check of a host key sends nothing to the host it is about
\* (wait_for_connection, stop_after_host_key).
CheckStops == \A s \in sent : s[1] \in Checks => s[2] # Wanted[s[1]]

\* The hosts dialled are those the links name, every one of them
\* (resolve_chain_ids).
WholeChains ==
    \A d \in Dials : dial[d].st = "idle" /\ dial'[d].chain # <<>> =>
        LET c == dial'[d].chain IN
        /\ c[Len(c)] = Wanted[d] /\ jump[c[1]] = NoPeer /\ Range(c) \cap gone = {}
        /\ \A i \in 2..Len(c) : jump[c[i]] = c[i - 1]

\* All three, as long as the program runs.
PeersVetted == [](VettedFirst /\ CheckStops) /\ [][WholeChains]_dialVars

\* What the proofs assume of the constants: their types, finitely many hosts, and
\* that NoPeer is no host.
DialsSound ==
    /\ IsFiniteSet(Hosts) /\ NoPeer \notin Hosts /\ HostKeys # {} /\ NoPeer \notin HostKeys
    /\ JumpHosts \subseteq [Hosts -> Hosts \cup {NoPeer}]
    /\ Wanted \in [Dials -> Hosts] /\ Checks \subseteq Dials

\* An attempt that has ended or waits for a person.
AtRest(d) == dial[d].st \notin {"waiting", "authenticating"} \/ dial[d].reply = "asked"

\* An attempt whose host is to speak next and that nothing but the host or the
\* session will end: it authenticates, or the deadline of its handshake is off, or
\* was given up for a person's answer (target_handshake_timeout, host_key_prompted).
UpToHost(d) ==
    \/ dial[d].st = "authenticating"
    \/ /\ dial[d].st = "waiting" /\ dial[d].task \in {"dialling", "accepted"} /\ dial[d].events = <<>>
       /\ ~HasDeadline \/ dial[d].prompted
=============================================================================
