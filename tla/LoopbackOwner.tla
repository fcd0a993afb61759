---------------------------- MODULE LoopbackOwner ---------------------------
(***************************************************************************)
(* Plain HTTP on a loopback listener (http.plain_http_on_loopback): which  *)
(* connections are served, and which Unix sockets are connected to.        *)
(*                                                                         *)
(* A connection takes a slot, is accepted and checked in a task of its     *)
(* own. The check waits for a turn, looks the client's socket up on a      *)
(* blocking thread and gives up after a timeout; the thread goes on, with  *)
(* its turn. Between any two reads of the kernel's tables processes open,  *)
(* pass on and close descriptors, exit, and process ids are used again.    *)
(* A target's Unix socket is checked with lstat, entry by entry, before    *)
(* each connection, while another account changes what it may change.      *)
(*                                                                         *)
(* The kernel is external. No two live sockets have the same endpoints, so *)
(* those of a connection stand for it until it has been answered.          *)
(***************************************************************************)
EXTENDS Naturals, Sequences, FiniteSets, FiniteSetTheorems, TLAPS

CONSTANTS
    None,       \* no value
    Conns,      \* the connections that clients open
    Procs,      \* the process ids
    Own,        \* Warpgate's own
    Account,    \* the account it runs as
    Other,      \* another account; the third is "root"
    Uid,        \* process -> the account of the process that has this id first
    Opener,     \* connection -> the process that opens it
    Mapped,     \* the connections listed in the table for IPv6
    Lookup,     \* "sock_diag", "tables" or "libproc"
    Slots,      \* connection_setup_slots
    Turns,      \* MAX_CONCURRENT_LOOKUPS
    Backlog,    \* CONNECTION_BACKLOG
    Moves,      \* how often descriptors are passed on and ids used again
    Depth       \* the entries below "/" on the way to a Unix socket, or 0

VARIABLES
    conn,       \* connection -> where it is
    job,        \* connection -> its blocking task
    slots,      \* the free slots
    turns,      \* the free turns
    loop,       \* "slot", "accept": what the accept loop waits for
    channel,    \* connections and errors on their way to the server
    holds,      \* connection -> the processes that hold its client socket
    made,       \* connection -> the account whose process made the socket
    uid,        \* process -> its account, None when there is none
    moves,      \* the moves made
    ours,       \* connections held by a process of the account, not Warpgate's
    node,       \* depth -> the entry of the file system there
    probe       \* the check of the Unix socket

connVars == <<conn, job, slots, turns, loop, channel>>
kernelVars == <<holds, made, uid, moves, ours>>
fileVars == <<node, probe>>
vars == <<connVars, kernelVars, fileVars>>

Accounts == {Account, Other, "root"}
NoJob == [on |-> FALSE, left |-> {}, seen |-> {}, uids |-> {}]

Directories == [uid : Accounts, kind : {"dir"}, mode : {"private", "shared", "sticky", "open"}]
Links == [uid : Accounts, kind : {"link"}, mode : {"shared"}]
Leaves == [uid : Accounts, kind : {"socket", "file"}, mode : {"shared"}]
Slash == [uid |-> "root", kind |-> "dir", mode |-> "shared"]
Entries(i) == IF i = Depth /\ i > 0 THEN Leaves \cup Links ELSE Directories \cup Links

Init ==
    /\ conn = [c \in Conns |-> "new"]
    /\ job = [c \in Conns |-> NoJob]
    /\ slots = Slots /\ turns = Turns /\ loop = "slot" /\ channel = <<>>
    /\ holds = [c \in Conns |-> {}] /\ made = [c \in Conns |-> None]
    /\ uid = Uid /\ moves = 0 /\ ours = {}
    /\ node \in [0 .. Depth -> UNION {Entries(i) : i \in 0 .. Depth}]
    /\ node[0] = Slash /\ \A i \in 1 .. Depth : node[i] \in Entries(i)
    /\ probe = [at |-> IF Depth = 0 THEN "off" ELSE "directory", next |-> 0, reached |-> None]

-----------------------------------------------------------------------------
(* The machine. Only a process of the account may be inspected by it.      *)
Inspectable(p) == uid[p] = Account

\* The connections a process of the account holds; what is held counts from when it is.
Witness(h, u) == ours \cup {c \in Conns : \E p \in h[c] \ {Own} : u[p] = Account}

Open(c) ==
    /\ conn[c] = "new" /\ uid[Opener[c]] # None
    /\ conn' = [conn EXCEPT ![c] = "pending"]
    /\ holds' = [holds EXCEPT ![c] = {Opener[c]}]
    /\ made' = [made EXCEPT ![c] = uid[Opener[c]]]
    /\ ours' = Witness(holds', uid)
    /\ UNCHANGED <<job, slots, turns, loop, channel, uid, moves, fileVars>>

\* A descriptor is inherited or sent to another process.
Pass(c, p) ==
    /\ moves < Moves /\ holds[c] # {} /\ p \notin holds[c] /\ uid[p] # None
    /\ holds' = [holds EXCEPT ![c] = @ \cup {p}]
    /\ moves' = moves + 1
    /\ ours' = Witness(holds', uid)
    /\ UNCHANGED <<connVars, made, uid, fileVars>>

Close(c, p) ==
    /\ p \in holds[c]
    /\ holds' = [holds EXCEPT ![c] = @ \ {p}]
    /\ UNCHANGED <<connVars, made, uid, moves, ours, fileVars>>

Exit(p) ==
    /\ p # Own /\ uid[p] # None
    /\ uid' = [uid EXCEPT ![p] = None]
    /\ holds' = [c \in Conns |-> holds[c] \ {p}]
    /\ UNCHANGED <<connVars, made, moves, ours, fileVars>>

\* A new process gets the id.
Spawn(p, u) ==
    /\ moves < Moves /\ uid[p] = None
    /\ uid' = [uid EXCEPT ![p] = u]
    /\ moves' = moves + 1
    /\ UNCHANGED <<connVars, holds, made, ours, fileVars>>

-----------------------------------------------------------------------------
(* The accept loop (ConcurrentAcceptor).                                   *)

\* Root's sockets cannot be told from those of no process: it is not served.
serving_uid(u) == u # "root"

TakeSlot ==
    /\ loop = "slot" /\ slots > 0 /\ serving_uid(Account)
    /\ slots' = slots - 1 /\ loop' = "accept"
    /\ UNCHANGED <<conn, job, turns, channel, kernelVars, fileVars>>

Accept(c) ==
    /\ loop = "accept" /\ conn[c] = "pending"
    /\ conn' = [conn EXCEPT ![c] = "waiting"]
    /\ loop' = "slot"
    /\ UNCHANGED <<job, slots, turns, channel, kernelVars, fileVars>>

\* An error goes to the server too; the slot is given back.
AcceptFails ==
    /\ loop = "accept" /\ Len(channel) < Backlog
    /\ \A i \in 1 .. Len(channel) : channel[i] # None
    /\ channel' = Append(channel, None)
    /\ loop' = "slot" /\ slots' = slots + 1
    /\ UNCHANGED <<conn, job, turns, kernelVars, fileVars>>

Refuse(c) == conn' = [conn EXCEPT ![c] = "refused"] /\ slots' = slots + 1

\* A checked connection waits for room in the channel with its slot.
Deliver(c) ==
    /\ conn[c] = "checked" /\ Len(channel) < Backlog
    /\ conn' = [conn EXCEPT ![c] = "ready"]
    /\ channel' = Append(channel, c)
    /\ slots' = slots + 1
    /\ UNCHANGED <<job, turns, loop, kernelVars, fileVars>>

Serve ==
    /\ channel # <<>>
    /\ channel' = Tail(channel)
    /\ conn' = IF Head(channel) = None THEN conn ELSE [conn EXCEPT ![Head(channel)] = "served"]
    /\ UNCHANGED <<job, slots, turns, loop, kernelVars, fileVars>>

-----------------------------------------------------------------------------
(* The check of a connection (check_connection_owner).                     *)

\* The rows of the kernel's table: the client's end, with an inode while a
\* process holds it, and the end that Warpgate has accepted.
ClientRow(c) == [local |-> c, remote |-> "listener", uid |-> made[c], open |-> holds[c] # {}]
ServerRow(c) == [local |-> "listener", remote |-> c, uid |-> Account, open |-> TRUE]
Rows == {ClientRow(c) : c \in {x \in Conns : made[x] # None}}
          \cup {ServerRow(c) : c \in {x \in Conns : conn[x] \notin {"new", "pending", "refused"}}}

\* Faulty variant: the endpoints are those of the accepted connection, not swapped.
matching_uids_Unswapped(local, remote) ==
    {r.uid : r \in {x \in Rows : x.open /\ x.local = remote /\ x.remote = local}}

matching_uids(local, remote) ==
    {r.uid : r \in {x \in Rows : x.open /\ x.local = local /\ x.remote = remote}}

\* Faulty variant: Warpgate's own process is walked through with the others.
Reads_Own ==
    CASE Lookup = "sock_diag" -> {"socket"}
      [] Lookup = "tables" -> {"tcp", "tcp6"}
      [] Lookup = "libproc" -> {p \in Procs : uid[p] # None}

\* What a lookup has to read: one answer, two tables, or the listed processes.
Reads ==
    CASE Lookup = "sock_diag" -> {"socket"}
      [] Lookup = "tables" -> {"tcp", "tcp6"}
      [] Lookup = "libproc" -> {p \in Procs \ {Own} : uid[p] # None}

Begin(c) ==
    /\ conn[c] = "waiting" /\ turns > 0
    /\ conn' = [conn EXCEPT ![c] = "looking"]
    /\ turns' = turns - 1
    /\ job' = [job EXCEPT ![c] = [NoJob EXCEPT !.on = TRUE, !.left = Reads]]
    /\ UNCHANGED <<slots, loop, channel, kernelVars, fileVars>>

\* One table, or one process: what is read is true at this moment only.
Read(c, x) ==
    /\ job[c].on /\ x \in job[c].left
    /\ x = "tcp6" => "tcp" \notin job[c].left
    /\ LET listed == Lookup = "sock_diag" \/ (x = "tcp6" <=> c \in Mapped)
           rest == [job[c] EXCEPT !.left = @ \ {x}]
       IN  job' = [job EXCEPT ![c] =
              IF Lookup = "libproc"
              THEN [rest EXCEPT !.seen = @ \cup IF Inspectable(x) /\ x \in holds[c] THEN {x} ELSE {}]
              ELSE [rest EXCEPT !.uids = @ \cup IF listed THEN matching_uids(c, "listener") ELSE {}]]
    /\ UNCHANGED <<conn, slots, turns, loop, channel, kernelVars, fileVars>>

process_uid(p) == IF uid[p] = None THEN {} ELSE {uid[p]}

\* find_owner: the account of each holder, after the walk; one that has exited
\* is passed over.
ReadUid(c, p) ==
    /\ job[c].on /\ job[c].left = {} /\ p \in job[c].seen
    /\ job' = [job EXCEPT ![c].seen = @ \ {p},
                          ![c].uids = @ \cup process_uid(p)]
    /\ UNCHANGED <<conn, slots, turns, loop, channel, kernelVars, fileVars>>

\* Sockets that match with different owners are an error.
single_owner(uids) ==
    IF uids = {} THEN "not found" ELSE IF uids = {Account} THEN "same"
    ELSE IF Cardinality(uids) = 1 THEN "other" ELSE "failed"

\* The thread ends and gives its turn back; the check may have ended before it.
\* A lookup fails on any call the kernel refuses, or past a bound.
Finish(c) ==
    /\ job[c].on
    /\ \E answer \in (IF job[c].left = {} /\ job[c].seen = {} THEN {single_owner(job[c].uids)} ELSE {})
                       \cup {"failed"} :
          IF conn[c] # "looking" THEN UNCHANGED <<conn, slots>>
          ELSE IF answer = "same" THEN conn' = [conn EXCEPT ![c] = "checked"] /\ UNCHANGED slots
          ELSE Refuse(c)
    /\ job' = [job EXCEPT ![c] = NoJob]
    /\ turns' = turns + 1
    /\ UNCHANGED <<loop, channel, kernelVars, fileVars>>

\* Faulty variant: the turn is given back with the timeout.
Timeout_Turn(c) ==
    /\ conn[c] \in {"waiting", "looking"}
    /\ Refuse(c)
    /\ turns' = IF conn[c] = "looking" THEN turns + 1 ELSE turns
    /\ UNCHANGED <<job, loop, channel, kernelVars, fileVars>>

\* Faulty variant: the time is counted from the turn.
Timeout_Looking(c) ==
    /\ conn[c] = "looking"
    /\ Refuse(c)
    /\ UNCHANGED <<job, turns, loop, channel, kernelVars, fileVars>>

\* The timeout counts the wait for a turn; a thread still running keeps its turn.
Timeout(c) ==
    /\ conn[c] \in {"waiting", "looking"}
    /\ Refuse(c)
    /\ UNCHANGED <<job, turns, loop, channel, kernelVars, fileVars>>

-----------------------------------------------------------------------------
(* The Unix socket of a target. Entry Depth is the socket, the one above   *)
(* it its directory, entry 0 is "/".                                       *)

\* The other account puts an entry of its own in the place of one, where it may:
\* whatever is below it is its own too, or, behind a link, anything.
Replace(i) ==
    /\ Depth > 0 /\ probe.at \notin {"refused", "connected"} /\ node[i - 1].kind = "dir"
    /\ \/ node[i - 1].uid = Other
       \/ node[i - 1].mode = "open"
       \/ node[i - 1].mode = "sticky" /\ node[i].uid = Other
    /\ \E n \in [i .. Depth -> UNION {Entries(j) : j \in i .. Depth}] :
          /\ \A j \in i .. Depth : n[j] \in Entries(j)
          /\ n[i].uid = Other
          /\ \A j \in i + 1 .. Depth : n[j].uid = Other \/ n[i].kind = "link"
          /\ node' = [j \in 0 .. Depth |-> IF j < i THEN node[j] ELSE n[j]]
    /\ UNCHANGED <<connVars, kernelVars, probe>>

\* Each step reads one entry with lstat.
Looked(ok, at, next) ==
    /\ probe' = IF ok THEN [probe EXCEPT !.at = at, !.next = next] ELSE [probe EXCEPT !.at = "refused"]
    /\ UNCHANGED <<connVars, kernelVars, node>>

CheckDirectory ==
    /\ probe.at = "directory"
    /\ LET d == node[Depth - 1] IN
       Looked(d.kind = "dir" /\ d.uid = Account /\ d.mode = "private", "socket", 0)

CheckSocket ==
    /\ probe.at = "socket"
    /\ Looked(node[Depth].kind = "socket" /\ node[Depth].uid = Account, "ancestors", Depth - 2)

\* Faulty variant: a directory that others may write to is taken if it is root's.
check_ancestor_RootOpen(n) ==
    n.kind = "dir" /\ n.uid \in {"root", Account} /\ (n.mode = "open" => n.uid = "root")

check_ancestor(n) ==
    /\ n.kind = "dir" /\ n.uid \in {"root", Account}
    /\ n.mode \in {"sticky", "open"} => n.uid = "root" /\ n.mode = "sticky"

CheckAncestor ==
    /\ probe.at = "ancestors"
    /\ Looked(check_ancestor(node[probe.next]),
              IF probe.next = 0 THEN "connect" ELSE "ancestors",
              IF probe.next = 0 THEN 0 ELSE probe.next - 1)

Connect ==
    /\ probe.at = "connect"
    /\ probe' = [probe EXCEPT !.at = "connected", !.reached = node[Depth].uid]
    /\ UNCHANGED <<connVars, kernelVars, node>>

Next ==
    \/ \E c \in Conns : Open(c) \/ Accept(c) \/ Deliver(c) \/ Begin(c) \/ Finish(c) \/ Timeout(c)
    \/ \E c \in Conns, p \in Procs : Pass(c, p) \/ Close(c, p) \/ ReadUid(c, p)
    \/ \E p \in Procs : Exit(p) \/ \E u \in Accounts : Spawn(p, u)
    \/ \E c \in Conns : \E x \in job[c].left : Read(c, x)
    \/ TakeSlot \/ AcceptFails \/ Serve
    \/ \E i \in 1 .. Depth : Replace(i)
    \/ CheckDirectory \/ CheckSocket \/ CheckAncestor \/ Connect

Spec == Init /\ [][Next]_vars

-----------------------------------------------------------------------------
\* A connection is let through only if its client's socket was made by a process
\* of Warpgate's account, or, on macOS, if a process of the account other than
\* Warpgate's own has held it, whatever is passed on, closed or used again while
\* it is looked up (same_account_acceptor).
OnlyOurs ==
    \A c \in Conns : conn[c] \in {"checked", "ready", "served"} =>
        IF Lookup = "libproc" THEN c \in ours ELSE made[c] = Account

\* However many lookups time out, no more threads look sockets up than have a
\* turn, and no more connections are set up than have a slot; each is given back.
Bounded ==
    /\ Cardinality({c \in Conns : job[c].on}) + turns = Turns
    /\ Cardinality({c \in Conns : conn[c] \in {"waiting", "looking", "checked"}})
         + slots + (IF loop = "accept" THEN 1 ELSE 0) = Slots

\* A Unix socket that has passed the check is the account's own when it is
\* connected to, whatever another account has changed on its path in between
\* (check_socket_ownership).
OwnSocket == probe.at = "connected" => probe.reached = Account

\* What the checks of owners promise together: Warpgate's own account on both
\* kinds of sockets, within the bounds of slots and turns.
OnlyOwnAccount == OnlyOurs /\ Bounded /\ OwnSocket

\* Whether every connection that was accepted has been answered.
Answered(c) == conn[c] \notin {"waiting", "looking", "checked", "ready"}

-----------------------------------------------------------------------------
(* Proofs, for any number of connections, processes, slots and turns, and  *)
(* for a path of any length.                                               *)

\* What the constants stand for: "listener" is no client's end, accounts are not
\* "no value", and a process opens each connection.
Sound ==
    /\ IsFiniteSet(Conns) /\ "listener" \notin Conns
    /\ Slots \in Nat /\ Turns \in Nat /\ Depth \in Nat
    /\ Lookup \in {"sock_diag", "tables", "libproc"}
    /\ None \notin Accounts /\ Account # Other /\ Other # "root"
    /\ (\A c \in Conns : Opener[c] \in Procs) /\ Uid \in [Procs -> Accounts \cup {None}]

-----------------------------------------------------------------------------
(* Unix sockets. An entry that has been checked stands as long as the      *)
(* entries above it do; where one of them does not, it is the other        *)
(* account's or open to it, which the check of it will find: whoever       *)
(* replaces an entry leaves one that is his.                               *)

Good(n) ==
    /\ n.uid # Other /\ n.mode # "open"
    /\ n.mode = "sticky" => n.uid = "root"

\* An entry at or above k that no check passes.
Spoilt(n, k) == \E j \in 0 .. Depth : j <= k /\ (n[j].uid = Other \/ n[j].mode = "open")

Stands(n, k) == \A j \in 0 .. Depth : j >= k => Good(n[j])

AnyEntry == Directories \cup Links \cup Leaves

Probes == [at : {"off", "directory", "socket", "ancestors", "connect", "connected", "refused"},
           next : Int, reached : Accounts \cup {None}]

\* What has been found so far, for entries n and a check p.
Found(n, p) ==
    CASE p.at = "socket" -> Depth > 1 /\ (Good(n[Depth - 1]) \/ Spoilt(n, Depth - 2))
      [] p.at = "ancestors" ->
            /\ Depth > 1 /\ p.next \in 0 .. Depth - 2
            /\ (Stands(n, p.next + 1) /\ n[Depth].uid = Account) \/ Spoilt(n, p.next)
      [] p.at = "connect" -> Depth > 1 /\ Stands(n, 0) /\ n[Depth].uid = Account
      [] p.at = "connected" -> p.reached = Account
      [] OTHER -> TRUE

Paths ==
    /\ node \in [0 .. Depth -> AnyEntry] /\ \A i \in 0 .. Depth : node[i] \in Entries(i)
    /\ node[0] = Slash
    /\ probe \in Probes /\ (Depth = 0 => probe.at = "off")
    /\ Found(node, probe)

\* What a replacement leaves behind.
LEMMA Replaced ==
    ASSUME Sound, Paths, NEW i \in 1 .. Depth, Replace(i)
    PROVE  /\ node' \in [0 .. Depth -> AnyEntry]
           /\ \A j \in 0 .. Depth : node'[j] \in Entries(j)
           /\ \A j \in 0 .. Depth : j < i => node'[j] = node[j]
           /\ node'[i].uid = Other
           /\ node[i - 1].uid = Other \/ node[i - 1].mode = "open" \/ (node[i - 1].mode = "sticky" /\ node[i].uid = Other)
           /\ probe' = probe /\ probe.at \notin {"refused", "connected"}
<1>1. PICK n \in [i .. Depth -> UNION {Entries(j) : j \in i .. Depth}] :
          /\ \A j \in i .. Depth : n[j] \in Entries(j)
          /\ n[i].uid = Other
          /\ node' = [j \in 0 .. Depth |-> IF j < i THEN node[j] ELSE n[j]]
  BY DEF Replace
<1>2. \A j \in 0 .. Depth : Entries(j) \subseteq AnyEntry
  BY DEF Entries, AnyEntry
<1>3. Depth \in Nat /\ i \in 0 .. Depth
  BY DEF Sound
<1>4. \A j \in 0 .. Depth : node'[j] \in Entries(j)
  <2> SUFFICES ASSUME NEW j \in 0 .. Depth PROVE node'[j] \in Entries(j)
    OBVIOUS
  <2>1. CASE j < i
    BY <1>1, <2>1 DEF Paths
  <2>2. CASE ~(j < i)
    <3>1. j \in i .. Depth
      BY <1>3, <2>2
    <3> QED
      BY <1>1, <2>2, <3>1
  <2> QED
    BY <2>1, <2>2
<1>5. \A j \in 0 .. Depth : j < i => node'[j] = node[j]
  BY <1>1
<1>6. node'[i].uid = Other
  BY <1>1, <1>3
<1>7. node' \in [0 .. Depth -> AnyEntry]
  BY <1>1, <1>2, <1>4
<1>8. node[i - 1].uid = Other \/ node[i - 1].mode = "open" \/ (node[i - 1].mode = "sticky" /\ node[i].uid = Other)
  BY DEF Replace
<1>9. probe' = probe /\ probe.at \notin {"refused", "connected"}
  BY DEF Replace
<1> QED
  BY <1>4, <1>5, <1>6, <1>7, <1>8, <1>9

\* What is spoilt stays spoilt.
LEMMA SpoiltStays ==
    ASSUME Sound, Paths, NEW i \in 1 .. Depth, Replace(i), NEW k \in Int, Spoilt(node, k)
    PROVE  Spoilt(node', k)
<1>1. PICK j \in 0 .. Depth : j <= k /\ (node[j].uid = Other \/ node[j].mode = "open")
  BY DEF Spoilt
<1>2. CASE j < i
  BY <1>1, <1>2, Replaced DEF Spoilt
<1>3. CASE ~(j < i)
  <2>1. i \in 0 .. Depth /\ i <= k
    BY <1>1, <1>3 DEF Sound
  <2> QED
    BY <2>1, Replaced DEF Spoilt
<1> QED
  BY <1>2, <1>3

\* Below entries that stand nothing is replaced, unless the way there is spoilt.
LEMMA StandsOrSpoilt ==
    ASSUME Sound, Paths, NEW i \in 1 .. Depth, Replace(i), NEW k \in Int, k + 1 <= Depth,
           -1 <= k, \A j \in 0 .. Depth : j = k + 1 \/ (j > k + 1 /\ i > k + 1) => Good(node[j])
    PROVE  i <= k + 1 /\ Spoilt(node', k)
<1>1. Depth \in Nat /\ i \in 0 .. Depth /\ i - 1 \in 0 .. Depth /\ k + 1 \in 0 .. Depth
  BY DEF Sound
<1>2. i <= k + 1
  <2>1. SUFFICES ASSUME i > k + 1 PROVE FALSE
    BY <1>1
  <2>2. Good(node[i]) /\ Good(node[i - 1])
    BY <1>1, <2>1
  <2> QED
    BY <2>2, Replaced DEF Good
<1>3. CASE node[i - 1].uid = Other \/ node[i - 1].mode = "open"
  <2>1. node'[i - 1] = node[i - 1] /\ i - 1 <= k
    BY <1>1, <1>2, Replaced
  <2> QED
    BY <1>1, <1>2, <1>3, <2>1 DEF Spoilt
<1>4. CASE node[i].uid = Other
  <2>1. i # k + 1
    BY <1>1, <1>4 DEF Good
  <2> QED
    BY <1>1, <1>2, <2>1, Replaced DEF Spoilt
<1> QED
  BY <1>2, <1>3, <1>4, Replaced

LEMMA PathsReplace ==
    ASSUME Sound, Paths, NEW i \in 1 .. Depth, Replace(i)
    PROVE  Paths'
<1>1. Depth \in Nat /\ Depth > 0 /\ 0 \in 0 .. Depth /\ 0 < i
  BY DEF Sound
<1>2. /\ node' \in [0 .. Depth -> AnyEntry] /\ \A j \in 0 .. Depth : node'[j] \in Entries(j)
      /\ node'[0] = Slash /\ probe' = probe /\ probe.at \notin {"refused", "connected"}
  BY <1>1, Replaced DEF Paths
<1>3. ASSUME probe.at = "socket" PROVE Depth > 1 /\ (Good(node'[Depth - 1]) \/ Spoilt(node', Depth - 2))
  <2>1. Depth > 1 /\ Depth - 1 \in 0 .. Depth /\ Depth - 2 \in Int
    BY <1>1, <1>3 DEF Paths, Found
  <2>2. CASE Spoilt(node, Depth - 2)
    BY <2>1, <2>2, SpoiltStays
  <2>3. CASE Good(node[Depth - 1]) /\ i = Depth
    BY <1>1, <2>1, <2>3, Replaced
  <2>4. CASE Good(node[Depth - 1]) /\ i # Depth
    <3>1. \A j \in 0 .. Depth : j = (Depth - 2) + 1 \/ (j > (Depth - 2) + 1 /\ i > (Depth - 2) + 1) => Good(node[j])
      BY <1>1, <2>4
    <3> QED
      BY <1>1, <2>1, <3>1, StandsOrSpoilt
  <2> QED
    BY <1>3, <2>1, <2>2, <2>3, <2>4 DEF Paths, Found
<1>4. ASSUME probe.at = "ancestors"
      PROVE  Depth > 1 /\ probe.next \in 0 .. Depth - 2 /\ Spoilt(node', probe.next)
  <2>1. Depth > 1 /\ probe.next \in 0 .. Depth - 2 /\ probe.next \in Int
    BY <1>1, <1>4 DEF Paths, Found
  <2>2. CASE Spoilt(node, probe.next)
    BY <2>1, <2>2, SpoiltStays
  <2>3. CASE Stands(node, probe.next + 1)
    <3>1. \A j \in 0 .. Depth : j = probe.next + 1 \/ (j > probe.next + 1 /\ i > probe.next + 1) => Good(node[j])
      BY <2>1, <2>3 DEF Stands
    <3> QED
      BY <1>1, <2>1, <3>1, StandsOrSpoilt
  <2> QED
    BY <1>4, <2>1, <2>2, <2>3 DEF Paths, Found
<1>5. probe.at # "connect"
  <2>1. SUFFICES ASSUME probe.at = "connect" PROVE FALSE
    OBVIOUS
  <2>2. \A j \in 0 .. Depth : Good(node[j])
    BY <2>1, <1>1 DEF Paths, Found, Stands
  <2>3. \A j \in 0 .. Depth : j = -1 + 1 \/ (j > -1 + 1 /\ i > -1 + 1) => Good(node[j])
    BY <2>2
  <2>4. i <= -1 + 1
    BY <1>1, <2>3, StandsOrSpoilt
  <2> QED
    BY <1>1, <2>4
<1>6. Found(node', probe')
  BY <1>2, <1>3, <1>4, <1>5 DEF Found
<1> QED
  BY <1>2, <1>6 DEF Paths

\* One step of the check, given what it found.
LEMMA PathsChecked ==
    ASSUME Sound, Paths, node' = node, NEW a \in {"socket", "ancestors", "connect", "refused"}, NEW k \in Int,
           probe.at # "off", probe' = [probe EXCEPT !.at = a, !.next = k],
           Found(node, [at |-> a, next |-> k, reached |-> probe.reached])
    PROVE  Paths'
<1>1. probe' = [at |-> a, next |-> k, reached |-> probe.reached] /\ probe' \in Probes
  BY DEF Paths, Probes
<1> QED
  BY <1>1 DEF Paths

LEMMA PathsRefused ==
    ASSUME Sound, Paths, node' = node, probe.at # "off", probe' = [probe EXCEPT !.at = "refused"]
    PROVE  Paths'
<1>1. probe'.at = "refused" /\ probe' \in Probes
  BY DEF Paths, Probes
<1>2. Found(node, probe')
  BY <1>1 DEF Found
<1> QED
  BY <1>1, <1>2 DEF Paths

LEMMA PathsDirectory ==
    ASSUME Sound, Paths, CheckDirectory
    PROVE  Paths'
<1> DEFINE d == node[Depth - 1]
<1>1. Depth \in Nat /\ Depth > 0 /\ node' = node /\ probe.at # "off"
  BY DEF Sound, CheckDirectory, Looked, Paths
<1>2. CASE ~(d.kind = "dir" /\ d.uid = Account /\ d.mode = "private")
  BY <1>1, <1>2, PathsRefused DEF CheckDirectory, Looked
<1>3. CASE d.kind = "dir" /\ d.uid = Account /\ d.mode = "private"
  <2>1. Depth > 1
    BY <1>1, <1>3 DEF Paths, Slash
  <2>2. Good(d)
    BY <1>3 DEF Good, Sound
  <2>3. Found(node, [at |-> "socket", next |-> 0, reached |-> probe.reached])
    BY <2>1, <2>2 DEF Found
  <2>4. probe' = [probe EXCEPT !.at = "socket", !.next = 0]
    BY <1>3 DEF CheckDirectory, Looked
  <2>5. 0 \in Int
    OBVIOUS
  <2> QED
    BY <1>1, <2>3, <2>4, <2>5, PathsChecked
<1> QED
  BY <1>2, <1>3

LEMMA PathsSocket ==
    ASSUME Sound, Paths, CheckSocket
    PROVE  Paths'
<1>1. Depth \in Nat /\ Depth > 1 /\ node' = node /\ probe.at # "off" /\ (Good(node[Depth - 1]) \/ Spoilt(node, Depth - 2))
  BY DEF Sound, CheckSocket, Looked, Paths, Found
<1>2. CASE ~(node[Depth].kind = "socket" /\ node[Depth].uid = Account)
  BY <1>1, <1>2, PathsRefused DEF CheckSocket, Looked
<1>3. CASE node[Depth].kind = "socket" /\ node[Depth].uid = Account
  <2>1. Good(node[Depth])
    <3>1. node[Depth] \in Leaves \cup Links
      BY <1>1 DEF Paths, Entries
    <3>2. node[Depth].mode = "shared"
      BY <3>1 DEF Leaves, Links
    <3> QED
      BY <1>3, <3>2 DEF Good, Sound
  <2>2. Good(node[Depth - 1]) => Stands(node, Depth - 1)
    BY <1>1, <2>1 DEF Stands
  <2>3. (Depth - 2) + 1 = Depth - 1 /\ Depth - 2 \in 0 .. Depth - 2 /\ Depth - 2 \in Int
    BY <1>1
  <2>4. Found(node, [at |-> "ancestors", next |-> Depth - 2, reached |-> probe.reached])
    BY <1>1, <1>3, <2>2, <2>3 DEF Found
  <2>5. probe' = [probe EXCEPT !.at = "ancestors", !.next = Depth - 2]
    BY <1>3 DEF CheckSocket, Looked
  <2> QED
    BY <1>1, <2>3, <2>4, <2>5, PathsChecked
<1> QED
  BY <1>2, <1>3

LEMMA PathsAncestor ==
    ASSUME Sound, Paths, CheckAncestor
    PROVE  Paths'
<1> DEFINE k == probe.next
<1>1. /\ Depth \in Nat /\ Depth > 1 /\ node' = node /\ probe.at # "off"
      /\ k \in 0 .. Depth - 2 /\ k \in 0 .. Depth
      /\ (Stands(node, k + 1) /\ node[Depth].uid = Account) \/ Spoilt(node, k)
  BY DEF Sound, CheckAncestor, Looked, Paths, Found
<1>2. CASE ~check_ancestor(node[k])
  BY <1>1, <1>2, PathsRefused DEF CheckAncestor, Looked
<1>3. CASE check_ancestor(node[k])
  <2>1. probe' = [probe EXCEPT !.at = IF k = 0 THEN "connect" ELSE "ancestors", !.next = IF k = 0 THEN 0 ELSE k - 1]
    BY <1>3 DEF CheckAncestor, Looked
  <2>2. Good(node[k])
    BY <1>3 DEF Good, check_ancestor, Sound
  <2> HIDE DEF k
  <2>3. Stands(node, k + 1) => Stands(node, k)
    BY <1>1, <2>2 DEF Stands
  <2>4. Spoilt(node, k) => k > 0 /\ Spoilt(node, k - 1)
    BY <1>1, <2>2 DEF Spoilt, Good
  <2>5. CASE k = 0
    <3>1. Found(node, [at |-> "connect", next |-> 0, reached |-> probe.reached])
      BY <1>1, <2>3, <2>4, <2>5 DEF Found
    <3>2. probe' = [probe EXCEPT !.at = "connect", !.next = 0] /\ 0 \in Int
      BY <2>1, <2>5
    <3> QED
      BY <1>1, <3>1, <3>2, PathsChecked
  <2>6. CASE k # 0
    <3>1. k - 1 \in 0 .. Depth - 2 /\ (k - 1) + 1 = k /\ k - 1 \in Int
      BY <1>1, <2>6
    <3>2. Found(node, [at |-> "ancestors", next |-> k - 1, reached |-> probe.reached])
      BY <1>1, <2>3, <2>4, <3>1 DEF Found
    <3> QED
      BY <1>1, <2>1, <2>6, <3>1, <3>2, PathsChecked
  <2> QED
    BY <2>5, <2>6
<1> QED
  BY <1>2, <1>3

LEMMA PathsConnect ==
    ASSUME Sound, Paths, Connect
    PROVE  Paths'
<1>1. node' = node /\ probe.at # "off" /\ node[Depth].uid = Account
  BY DEF Connect, Paths, Found
<1>2. probe'.at = "connected" /\ probe'.reached = Account /\ probe' \in Probes
  BY <1>1 DEF Connect, Paths, Probes, Accounts
<1>3. Found(node, probe')
  BY <1>2 DEF Found
<1> QED
  BY <1>1, <1>2, <1>3 DEF Paths

-----------------------------------------------------------------------------
(* The owners of connections. What a lookup has read stays evidence: who   *)
(* made a socket does not change, and a holder that was found counts       *)
(* though it has passed the socket on or has exited since.                 *)

Jobs == [on : BOOLEAN, left : SUBSET (Procs \cup {"socket", "tcp", "tcp6"}), seen : SUBSET Procs, uids : SUBSET Accounts]

Passed == {"checked", "ready", "served"}
Places == {"new", "pending", "waiting", "looking", "refused"} \cup Passed

Machine ==
    /\ holds \in [Conns -> SUBSET Procs]
    /\ made \in [Conns -> Accounts \cup {None}]
    /\ uid \in [Procs -> Accounts \cup {None}]
    /\ \A c \in Conns : \A p \in holds[c] : uid[p] # None /\ (p # Own /\ uid[p] = Account => c \in ours)

\* What job j may have found out about connection c, given who made its socket and
\* which connections are the account's.
Evidence(j, c, m, o) ==
    IF Lookup = "libproc"
    THEN Own \notin j.left /\ j.left \subseteq Procs /\ (j.seen # {} \/ j.uids # {} => c \in o)
    ELSE j.seen = {} /\ j.uids \subseteq {m}

OwnClient(c) == IF Lookup = "libproc" THEN c \in ours ELSE made[c] = Account

ChecksKept ==
    /\ conn \in [Conns -> Places] /\ job \in [Conns -> Jobs]
    /\ \A c \in Conns : conn[c] \in {"new", "pending", "waiting"} => job[c] = NoJob
    /\ \A c \in Conns : Evidence(job[c], c, made[c], ours)
    /\ \A c \in Conns : conn[c] \in Passed => OwnClient(c)
    /\ channel \in Seq(Conns \cup {None})
    /\ \A i \in 1 .. Len(channel) : channel[i] # None => conn[channel[i]] \in {"ready", "served"}

LEMMA NoEvidence ==
    ASSUME Sound, NEW c, NEW m, NEW o
    PROVE  NoJob \in Jobs /\ Evidence(NoJob, c, m, o) /\ NoJob.left = {} /\ NoJob.seen = {} /\ NoJob.uids = {}
BY DEF NoJob, Jobs, Evidence

\* Nothing that happens on the machine takes evidence away.
LEMMA MachineStep ==
    ASSUME Sound, Machine, ChecksKept,
           \/ \E c \in Conns : Open(c)
           \/ \E c \in Conns, p \in Procs : Pass(c, p) \/ Close(c, p)
           \/ \E p \in Procs : Exit(p) \/ \E u \in Accounts : Spawn(p, u)
    PROVE  Machine' /\ ChecksKept'
<1>1. ASSUME NEW c \in Conns, Open(c) PROVE Machine' /\ ChecksKept'
  <2>1. Opener[c] \in Procs /\ ours \subseteq ours'
    BY <1>1 DEF Open, Witness, Sound
  <2>2. Machine'
    BY <1>1, <2>1 DEF Open, Machine, Witness, Sound
  <2>3. /\ conn' = [conn EXCEPT ![c] = "pending"] /\ made' = [made EXCEPT ![c] = uid[Opener[c]]]
        /\ job' = job /\ channel' = channel /\ conn[c] = "new"
    BY <1>1 DEF Open
  <2>4. conn' \in [Conns -> Places] /\ job[c] = NoJob
    BY <2>3 DEF ChecksKept, Places
  <2>5. \A x \in Conns : Evidence(job'[x], x, made'[x], ours')
    BY <2>1, <2>3, <2>4, NoEvidence DEF ChecksKept, Machine, Evidence
  <2>6. \A x \in Conns : conn'[x] \in Passed => OwnClient(x)'
    BY <2>1, <2>3 DEF ChecksKept, Machine, OwnClient, Passed
  <2>7. \A i \in 1 .. Len(channel) : channel[i] # None => conn'[channel[i]] \in {"ready", "served"}
    BY <2>3 DEF ChecksKept
  <2> QED
    BY <2>2, <2>3, <2>4, <2>5, <2>6, <2>7 DEF ChecksKept
<1>2. ASSUME NEW c \in Conns, NEW p \in Procs, Pass(c, p) PROVE Machine' /\ ChecksKept'
  <2>1. Machine'
    BY <1>2 DEF Pass, Machine, Witness, Sound
  <2>2. ours \subseteq ours' /\ UNCHANGED <<conn, job, channel, made>>
    BY <1>2 DEF Pass, Witness, connVars
  <2> QED
    BY <2>1, <2>2 DEF ChecksKept, Evidence, OwnClient
<1>3. ASSUME NEW c \in Conns, NEW p \in Procs, Close(c, p) PROVE Machine' /\ ChecksKept'
  <2>1. Machine'
    BY <1>3 DEF Close, Machine
  <2> QED
    BY <2>1, <1>3 DEF Close, ChecksKept, OwnClient, connVars
<1>4. ASSUME NEW p \in Procs, Exit(p) PROVE Machine' /\ ChecksKept'
  <2>1. Machine'
    BY <1>4 DEF Exit, Machine, Sound
  <2> QED
    BY <2>1, <1>4 DEF Exit, ChecksKept, OwnClient, connVars
<1>5. ASSUME NEW p \in Procs, NEW u \in Accounts, Spawn(p, u) PROVE Machine' /\ ChecksKept'
  <2>1. Machine'
    BY <1>5 DEF Spawn, Machine, Sound
  <2> QED
    BY <2>1, <1>5 DEF Spawn, ChecksKept, OwnClient, connVars
<1> QED
  BY <1>1, <1>2, <1>3, <1>4, <1>5

\* A connection moves on and its job keeps what it has, or starts or ends.
LEMMA Moved ==
    ASSUME Sound, ChecksKept, UNCHANGED kernelVars, UNCHANGED channel,
           NEW c \in Conns, NEW s \in Places, NEW j \in Jobs,
           conn' = [conn EXCEPT ![c] = s], job' = [job EXCEPT ![c] = j],
           conn[c] \in {"ready", "served"} => s = conn[c],
           s \in {"new", "pending", "waiting"} => j = NoJob,
           s \in Passed => OwnClient(c),
           Evidence(j, c, made[c], ours)
    PROVE  ChecksKept'
<1>1. made' = made /\ ours' = ours /\ channel' = channel
  BY DEF kernelVars
<1>2. conn' \in [Conns -> Places] /\ job' \in [Conns -> Jobs]
  BY DEF ChecksKept
<1>3. \A x \in Conns : conn'[x] \in {"new", "pending", "waiting"} => job'[x] = NoJob
  BY DEF ChecksKept
<1>4. \A x \in Conns : Evidence(job'[x], x, made[x], ours)
  BY DEF ChecksKept
<1>5. \A x \in Conns : conn'[x] \in Passed => OwnClient(x)
  BY DEF ChecksKept
<1>6. \A i \in 1 .. Len(channel) : channel[i] # None => conn'[channel[i]] \in {"ready", "served"}
  BY DEF ChecksKept
<1> QED
  BY <1>1, <1>2, <1>3, <1>4, <1>5, <1>6 DEF ChecksKept, OwnClient

\* Of the rows only that of its own client matches a connection: with the account
\* that made the socket.
LEMMA OwnRow ==
    ASSUME Sound, Machine, NEW c \in Conns
    PROVE  matching_uids(c, "listener") \subseteq {made[c]} /\ matching_uids(c, "listener") \subseteq Accounts
<1> SUFFICES ASSUME NEW u \in matching_uids(c, "listener") PROVE u = made[c] /\ u \in Accounts
  OBVIOUS
<1>1. PICK r \in Rows : r.local = c /\ u = r.uid
  BY DEF matching_uids
<1>2. \A x \in Conns : r # ServerRow(x)
  BY <1>1 DEF ServerRow, Sound
<1>3. PICK x \in Conns : made[x] # None /\ r = ClientRow(x)
  BY <1>1, <1>2 DEF Rows
<1>4. x = c /\ u = made[c]
  BY <1>1, <1>3 DEF ClientRow
<1> QED
  BY <1>3, <1>4 DEF Machine

LEMMA AcceptorStep ==
    ASSUME Sound, Machine, ChecksKept,
           TakeSlot \/ AcceptFails \/ Serve \/ \E c \in Conns : Accept(c) \/ Deliver(c) \/ Timeout(c)
    PROVE  Machine' /\ ChecksKept'
<1>1. Machine' /\ UNCHANGED kernelVars
  BY DEF TakeSlot, AcceptFails, Serve, Accept, Deliver, Timeout, kernelVars, Machine
<1>2. CASE TakeSlot
  BY <1>1, <1>2 DEF TakeSlot, ChecksKept, OwnClient, kernelVars
<1>3. CASE AcceptFails
  <2>1. channel' = Append(channel, None) /\ conn' = conn /\ job' = job
    BY <1>3 DEF AcceptFails
  <2>2. channel' \in Seq(Conns \cup {None})
    BY <2>1 DEF ChecksKept
  <2>3. \A i \in 1 .. Len(channel') : channel'[i] # None => conn[channel'[i]] \in {"ready", "served"}
    BY <2>1 DEF ChecksKept
  <2> QED
    BY <1>1, <2>1, <2>2, <2>3 DEF ChecksKept, OwnClient, kernelVars
<1>4. CASE Serve
  <2> DEFINE h == Head(channel)
  <2>1. channel # <<>> /\ channel' = Tail(channel) /\ job' = job /\ made' = made /\ ours' = ours
    BY <1>1, <1>4 DEF Serve, kernelVars
  <2>2. channel' \in Seq(Conns \cup {None}) /\ h \in Conns \cup {None} /\ h = channel[1] /\ 1 \in 1 .. Len(channel)
    BY <2>1 DEF ChecksKept
  <2>3. \A i \in 1 .. Len(channel') : channel'[i] # None => conn[channel'[i]] \in {"ready", "served"}
    BY <2>1 DEF ChecksKept
  <2>4. CASE h = None
    BY <1>1, <1>4, <2>1, <2>2, <2>3, <2>4 DEF Serve, ChecksKept, OwnClient, kernelVars
  <2>5. CASE h # None
    <3>1. h \in Conns /\ conn[h] \in {"ready", "served"} /\ conn' = [conn EXCEPT ![h] = "served"]
      BY <1>4, <2>2, <2>5 DEF Serve, ChecksKept
    <3> HIDE DEF h
    <3>2. /\ conn' \in [Conns -> Places]
          /\ \A c \in Conns : conn'[c] \in {"new", "pending", "waiting"} => job[c] = NoJob
          /\ \A c \in Conns : conn'[c] \in Passed => OwnClient(c)
      BY <3>1 DEF ChecksKept, Places, Passed
    <3>3. \A i \in 1 .. Len(channel') : channel'[i] # None => conn'[channel'[i]] \in {"ready", "served"}
      BY <2>2, <2>3, <3>1 DEF ChecksKept
    <3> QED
      BY <1>1, <2>1, <2>2, <3>2, <3>3 DEF ChecksKept, OwnClient
  <2> QED
    BY <2>4, <2>5
<1>5. ASSUME NEW c \in Conns, Accept(c) PROVE ChecksKept'
  <2>1. job' = [job EXCEPT ![c] = job[c]] /\ job[c] \in Jobs /\ job[c] = NoJob
    BY <1>5 DEF Accept, ChecksKept
  <2>2. "waiting" \in Places /\ conn' = [conn EXCEPT ![c] = "waiting"] /\ conn[c] = "pending" /\ channel' = channel
    BY <1>5 DEF Accept, Places
  <2>3. Evidence(job[c], c, made[c], ours)
    BY DEF ChecksKept
  <2> QED
    BY <1>1, <2>1, <2>2, <2>3, Moved DEF Passed
<1>6. ASSUME NEW c \in Conns, Timeout(c) PROVE ChecksKept'
  <2>1. job' = [job EXCEPT ![c] = job[c]] /\ job[c] \in Jobs
    BY <1>6 DEF Timeout, ChecksKept
  <2>2. /\ "refused" \in Places /\ conn' = [conn EXCEPT ![c] = "refused"]
        /\ conn[c] \in {"waiting", "looking"} /\ channel' = channel
    BY <1>6 DEF Timeout, Refuse, Places
  <2>3. Evidence(job[c], c, made[c], ours)
    BY DEF ChecksKept
  <2> QED
    BY <1>1, <2>1, <2>2, <2>3, Moved DEF Passed
<1>7. ASSUME NEW c \in Conns, Deliver(c) PROVE ChecksKept'
  <2>1. /\ conn[c] = "checked" /\ conn' = [conn EXCEPT ![c] = "ready"] /\ channel' = Append(channel, c)
        /\ job' = job /\ made' = made /\ ours' = ours
    BY <1>1, <1>7 DEF Deliver, kernelVars
  <2>2. channel' \in Seq(Conns \cup {None}) /\ conn' \in [Conns -> Places]
    BY <2>1 DEF ChecksKept, Places, Passed
  <2>3. \A i \in 1 .. Len(channel') : channel'[i] # None => channel'[i] \in Conns /\ conn'[channel'[i]] \in {"ready", "served"}
    <3>1. \A i \in 1 .. Len(channel) : channel[i] \in Conns \cup {None}
      BY DEF ChecksKept
    <3>2. \A i \in 1 .. Len(channel) : channel[i] # None => conn'[channel[i]] \in {"ready", "served"}
      BY <2>1, <3>1 DEF ChecksKept
    <3>3. Len(channel') = Len(channel) + 1 /\ channel'[Len(channel) + 1] = c /\ Len(channel) \in Nat
      BY <2>1 DEF ChecksKept
    <3>4. \A i \in 1 .. Len(channel) : channel'[i] = channel[i]
      BY <2>1 DEF ChecksKept
    <3>5. conn'[c] = "ready"
      BY <2>1 DEF ChecksKept
    <3> QED
      BY <3>1, <3>2, <3>3, <3>4, <3>5
  <2>4. \A x \in Conns : conn'[x] \in {"new", "pending", "waiting"} => job[x] = NoJob
    BY <2>1 DEF ChecksKept
  <2>5. \A x \in Conns : conn'[x] \in Passed => OwnClient(x)
    BY <2>1 DEF ChecksKept, Passed
  <2> QED
    BY <2>1, <2>2, <2>3, <2>4, <2>5 DEF ChecksKept, OwnClient
<1> QED
  BY <1>1, <1>2, <1>3, <1>4, <1>5, <1>6, <1>7

LEMMA LookupStep ==
    ASSUME Sound, Machine, ChecksKept, NEW c \in Conns,
           \/ Begin(c) \/ Finish(c)
           \/ \E p \in Procs : ReadUid(c, p)
           \/ \E x \in job[c].left : Read(c, x)
    PROVE  Machine' /\ ChecksKept'
<1>1. Machine' /\ UNCHANGED kernelVars /\ channel' = channel
  BY DEF Begin, Finish, ReadUid, Read, kernelVars, Machine
<1>2. job[c] \in Jobs /\ Evidence(job[c], c, made[c], ours) /\ conn[c] \in Places
  BY DEF ChecksKept
<1>3. CASE Begin(c)
  <2> DEFINE j == [NoJob EXCEPT !.on = TRUE, !.left = Reads]
  <2>1. NoJob \in Jobs /\ NoJob.seen = {} /\ NoJob.uids = {}
    BY NoEvidence
  <2>2. Reads \subseteq Procs \cup {"socket", "tcp", "tcp6"} /\ (Lookup = "libproc" => Reads \subseteq Procs /\ Own \notin Reads)
    BY DEF Reads, Sound
  <2>3. j \in Jobs /\ j.left = Reads /\ j.seen = {} /\ j.uids = {}
    BY <2>1, <2>2 DEF Jobs
  <2>4. Evidence(j, c, made[c], ours)
    BY <2>2, <2>3 DEF Evidence
  <2>5. conn[c] = "waiting" /\ conn' = [conn EXCEPT ![c] = "looking"] /\ job' = [job EXCEPT ![c] = j] /\ "looking" \in Places
    BY <1>3 DEF Begin, Places
  <2> HIDE DEF j
  <2> QED
    BY <1>1, <2>3, <2>4, <2>5, Moved DEF Passed
<1>4. ASSUME NEW p \in Procs, ReadUid(c, p) PROVE ChecksKept'
  <2> DEFINE j == [job[c] EXCEPT !.seen = @ \ {p}, !.uids = @ \cup process_uid(p)]
  <2>1. p \in job[c].seen /\ job' = [job EXCEPT ![c] = j] /\ conn' = conn
    BY <1>4 DEF ReadUid
  <2>2. process_uid(p) \subseteq Accounts
    BY DEF process_uid, Machine
  <2>3. j.left = job[c].left /\ j.seen = job[c].seen \ {p} /\ j.uids = job[c].uids \cup process_uid(p)
    BY <1>2 DEF Jobs
  <2>4. j \in Jobs
    BY <1>2, <2>2 DEF Jobs
  <2>5. Lookup = "libproc" /\ c \in ours
    BY <1>2, <2>1 DEF Evidence
  <2>6. Evidence(j, c, made[c], ours)
    BY <1>2, <2>3, <2>5 DEF Evidence
  <2>7. conn' = [conn EXCEPT ![c] = conn[c]] /\ (conn[c] \in {"new", "pending", "waiting"} => FALSE) /\ (conn[c] \in Passed => OwnClient(c))
    BY <1>2, <2>1 DEF ChecksKept, NoJob
  <2> HIDE DEF j
  <2> QED
    BY <1>1, <1>2, <2>1, <2>4, <2>6, <2>7, Moved
<1>5. ASSUME NEW x \in job[c].left, Read(c, x) PROVE ChecksKept'
  <2>1. PICK j : /\ job' = [job EXCEPT ![c] = j] /\ j \in Jobs /\ Evidence(j, c, made[c], ours)
    <3>1. CASE Lookup = "libproc"
      <4> DEFINE s == IF Inspectable(x) /\ x \in holds[c] THEN {x} ELSE {}
                 j == [[job[c] EXCEPT !.left = @ \ {x}] EXCEPT !.seen = @ \cup s]
      <4>1. job' = [job EXCEPT ![c] = j]
        BY <1>5, <3>1 DEF Read
      <4>2. j.left = job[c].left \ {x} /\ j.seen = job[c].seen \cup s /\ j.uids = job[c].uids
        BY <1>2 DEF Jobs
      <4>3. x \in Procs /\ x # Own
        BY <1>2, <3>1 DEF Evidence
      <4>4. s # {} => c \in ours
        BY <4>3 DEF Inspectable, Machine
      <4>5. j \in Jobs
        BY <1>2, <4>3 DEF Jobs
      <4>6. Evidence(j, c, made[c], ours)
        BY <1>2, <3>1, <4>2, <4>4 DEF Evidence
      <4> QED
        BY <4>1, <4>5, <4>6
    <3>2. CASE Lookup # "libproc"
      <4> DEFINE listed == Lookup = "sock_diag" \/ (x = "tcp6" <=> c \in Mapped)
                 s == IF listed THEN matching_uids(c, "listener") ELSE {}
                 j == [[job[c] EXCEPT !.left = @ \ {x}] EXCEPT !.uids = @ \cup s]
      <4>1. job' = [job EXCEPT ![c] = j]
        BY <1>5, <3>2 DEF Read
      <4>2. j.left = job[c].left \ {x} /\ j.seen = job[c].seen /\ j.uids = job[c].uids \cup s
        BY <1>2 DEF Jobs
      <4>3. s \subseteq {made[c]} /\ s \subseteq Accounts
        BY OwnRow
      <4> HIDE DEF s
      <4>4. j \in Jobs
        BY <1>2, <4>3 DEF Jobs
      <4>5. Evidence(j, c, made[c], ours)
        BY <1>2, <3>2, <4>2, <4>3 DEF Evidence
      <4> QED
        BY <4>1, <4>4, <4>5
    <3> QED
      BY <3>1, <3>2
  <2>2. conn' = [conn EXCEPT ![c] = conn[c]] /\ (conn[c] \in Passed => OwnClient(c))
    BY <1>5 DEF Read, ChecksKept
  <2>3. conn[c] \in {"new", "pending", "waiting"} => FALSE
    BY <1>5, NoEvidence DEF ChecksKept
  <2> QED
    BY <1>1, <1>2, <2>1, <2>2, <2>3, Moved
<1>6. CASE Finish(c)
  <2>1. job' = [job EXCEPT ![c] = NoJob] /\ NoJob \in Jobs /\ Evidence(NoJob, c, made[c], ours)
    BY <1>6, NoEvidence DEF Finish
  <2>2. PICK s \in Places : /\ conn' = [conn EXCEPT ![c] = s]
                            /\ s = conn[c] \/ (conn[c] = "looking" /\ (s = "refused" \/ (s = "checked" /\ job[c].uids = {Account})))
    <3>1. PICK answer \in (IF job[c].left = {} /\ job[c].seen = {} THEN {single_owner(job[c].uids)} ELSE {})
                       \cup {"failed"} :
          IF conn[c] # "looking" THEN UNCHANGED <<conn, slots>>
          ELSE IF answer = "same" THEN conn' = [conn EXCEPT ![c] = "checked"] /\ UNCHANGED slots
          ELSE Refuse(c)
      BY <1>6 DEF Finish
    <3>2. CASE conn[c] # "looking"
      <4>1. conn' = [conn EXCEPT ![c] = conn[c]]
        BY <3>1, <3>2 DEF ChecksKept
      <4> QED
        BY <1>2, <4>1
    <3>3. CASE conn[c] = "looking" /\ answer = "same"
      <4>1. job[c].uids = {Account}
        BY <3>1, <3>3 DEF single_owner
      <4>2. "checked" \in Places /\ conn' = [conn EXCEPT ![c] = "checked"]
        BY <3>1, <3>3 DEF Places, Passed
      <4> QED
        BY <3>3, <4>1, <4>2
    <3>4. CASE conn[c] = "looking" /\ answer # "same"
      <4>1. "refused" \in Places /\ conn' = [conn EXCEPT ![c] = "refused"]
        BY <3>1, <3>4 DEF Refuse, Places
      <4> QED
        BY <3>4, <4>1
    <3> QED
      BY <3>2, <3>3, <3>4
  <2>3. s \in Passed => OwnClient(c)
    <3>1. CASE s = conn[c]
      BY <3>1 DEF ChecksKept
    <3>2. CASE job[c].uids = {Account}
      BY <1>2, <3>2 DEF Evidence, OwnClient
    <3> QED
      BY <2>2, <3>1, <3>2 DEF Passed
  <2>4. conn[c] \in {"ready", "served"} => s = conn[c]
    BY <2>2
  <2> QED
    BY <1>1, <2>1, <2>2, <2>3, <2>4, Moved
<1> QED
  BY <1>1, <1>3, <1>4, <1>5, <1>6

-----------------------------------------------------------------------------
(* Slots and turns.                                                        *)

Busy(cn) == {c \in Conns : cn[c] \in {"waiting", "looking", "checked"}}
Threads(jb) == {c \in Conns : jb[c].on}
One(b) == IF b THEN 1 ELSE 0

Counts == turns \in Nat /\ slots \in Nat /\ loop \in {"slot", "accept"} /\ Bounded

\* Counting when one element joins, leaves or stays.
LEMMA Counted ==
    ASSUME NEW S, NEW T, NEW x, IsFiniteSet(S), \A y : y # x => (y \in T <=> y \in S)
    PROVE  Cardinality(S) \in Nat /\ Cardinality(T) = Cardinality(S) + One(x \in T) - One(x \in S)
<1>1. Cardinality(S) \in Nat
  BY FS_CardinalityType
<1>2. CASE x \in T
  <2>1. T = S \cup {x}
    BY <1>2
  <2> QED
    BY <1>1, <1>2, <2>1, FS_AddElement DEF One
<1>3. CASE x \notin T
  <2>1. T = S \ {x}
    BY <1>3
  <2>2. Cardinality(T) = IF x \in S THEN Cardinality(S) - 1 ELSE Cardinality(S)
    BY <2>1, FS_RemoveElement
  <2> QED
    BY <1>1, <1>3, <2>2 DEF One
<1> QED
  BY <1>2, <1>3

LEMMA BusyCounted ==
    ASSUME Sound, ChecksKept, NEW c \in Conns, NEW s, conn' = [conn EXCEPT ![c] = s]
    PROVE  /\ Cardinality(Busy(conn)) \in Nat
           /\ Cardinality(Busy(conn')) = Cardinality(Busy(conn)) + One(s \in {"waiting", "looking", "checked"})
                                           - One(conn[c] \in {"waiting", "looking", "checked"})
<1>1. IsFiniteSet(Busy(conn))
  BY FS_Subset DEF Busy, Sound
<1>2. \A y : y # c => (y \in Busy(conn') <=> y \in Busy(conn))
  BY DEF Busy, ChecksKept
<1>3. (c \in Busy(conn') <=> s \in {"waiting", "looking", "checked"})
      /\ (c \in Busy(conn) <=> conn[c] \in {"waiting", "looking", "checked"})
  BY DEF Busy, ChecksKept
<1>4. Cardinality(Busy(conn)) \in Nat /\ Cardinality(Busy(conn')) = Cardinality(Busy(conn)) + One(c \in Busy(conn')) - One(c \in Busy(conn))
  BY <1>1, <1>2, Counted
<1> QED
  BY <1>3, <1>4 DEF One

LEMMA ThreadsCounted ==
    ASSUME Sound, ChecksKept, NEW c \in Conns, NEW j \in Jobs, job' = [job EXCEPT ![c] = j]
    PROVE  /\ Cardinality(Threads(job)) \in Nat
           /\ Cardinality(Threads(job')) = Cardinality(Threads(job)) + One(j.on) - One(job[c].on)
<1>1. IsFiniteSet(Threads(job))
  BY FS_Subset DEF Threads, Sound
<1>2. \A y : y # c => (y \in Threads(job') <=> y \in Threads(job))
  BY DEF Threads, ChecksKept
<1>3. (c \in Threads(job') <=> j.on) /\ (c \in Threads(job) <=> job[c].on)
  BY DEF Threads, ChecksKept
<1>4. Cardinality(Threads(job)) \in Nat /\ Cardinality(Threads(job')) = Cardinality(Threads(job)) + One(c \in Threads(job')) - One(c \in Threads(job))
  BY <1>1, <1>2, Counted
<1>5. One(c \in Threads(job')) = One(j.on) /\ One(c \in Threads(job)) = One(job[c].on)
  BY <1>3 DEF One
<1> QED
  BY <1>4, <1>5

\* The counts as numbers.
Balance(cn, jb, tu, sl, lo) ==
    /\ tu \in Nat /\ sl \in Nat /\ lo \in {"slot", "accept"}
    /\ Cardinality(Threads(jb)) + tu = Turns
    /\ Cardinality(Busy(cn)) + sl + One(lo = "accept") = Slots

LEMMA CountsBalance == Counts <=> Balance(conn, job, turns, slots, loop)
BY DEF Counts, Bounded, Balance, Threads, Busy, One

\* No thread starts or ends.
LEMMA CountsMoved ==
    ASSUME Sound, ChecksKept, Counts, UNCHANGED <<job, turns>>, NEW c \in Conns, NEW s,
           conn' = [conn EXCEPT ![c] = s], slots' \in Nat, loop' \in {"slot", "accept"},
           slots' + One(loop' = "accept") + One(s \in {"waiting", "looking", "checked"})
             = slots + One(loop = "accept") + One(conn[c] \in {"waiting", "looking", "checked"})
    PROVE  Counts'
<1>1. Balance(conn, job, turns, slots, loop)
  BY CountsBalance
<1>2. /\ Cardinality(Busy(conn)) \in Nat
      /\ Cardinality(Busy(conn')) = Cardinality(Busy(conn)) + One(s \in {"waiting", "looking", "checked"})
                                      - One(conn[c] \in {"waiting", "looking", "checked"})
  BY BusyCounted
<1>3. /\ Slots \in Nat /\ One(loop = "accept") \in Nat /\ One(loop' = "accept") \in Nat
      /\ One(s \in {"waiting", "looking", "checked"}) \in Nat /\ One(conn[c] \in {"waiting", "looking", "checked"}) \in Nat
  BY DEF Sound, One
<1>4. Cardinality(Busy(conn')) + slots' + One(loop' = "accept") = Slots
  BY <1>1, <1>2, <1>3 DEF Balance
<1>5. Balance(conn', job', turns', slots', loop')
  BY <1>1, <1>4 DEF Balance
<1>6. Cardinality({x \in Conns : job'[x].on}) + turns' = Turns
  BY <1>5 DEF Balance, Threads
<1>7. Cardinality({x \in Conns : conn'[x] \in {"waiting", "looking", "checked"}}) + slots' + One(loop' = "accept") = Slots
  BY <1>5 DEF Balance, Busy
<1>8. Bounded'
  BY <1>6, <1>7 DEF Bounded, One
<1> QED
  BY <1>5, <1>8 DEF Balance, Counts

\* Only the loop goes on.
LEMMA CountsLoop ==
    ASSUME Sound, Counts, UNCHANGED <<conn, job, turns>>, slots' \in Nat, loop' \in {"slot", "accept"},
           slots' + One(loop' = "accept") = slots + One(loop = "accept")
    PROVE  Counts'
<1>1. Balance(conn, job, turns, slots, loop)
  BY CountsBalance
<1>2. One(loop = "accept") \in Nat /\ One(loop' = "accept") \in Nat /\ IsFiniteSet(Busy(conn))
  BY FS_Subset DEF One, Busy, Sound
<1>3. Cardinality(Busy(conn)) \in Nat
  BY <1>2, FS_CardinalityType
<1>4. Cardinality(Busy(conn)) + slots' + One(loop' = "accept") = Slots
  BY <1>1, <1>2, <1>3 DEF Balance
<1>5. Cardinality({x \in Conns : job'[x].on}) + turns' = Turns
  BY <1>1 DEF Balance, Threads
<1>6. Cardinality({x \in Conns : conn'[x] \in {"waiting", "looking", "checked"}}) + slots' + One(loop' = "accept") = Slots
  BY <1>4 DEF Busy
<1>7. Bounded'
  BY <1>5, <1>6 DEF Bounded, One
<1> QED
  BY <1>1, <1>7 DEF Balance, Counts

\* A thread starts, goes on or ends: a and b are 1 while it runs, after the step
\* and before it.
LEMMA CountsThreads ==
    ASSUME Sound, ChecksKept, Counts, loop' = loop, NEW c \in Conns, NEW j \in Jobs, job' = [job EXCEPT ![c] = j],
           NEW s, conn' = [conn EXCEPT ![c] = s], turns' \in Nat, slots' \in Nat,
           NEW a \in Nat, NEW b \in Nat, a = One(j.on), b = One(job[c].on), turns' + a = turns + b,
           slots' + One(s \in {"waiting", "looking", "checked"}) = slots + One(conn[c] \in {"waiting", "looking", "checked"})
    PROVE  Counts'
<1>1. Balance(conn, job, turns, slots, loop)
  BY CountsBalance
<1>2. /\ Cardinality(Busy(conn)) \in Nat
      /\ Cardinality(Busy(conn')) = Cardinality(Busy(conn)) + One(s \in {"waiting", "looking", "checked"})
                                      - One(conn[c] \in {"waiting", "looking", "checked"})
  BY BusyCounted
<1>3. Cardinality(Threads(job)) \in Nat /\ Cardinality(Threads(job')) = Cardinality(Threads(job)) + a - b
  <2>1. /\ Cardinality(Threads(job)) \in Nat
        /\ Cardinality(Threads(job')) = Cardinality(Threads(job)) + One(j.on) - One(job[c].on)
    BY ThreadsCounted
  <2> QED
    BY <2>1, Zenon
<1>4. /\ Slots \in Nat /\ Turns \in Nat /\ One(loop = "accept") \in Nat
      /\ One(s \in {"waiting", "looking", "checked"}) \in Nat /\ One(conn[c] \in {"waiting", "looking", "checked"}) \in Nat
  BY DEF Sound, One
<1>5. Cardinality(Busy(conn')) + slots' + One(loop' = "accept") = Slots
  BY <1>1, <1>2, <1>4 DEF Balance
<1>6. Cardinality(Threads(job')) + turns' = Turns
  <2> DEFINE n == Cardinality(Threads(job))
             m == Cardinality(Threads(job'))
  <2>1. n \in Nat /\ m = n + a - b /\ n + turns = Turns /\ turns \in Nat
    BY <1>1, <1>3 DEF Balance
  <2> HIDE DEF n, m
  <2>2. m + turns' = Turns
    BY <1>4, <2>1
  <2> QED
    BY <2>2 DEF m
<1>7. Balance(conn', job', turns', slots', loop')
  BY <1>1, <1>5, <1>6 DEF Balance
<1>8. Cardinality({x \in Conns : job'[x].on}) + turns' = Turns
  BY <1>7 DEF Balance, Threads
<1>9. Cardinality({x \in Conns : conn'[x] \in {"waiting", "looking", "checked"}}) + slots' + One(loop' = "accept") = Slots
  BY <1>7 DEF Balance, Busy
<1>10. Bounded'
  BY <1>8, <1>9 DEF Bounded, One
<1> QED
  BY <1>7, <1>10 DEF Balance, Counts

\* The accept loop and the timeouts.
LEMMA AcceptorCounts ==
    ASSUME Sound, Machine, ChecksKept, Counts,
           TakeSlot \/ AcceptFails \/ Serve \/ \E c \in Conns : Open(c) \/ Accept(c) \/ Deliver(c) \/ Timeout(c)
    PROVE  Counts'
<1> USE DEF One
<1>1. slots \in Nat /\ loop \in {"slot", "accept"}
  BY DEF Counts
<1>2. CASE TakeSlot
  <2>1. UNCHANGED <<conn, job, turns>> /\ slots' = slots - 1 /\ slots > 0 /\ loop = "slot" /\ loop' = "accept"
    BY <1>2 DEF TakeSlot
  <2>2. slots' \in Nat /\ slots' + One(loop' = "accept") = slots + One(loop = "accept")
    BY <1>1, <2>1
  <2> QED
    BY <2>1, <2>2, CountsLoop
<1>3. CASE AcceptFails
  <2>1. UNCHANGED <<conn, job, turns>> /\ slots' = slots + 1 /\ loop = "accept" /\ loop' = "slot"
    BY <1>3 DEF AcceptFails
  <2>2. slots' \in Nat /\ slots' + One(loop' = "accept") = slots + One(loop = "accept")
    BY <1>1, <2>1
  <2> QED
    BY <2>1, <2>2, CountsLoop
<1>4. CASE Serve
  <2>1. UNCHANGED <<job, turns, slots, loop>> /\ channel # <<>>
    BY <1>4 DEF Serve
  <2>2. CASE Head(channel) = None
    <3>1. conn' = conn
      BY <1>4, <2>2 DEF Serve
    <3> QED
      BY <1>1, <2>1, <3>1, CountsLoop
  <2>3. CASE Head(channel) # None
    <3> DEFINE h == Head(channel)
    <3>1. h \in Conns /\ conn[h] \in {"ready", "served"} /\ conn' = [conn EXCEPT ![h] = "served"]
      <4>1. h \in Conns \cup {None} /\ h = channel[1] /\ 1 \in 1 .. Len(channel)
        BY <2>1 DEF ChecksKept
      <4> QED
        BY <1>4, <2>3, <4>1 DEF Serve, ChecksKept
    <3> HIDE DEF h
    <3>2. slots' + One(loop' = "accept") + One("served" \in {"waiting", "looking", "checked"})
             = slots + One(loop = "accept") + One(conn[h] \in {"waiting", "looking", "checked"})
      BY <1>1, <2>1, <3>1
    <3> QED
      BY <1>1, <2>1, <3>1, <3>2, CountsMoved
  <2> QED
    BY <2>2, <2>3
<1>5. ASSUME NEW c \in Conns, Open(c) PROVE Counts'
  <2>1. UNCHANGED <<job, turns, slots, loop>> /\ conn[c] = "new" /\ conn' = [conn EXCEPT ![c] = "pending"]
    BY <1>5 DEF Open
  <2>2. slots' + One(loop' = "accept") + One("pending" \in {"waiting", "looking", "checked"})
             = slots + One(loop = "accept") + One(conn[c] \in {"waiting", "looking", "checked"})
    BY <1>1, <2>1
  <2> QED
    BY <1>1, <2>1, <2>2, CountsMoved
<1>6. ASSUME NEW c \in Conns, Accept(c) PROVE Counts'
  <2>1. /\ UNCHANGED <<job, turns, slots>> /\ conn[c] = "pending" /\ conn' = [conn EXCEPT ![c] = "waiting"]
        /\ loop = "accept" /\ loop' = "slot"
    BY <1>6 DEF Accept
  <2>2. slots' + One(loop' = "accept") + One("waiting" \in {"waiting", "looking", "checked"})
             = slots + One(loop = "accept") + One(conn[c] \in {"waiting", "looking", "checked"})
    BY <1>1, <2>1
  <2> QED
    BY <1>1, <2>1, <2>2, CountsMoved
<1>7. ASSUME NEW c \in Conns, Deliver(c) PROVE Counts'
  <2>1. /\ UNCHANGED <<job, turns, loop>> /\ conn[c] = "checked" /\ conn' = [conn EXCEPT ![c] = "ready"]
        /\ slots' = slots + 1
    BY <1>7 DEF Deliver
  <2>2. slots' \in Nat /\ slots' + One(loop' = "accept") + One("ready" \in {"waiting", "looking", "checked"})
             = slots + One(loop = "accept") + One(conn[c] \in {"waiting", "looking", "checked"})
    BY <1>1, <2>1
  <2> QED
    BY <1>1, <2>1, <2>2, CountsMoved
<1>8. ASSUME NEW c \in Conns, Timeout(c) PROVE Counts'
  <2>1. /\ UNCHANGED <<job, turns, loop>> /\ conn[c] \in {"waiting", "looking"}
        /\ conn' = [conn EXCEPT ![c] = "refused"] /\ slots' = slots + 1
    BY <1>8 DEF Timeout, Refuse
  <2>2. slots' \in Nat /\ slots' + One(loop' = "accept") + One("refused" \in {"waiting", "looking", "checked"})
             = slots + One(loop = "accept") + One(conn[c] \in {"waiting", "looking", "checked"})
    BY <1>1, <2>1
  <2> QED
    BY <1>1, <2>1, <2>2, CountsMoved
<1> QED
  BY <1>2, <1>3, <1>4, <1>5, <1>6, <1>7, <1>8

\* The threads. One that has been timed out gives back its turn, and no slot.
LEMMA LookupCounts ==
    ASSUME Sound, Machine, ChecksKept, Counts, NEW c \in Conns,
           \/ Begin(c) \/ Finish(c)
           \/ \E p \in Procs : ReadUid(c, p)
           \/ \E x \in job[c].left : Read(c, x)
    PROVE  Counts'
<1>1. slots \in Nat /\ turns \in Nat /\ loop \in {"slot", "accept"} /\ job[c] \in Jobs /\ NoJob \in Jobs
  BY NoEvidence DEF Counts, ChecksKept
<1>2. 0 \in Nat /\ 1 \in Nat /\ ~NoJob.on /\ One(NoJob.on) = 0
  BY DEF NoJob, One
<1>3. CASE Begin(c)
  <2> DEFINE j == [NoJob EXCEPT !.on = TRUE, !.left = Reads]
  <2>1. /\ conn[c] = "waiting" /\ conn' = [conn EXCEPT ![c] = "looking"] /\ UNCHANGED <<slots, loop>>
        /\ turns > 0 /\ turns' = turns - 1 /\ job' = [job EXCEPT ![c] = j]
    BY <1>3 DEF Begin
  <2>2. j \in Jobs /\ j.on
    <3>1. Reads \subseteq Procs \cup {"socket", "tcp", "tcp6"}
      BY DEF Reads, Sound
    <3> QED
      BY <1>1, <3>1 DEF Jobs
  <2>3. 1 = One(j.on)
    BY <2>2 DEF One
  <2>4. 0 = One(job[c].on)
    BY <1>2, <2>1 DEF ChecksKept
  <2>5. turns' \in Nat /\ slots' \in Nat /\ turns' + 1 = turns + 0
    BY <1>1, <2>1
  <2>6. slots' + One("looking" \in {"waiting", "looking", "checked"}) = slots + One(conn[c] \in {"waiting", "looking", "checked"})
    BY <2>1 DEF One
  <2> HIDE DEF j
  <2> QED
    BY <1>2, <2>1, <2>2, <2>3, <2>4, <2>5, <2>6, CountsThreads
<1>4. ASSUME job[c].on, UNCHANGED <<conn, slots, turns, loop>>, NEW j \in Jobs, job' = [job EXCEPT ![c] = j], j.on
      PROVE  Counts'
  <2>1. 1 = One(j.on) /\ 1 = One(job[c].on)
    BY <1>4 DEF One
  <2>2. conn' = [conn EXCEPT ![c] = conn[c]]
    BY <1>4 DEF ChecksKept
  <2>3. turns' \in Nat /\ slots' \in Nat /\ turns' + 1 = turns + 1
    BY <1>1, <1>4
  <2>4. slots' + One(conn[c] \in {"waiting", "looking", "checked"}) = slots + One(conn[c] \in {"waiting", "looking", "checked"})
    BY <1>4
  <2> QED
    BY <1>2, <1>4, <2>1, <2>2, <2>3, <2>4, CountsThreads
<1>5. ASSUME NEW p \in Procs, ReadUid(c, p) PROVE Counts'
  <2> DEFINE j == [job[c] EXCEPT !.seen = @ \ {p}, !.uids = @ \cup process_uid(p)]
  <2>1. job[c].on /\ UNCHANGED <<conn, slots, turns, loop>> /\ job' = [job EXCEPT ![c] = j]
    BY <1>5 DEF ReadUid
  <2>2. process_uid(p) \subseteq Accounts
    BY DEF process_uid, Machine
  <2>3. j \in Jobs /\ j.on
    BY <1>1, <2>1, <2>2 DEF Jobs
  <2> HIDE DEF j
  <2> QED
    BY <1>4, <2>1, <2>3
<1>6. ASSUME NEW x \in job[c].left, Read(c, x) PROVE Counts'
  <2>1. job[c].on /\ UNCHANGED <<conn, slots, turns, loop>>
    BY <1>6 DEF Read
  <2>2. CASE Lookup = "libproc"
    <3> DEFINE s == IF Inspectable(x) /\ x \in holds[c] THEN {x} ELSE {}
               j == [[job[c] EXCEPT !.left = @ \ {x}] EXCEPT !.seen = @ \cup s]
    <3>1. job' = [job EXCEPT ![c] = j]
      BY <1>6, <2>2 DEF Read
    <3>2. s \subseteq Procs
      BY DEF Machine
    <3> HIDE DEF s
    <3>3. j \in Jobs /\ j.on
      BY <1>1, <2>1, <3>2 DEF Jobs
    <3> HIDE DEF j
    <3> QED
      BY <1>4, <2>1, <3>1, <3>3
  <2>3. CASE Lookup # "libproc"
    <3> DEFINE listed == Lookup = "sock_diag" \/ (x = "tcp6" <=> c \in Mapped)
               s == IF listed THEN matching_uids(c, "listener") ELSE {}
               j == [[job[c] EXCEPT !.left = @ \ {x}] EXCEPT !.uids = @ \cup s]
    <3>1. job' = [job EXCEPT ![c] = j]
      BY <1>6, <2>3 DEF Read
    <3>2. s \subseteq Accounts
      BY OwnRow
    <3> HIDE DEF s
    <3>3. j \in Jobs /\ j.on
      BY <1>1, <2>1, <3>2 DEF Jobs
    <3> HIDE DEF j
    <3> QED
      BY <1>4, <2>1, <3>1, <3>3
  <2> QED
    BY <2>2, <2>3
<1>7. CASE Finish(c)
  <2>1. job[c].on /\ job' = [job EXCEPT ![c] = NoJob] /\ turns' = turns + 1 /\ loop' = loop
    BY <1>7 DEF Finish
  <2>2. 1 = One(job[c].on) /\ 0 = One(NoJob.on) /\ turns' \in Nat /\ turns' + 0 = turns + 1
    BY <1>1, <1>2, <2>1 DEF One
  <2>3. \/ UNCHANGED <<conn, slots>>
        \/ conn[c] = "looking" /\ conn' = [conn EXCEPT ![c] = "checked"] /\ slots' = slots
        \/ conn[c] = "looking" /\ conn' = [conn EXCEPT ![c] = "refused"] /\ slots' = slots + 1
    BY <1>7 DEF Finish, Refuse
  <2>4. PICK s : /\ conn' = [conn EXCEPT ![c] = s] /\ slots' \in Nat
                 /\ slots' + One(s \in {"waiting", "looking", "checked"}) = slots + One(conn[c] \in {"waiting", "looking", "checked"})
    <3>1. CASE UNCHANGED <<conn, slots>>
      <4>1. conn' = [conn EXCEPT ![c] = conn[c]]
        BY <3>1 DEF ChecksKept
      <4> QED
        BY <1>1, <3>1, <4>1
    <3>2. CASE conn[c] = "looking" /\ conn' = [conn EXCEPT ![c] = "checked"] /\ slots' = slots
      <4>1. slots' + One("checked" \in {"waiting", "looking", "checked"}) = slots + One(conn[c] \in {"waiting", "looking", "checked"})
        BY <1>1, <3>2 DEF One
      <4> QED
        BY <1>1, <3>2, <4>1
    <3>3. CASE conn[c] = "looking" /\ conn' = [conn EXCEPT ![c] = "refused"] /\ slots' = slots + 1
      <4>1. slots' \in Nat /\ slots' + One("refused" \in {"waiting", "looking", "checked"}) = slots + One(conn[c] \in {"waiting", "looking", "checked"})
        BY <1>1, <3>3 DEF One
      <4> QED
        BY <1>1, <3>3, <4>1
    <3> QED
      BY <2>3, <3>1, <3>2, <3>3
  <2> QED
    BY <1>1, <1>2, <2>1, <2>2, <2>4, CountsThreads
<1> QED
  BY <1>3, <1>5, <1>6, <1>7

-----------------------------------------------------------------------------
IInv == Paths /\ Machine /\ ChecksKept /\ Counts

LEMMA Start == ASSUME Sound, Init PROVE IInv
<1>1. Paths
  <2>1. \A i \in 0 .. Depth : node[i] \in Entries(i)
    <3>1. Slash \in Entries(0)
      BY DEF Slash, Entries, Directories, Accounts
    <3>2. \A i \in 0 .. Depth : i = 0 \/ i \in 1 .. Depth
      BY DEF Sound
    <3> QED
      BY <3>1, <3>2 DEF Init
  <2>2. node \in [0 .. Depth -> AnyEntry]
    <3>1. \A i \in 0 .. Depth : Entries(i) \subseteq AnyEntry
      BY DEF Entries, AnyEntry
    <3>2. UNION {Entries(i) : i \in 0 .. Depth} \subseteq AnyEntry
      BY <3>1
    <3> QED
      BY <3>2 DEF Init
  <2>3. probe \in Probes /\ probe.at \in {"off", "directory"} /\ (Depth = 0 => probe.at = "off")
    BY DEF Init, Probes
  <2>4. Found(node, probe)
    BY <2>3 DEF Found
  <2> QED
    BY <2>1, <2>2, <2>3, <2>4 DEF Paths, Init
<1>2. Machine
  BY DEF Init, Machine, Sound
<1>3. ChecksKept
  <2>1. NoJob \in Jobs /\ \A c \in Conns : Evidence(NoJob, c, made[c], ours)
    BY NoEvidence
  <2>2. conn = [c \in Conns |-> "new"] /\ job = [c \in Conns |-> NoJob] /\ channel = <<>>
    BY DEF Init
  <2> QED
    BY <2>1, <2>2 DEF ChecksKept, Places, Passed
<1>4. Counts
  <2>1. {c \in Conns : job[c].on} = {}
    BY DEF Init, NoJob
  <2>2. {c \in Conns : conn[c] \in {"waiting", "looking", "checked"}} = {}
    BY DEF Init
  <2>3. slots = Slots /\ turns = Turns /\ loop = "slot" /\ Slots \in Nat /\ Turns \in Nat
    BY DEF Init, Sound
  <2> QED
    BY <2>1, <2>2, <2>3, FS_EmptySet DEF Counts, Bounded
<1> QED
  BY <1>1, <1>2, <1>3, <1>4 DEF IInv

\* Nothing on the way of a connection touches a path, and the other way round.
LEMMA Step == ASSUME Sound, IInv, [Next]_vars PROVE IInv'
<1> USE DEF IInv
<1>1. ASSUME UNCHANGED fileVars PROVE Paths'
  BY <1>1 DEF fileVars, Paths
<1>2. ASSUME UNCHANGED connVars PROVE Counts'
  BY <1>2 DEF connVars, Counts, Bounded
<1>3. ASSUME UNCHANGED <<connVars, kernelVars>> PROVE Machine' /\ ChecksKept' /\ Counts'
  <2>1. Machine'
    BY <1>3 DEF kernelVars, Machine
  <2>2. ChecksKept'
    BY <1>3 DEF connVars, kernelVars, ChecksKept, OwnClient
  <2> QED
    BY <1>2, <1>3, <2>1, <2>2
<1>4. CASE UNCHANGED vars
  BY <1>1, <1>3, <1>4 DEF vars
<1>5. ASSUME \/ \E c \in Conns : Open(c)
             \/ \E c \in Conns, p \in Procs : Pass(c, p) \/ Close(c, p)
             \/ \E p \in Procs : Exit(p) \/ \E u \in Accounts : Spawn(p, u)
      PROVE IInv'
  <2>1. Machine' /\ ChecksKept'
    BY <1>5, MachineStep
  <2>2. UNCHANGED fileVars
    BY <1>5 DEF Open, Pass, Close, Exit, Spawn
  <2>3. UNCHANGED connVars \/ \E c \in Conns : Open(c)
    BY <1>5 DEF Pass, Close, Exit, Spawn
  <2>4. Counts'
    BY <1>2, <2>3, AcceptorCounts
  <2> QED
    BY <1>1, <2>1, <2>2, <2>4
<1>6. ASSUME TakeSlot \/ AcceptFails \/ Serve \/ \E c \in Conns : Accept(c) \/ Deliver(c) \/ Timeout(c)
      PROVE IInv'
  <2>1. Machine' /\ ChecksKept'
    BY <1>6, AcceptorStep
  <2>2. UNCHANGED fileVars
    BY <1>6 DEF TakeSlot, AcceptFails, Serve, Accept, Deliver, Timeout
  <2>3. Counts'
    BY <1>6, AcceptorCounts
  <2> QED
    BY <1>1, <2>1, <2>2, <2>3
<1>7. ASSUME NEW c \in Conns,
             \/ Begin(c) \/ Finish(c)
             \/ \E p \in Procs : ReadUid(c, p)
             \/ \E x \in job[c].left : Read(c, x)
      PROVE IInv'
  <2>1. Machine' /\ ChecksKept'
    BY <1>7, LookupStep
  <2>2. UNCHANGED fileVars
    BY <1>7 DEF Begin, Finish, ReadUid, Read
  <2>3. Counts'
    BY <1>7, LookupCounts
  <2> QED
    BY <1>1, <2>1, <2>2, <2>3
<1>8. ASSUME (\E i \in 1 .. Depth : Replace(i)) \/ CheckDirectory \/ CheckSocket \/ CheckAncestor \/ Connect
      PROVE IInv'
  <2>1. Paths'
    BY <1>8, PathsReplace, PathsDirectory, PathsSocket, PathsAncestor, PathsConnect
  <2>2. UNCHANGED <<connVars, kernelVars>>
    BY <1>8 DEF Replace, CheckDirectory, CheckSocket, CheckAncestor, Looked, Connect
  <2> QED
    BY <1>3, <2>1, <2>2
<1> QED
  BY <1>4, <1>5, <1>6, <1>7, <1>8 DEF Next

LEMMA Inductive == ASSUME Sound PROVE Spec => []IInv
<1>1. Init => IInv
  BY Start
<1>2. IInv /\ [Next]_vars => IInv'
  BY Step
<1> QED
  BY <1>1, <1>2, PTL DEF Spec

\* Over a plain loopback connection only a client of Warpgate's own account is
\* served, however many processes pass its socket on, close it, exit or take the
\* id of another between the reads of one lookup (check_connection_owner).
THEOREM OnlyOursAreServed == ASSUME Sound PROVE Spec => []OnlyOurs
<1>1. IInv => OnlyOurs
  BY DEF IInv, ChecksKept, Passed, OwnClient, OnlyOurs
<1> QED
  BY <1>1, Inductive, PTL

\* No lookup that times out and no connection that is refused costs a turn or a
\* slot for good, or gives one back twice (ConcurrentAcceptor, check_connection_owner).
THEOREM SlotsAndTurnsReturn == ASSUME Sound PROVE Spec => []Bounded
<1>1. IInv => Bounded
  BY DEF IInv, Counts
<1> QED
  BY <1>1, Inductive, PTL

\* On a path of any length, a Unix socket that check_socket_ownership has passed
\* is the account's own when it is connected to, though the entries are read one
\* by one while another account replaces whatever it may.
THEOREM SocketIsOurOwn == ASSUME Sound PROVE Spec => []OwnSocket
<1>1. IInv => OwnSocket
  BY DEF IInv, Paths, Found, OwnSocket
<1> QED
  BY <1>1, Inductive, PTL

\* Whatever processes and files do between the reads of a check, plain HTTP and
\* Unix sockets stay within Warpgate's own account, and the checks within their
\* slots and turns (loopback_owner.rs, check_socket_ownership).
THEOREM WithinOwnAccount == ASSUME Sound PROVE Spec => []OnlyOwnAccount
<1>1. OnlyOurs /\ Bounded /\ OwnSocket => OnlyOwnAccount
  BY DEF OnlyOwnAccount
<1> QED
  BY <1>1, OnlyOursAreServed, SlotsAndTurnsReturn, SocketIsOurOwn, PTL

=============================================================================
