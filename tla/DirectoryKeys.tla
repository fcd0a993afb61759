--------------------------- MODULE DirectoryKeys ---------------------------
(***************************************************************************)
(* SSH logins of a user who is linked to an entry of an LDAP directory.    *)
(* Every attempt with a public key first brings the user's stored keys up  *)
(* to date with the directory, statement by statement, and then looks for  *)
(* the key among them; attempts run at once.  An approval is remembered by *)
(* the id of the stored key.                                               *)
(***************************************************************************)
EXTENDS Naturals, FiniteSets, FiniteSetsExt

CONSTANTS
    Attempts,
    Presented,  \* of an attempt: the key the client proves
    AtFirst,    \* the keys that are stored at first
    Bases,      \* the number of base DNs of the server
    Contents,   \* what a base may answer to the search for the user: sets of [person, keys]
    Me,         \* the person the user is
    Ids,        \* the ids a stored key may get
    Nothing,
    MaxChanges  \* bound on changes of the directory

VARIABLES
    pc, fetched, \* of an attempt: its step, and the keys it read from the directory
    present, withdrawn, \* what it found of them stored, and the rows to delete
    matched,     \* the id it was admitted by
    rows,        \* PublicKeyCredential: [id, key]
    directory,   \* what each base answers
    changes,
    met          \* history: the attempts that reconciled while another did

vars == <<pc, fetched, present, withdrawn, matched, rows, directory, changes, met>>

Init ==
    /\ pc = [a \in Attempts |-> "new"] /\ fetched = [a \in Attempts |-> {}]
    /\ present = [a \in Attempts |-> {}] /\ withdrawn = [a \in Attempts |-> {}]
    /\ matched = [a \in Attempts |-> Nothing]
    /\ \E ids \in [AtFirst -> Ids] :
        /\ \A k, j \in AtFirst : ids[k] = ids[j] => k = j
        /\ rows = {[id |-> ids[k], key |-> k] : k \in AtFirst}
    /\ directory \in [1 .. Bases -> Contents] /\ changes = 0
    /\ met = {}

Goto(a, place) == pc' = [pc EXCEPT ![a] = place]
Reconciling == {a \in Attempts : pc[a] \in {"delete", "insert", "match"}}

\* Mutant: the first of several entries is taken, which may be somebody else's.
find_user_by_filter_First(entries) ==
    IF entries = {} THEN {}
    ELSE {CHOOSE e \in entries : Cardinality(entries) > 1 => e.person # Me}

\* find_user_by_filter: in one base, an entry is found if it is the only one; more than one is
\* an error.
find_user_by_filter(entries) == IF Cardinality(entries) = 1 THEN entries ELSE {}

\* find_user_by_uuid: the first base in which something is found; an ambiguous one ends the search.
find_user_by_uuid(bases) ==
    LET telling == {b \in DOMAIN bases : bases[b] # {}}
    IN IF telling = {} THEN {} ELSE find_user_by_filter(bases[Min(telling)])

\* sync_ldap_ssh_keys: the server may be gone, disabled or out of reach, or not know the user;
\* then the stored keys are used as they are.
Fetch(a) ==
    /\ pc[a] = "new"
    /\ \/ /\ Goto(a, "read")
          /\ find_user_by_uuid(directory) # {}
          /\ fetched' = [fetched EXCEPT ![a] = UNION {e.keys : e \in find_user_by_uuid(directory)}]
       \/ Goto(a, "unsynced") /\ UNCHANGED fetched
    /\ UNCHANGED <<present, withdrawn, matched, rows, directory, changes, met>>

Meet(a) == met' = IF Reconciling = {} THEN met ELSE met \cup {a} \cup Reconciling

\* Mutant: every stored key is replaced.
Read_Replaces(a) ==
    /\ pc[a] = "read" /\ Goto(a, "delete")
    /\ present' = [present EXCEPT ![a] = {}]
    /\ withdrawn' = [withdrawn EXCEPT ![a] = {r.id : r \in rows}]
    /\ Meet(a)
    /\ UNCHANGED <<fetched, matched, rows, directory, changes>>

\* reconcile_ldap_ssh_keys: the stored keys are read and sorted ...
Read(a) ==
    /\ pc[a] = "read" /\ Goto(a, "delete")
    /\ present' = [present EXCEPT ![a] = {r.key : r \in rows} \cap fetched[a]]
    /\ withdrawn' = [withdrawn EXCEPT ![a] = {r.id : r \in {q \in rows : q.key \notin fetched[a]}}]
    /\ Meet(a)
    /\ UNCHANGED <<fetched, matched, rows, directory, changes>>

\* Mutant: the withdrawn keys stay.
Delete_Not(a) ==
    /\ pc[a] = "delete" /\ Goto(a, "insert")
    /\ UNCHANGED <<fetched, present, withdrawn, matched, rows, directory, changes, met>>

\* ... those that were withdrawn are deleted ...
Delete(a) ==
    /\ pc[a] = "delete" /\ Goto(a, "insert")
    /\ rows' = {r \in rows : r.id \notin withdrawn[a]}
    /\ UNCHANGED <<fetched, present, withdrawn, matched, directory, changes, met>>

\* ... and the others are inserted, one by one, under a fresh id.
Insert(a) ==
    /\ pc[a] = "insert"
    /\ IF fetched[a] = present[a] THEN Goto(a, "match") /\ UNCHANGED <<rows, present>>
       ELSE \E k \in fetched[a] \ present[a], id \in Ids \ {r.id : r \in rows} :
                /\ rows' = rows \cup {[id |-> id, key |-> k]}
                /\ present' = [present EXCEPT ![a] = @ \cup {k}]
                /\ UNCHANGED pc
    /\ UNCHANGED <<fetched, withdrawn, matched, directory, changes, met>>

\* Where the ids of a key are: the one with the lowest id counts.
IdsOf(stored, key) == {r.id : r \in {q \in stored : q.key = key}}

\* validate_credential.
Match(a) ==
    /\ pc[a] \in {"match", "unsynced"} /\ Goto(a, IF pc[a] = "match" THEN "over" ELSE "stale")
    /\ matched' = [matched EXCEPT ![a] =
           IF IdsOf(rows, Presented[a]) = {} THEN Nothing ELSE Min(IdsOf(rows, Presented[a]))]
    /\ UNCHANGED <<fetched, present, withdrawn, rows, directory, changes, met>>

\* A statement fails: what was done so far stays, and the stored keys are used as they are.
SyncFails(a) ==
    /\ pc[a] \in {"read", "delete", "insert"} /\ Goto(a, "unsynced")
    /\ UNCHANGED <<fetched, present, withdrawn, matched, rows, directory, changes, met>>

\* The directory changes: keys are added and withdrawn, entries come and go.
Change(b) ==
    /\ changes < MaxChanges /\ changes' = changes + 1
    /\ \E entries \in Contents : directory' = [directory EXCEPT ![b] = entries]
    /\ UNCHANGED <<pc, fetched, present, withdrawn, matched, rows, met>>

Next ==
    \/ \E a \in Attempts : Fetch(a) \/ Read(a) \/ Delete(a) \/ Insert(a) \/ Match(a) \/ SyncFails(a)
    \/ \E b \in DOMAIN directory : Change(b)

Spec == Init /\ [][Next]_vars

-----------------------------------------------------------------------------
(* Properties.                                                             *)

\* db.rs says that LDAP keys need reconciliation because key ids are used for approval bypass
\* matching: a stored key that every attempt under way has found in the directory keeps its
\* ids, and the one it is matched by.  The exception is a key that is new in the directory
\* and is stored twice, by an attempt that had looked for it before another stored it: then
\* the key may be matched by the second id (reconcile_ldap_ssh_keys takes no lock).
IdsKept ==
    \A k \in {r.key : r \in rows} :
          (\A a \in Attempts : pc[a] \in {"read", "delete", "insert"} => k \in fetched[a])
          => /\ IdsOf(rows, k) \subseteq IdsOf(rows', k)
             /\ \/ Min(IdsOf(rows', k)) = Min(IdsOf(rows, k))
                \/ \E a \in met : pc[a] = "insert" /\ k \notin present[a] /\ k \in present'[a]

\* Keys of somebody else are never stored for the user, although a search may find several
\* entries.
OwnKeysOnly ==
    \A r \in rows : r.key \in AtFirst \cup UNION {e.keys : e \in {f \in UNION Contents : f.person = Me}}

\* An attempt that was brought up to date with the directory is not admitted by a key the
\* directory had withdrawn, unless another attempt, which may have asked the directory
\* before, was storing keys at the same time.
WithdrawnRefused ==
    \A a \in Attempts \ met : pc[a] = "over" /\ matched[a] # Nothing => Presented[a] \in fetched[a]
=============================================================================
