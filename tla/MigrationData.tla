---------------------------- MODULE MigrationData ----------------------------
(* What the data steps of the migrations make of the rows they find: m00043    *)
(* (duplicate users), m00078 (duplicate assignments), m00079 and m00094        *)
(* (duplicate names) and m00080 (the split of sessions), in the order in which *)
(* a database goes through them.  An identifier is a number, a name a sequence *)
(* of numbers: a base and the suffixes " (k)" that follow it.                  *)
EXTENDS Integers, Sequences, FiniteSets, SequencesExt

CONSTANTS Inputs,          \* the contents a database may begin with
          CaseInsensitive  \* whether the unique index of the backend folds case (MySQL)

\* Assumed: CaseInsensitive \in BOOLEAN

VARIABLES before, rows, stage
vars == <<before, rows, stage>>

Nil == 0
Lowest(S) == CHOOSE x \in S : \A y \in S : x <= y
Highest(S) == CHOOSE x \in S : \A y \in S : x >= y

Init ==
    /\ before \in Inputs
    /\ rows = before
    /\ stage = 42

\* Faulty variant: any of the users of a name is retained, row by row.
Retained_Each == {u \in DOMAIN rows.users : u # Lowest(DOMAIN rows.users) => rows.users[u] # rows.users[Lowest(DOMAIN rows.users)]}

(* m00043: the user with the lowest id keeps the name; what refers to the      *)
(* others goes first, then they do.                                            *)
Retained == {Lowest({v \in DOMAIN rows.users : rows.users[v] = rows.users[u]}) : u \in DOMAIN rows.users}

m00043_unique_usernames ==
    /\ stage = 42 /\ stage' = 43
    /\ rows' = [rows EXCEPT !.user_roles = {a \in @ : a.user \in Retained},
                            !.users = [u \in Retained |-> @[u]]]
    /\ UNCHANGED before

\* Faulty variant: the newest row survives, revoked or not.
Survivor_Newest(pair) == CHOOSE a \in pair : \A b \in pair : b.id <= a.id

(* m00078: ORDER BY revoked last, id DESC LIMIT 1; expires_at is copied and    *)
(* not looked at.                                                              *)
Survivor(pair) ==
    LET unrevoked == {a \in pair : ~a.revoked}
        first == IF unrevoked # {} THEN unrevoked ELSE pair
    IN  CHOOSE a \in first : \A b \in first : b.id <= a.id

Duplicates(a) == {b \in rows.user_roles : b.user = a.user /\ b.role = a.role}

m00078_assignment_composite_pks ==
    /\ stage = 43 /\ stage' = 78
    /\ rows' = [rows EXCEPT !.user_roles = {Survivor(Duplicates(a)) : a \in @}]
    /\ UNCHANGED before

(* m00079: the form of a name that the unique index compares: bases 2k - 1 and *)
(* 2k are the upper and the lower case of one word.                            *)
Key(name) == IF CaseInsensitive THEN [name EXCEPT ![1] = (@ + 1) \div 2] ELSE name

\* Faulty variant: the first suffix, taken or not.
deduplicated_name_Plain(taken, name) == Append(name, 2)

(* The first suffix that is free.                                              *)
deduplicated_name(taken, name) ==
    Append(name, Lowest({k \in 2 .. Cardinality(taken) + 2 : Key(Append(name, k)) \notin taken}))

(* The order of the scan: by name, then by id.                                 *)
Before(m, n) ==
    \E i \in 1 .. Len(n) : /\ \A j \in 1 .. i - 1 : j <= Len(m) /\ m[j] = n[j]
                           /\ i > Len(m) \/ m[i] < n[i]
Scan(names) ==
    SetToSortSeq(DOMAIN names, LAMBDA a, b : Before(names[a], names[b]) \/ (names[a] = names[b] /\ a < b))

deduplicate_names(names) ==
    LET visit(acc, id) ==
          LET name == names[id]
              new == IF Key(name) \notin acc.taken THEN name ELSE deduplicated_name(acc.taken, name)
          IN  [taken |-> acc.taken \cup {Key(new)}, names |-> [acc.names EXCEPT ![id] = new]]
    IN  FoldLeft(visit, [taken |-> {}, names |-> names], Scan(names)).names

m00079_unique_target_and_group_names ==
    /\ stage = 78 /\ stage' = 79
    /\ rows' = [rows EXCEPT !.targets = deduplicate_names(@)]
    /\ UNCHANGED before

(* m00080: the target of a session that has a snapshot of it and no id: the id *)
(* the snapshot embeds, the target that has its name now, or nil.              *)
recover_target_id(snap) ==
    IF snap.id # Nil THEN snap.id
    ELSE LET named == {t \in DOMAIN rows.targets : rows.targets[t] = snap.name} IN
         IF named = {} THEN Nil ELSE Lowest(named)

NoSnapshot == [id |-> Nil, name |-> <<>>]
Owner(s) == IF s.protocol = "HTTP" THEN Nil ELSE s.node

\* Faulty variant: the recordings stay.
Recordings_Left(kept) == rows.recordings

Recordings(kept) == {r \in rows.recordings : r \in {s.id : s \in kept}}

m00080_user_and_target_sessions ==
    /\ stage = 79 /\ stage' = 80
    /\ LET kept == {s \in rows.sessions : s.snap # NoSnapshot} IN
         rows' = [rows EXCEPT
                    !.user_sessions = {[id |-> s.id, node |-> Owner(s)] : s \in rows.sessions},
                    !.sessions = {[s EXCEPT !.node = Owner(s), !.parent = s.id,
                                            !.target = IF @ # Nil THEN @ ELSE recover_target_id(s.snap)] : s \in kept},
                    !.recordings = Recordings(kept)]
    /\ UNCHANGED before

Next == \/ m00043_unique_usernames \/ m00078_assignment_composite_pks
        \/ m00079_unique_target_and_group_names \/ m00080_user_and_target_sessions

Spec == Init /\ [][Next]_vars

-------------------------------------------------------------------------------
(* Properties.                                                                 *)

Assigned(t, u, r) == {a \in t.user_roles : a.user = u /\ a.role = r}

(* active of UserRoleAssignment: neither revoked nor past its expiry.          *)
Active(a) == ~a.revoked /\ ~a.expired
Live(t, u, r) == \E a \in Assigned(t, u, r) : Active(a)

(* A row past its expiry that was added after every active one of its pair.    *)
Displacing(u, r) ==
    \E b \in Assigned(before, u, r) : /\ ~b.revoked /\ b.expired
                                     /\ \A a \in Assigned(before, u, r) : Active(a) => a.id < b.id

(* Merging duplicate assignments leaves one row per pair for the primary key,  *)
(* gives nobody a role back that was revoked or has expired, and takes one     *)
(* from a user who keeps their name in one case only: the row that was added   *)
(* last, and not revoked, has expired, and takes the place of the active one.  *)
AccessKept ==
    stage >= 78 => \A a \in before.user_roles : a.user \in DOMAIN rows.users =>
        /\ Live(rows, a.user, a.role) <=> Live(before, a.user, a.role) /\ ~Displacing(a.user, a.role)
        /\ Cardinality(Assigned(rows, a.user, a.role)) = 1

(* No row points at a user that was merged away, which the foreign keys of the *)
(* later tables would refuse.                                                  *)
NoOrphans ==
    stage >= 43 => /\ \A a \in rows.user_roles : a.user \in DOMAIN rows.users
                   /\ \A u, v \in DOMAIN rows.users : u # v => rows.users[u] # rows.users[v]

(* The renamed targets satisfy the unique index, folding case where it does,   *)
(* and no name that was in use has disappeared: a login by target name still   *)
(* reaches a target.                                                           *)
NamesDistinct ==
    stage >= 79 =>
        LET after == {Key(rows.targets[t]) : t \in DOMAIN rows.targets} IN
        /\ Cardinality(after) = Cardinality(DOMAIN rows.targets)
        /\ {Key(before.targets[t]) : t \in DOMAIN before.targets} \subseteq after

(* Every old session lives on as a login, every one that reached a target also *)
(* as an access to it, owned by the same node as its login, and no recording   *)
(* survives its session.                                                       *)
SplitComplete ==
    stage = 80 =>
        /\ {u.id : u \in rows.user_sessions} = {s.id : s \in before.sessions}
        /\ {s.id : s \in rows.sessions} = {s.id : s \in {x \in before.sessions : x.snap # NoSnapshot}}
        /\ \A s \in rows.sessions : [id |-> s.parent, node |-> s.node] \in rows.user_sessions
        /\ rows.recordings \subseteq {s.id : s \in rows.sessions}
===============================================================================
