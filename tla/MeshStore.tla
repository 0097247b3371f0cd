------------------------------ MODULE MeshStore ------------------------------
(***************************************************************************)
(* The encrypted-record store of one node, as operators on the value of    *)
(* its database: the last-writer-wins merge of an imported change, a       *)
(* client's write, a row deletion, the deletion of an account, and the     *)
(* change log that the triggers of store_schema.zi append to on each.      *)
(*                                                                         *)
(* A record is identified by its key (account, collection, id).  Of its    *)
(* content only what the merge tells apart is kept: its time, whether it   *)
(* is a tombstone, and its rank among the representations of one time.     *)
(***************************************************************************)
EXTENDS Integers, Sequences, FiniteSets

CONSTANTS
    Accounts,     \* accounts (user_id_hash)
    Keys,         \* record keys
    Owner,        \* Owner[k]: the account that key k belongs to
    Ranks,        \* representations of a record, in the order of ContentKey
    Drift,        \* how far ahead of a node's clock a write may be dated
    Second,       \* ticks per whole second, the precision of a logged deletion
    Quota         \* bytes an account may store on a node; 0 means no limit

ASSUME MeshStoreAssumption ==
    /\ IsFiniteSet(Keys)
    /\ Owner \in [Keys -> Accounts]
    /\ Ranks \subseteq Nat /\ Ranks # {}
    /\ Drift \in Nat
    /\ Second \in Nat \ {0}
    /\ Quota \in Nat

\* What a client or a peer sends of a record.
Content == [at : Nat, dead : BOOLEAN, rank : Nat]

\* A stored row: its content, and the server version its write was given.
Row == [at : Nat, dead : BOOLEAN, rank : Nat, ver : Nat]
NoRow == [at |-> -1, dead |-> FALSE, rank |-> 0, ver |-> 0]

Change == [key : Keys, op : {"upsert", "delete"}, at : Nat]

\* One node's database: its accounts, their records and server versions, and
\* the change log, in which a row's sequence number is its index.
Database == [users : SUBSET Accounts,
             recs  : [Keys -> Row \cup {NoRow}],
             vers  : [Accounts -> Nat],
             log   : Seq(Change)]

Present(r) == r.at >= 0
KeysOf(a) == {k \in Keys : Owner[k] = a}

-----------------------------------------------------------------------------
(* Time *)

WriteTimeLimit(clock) == clock + Drift

NormalizeWriteTime(at, clock) ==
    IF at > WriteTimeLimit(clock) THEN WriteTimeLimit(clock) ELSE at

\* A stored time beyond the limit was written before the limit existed, or
\* before the clock was set back: any write replaces it.
Frozen(r, clock) == r.at > WriteTimeLimit(clock)

DeletionTime(clock) == (clock \div Second) * Second

-----------------------------------------------------------------------------
(* The order of two representations of a record with the same time *)

Wins(x, y) == IF x.dead # y.dead THEN x.dead ELSE x.rank > y.rank

\* y is newer than x in the order that imports resolve by.
Older(x, y) == x.at < y.at \/ (x.at = y.at /\ Wins(y, x))

-----------------------------------------------------------------------------
(* Writes.  d is the database before, clock the node's clock. *)

Logged(d, k, op, at) == Append(d.log, [key |-> k, op |-> op, at |-> at])

\* The account's next server version, and the row stored under it.
NextVersion(d, k) == [d EXCEPT !.vers[Owner[k]] = @ + 1]

\* Mutant of Stored: the row is given the account's version, which stays.
StoredUnderSameVersion(d, k, c) ==
    [d EXCEPT !.recs[k] = [at |-> c.at, dead |-> c.dead, rank |-> c.rank,
                           ver |-> d.vers[Owner[k]]],
              !.log = Logged(d, k, "upsert", 0)]

Stored(d, k, c) ==
    [NextVersion(d, k) EXCEPT
        !.recs[k] = [at |-> c.at, dead |-> c.dead, rank |-> c.rank,
                     ver |-> d.vers[Owner[k]] + 1],
        !.log = Logged(d, k, "upsert", 0)]

Removed(d, k, clock) ==
    [d EXCEPT !.recs[k] = NoRow,
              !.log = Logged(d, k, "delete", DeletionTime(clock))]

\* Mutant of Accepts: any arrival replaces the stored row.
AcceptsAny(d, k, c, clock) == TRUE

\* An imported record replaces the stored one only if it is newer.
Accepts(d, k, c, clock) ==
    \/ ~Present(d.recs[k])
    \/ Frozen(d.recs[k], clock)
    \/ Older(d.recs[k], c)

UpsertUser(d, a) == [d EXCEPT !.users = @ \cup {a}]

\* Mutant of UpsertRecord: an imported row is not logged for the next hop.
UpsertUnlogged(d, k, content, clock) ==
    LET c == [content EXCEPT !.at = NormalizeWriteTime(@, clock)]
    IN  IF Accepts(d, k, c, clock) THEN [Stored(d, k, c) EXCEPT !.log = d.log] ELSE d

UpsertRecord(d, k, content, clock) ==
    LET c == [content EXCEPT !.at = NormalizeWriteTime(@, clock)]
    IN  IF Accepts(d, k, c, clock) THEN Stored(d, k, c) ELSE d

\* An imported deletion removes a record that is not newer than it.
ApplyDeletion(d, k, at, clock) ==
    LET r == d.recs[k]
    IN  IF Present(r) /\ (r.at <= NormalizeWriteTime(at, clock) \/ Frozen(r, clock))
        THEN NextVersion(Removed(d, k, clock), k)
        ELSE d

\* Mutant of ClientUpsert: a client's write replaces a newer record only.
ClientUpsertReversed(d, k, content, clock) ==
    LET c == [content EXCEPT !.at = NormalizeWriteTime(@, clock)]
        r == d.recs[k]
    IN  IF ~Present(r) \/ c.at <= r.at \/ Frozen(r, clock)
        THEN Stored(d, k, c)
        ELSE NextVersion(d, k)

\* A client's write: the later arrival wins a tie, and the version advances
\* whether or not the row changes.
ClientUpsert(d, k, content, clock) ==
    LET c == [content EXCEPT !.at = NormalizeWriteTime(@, clock)]
        r == d.recs[k]
    IN  IF ~Present(r) \/ c.at >= r.at \/ Frozen(r, clock)
        THEN Stored(d, k, c)
        ELSE NextVersion(d, k)

\* A full re-sync first clears the app's records; k is the app's only record.
ReplaceData(d, k, clock) ==
    NextVersion(IF Present(d.recs[k]) THEN Removed(d, k, clock) ELSE d, k)

\* Deleting an account removes its records, in some order, and its version.
DeleteAccount(d, a, clock, order) ==
    [d EXCEPT !.users = @ \ {a},
              !.recs = [k \in Keys |-> IF Owner[k] = a THEN NoRow ELSE @[k]],
              !.vers[a] = 0,
              !.log = @ \o [i \in DOMAIN order |->
                              [key |-> order[i], op |-> "delete",
                               at |-> DeletionTime(clock)]]]

-----------------------------------------------------------------------------
(* What an account may rely on                                              *)

\* No two records of an account have the same version, nor has any a version
\* beyond the account's.
DistinctVersions(d) ==
    \A j, k \in Keys :
        (Present(d.recs[j]) /\ Present(d.recs[k]) /\ Owner[j] = Owner[k])
            => /\ d.recs[k].ver <= d.vers[Owner[k]]
               /\ j # k => d.recs[j].ver # d.recs[k].ver

\* The node holds nothing of the account.
Empty(d, a) == a \notin d.users /\ \A k \in KeysOf(a) : ~Present(d.recs[k])

-----------------------------------------------------------------------------
(* Storage.  A live record takes one unit, a tombstone, whose content the     *)
(* node strips, none.                                                         *)

LiveKeys(d, a) == {k \in KeysOf(a) : Present(d.recs[k]) /\ ~d.recs[k].dead}
Used(d, a) == Cardinality(LiveKeys(d, a))

\* Mutant of Exceeds: only an account that was over its limit before is refused.
ExceedsBefore(before, after) == Quota > 0 /\ before > Quota /\ after > before

Exceeds(before, after) == Quota > 0 /\ after > Quota /\ after > before

=============================================================================
