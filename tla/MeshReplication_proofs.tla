----------------------- MODULE MeshReplication_proofs -----------------------
(***************************************************************************)
(* Proofs about MeshReplication: its types and the bound of its cursors,   *)
(* the distinctness of server versions, that nothing of an account deleted *)
(* on a node comes back, the storage limit, and, where clients only store  *)
(* records, that none is replaced by an older one, that no cursor passes a *)
(* change, that two nodes which have read each other agree, and that the   *)
(* nodes implement LastWriterWins, for any nodes, policies, clocks and     *)
(* clients.                                                                *)
(*                                                                         *)
(* The invariant has to speak of the open transactions as well as of the   *)
(* databases, for a commit puts one in the place of the other, and of the  *)
(* cursor that a pull has in hand, for a save makes it the saved one; and, *)
(* where a policy names apps, of the apps that both ends have read.        *)
(* The lemmas before it say what every operation of MeshStore preserves of *)
(* the database it is applied to: its type, the distinctness of its server *)
(* versions, the emptiness of every account but the one written to, and in *)
(* the second half the order of its records and the prefix of its log.     *)
(***************************************************************************)
EXTENDS MeshReplication, FiniteSetTheorems, SequenceTheorems, TLAPS

-----------------------------------------------------------------------------
(* The operations of the store *)

\* A database whose rows the paging of clients can rely on.
Sound(d) == d \in Database /\ DistinctVersions(d)

\* e comes from d by writes of account a: the log grew, and every other account
\* has what it had.
WritesOf(d, e, a) ==
    /\ Len(e.log) >= Len(d.log)
    /\ e.users \ {a} = d.users \ {a}
    /\ \A k \in Keys : Owner[k] # a => e.recs[k] = d.recs[k]

LEMMA OthersEmpty ==
    ASSUME NEW d, NEW e, NEW a, NEW b, WritesOf(d, e, a), b # a, Empty(d, b)
    PROVE  Empty(e, b)
BY DEF WritesOf, Empty, KeysOf

\* Normalized times are times.
LEMMA TimeType ==
    ASSUME NEW at \in Nat, NEW clock \in Nat
    PROVE  /\ NormalizeWriteTime(at, clock) \in Nat
           /\ DeletionTime(clock) \in Nat
<1>1. NormalizeWriteTime(at, clock) \in Nat
  BY MeshStoreAssumption DEF NormalizeWriteTime, WriteTimeLimit
<1>2. DeletionTime(clock) \in Nat
  <2> DEFINE q == clock \div Second
  <2>1. q \in Nat
    BY MeshStoreAssumption
  <2>2. \A i, j \in Nat : i * j \in Nat
    OBVIOUS
  <2> QED
    BY <2>1, <2>2, MeshStoreAssumption DEF DeletionTime
<1> QED
  BY <1>1, <1>2

LEMMA LoggedType ==
    ASSUME NEW d \in Database, NEW k \in Keys, NEW op \in {"upsert", "delete"},
           NEW at \in Nat
    PROVE  /\ Logged(d, k, op, at) \in Seq(Change)
           /\ Len(Logged(d, k, op, at)) = Len(d.log) + 1
BY DEF Logged, Database, Change

\* The account of a key, and the fields of a database.
LEMMA OwnerType ==
    ASSUME NEW d \in Database, NEW k \in Keys
    PROVE  /\ Owner[k] \in Accounts
           /\ d.vers[Owner[k]] \in Nat /\ d.vers[Owner[k]] + 1 \in Nat
BY MeshStoreAssumption DEF Database

LEMMA NextVersionFields ==
    ASSUME NEW d \in Database, NEW k \in Keys
    PROVE  /\ NextVersion(d, k).users = d.users
           /\ NextVersion(d, k).recs = d.recs
           /\ NextVersion(d, k).vers = [d.vers EXCEPT ![Owner[k]] = @ + 1]
           /\ NextVersion(d, k).log = d.log
           /\ NextVersion(d, k) \in Database
<1>1. Owner[k] \in Accounts /\ d.vers[Owner[k]] + 1 \in Nat
  BY OwnerType
<1>2. NextVersion(d, k) \in Database
  BY <1>1 DEF NextVersion, Database
<1> QED
  BY <1>2 DEF NextVersion, Database

\* Giving an account a new version leaves room above every stored row.
LEMMA NextVersionSound ==
    ASSUME NEW d, Sound(d), NEW k \in Keys
    PROVE  Sound(NextVersion(d, k)) /\ WritesOf(d, NextVersion(d, k), Owner[k])
<1> DEFINE e == NextVersion(d, k)
<1>1. /\ e.users = d.users /\ e.recs = d.recs /\ e.log = d.log
      /\ e.vers = [d.vers EXCEPT ![Owner[k]] = @ + 1]
      /\ e \in Database
  BY NextVersionFields DEF Sound
<1>2. DistinctVersions(e)
  <2>1. \A l \in Keys : Present(d.recs[l]) => d.recs[l].ver \in Nat
    BY DEF Sound, Database, Present, Row, NoRow
  <2>2. \A l \in Keys : d.vers[Owner[l]] \in Nat /\ e.vers[Owner[l]] \in {d.vers[Owner[l]], d.vers[Owner[l]] + 1}
    BY <1>1, MeshStoreAssumption DEF Sound, Database
  <2> QED
    BY <1>1, <2>1, <2>2 DEF Sound, DistinctVersions
<1>3. WritesOf(d, e, Owner[k])
  BY <1>1 DEF WritesOf, Sound, Database
<1> QED
  BY <1>1, <1>2, <1>3 DEF Sound

LEMMA UpsertUserSound ==
    ASSUME NEW d, Sound(d), NEW a \in Accounts
    PROVE  Sound(UpsertUser(d, a)) /\ WritesOf(d, UpsertUser(d, a), a)
<1> DEFINE e == UpsertUser(d, a)
<1>1. /\ e.users = d.users \cup {a} /\ e.recs = d.recs /\ e.log = d.log
      /\ e.vers = d.vers
      /\ e \in Database
  BY DEF Sound, Database, UpsertUser
<1>2. DistinctVersions(e)
  BY <1>1 DEF Sound, DistinctVersions
<1>3. WritesOf(d, e, a)
  BY <1>1 DEF WritesOf, Sound, Database
<1> QED
  BY <1>1, <1>2, <1>3 DEF Sound

\* A stored row takes the version that no other row of its account has.
LEMMA StoredSound ==
    ASSUME NEW d, Sound(d), NEW k \in Keys, NEW c \in Content
    PROVE  Sound(Stored(d, k, c)) /\ WritesOf(d, Stored(d, k, c), Owner[k])
<1> DEFINE e == Stored(d, k, c)
           row == [at |-> c.at, dead |-> c.dead, rank |-> c.rank,
                   ver |-> d.vers[Owner[k]] + 1]
<1>0. d \in Database /\ d.vers \in [Accounts -> Nat] /\ Owner[k] \in Accounts
  BY MeshStoreAssumption DEF Sound, Database
<1>1. row \in Row
  BY <1>0 DEF Row, Content
<1>2. Logged(d, k, "upsert", 0) \in Seq(Change) /\ Len(Logged(d, k, "upsert", 0)) = Len(d.log) + 1
  BY <1>0, LoggedType
<1>3. /\ e.users = d.users
      /\ e.recs = [d.recs EXCEPT ![k] = row]
      /\ e.vers = [d.vers EXCEPT ![Owner[k]] = @ + 1]
      /\ e.log = Logged(d, k, "upsert", 0)
      /\ e \in Database
  <2> DEFINE n == NextVersion(d, k)
  <2>1. /\ n.users = d.users /\ n.recs = d.recs
        /\ n.vers = [d.vers EXCEPT ![Owner[k]] = @ + 1]
        /\ n \in Database
    BY <1>0, NextVersionFields
  <2> HIDE DEF n
  <2>2. e = [n EXCEPT !.recs[k] = row, !.log = Logged(d, k, "upsert", 0)]
    BY DEF Stored, n
  <2> HIDE DEF e, row
  <2>3. e \in Database
    BY <1>1, <1>2, <2>1, <2>2 DEF Database
  <2>4. /\ e.users = n.users /\ e.recs = [n.recs EXCEPT ![k] = row]
        /\ e.vers = n.vers /\ e.log = Logged(d, k, "upsert", 0)
    BY <2>1, <2>2 DEF Database
  <2> QED
    BY <2>1, <2>3, <2>4
<1>4. DistinctVersions(e)
  <2> SUFFICES ASSUME NEW i \in Keys, NEW j \in Keys, Present(e.recs[i]),
                      Present(e.recs[j]), Owner[i] = Owner[j]
               PROVE  /\ e.recs[j].ver <= e.vers[Owner[j]]
                      /\ i # j => e.recs[i].ver # e.recs[j].ver
    BY DEF DistinctVersions
  <2>1. \A l \in Keys : Present(d.recs[l]) => d.recs[l].ver <= d.vers[Owner[l]] /\ d.recs[l].ver \in Nat
    BY <1>0 DEF Sound, DistinctVersions, Database, Row, NoRow
  <2>2. \A l \in Keys : d.vers[Owner[l]] \in Nat
    BY <1>0, MeshStoreAssumption
  <2>3. \A l \in Keys : l # k => e.recs[l] = d.recs[l]
    BY <1>0, <1>3 DEF Database
  <2>4. e.recs[k].ver = d.vers[Owner[k]] + 1
    BY <1>0, <1>3 DEF Database
  <2>5. \A l \in Keys : e.vers[Owner[l]] = IF Owner[l] = Owner[k] THEN d.vers[Owner[k]] + 1
                                                                 ELSE d.vers[Owner[l]]
    BY <1>0, <1>3, MeshStoreAssumption
  <2> QED
    BY <2>1, <2>2, <2>3, <2>4, <2>5 DEF Sound, DistinctVersions
<1>5. WritesOf(d, e, Owner[k])
  <2>1. Len(e.log) >= Len(d.log)
    BY <1>0, <1>2, <1>3 DEF Database
  <2>2. \A l \in Keys : Owner[l] # Owner[k] => e.recs[l] = d.recs[l]
    BY <1>0, <1>3 DEF Database
  <2> QED
    BY <1>3, <2>1, <2>2 DEF WritesOf
<1> QED
  BY <1>3, <1>4, <1>5 DEF Sound

LEMMA RemovedSound ==
    ASSUME NEW d, Sound(d), NEW k \in Keys, NEW clock \in Nat
    PROVE  Sound(Removed(d, k, clock)) /\ WritesOf(d, Removed(d, k, clock), Owner[k])
<1> DEFINE e == Removed(d, k, clock)
<1>0. d \in Database
  BY DEF Sound
<1>1. DeletionTime(clock) \in Nat
  BY TimeType
<1>2. /\ Logged(d, k, "delete", DeletionTime(clock)) \in Seq(Change)
      /\ Len(Logged(d, k, "delete", DeletionTime(clock))) = Len(d.log) + 1
  BY <1>0, <1>1, LoggedType
<1>3. /\ e.users = d.users
      /\ e.recs = [d.recs EXCEPT ![k] = NoRow]
      /\ e.vers = d.vers
      /\ e.log = Logged(d, k, "delete", DeletionTime(clock))
      /\ e \in Database
  BY <1>0, <1>2 DEF Removed, Database
<1>4. ~Present(e.recs[k]) /\ \A l \in Keys : l # k => e.recs[l] = d.recs[l]
  BY <1>0, <1>3 DEF Database, Present, NoRow
<1>5. DistinctVersions(e)
  BY <1>3, <1>4 DEF Sound, DistinctVersions
<1>6. WritesOf(d, e, Owner[k])
  <2>1. Len(e.log) >= Len(d.log)
    BY <1>0, <1>2, <1>3 DEF Database
  <2> QED
    BY <2>1, <1>3, <1>4 DEF WritesOf
<1> QED
  BY <1>3, <1>5, <1>6 DEF Sound

-----------------------------------------------------------------------------
(* The operations that clients and imports are made of                       *)

\* Writes of one account compose.
LEMMA WritesCompose ==
    ASSUME NEW d, NEW e, NEW f, NEW a, WritesOf(d, e, a), WritesOf(e, f, a),
           Sound(d), Sound(e), Sound(f)
    PROVE  WritesOf(d, f, a)
<1>1. Len(d.log) \in Nat /\ Len(e.log) \in Nat /\ Len(f.log) \in Nat
  BY DEF Sound, Database
<1> QED
  BY <1>1 DEF WritesOf

LEMMA NoWrites ==
    ASSUME NEW d, NEW a, Sound(d)
    PROVE  WritesOf(d, d, a)
<1>1. Len(d.log) \in Nat
  BY DEF Sound, Database
<1> QED
  BY <1>1 DEF WritesOf

\* A content whose time is clamped to the clock is still a content.
LEMMA ClampedType ==
    ASSUME NEW c \in Content, NEW clock \in Nat
    PROVE  [c EXCEPT !.at = NormalizeWriteTime(@, clock)] \in Content
<1>1. NormalizeWriteTime(c.at, clock) \in Nat
  BY TimeType DEF Content
<1> QED
  BY <1>1 DEF Content

LEMMA UpsertRecordSound ==
    ASSUME NEW d, Sound(d), NEW k \in Keys, NEW c \in Content, NEW clock \in Nat
    PROVE  /\ Sound(UpsertRecord(d, k, c, clock))
           /\ WritesOf(d, UpsertRecord(d, k, c, clock), Owner[k])
<1> DEFINE clamped == [c EXCEPT !.at = NormalizeWriteTime(@, clock)]
<1>1. clamped \in Content
  BY ClampedType
<1>2. UpsertRecord(d, k, c, clock) \in {d, Stored(d, k, clamped)}
  BY DEF UpsertRecord
<1> HIDE DEF clamped
<1> QED
  BY <1>1, <1>2, StoredSound, NoWrites

LEMMA ClientUpsertSound ==
    ASSUME NEW d, Sound(d), NEW k \in Keys, NEW c \in Content, NEW clock \in Nat
    PROVE  /\ Sound(ClientUpsert(d, k, c, clock))
           /\ WritesOf(d, ClientUpsert(d, k, c, clock), Owner[k])
<1> DEFINE clamped == [c EXCEPT !.at = NormalizeWriteTime(@, clock)]
<1>1. clamped \in Content
  BY ClampedType
<1>2. ClientUpsert(d, k, c, clock) \in {NextVersion(d, k), Stored(d, k, clamped)}
  BY DEF ClientUpsert
<1> HIDE DEF clamped
<1> QED
  BY <1>1, <1>2, StoredSound, NextVersionSound

LEMMA RemovedNextSound ==
    ASSUME NEW d, Sound(d), NEW k \in Keys, NEW clock \in Nat
    PROVE  /\ Sound(NextVersion(Removed(d, k, clock), k))
           /\ WritesOf(d, NextVersion(Removed(d, k, clock), k), Owner[k])
<1> DEFINE e == Removed(d, k, clock)
<1>1. Sound(e) /\ WritesOf(d, e, Owner[k])
  BY RemovedSound
<1> HIDE DEF e
<1>2. Sound(NextVersion(e, k)) /\ WritesOf(e, NextVersion(e, k), Owner[k])
  BY <1>1, NextVersionSound
<1>3. WritesOf(d, NextVersion(e, k), Owner[k])
  BY <1>1, <1>2, WritesCompose
<1> QED
  BY <1>2, <1>3 DEF e

LEMMA ApplyDeletionSound ==
    ASSUME NEW d, Sound(d), NEW k \in Keys, NEW at \in Nat, NEW clock \in Nat
    PROVE  /\ Sound(ApplyDeletion(d, k, at, clock))
           /\ WritesOf(d, ApplyDeletion(d, k, at, clock), Owner[k])
<1>1. ApplyDeletion(d, k, at, clock) \in {d, NextVersion(Removed(d, k, clock), k)}
  BY DEF ApplyDeletion
<1> QED
  BY <1>1, RemovedNextSound, NoWrites

LEMMA ReplaceDataSound ==
    ASSUME NEW d, Sound(d), NEW k \in Keys, NEW clock \in Nat
    PROVE  /\ Sound(ReplaceData(d, k, clock))
           /\ WritesOf(d, ReplaceData(d, k, clock), Owner[k])
<1>1. ReplaceData(d, k, clock) \in {NextVersion(d, k), NextVersion(Removed(d, k, clock), k)}
  BY DEF ReplaceData
<1> QED
  BY <1>1, RemovedNextSound, NextVersionSound

\* Deleting an account leaves nothing of it, and logs each of its records.
LEMMA DeleteAccountSound ==
    ASSUME NEW d, Sound(d), NEW a \in Accounts, NEW clock \in Nat,
           NEW n \in Nat, NEW order \in [1..n -> Keys]
    PROVE  LET e == DeleteAccount(d, a, clock, order)
           IN  Sound(e) /\ WritesOf(d, e, a) /\ Empty(e, a)
<1> DEFINE e == DeleteAccount(d, a, clock, order)
           deletions == [i \in DOMAIN order |-> [key |-> order[i], op |-> "delete",
                                                at |-> DeletionTime(clock)]]
           left == [k \in Keys |-> IF Owner[k] = a THEN NoRow ELSE d.recs[k]]
<1>0. d \in Database
  BY DEF Sound
<1>1. deletions \in Seq(Change)
  <2>1. DeletionTime(clock) \in Nat
    BY TimeType
  <2>2. deletions \in [1..n -> Change]
    BY <2>1 DEF Change
  <2> HIDE DEF deletions
  <2> QED
    BY <2>2
<1> HIDE DEF deletions
<1>2. d.log \o deletions \in Seq(Change) /\ Len(d.log \o deletions) >= Len(d.log)
  <2>1. d.log \in Seq(Change)
    BY <1>0 DEF Database
  <2> QED
    BY <2>1, <1>1, ConcatProperties, LenProperties
<1>3. /\ e.users = d.users \ {a} /\ e.recs = left
      /\ e.vers = [d.vers EXCEPT ![a] = 0] /\ e.log = d.log \o deletions
      /\ e \in Database
  <2>1. left \in [Keys -> Row \cup {NoRow}]
    BY <1>0 DEF Database
  <2>2. e = [d EXCEPT !.users = @ \ {a}, !.recs = left, !.vers[a] = 0,
                      !.log = d.log \o deletions]
    BY DEF DeleteAccount, deletions
  <2> HIDE DEF e, left
  <2>3. e \in Database
    BY <1>0, <1>2, <2>1, <2>2 DEF Database
  <2> QED
    BY <1>0, <2>2, <2>3 DEF Database
<1>4. \A k \in Keys : Owner[k] = a => ~Present(e.recs[k])
  BY <1>3 DEF Present, NoRow
<1>5. \A k \in Keys : Owner[k] # a => e.recs[k] = d.recs[k] /\ e.vers[Owner[k]] = d.vers[Owner[k]]
  BY <1>0, <1>3, MeshStoreAssumption DEF Database
<1>6. DistinctVersions(e)
  BY <1>4, <1>5 DEF Sound, DistinctVersions
<1>7. Empty(e, a)
  BY <1>3, <1>4 DEF Empty, KeysOf
<1>8. WritesOf(d, e, a)
  BY <1>2, <1>3, <1>5 DEF WritesOf
<1> QED
  BY <1>3, <1>6, <1>7, <1>8 DEF Sound

-----------------------------------------------------------------------------
(* Storage                                                                   *)

LEMMA UsedType ==
    ASSUME NEW d, NEW a
    PROVE  IsFiniteSet(LiveKeys(d, a)) /\ Used(d, a) \in Nat
<1>1. LiveKeys(d, a) \subseteq Keys
  BY DEF LiveKeys, KeysOf
<1> QED
  BY <1>1, FS_Subset, FS_CardinalityType, MeshStoreAssumption DEF Used

\* Records that are gone take no storage.
LEMMA UsedMonotonic ==
    ASSUME NEW d, NEW e, NEW a,
           \A k \in KeysOf(a) : e.recs[k] = d.recs[k] \/ ~Present(e.recs[k])
    PROVE  Used(e, a) <= Used(d, a)
<1>1. LiveKeys(e, a) \subseteq LiveKeys(d, a)
  BY DEF LiveKeys
<1> QED
  BY <1>1, UsedType, FS_Subset DEF Used

LEMMA OthersUsed ==
    ASSUME NEW d, NEW e, NEW a, NEW b, WritesOf(d, e, a), b # a
    PROVE  Used(e, b) <= Used(d, b)
BY UsedMonotonic DEF WritesOf, KeysOf

-----------------------------------------------------------------------------
(* The invariant *)

\* A pull never has a cursor in hand that is ahead of its peer's log.
PagesInLog == \A n \in Nodes : pull[n].last <= Len(db[pull[n].peer].log)

\* An open transaction only added to the log of its database, and revives
\* none of the accounts deleted at its node.
StagesSound ==
    \A n \in Nodes :
        /\ DistinctVersions(stage[n])
        /\ pull[n].phase = "importing"
              => /\ Len(stage[n].log) >= Len(db[n].log)
                 /\ \A a \in tombs[n] : Empty(db[n], a) => Empty(stage[n], a)

Replicas ==
    /\ db \in [Nodes -> Database]
    /\ tombs \in [Nodes -> SUBSET Accounts]
    /\ VersionsUnique

Pulls ==
    /\ cursor \in [Nodes -> [Nodes -> Nat]]
    /\ \A n, m \in Nodes : cursor[n][m] <= Len(db[m].log)
    /\ pull \in [Nodes -> Pull]
    /\ stage \in [Nodes -> Database]
    /\ PagesInLog
    /\ StagesSound

Others ==
    /\ now \in 0..MaxTime
    /\ apps \in [Nodes -> SUBSET AllApps]
    /\ late \in [Nodes -> SUBSET Keys]
    /\ intent \in [Keys -> {"none", "kept", "gone"}]
    /\ written \in [Keys -> SUBSET Content]
    /\ requests \in 0..MaxRequests
    /\ failures \in 0..MaxFailures

IndInv == Replicas /\ Pulls /\ Others

LEMMA ClockType ==
    ASSUME IndInv, NEW n \in Nodes
    PROVE  Clock(n) \in Nat
BY MeshReplicationAssumption DEF IndInv, Others, Clock

LEMMA EmptyDatabaseSound ==
    /\ Sound(EmptyDatabase)
    /\ Len(EmptyDatabase.log) = 0
    /\ \A a \in Accounts : Empty(EmptyDatabase, a)
BY DEF Sound, EmptyDatabase, Database, DistinctVersions, Empty, Present, NoRow, KeysOf

LEMMA IdleType ==
    ASSUME NEW n \in Nodes
    PROVE  Idle(n) \in Pull /\ Idle(n).last = 0 /\ Idle(n).phase = "idle" /\ Idle(n).peer = n
BY DEF Idle, Pull, Phases

-----------------------------------------------------------------------------
(* Initial states *)

LEMMA InitialDatabaseSound ==
    ASSUME NEW legacy \in SUBSET Legacy
    PROVE  Sound(InitialDatabase(legacy))
<1> DEFINE fresh == [users |-> Accounts, recs |-> [k \in Keys |-> NoRow],
                     vers |-> [a \in Accounts |-> 0], log |-> <<>>]
           old   == [at |-> Beyond, dead |-> FALSE, rank |-> 1]
<1>1. Sound(fresh)
  BY DEF Sound, Database, DistinctVersions, Present, NoRow
<1>2. old \in Content
  BY MeshStoreAssumption, MeshReplicationAssumption DEF Content, Beyond
<1>3. CASE legacy = {}
  BY <1>1, <1>3 DEF InitialDatabase
<1>4. CASE legacy # {}
  <2> DEFINE k == CHOOSE k \in legacy : TRUE
  <2>1. k \in Keys
    BY <1>4, MeshReplicationAssumption
  <2>2. InitialDatabase(legacy) = Stored(fresh, k, old)
    BY <1>4 DEF InitialDatabase
  <2> HIDE DEF k, fresh, old
  <2> QED
    BY <1>1, <1>2, <2>1, <2>2, StoredSound
<1> QED
  BY <1>3, <1>4

LEMMA InitInv == Init => IndInv
<1> SUFFICES ASSUME Init PROVE IndInv
  OBVIOUS
<1> PICK legacy \in SUBSET Legacy : db = [n \in Nodes |-> InitialDatabase(legacy)]
  BY DEF Init
<1> DEFINE initial == InitialDatabase(legacy)
<1>1. Sound(initial) /\ initial \in Database
  BY InitialDatabaseSound DEF Sound
<1>2. Len(initial.log) \in Nat
  BY <1>1 DEF Database
<1>3. Replicas
  BY <1>1 DEF Init, Replicas, VersionsUnique, Sound
<1>4. Pulls
  <2>1. pull \in [Nodes -> Pull] /\ \A n \in Nodes : pull[n].last = 0 /\ pull[n].peer = n /\ pull[n].phase = "idle"
    BY IdleType DEF Init
  <2>2. stage \in [Nodes -> Database] /\ StagesSound
    BY <2>1, EmptyDatabaseSound DEF Init, StagesSound, Sound
  <2>3. PagesInLog
    BY <1>2, <2>1 DEF Init, PagesInLog
  <2> QED
    BY <1>2, <2>1, <2>2, <2>3 DEF Init, Pulls
<1>5. Others
  BY MeshReplicationAssumption DEF Init, Others, AllApps
<1> QED
  BY <1>3, <1>4, <1>5 DEF IndInv

-----------------------------------------------------------------------------
(* Steps of clients *)

\* A transaction of account a at node n, which leaves the accounts of `deleted`
\* deleted there.
LEMMA Transaction ==
    ASSUME IndInv, NEW n \in Nodes, pull[n].phase # "importing",
           NEW a \in Accounts, NEW d, Sound(d), WritesOf(db[n], d, a),
           NEW deleted \in SUBSET Accounts,
           \/ a \notin tombs[n] \cap deleted \/ Empty(d, a)
           \/ ~Empty(db[n], a) \/ late[n] \cap KeysOf(a) # {},
           db' = [db EXCEPT ![n] = d], tombs' = [tombs EXCEPT ![n] = deleted],
           UNCHANGED <<cursor, pull, stage>>
    PROVE  Replicas' /\ Pulls' /\ NoneRevived
<1> USE DEF IndInv
<1>1. d \in Database
  BY DEF Sound
<1>2. \A m \in Nodes : db[m] \in Database /\ db'[m] \in Database /\ (m # n => db'[m] = db[m])
  BY <1>1 DEF Replicas
<1>3. db'[n] = d /\ tombs'[n] = deleted /\ \A m \in Nodes : tombs[m] \subseteq Accounts
  BY DEF Replicas
<1>4. \A m \in Nodes : /\ Len(db[m].log) \in Nat /\ Len(db'[m].log) \in Nat
                        /\ Len(db'[m].log) >= Len(db[m].log)
  BY <1>2, <1>3 DEF WritesOf, Database
<1>5. Replicas'
  <2>1. VersionsUnique'
    BY <1>2, <1>3 DEF Replicas, VersionsUnique, Sound
  <2> QED
    BY <1>2, <2>1 DEF Replicas
<1>6. Pulls'
  <2>1. \A m \in Nodes : pull[m].last \in Nat /\ pull[m].peer \in Nodes
    BY DEF Pulls, Pull
  <2>2. PagesInLog'
    BY <1>4, <2>1 DEF Pulls, PagesInLog
  <2>3. \A m \in Nodes : m # n => tombs'[m] = tombs[m]
    BY DEF Replicas
  <2>4. StagesSound'
    BY <1>2, <2>3 DEF Pulls, StagesSound
  <2>5. \A m, p \in Nodes : cursor[m][p] \in Nat
    BY DEF Pulls
  <2>6. \A m, p \in Nodes : cursor[m][p] <= Len(db'[p].log)
    BY <1>4, <2>5 DEF Pulls
  <2> QED
    BY <2>2, <2>4, <2>6 DEF Pulls
<1>7. NoneRevived
  <2> SUFFICES ASSUME NEW m \in Nodes, NEW b \in tombs[m] \cap tombs'[m],
                      Empty(db[m], b), late[m] \cap KeysOf(b) = {}
               PROVE  Empty(db'[m], b)
    BY DEF NoneRevived
  <2>1. CASE m # n
    BY <1>2, <2>1
  <2>2. CASE m = n /\ b # a
    BY <1>3, <2>2, OthersEmpty
  <2>3. CASE m = n /\ b = a
    BY <1>3, <2>3
  <2> QED
    BY <2>1, <2>2, <2>3
<1> QED
  BY <1>5, <1>6, <1>7

\* A request that begins is of an account that the node has not deleted, or was
\* authenticated before.
LEMMA BeginsNotRevived ==
    ASSUME IndInv, NEW n \in Nodes, NEW k \in Keys, Begins(n, k)
    PROVE  /\ Owner[k] \in Accounts /\ late' \in [Nodes -> SUBSET Keys]
           /\ \/ Owner[k] \notin tombs[n]
              \/ ~Empty(db[n], Owner[k])
              \/ late[n] \cap KeysOf(Owner[k]) # {}
<1>1. late' \in [Nodes -> SUBSET Keys]
  BY DEF IndInv, Others, Begins
<1> QED
  BY <1>1, MeshStoreAssumption DEF Begins, Admitted, Empty, KeysOf

LEMMA DatabaseOf ==
    ASSUME IndInv, NEW n \in Nodes
    PROVE  Sound(db[n]) /\ Sound(stage[n])
BY DEF IndInv, Replicas, Pulls, VersionsUnique, StagesSound, Sound

\* The transaction of a request about key k.
LEMMA OwnerTransaction ==
    ASSUME IndInv, NEW n \in Nodes, pull[n].phase # "importing",
           NEW k \in Keys, Begins(n, k),
           NEW d, Sound(d), WritesOf(db[n], d, Owner[k]), db' = [db EXCEPT ![n] = d],
           UNCHANGED <<tombs, cursor, pull, stage>>
    PROVE  Replicas' /\ Pulls' /\ NoneRevived
<1> DEFINE deleted == tombs[n]
<1>1. deleted \in SUBSET Accounts /\ tombs' = [tombs EXCEPT ![n] = deleted]
  BY DEF IndInv, Replicas
<1>2. /\ Owner[k] \in Accounts
      /\ \/ Owner[k] \notin tombs[n] \cap deleted
         \/ ~Empty(db[n], Owner[k]) \/ late[n] \cap KeysOf(Owner[k]) # {}
  BY BeginsNotRevived
<1> HIDE DEF deleted
<1> QED
  BY <1>1, <1>2, Transaction

LEMMA SaveInv ==
    ASSUME IndInv, NEW n \in Nodes, pull[n].phase # "importing",
           NEW k \in Keys, NEW content \in Content, Save(n, k, content),
           UNCHANGED <<cursor, pull, stage>>
    PROVE  /\ Replicas' /\ Pulls' /\ NoneRevived
           /\ written' \in [Keys -> SUBSET Content] /\ late' \in [Nodes -> SUBSET Keys]
           /\ intent' \in [Keys -> {"none", "kept", "gone"}] /\ apps' = apps
<1> DEFINE u == UpsertUser(db[n], Owner[k])
           d == ClientUpsert(u, k, content, Clock(n))
<1>1. Clock(n) \in Nat /\ Owner[k] \in Accounts
  BY ClockType, MeshStoreAssumption
<1>2. Sound(db[n]) /\ Sound(u) /\ WritesOf(db[n], u, Owner[k])
  BY <1>1, DatabaseOf, UpsertUserSound
<1> HIDE DEF u
<1>3. Sound(d) /\ WritesOf(u, d, Owner[k])
  BY <1>1, <1>2, ClientUpsertSound
<1>4. db' = [db EXCEPT ![n] = d] /\ Begins(n, k) /\ UNCHANGED <<tombs, apps>>
  BY DEF Save, Committed, u
<1> HIDE DEF d
<1>5. WritesOf(db[n], d, Owner[k])
  BY <1>2, <1>3, WritesCompose
<1>6. Replicas' /\ Pulls' /\ NoneRevived /\ late' \in [Nodes -> SUBSET Keys]
  BY <1>3, <1>4, <1>5, OwnerTransaction, BeginsNotRevived
<1>7. written' \in [Keys -> SUBSET Content]
  <2>1. [content EXCEPT !.at = NormalizeWriteTime(@, Clock(n))] \in Content
    BY <1>1, ClampedType
  <2> QED
    BY <2>1 DEF Save, IndInv, Others
<1>8. intent' \in [Keys -> {"none", "kept", "gone"}]
  BY DEF Save, IndInv, Others
<1> QED
  BY <1>4, <1>6, <1>7, <1>8

\* What Request leaves of the variables that no client request changes.
LEMMA RequestRest ==
    ASSUME IndInv, NEW n \in Nodes, NEW kind, Request(n, kind)
    PROVE  /\ pull[n].phase # "importing"
           /\ UNCHANGED <<now, cursor, pull, stage, failures>>
           /\ now' \in 0..MaxTime /\ requests' \in 0..MaxRequests
           /\ failures' \in 0..MaxFailures
BY MeshReplicationAssumption DEF Request, IndInv, Others

LEMMA WriteInv ==
    ASSUME IndInv, NEW n \in Nodes, NEW k \in Keys, Write(n, k) \/ Tombstone(n, k)
    PROVE  IndInv' /\ NoneRevived
<1>1. \E kind : Request(n, kind)
  BY DEF Write, Tombstone
<1>2. PICK content \in Content : Save(n, k, content)
  <2>1. PICK at \in DeviceTimes, rank \in Ranks, dead \in BOOLEAN :
           Save(n, k, [at |-> at, dead |-> dead, rank |-> rank])
    BY DEF Write, Tombstone
  <2>2. at \in Nat /\ rank \in Nat
    BY MeshStoreAssumption, MeshReplicationAssumption DEF DeviceTimes
  <2>3. [at |-> at, dead |-> dead, rank |-> rank] \in Content
    BY <2>2 DEF Content
  <2> QED
    BY <2>1, <2>3
<1>3. /\ pull[n].phase # "importing" /\ UNCHANGED <<now, cursor, pull, stage, failures>>
      /\ now' \in 0..MaxTime /\ requests' \in 0..MaxRequests /\ failures' \in 0..MaxFailures
  BY <1>1, RequestRest
<1>4. /\ Replicas' /\ Pulls' /\ NoneRevived
      /\ written' \in [Keys -> SUBSET Content] /\ late' \in [Nodes -> SUBSET Keys]
      /\ intent' \in [Keys -> {"none", "kept", "gone"}] /\ apps' = apps
  BY <1>2, <1>3, SaveInv
<1> QED
  BY <1>3, <1>4 DEF IndInv, Others

LEMMA ClearInv ==
    ASSUME IndInv, NEW n \in Nodes, NEW k \in Keys, Clear(n, k)
    PROVE  IndInv' /\ NoneRevived
<1> DEFINE u == UpsertUser(db[n], Owner[k])
           d == ReplaceData(u, k, Clock(n))
<1>1. Clock(n) \in Nat /\ Owner[k] \in Accounts
  BY ClockType, MeshStoreAssumption
<1>2. Sound(db[n]) /\ Sound(u) /\ WritesOf(db[n], u, Owner[k])
  BY <1>1, DatabaseOf, UpsertUserSound
<1> HIDE DEF u
<1>3. Sound(d) /\ WritesOf(u, d, Owner[k])
  BY <1>1, <1>2, ReplaceDataSound
<1>4. /\ db' = [db EXCEPT ![n] = d] /\ Begins(n, k) /\ Request(n, "clear")
      /\ UNCHANGED <<tombs, apps, written>>
  BY DEF Clear, u, IndInv, Replicas
<1>5. intent' \in [Keys -> {"none", "kept", "gone"}]
  BY DEF Clear, IndInv, Others
<1> HIDE DEF d
<1>6. WritesOf(db[n], d, Owner[k])
  BY <1>2, <1>3, WritesCompose
<1>7. /\ pull[n].phase # "importing" /\ UNCHANGED <<now, cursor, pull, stage, failures>>
      /\ now' \in 0..MaxTime /\ requests' \in 0..MaxRequests /\ failures' \in 0..MaxFailures
  BY <1>4, RequestRest
<1>8. Replicas' /\ Pulls' /\ NoneRevived /\ late' \in [Nodes -> SUBSET Keys]
  BY <1>3, <1>4, <1>6, <1>7, OwnerTransaction, BeginsNotRevived
<1> QED
  BY <1>4, <1>5, <1>7, <1>8 DEF IndInv, Others

LEMMA ResyncInv ==
    ASSUME IndInv, NEW n \in Nodes, NEW k \in Keys, Resync(n, k)
    PROVE  IndInv' /\ NoneRevived
<1> DEFINE r == db[n].recs[k]
           content == [at |-> r.at, dead |-> FALSE, rank |-> r.rank]
           u == ReplaceData(db[n], k, Clock(n))
           d == ClientUpsert(u, k, content, Clock(n))
<1>1. Clock(n) \in Nat /\ Sound(db[n])
  BY ClockType, DatabaseOf
<1>2. content \in Content
  BY <1>1 DEF Resync, Sound, Database, Row, NoRow, Present, Content
<1>3. Sound(u) /\ WritesOf(db[n], u, Owner[k])
  BY <1>1, ReplaceDataSound
<1>4. /\ db' = [db EXCEPT ![n] = d] /\ Begins(n, k) /\ Request(n, "resync")
      /\ UNCHANGED <<tombs, apps, written>>
  BY DEF Resync, Committed
<1>5. intent' \in [Keys -> {"none", "kept", "gone"}]
  BY DEF Resync, IndInv, Others
<1> HIDE DEF u, content
<1>6. Sound(d) /\ WritesOf(u, d, Owner[k])
  BY <1>1, <1>2, <1>3, ClientUpsertSound
<1> HIDE DEF d
<1>7. WritesOf(db[n], d, Owner[k])
  BY <1>1, <1>3, <1>6, WritesCompose
<1>8. /\ pull[n].phase # "importing" /\ UNCHANGED <<now, cursor, pull, stage, failures>>
      /\ now' \in 0..MaxTime /\ requests' \in 0..MaxRequests /\ failures' \in 0..MaxFailures
  BY <1>4, RequestRest
<1>9. Replicas' /\ Pulls' /\ NoneRevived /\ late' \in [Nodes -> SUBSET Keys]
  BY <1>4, <1>6, <1>7, <1>8, OwnerTransaction, BeginsNotRevived
<1> QED
  BY <1>4, <1>5, <1>8, <1>9 DEF IndInv, Others

LEMMA RegisterInv ==
    ASSUME IndInv, NEW n \in Nodes, NEW a \in Accounts, Register(n, a)
    PROVE  IndInv' /\ NoneRevived
<1> DEFINE d == UpsertUser(db[n], a)
           deleted == tombs[n] \ {a}
<1>1. Sound(d) /\ WritesOf(db[n], d, a)
  BY DatabaseOf, UpsertUserSound
<1>2. /\ db' = [db EXCEPT ![n] = d] /\ tombs' = [tombs EXCEPT ![n] = deleted]
      /\ Request(n, "register") /\ UNCHANGED <<apps, late, intent, written>>
  BY DEF Register
<1>3. deleted \in SUBSET Accounts /\ a \notin deleted
  BY DEF IndInv, Replicas
<1>4. /\ pull[n].phase # "importing" /\ UNCHANGED <<now, cursor, pull, stage, failures>>
      /\ now' \in 0..MaxTime /\ requests' \in 0..MaxRequests /\ failures' \in 0..MaxFailures
  BY <1>2, RequestRest
<1> HIDE DEF d, deleted
<1>5. Replicas' /\ Pulls' /\ NoneRevived
  BY <1>1, <1>2, <1>3, <1>4, Transaction
<1> QED
  BY <1>2, <1>4, <1>5 DEF IndInv, Others

LEMMA UnregisterInv ==
    ASSUME IndInv, NEW n \in Nodes, NEW a \in Accounts, Unregister(n, a)
    PROVE  IndInv' /\ NoneRevived
<1> DEFINE gone == {k \in KeysOf(a) : Present(db[n].recs[k])}
<1>1. PICK order \in Orders(gone) : db' = [db EXCEPT ![n] = DeleteAccount(@, a, Clock(n), order)]
  BY DEF Unregister
<1>2. Cardinality(gone) \in Nat
  <2>1. gone \subseteq Keys
    BY DEF KeysOf
  <2> QED
    BY <2>1, FS_Subset, FS_CardinalityType, MeshStoreAssumption
<1>3. order \in [1..Cardinality(gone) -> Keys]
  BY <1>1 DEF Orders, KeysOf
<1> DEFINE d == DeleteAccount(db[n], a, Clock(n), order)
           deleted == tombs[n] \cup {a}
<1>4. Sound(d) /\ WritesOf(db[n], d, a) /\ Empty(d, a)
  BY <1>2, <1>3, ClockType, DatabaseOf, DeleteAccountSound
<1>5. /\ db' = [db EXCEPT ![n] = d] /\ tombs' = [tombs EXCEPT ![n] = deleted]
      /\ Request(n, "unregister") /\ UNCHANGED <<apps, late, written>>
  BY <1>1 DEF Unregister, IndInv, Replicas
<1>6. deleted \in SUBSET Accounts
  BY DEF IndInv, Replicas
<1>7. intent' \in [Keys -> {"none", "kept", "gone"}]
  BY DEF Unregister, IndInv, Others
<1>8. /\ pull[n].phase # "importing" /\ UNCHANGED <<now, cursor, pull, stage, failures>>
      /\ now' \in 0..MaxTime /\ requests' \in 0..MaxRequests /\ failures' \in 0..MaxFailures
  BY <1>5, RequestRest
<1> HIDE DEF d, deleted
<1>9. Replicas' /\ Pulls' /\ NoneRevived
  BY <1>4, <1>5, <1>6, <1>8, Transaction
<1> QED
  BY <1>5, <1>7, <1>8, <1>9 DEF IndInv, Others

LEMMA AuthenticateInv ==
    ASSUME IndInv, NEW n \in Nodes, NEW k \in Keys, Authenticate(n, k)
    PROVE  IndInv'
<1>1. late' \in [Nodes -> SUBSET Keys]
  BY DEF Authenticate, IndInv, Others
<1>2. UNCHANGED <<now, db, tombs, apps, cursor, pull, stage, intent, written, requests, failures>>
  BY DEF Authenticate
<1> QED
  BY <1>1, <1>2 DEF IndInv, Replicas, Pulls, Others, VersionsUnique, PagesInLog, StagesSound

LEMMA InstallAppInv ==
    ASSUME IndInv, NEW n \in Nodes, NEW app \in AllApps, InstallApp(n, app)
    PROVE  IndInv'
<1>1. /\ UNCHANGED <<now, cursor, pull, stage, failures>>
      /\ now' \in 0..MaxTime /\ requests' \in 0..MaxRequests /\ failures' \in 0..MaxFailures
  BY RequestRest DEF InstallApp
<1>2. UNCHANGED <<db, tombs, late, intent, written>> /\ apps' \in [Nodes -> SUBSET AllApps]
  BY DEF InstallApp, IndInv, Others
<1>3. Replicas' /\ Pulls'
  BY <1>1, <1>2 DEF IndInv, Replicas, Pulls, VersionsUnique,
                    PagesInLog, StagesSound
<1> QED
  BY <1>1, <1>2, <1>3 DEF IndInv, Others

-----------------------------------------------------------------------------
(* Steps of a pull *)

\* A page holds items of the peer's log, and its cursor is a place in it.
LEMMA PageType ==
    ASSUME IndInv, NEW n \in Nodes, NEW m \in Nodes, NEW from \in Nat
    PROVE  /\ Emitted(n, m, from) \subseteq 1..Len(db[m].log)
           /\ \A i \in Emitted(n, m, from) : ItemOf(m, i) \in Item
           /\ ExportedApps(n, m) \subseteq AllApps
<1>1. db[m] \in Database /\ db[m].log \in Seq(Change) /\ Len(db[m].log) \in Nat
  BY DEF IndInv, Replicas, Database
<1>2. Emitted(n, m, from) \subseteq 1..Len(db[m].log)
  BY <1>1 DEF Emitted, Exportable
<1>3. ASSUME NEW i \in Emitted(n, m, from)
      PROVE  ItemOf(m, i) \in Item
  <2>1. i \in Nat /\ db[m].log[i] \in Change
    BY <1>1, <1>2
  <2>2. \/ db[m].log[i].op = "delete"
        \/ Present(db[m].recs[db[m].log[i].key])
    BY <1>3 DEF Emitted, Exportable
  <2>3. Present(db[m].recs[db[m].log[i].key]) => db[m].recs[db[m].log[i].key] \in Row
    BY <1>1, <2>1 DEF Present, Database, NoRow, Change
  <2> QED
    BY <2>1, <2>2, <2>3 DEF ItemOf, Item, Change, Row
<1>4. ExportedApps(n, m) \subseteq AllApps
  BY DEF ExportedApps, IndInv, Others
<1> QED
  BY <1>2, <1>3, <1>4

LEMMA FetchInv ==
    ASSUME IndInv, NEW n \in Nodes, NEW m \in Nodes, Fetch(n, m)
    PROVE  IndInv'
<1> DEFINE rows == Emitted(n, m, cursor[n][m])
           sent == pull[n].apps
<1>1. cursor[n][m] \in Nat
  BY DEF IndInv, Pulls
<1>2. /\ rows \subseteq 1..Len(db[m].log) /\ \A i \in rows : ItemOf(m, i) \in Item
      /\ sent \subseteq AllApps /\ Len(db[m].log) \in Nat
  <2>1. sent \subseteq AllApps
    BY DEF IndInv, Pulls, Pull
  <2> QED
    BY <1>1, <2>1, PageType DEF IndInv, Replicas, Database
<1>3. UNCHANGED <<now, db, tombs, apps, cursor, stage, late, intent, written, requests, failures>>
  BY DEF Fetch
<1>4. PICK p \in Pull : /\ pull' = [pull EXCEPT ![n] = p] /\ p.phase # "importing"
                        /\ p.last <= Len(db[p.peer].log)
  <2>1. CASE pull' = [pull EXCEPT ![n] = Idle(n)]
    <3>1. Idle(n) \in Pull /\ Idle(n).last <= Len(db[n].log) /\ Idle(n).phase = "idle" /\ Idle(n).peer = n
      BY IdleType DEF IndInv, Replicas, Database
    <3> QED
      BY <2>1, <3>1
  <2>2. CASE pull' # [pull EXCEPT ![n] = Idle(n)]
    <3>1. PICK last \in rows \cup {0} :
             pull' = [pull EXCEPT ![n] =
                        [phase |-> "fetched", peer |-> m,
                         rest |-> {ItemOf(m, i) : i \in rows}, apps |-> sent, known |-> {},
                         last |-> last, truncated |-> Cardinality(rows) >= Batch,
                         pages |-> pull[n].pages + 1]]
      BY <2>2 DEF Fetch
    <3>2. last \in Nat /\ last <= Len(db[m].log)
      BY <1>2
    <3>3. pull[n].pages + 1 \in Nat
      BY DEF IndInv, Pulls, Pull
    <3> DEFINE p == [phase |-> "fetched", peer |-> m,
                     rest |-> {ItemOf(m, i) : i \in rows}, apps |-> sent, known |-> {},
                     last |-> last, truncated |-> Cardinality(rows) >= Batch,
                     pages |-> pull[n].pages + 1]
    <3>4. (Cardinality(rows) >= Batch) \in BOOLEAN
      OBVIOUS
    <3>5. p \in Pull
      BY <1>2, <3>2, <3>3, <3>4 DEF Pull, Phases
    <3>6. p.last <= Len(db[p.peer].log) /\ p.phase # "importing"
      BY <3>2
    <3> QED
      BY <3>1, <3>5, <3>6
  <2> QED
    BY <2>1, <2>2
<1>5. pull' \in [Nodes -> Pull] /\ pull'[n] = p /\ \A x \in Nodes : x # n => pull'[x] = pull[x]
  BY <1>4 DEF IndInv, Pulls
<1>6. Replicas' /\ Others'
  BY <1>3 DEF IndInv, Replicas, Others, VersionsUnique
<1>7. Pulls'
  <2>1. PagesInLog'
    BY <1>3, <1>4, <1>5 DEF IndInv, Pulls, PagesInLog
  <2>2. StagesSound'
    BY <1>3, <1>4, <1>5 DEF IndInv, Pulls, StagesSound
  <2> QED
    BY <1>3, <1>5, <2>1, <2>2 DEF IndInv, Pulls
<1> QED
  BY <1>6, <1>7 DEF IndInv

\* Moving a pull to another phase keeps the rest of it.
LEMMA PhaseType ==
    ASSUME IndInv, NEW n \in Nodes, NEW phase \in Phases,
           pull' = [pull EXCEPT ![n].phase = phase]
    PROVE  /\ pull' \in [Nodes -> Pull] /\ \A x \in Nodes : x # n => pull'[x] = pull[x]
           /\ pull'[n].last = pull[n].last /\ pull'[n].peer = pull[n].peer
           /\ pull'[n].phase = phase
<1>1. pull \in [Nodes -> Pull] /\ pull[n] \in Pull
  BY DEF IndInv, Pulls
<1> DEFINE p == [pull[n] EXCEPT !.phase = phase]
<1>2. /\ p \in Pull /\ p.last = pull[n].last /\ p.peer = pull[n].peer /\ p.phase = phase
  BY <1>1 DEF Pull
<1>3. pull' = [pull EXCEPT ![n] = p]
  OBVIOUS
<1> HIDE DEF p
<1> QED
  BY <1>1, <1>2, <1>3

\* The steps of a pull between its changes: a request, the peer's two readings of
\* its apps, and the installation and the reading of the page's.
Handles(n) == (\E m \in Nodes : Ask(n, m)) \/ Match(n) \/ Install(n) \/ Load(n)

\* What they change of a pull, whose changes and cursor in hand stay or are none.
Handled(p, q) ==
    /\ q.phase \in {"asked", "matched", "fetched", "loaded"}
    /\ \/ q.phase = "asked" /\ q.rest = {} /\ q.last = 0
       \/ q.phase = "matched" /\ p.phase = "asked" /\ q.rest = p.rest /\ q.last = p.last /\ q.peer = p.peer
       \/ q.phase = "fetched" /\ p.phase = "fetched" /\ q.rest = p.rest /\ q.last = p.last /\ q.peer = p.peer
       \/ q.phase = "loaded" /\ p.phase = "fetched" /\ q.rest = p.rest /\ q.last = p.last /\ q.peer = p.peer

LEMMA HandlesMoves ==
    ASSUME IndInv, NEW n \in Nodes, Handles(n)
    PROVE  /\ UNCHANGED <<now, db, tombs, cursor, stage, late, intent, written, requests, failures>>
           /\ apps' \in [Nodes -> SUBSET AllApps]
           /\ pull' \in [Nodes -> Pull] /\ \A x \in Nodes : x # n => pull'[x] = pull[x]
           /\ Handled(pull[n], pull'[n])
<1>0. /\ pull \in [Nodes -> Pull] /\ pull[n] \in Pull /\ apps \in [Nodes -> SUBSET AllApps]
      /\ pull[n].peer \in Nodes
  BY DEF IndInv, Pulls, Pull, Others
<1>1. UNCHANGED <<now, db, tombs, cursor, stage, late, intent, written, requests, failures>>
  BY DEF Handles, Ask, Match, Install, Load
<1>2. ASSUME NEW q \in Pull, pull' = [pull EXCEPT ![n] = q], Handled(pull[n], q)
      PROVE  /\ pull' \in [Nodes -> Pull] /\ \A x \in Nodes : x # n => pull'[x] = pull[x]
             /\ Handled(pull[n], pull'[n])
  <2>1. pull'[n] = q
    BY <1>0, <1>2
  <2> QED
    BY <1>0, <1>2, <2>1
<1>3. ASSUME NEW m \in Nodes, Ask(n, m)
      PROVE  /\ apps' = apps
             /\ pull' \in [Nodes -> Pull] /\ \A x \in Nodes : x # n => pull'[x] = pull[x]
             /\ Handled(pull[n], pull'[n])
  <2> DEFINE q == [Idle(n) EXCEPT !.phase = "asked", !.peer = m, !.apps = ExportedApps(n, m),
                                  !.pages = pull[n].pages]
  <2>1. ExportedApps(n, m) \subseteq AllApps /\ pull[n].pages \in Nat
    BY <1>0 DEF ExportedApps, Pull
  <2>2. q \in Pull /\ q.phase = "asked" /\ q.rest = {} /\ q.last = 0
    BY <2>1 DEF Idle, Pull, Phases
  <2>3. pull' = [pull EXCEPT ![n] = q] /\ apps' = apps
    BY <1>3 DEF Ask
  <2> HIDE DEF q
  <2> QED
    BY <1>2, <2>2, <2>3 DEF Handled
<1>4. CASE Match(n)
  <2> DEFINE q == [pull[n] EXCEPT !.phase = "matched", !.known = apps[pull[n].peer]]
  <2>1. /\ q \in Pull /\ q.phase = "matched" /\ q.rest = pull[n].rest
        /\ q.last = pull[n].last /\ q.peer = pull[n].peer
    BY <1>0 DEF Pull, Phases
  <2>2. pull' = [pull EXCEPT ![n] = q] /\ apps' = apps /\ pull[n].phase = "asked"
    BY <1>4 DEF Match
  <2> HIDE DEF q
  <2> QED
    BY <1>0, <1>1, <1>2, <2>1, <2>2 DEF Handled
<1>5. CASE Install(n)
  <2>1. PICK app \in pull[n].apps : /\ apps' = [apps EXCEPT ![n] = @ \cup {app}]
                                    /\ pull' = [pull EXCEPT ![n].apps = @ \ {app}]
    BY <1>5 DEF Install
  <2> DEFINE q == [pull[n] EXCEPT !.apps = @ \ {app}]
  <2>2. /\ q \in Pull /\ q.phase = pull[n].phase /\ q.rest = pull[n].rest
        /\ q.last = pull[n].last /\ q.peer = pull[n].peer
    BY <1>0 DEF Pull
  <2>3. pull' = [pull EXCEPT ![n] = q] /\ pull[n].phase = "fetched"
    BY <1>5, <2>1 DEF Install
  <2> HIDE DEF q
  <2>4. apps' \in [Nodes -> SUBSET AllApps]
    BY <1>0, <2>1 DEF Pull
  <2> QED
    BY <1>1, <1>2, <2>2, <2>3, <2>4 DEF Handled
<1>6. CASE Load(n)
  <2> DEFINE q == [pull[n] EXCEPT !.phase = "loaded", !.known = apps[n]]
  <2>1. /\ q \in Pull /\ q.phase = "loaded" /\ q.rest = pull[n].rest
        /\ q.last = pull[n].last /\ q.peer = pull[n].peer
    BY <1>0 DEF Pull, Phases
  <2>2. pull' = [pull EXCEPT ![n] = q] /\ apps' = apps /\ pull[n].phase = "fetched"
    BY <1>6 DEF Load
  <2> HIDE DEF q
  <2> QED
    BY <1>0, <1>1, <1>2, <2>1, <2>2 DEF Handled
<1> QED
  BY <1>0, <1>1, <1>3, <1>4, <1>5, <1>6 DEF Handles

LEMMA HandlesInv ==
    ASSUME IndInv, NEW n \in Nodes, Handles(n)
    PROVE  IndInv'
<1>1. /\ UNCHANGED <<now, db, tombs, cursor, stage, late, intent, written, requests, failures>>
      /\ apps' \in [Nodes -> SUBSET AllApps]
      /\ pull' \in [Nodes -> Pull] /\ \A x \in Nodes : x # n => pull'[x] = pull[x]
      /\ Handled(pull[n], pull'[n])
  BY HandlesMoves
<1>2. Replicas' /\ Others'
  BY <1>1 DEF IndInv, Replicas, Others, VersionsUnique
<1>3. PagesInLog'
  <2>1. \A m \in Nodes : Len(db[m].log) \in Nat
    BY DEF IndInv, Replicas, Database
  <2>2. pull'[n].peer \in Nodes
    BY <1>1 DEF Pull
  <2>3. pull'[n].last = 0 \/ (pull'[n].last = pull[n].last /\ pull'[n].peer = pull[n].peer)
    BY <1>1 DEF Handled
  <2>4. pull'[n].last <= Len(db[pull'[n].peer].log)
    BY <2>1, <2>2, <2>3 DEF IndInv, Pulls, PagesInLog
  <2> QED
    BY <1>1, <2>4 DEF IndInv, Pulls, PagesInLog
<1>4. StagesSound'
  BY <1>1 DEF IndInv, Pulls, StagesSound, Handled
<1> QED
  BY <1>1, <1>2, <1>3, <1>4 DEF IndInv, Pulls

LEMMA BeginInv ==
    ASSUME IndInv, NEW n \in Nodes, Begin(n)
    PROVE  IndInv'
<1>1. /\ UNCHANGED <<now, db, tombs, apps, cursor, late, intent, written, requests, failures>>
      /\ stage' = [stage EXCEPT ![n] = db[n]]
      /\ pull' = [pull EXCEPT ![n].phase = "importing"]
  BY DEF Begin
<1>2. /\ pull' \in [Nodes -> Pull] /\ \A x \in Nodes : x # n => pull'[x] = pull[x]
      /\ pull'[n].last = pull[n].last /\ pull'[n].peer = pull[n].peer
  BY <1>1, PhaseType DEF Phases
<1>3. stage' \in [Nodes -> Database] /\ stage'[n] = db[n] /\ \A x \in Nodes : x # n => stage'[x] = stage[x]
  BY <1>1 DEF IndInv, Pulls, Replicas
<1>4. Replicas' /\ Others'
  BY <1>1 DEF IndInv, Replicas, Others, VersionsUnique
<1>5. Pulls'
  <2>1. PagesInLog'
    BY <1>1, <1>2 DEF IndInv, Pulls, PagesInLog
  <2>2. Len(db[n].log) \in Nat
    BY DEF IndInv, Replicas, Database
  <2>3. StagesSound'
    BY <1>1, <1>2, <1>3, <2>2 DEF IndInv, Pulls, StagesSound, Replicas, VersionsUnique
  <2> QED
    BY <1>1, <1>2, <1>3, <2>1, <2>3 DEF IndInv, Pulls
<1> QED
  BY <1>4, <1>5 DEF IndInv

LEMMA AppliedSound ==
    ASSUME IndInv, NEW n \in Nodes, NEW d, Sound(d), NEW item \in Item
    PROVE  /\ Sound(Applied(n, d, item))
           /\ \/ Applied(n, d, item) = d
              \/ /\ Owner[item.key] \notin tombs[n]
                 /\ WritesOf(d, Applied(n, d, item), Owner[item.key])
<1> DEFINE k == item.key
           c == [at |-> item.at, dead |-> item.dead, rank |-> item.rank]
           u == UpsertUser(d, Owner[k])
<1>1. /\ k \in Keys /\ Owner[k] \in Accounts /\ c \in Content /\ item.at \in Nat
      /\ Clock(n) \in Nat
  BY ClockType, MeshStoreAssumption DEF Item, Content
<1>2. CASE Applied(n, d, item) = d
  BY <1>2
<1>3. CASE /\ Owner[k] \notin tombs[n]
           /\ Applied(n, d, item) = ApplyDeletion(d, k, item.at, Clock(n))
  BY <1>1, <1>3, ApplyDeletionSound
<1>4. CASE /\ Owner[k] \notin tombs[n]
           /\ Applied(n, d, item) = UpsertRecord(u, k, c, Clock(n))
  <2>1. Sound(u) /\ WritesOf(d, u, Owner[k])
    BY <1>1, UpsertUserSound
  <2> DEFINE e == UpsertRecord(u, k, c, Clock(n))
  <2> HIDE DEF u, c
  <2>2. Sound(e) /\ WritesOf(u, e, Owner[k])
    BY <1>1, <2>1, UpsertRecordSound
  <2> HIDE DEF e
  <2>3. WritesOf(d, e, Owner[k])
    BY <2>1, <2>2, WritesCompose
  <2> QED
    BY <1>4, <2>2, <2>3 DEF e
<1> QED
  BY <1>2, <1>3, <1>4 DEF Applied

LEMMA ApplyChangeInv ==
    ASSUME IndInv, NEW n \in Nodes, ApplyChange(n)
    PROVE  IndInv'
<1>1. PICK item \in pull[n].rest :
         /\ stage' = [stage EXCEPT ![n] = Applied(n, @, item)]
         /\ pull' = [pull EXCEPT ![n].rest = @ \ {item}]
  BY DEF ApplyChange
<1>2. /\ pull[n].phase = "importing"
      /\ UNCHANGED <<now, db, tombs, apps, cursor, late, intent, written, requests, failures>>
  BY DEF ApplyChange
<1>3. pull \in [Nodes -> Pull] /\ pull[n] \in Pull /\ item \in Item
  BY DEF IndInv, Pulls, Pull
<1> DEFINE p == [pull[n] EXCEPT !.rest = @ \ {item}]
           e == Applied(n, stage[n], item)
<1>4. /\ p \in Pull /\ p.last = pull[n].last /\ p.peer = pull[n].peer
      /\ p.phase = pull[n].phase
  BY <1>3 DEF Pull
<1>5. pull' = [pull EXCEPT ![n] = p]
  BY <1>1
<1> HIDE DEF p
<1>6. /\ pull' \in [Nodes -> Pull] /\ \A x \in Nodes : x # n => pull'[x] = pull[x]
      /\ pull'[n] = p
  BY <1>3, <1>4, <1>5
<1>7. /\ Sound(e)
      /\ \/ e = stage[n]
         \/ Owner[item.key] \notin tombs[n] /\ WritesOf(stage[n], e, Owner[item.key])
  BY <1>3, AppliedSound, DatabaseOf
<1>8. stage' = [stage EXCEPT ![n] = e]
  BY <1>1 DEF IndInv, Pulls
<1> HIDE DEF e
<1>9. stage' \in [Nodes -> Database] /\ stage'[n] = e /\ \A x \in Nodes : x # n => stage'[x] = stage[x]
  BY <1>7, <1>8 DEF IndInv, Pulls, Sound
<1>10. Replicas' /\ Others'
  BY <1>2 DEF IndInv, Replicas, Others, VersionsUnique
<1>11. Pulls'
  <2>1. PagesInLog'
    BY <1>2, <1>4, <1>6 DEF IndInv, Pulls, PagesInLog
  <2>2. /\ Len(stage[n].log) >= Len(db[n].log) /\ Len(db[n].log) \in Nat
        /\ Len(stage[n].log) \in Nat /\ Len(e.log) \in Nat
        /\ \A a \in tombs[n] : a \in Accounts /\ (Empty(db[n], a) => Empty(stage[n], a))
    BY <1>2, <1>7 DEF IndInv, Pulls, Replicas, StagesSound, Database, Sound
  <2>3. Len(e.log) >= Len(db[n].log)
    BY <1>7, <2>2 DEF WritesOf
  <2>4. \A a \in tombs[n] : Empty(db[n], a) => Empty(e, a)
    BY <1>7, <2>2, OthersEmpty
  <2>5. StagesSound'
    BY <1>2, <1>4, <1>6, <1>7, <1>9, <2>3, <2>4 DEF IndInv, Pulls, StagesSound, Sound
  <2> QED
    BY <1>2, <1>6, <1>9, <2>1, <2>5 DEF IndInv, Pulls
<1> QED
  BY <1>10, <1>11 DEF IndInv

\* A pull that ends, in whatever way, leaves no transaction open.
LEMMA IdleInv ==
    ASSUME IndInv, NEW n \in Nodes, NEW p \in Pull,
           pull' = [pull EXCEPT ![n] = p], p.phase # "importing", p.last = 0,
           stage' \in {stage, [stage EXCEPT ![n] = EmptyDatabase]},
           UNCHANGED <<db, tombs>>,
           cursor' \in [Nodes -> [Nodes -> Nat]],
           \A x, m \in Nodes : cursor'[x][m] <= Len(db[m].log)
    PROVE  Replicas' /\ Pulls'
<1>1. /\ pull' \in [Nodes -> Pull] /\ \A x \in Nodes : x # n => pull'[x] = pull[x]
      /\ pull'[n] = p /\ p.peer \in Nodes
  BY DEF IndInv, Pulls, Pull
<1>2. /\ stage' \in [Nodes -> Database]
      /\ \A x \in Nodes : stage'[x] = stage[x] \/ (x = n /\ stage'[x] = EmptyDatabase)
  BY EmptyDatabaseSound DEF IndInv, Pulls, Sound
<1>3. Replicas'
  BY DEF IndInv, Replicas, VersionsUnique
<1>4. PagesInLog'
  <2>1. 0 <= Len(db[p.peer].log)
    BY <1>1 DEF IndInv, Replicas, Database
  <2>2. \A x \in Nodes : pull'[x].last <= Len(db[pull'[x].peer].log)
    BY <1>1, <2>1 DEF IndInv, Pulls, PagesInLog
  <2> QED
    BY <2>2 DEF PagesInLog
<1>5. StagesSound'
  BY <1>1, <1>2, EmptyDatabaseSound DEF IndInv, Pulls, StagesSound, Sound
<1> QED
  BY <1>1, <1>2, <1>3, <1>4, <1>5 DEF Pulls

LEMMA RejectInv ==
    ASSUME IndInv, NEW n \in Nodes, Reject(n) \/ Fail(n)
    PROVE  IndInv'
<1>1. /\ pull' = [pull EXCEPT ![n] = Idle(n)]
      /\ stage' = [stage EXCEPT ![n] = EmptyDatabase]
      /\ UNCHANGED <<now, db, tombs, apps, cursor, late, intent, written, requests>>
      /\ failures' \in 0..MaxFailures
  BY MeshReplicationAssumption DEF Reject, Fail, IndInv, Others
<1>2. /\ cursor' \in [Nodes -> [Nodes -> Nat]]
      /\ \A x, m \in Nodes : cursor'[x][m] <= Len(db[m].log)
  BY <1>1 DEF IndInv, Pulls
<1>3. Idle(n) \in Pull /\ Idle(n).phase # "importing" /\ Idle(n).last = 0
  BY IdleType
<1>4. Replicas' /\ Pulls'
  BY <1>1, <1>2, <1>3, IdleInv
<1> QED
  BY <1>1, <1>4 DEF IndInv, Others

\* A commit puts the transaction in the database's place: cursors and pages
\* that were within the old log are within the longer one.
LEMMA CommitInv ==
    ASSUME IndInv, NEW n \in Nodes, Commit(n)
    PROVE  IndInv' /\ NoneRevived
<1>1. /\ pull[n].phase = "importing"
      /\ db' = [db EXCEPT ![n] = stage[n]]
      /\ stage' = [stage EXCEPT ![n] = EmptyDatabase]
      /\ pull' = [pull EXCEPT ![n].phase = "imported"]
      /\ UNCHANGED <<now, tombs, apps, cursor, late, intent, written, requests, failures>>
  BY DEF Commit
<1>2. /\ pull' \in [Nodes -> Pull] /\ \A x \in Nodes : x # n => pull'[x] = pull[x]
      /\ pull'[n].last = pull[n].last /\ pull'[n].peer = pull[n].peer
      /\ pull'[n].phase = "imported"
  BY <1>1, PhaseType DEF Phases
<1>3. /\ db' \in [Nodes -> Database] /\ db'[n] = stage[n]
      /\ \A x \in Nodes : x # n => db'[x] = db[x]
  BY <1>1 DEF IndInv, Replicas, Pulls
<1>4. /\ stage' \in [Nodes -> Database] /\ stage'[n] = EmptyDatabase
      /\ \A x \in Nodes : x # n => stage'[x] = stage[x]
  BY <1>1, EmptyDatabaseSound DEF IndInv, Pulls, Sound
<1>5. /\ Len(stage[n].log) >= Len(db[n].log)
      /\ \A a \in tombs[n] : Empty(db[n], a) => Empty(stage[n], a)
      /\ DistinctVersions(stage[n])
  BY <1>1 DEF IndInv, Pulls, StagesSound
<1>6. \A m \in Nodes : /\ Len(db[m].log) \in Nat /\ Len(db'[m].log) \in Nat
                        /\ Len(db'[m].log) >= Len(db[m].log)
  <2>1. \A m \in Nodes : Len(db[m].log) \in Nat /\ Len(db'[m].log) \in Nat
    BY <1>3 DEF IndInv, Replicas, Database
  <2> QED
    BY <1>3, <1>5, <2>1
<1>7. Replicas'
  BY <1>1, <1>3, <1>5 DEF IndInv, Replicas, VersionsUnique
<1>8. Pulls'
  <2>1. \A x \in Nodes : /\ pull'[x].peer \in Nodes /\ pull'[x].last \in Nat
                          /\ pull'[x].last <= Len(db[pull'[x].peer].log)
    BY <1>2 DEF IndInv, Pulls, Pull, PagesInLog
  <2>2. PagesInLog'
    BY <1>6, <2>1 DEF PagesInLog
  <2>3. StagesSound'
    BY <1>1, <1>2, <1>3, <1>4, EmptyDatabaseSound DEF IndInv, Pulls, StagesSound, Sound
  <2>4. \A x, m \in Nodes : cursor[x][m] \in Nat /\ cursor[x][m] <= Len(db[m].log)
    BY DEF IndInv, Pulls
  <2>5. \A x, m \in Nodes : cursor'[x][m] <= Len(db'[m].log)
    BY <1>1, <1>6, <2>4
  <2> QED
    BY <1>1, <1>2, <1>4, <2>2, <2>3, <2>5 DEF IndInv, Pulls
<1>9. NoneRevived
  BY <1>3, <1>5 DEF NoneRevived
<1> QED
  BY <1>1, <1>7, <1>8, <1>9 DEF IndInv, Others

LEMMA SaveCursorInv ==
    ASSUME IndInv, NEW n \in Nodes, SaveCursor(n)
    PROVE  IndInv'
<1> DEFINE m == pull[n].peer
           p == IF pull[n].truncated /\ pull[n].pages < MaxPages
                THEN [Idle(n) EXCEPT !.phase = "more", !.peer = m, !.pages = pull[n].pages]
                ELSE Idle(n)
<1>1. /\ cursor' = [cursor EXCEPT ![n][m] = pull[n].last]
      /\ pull' = [pull EXCEPT ![n] = p]
      /\ UNCHANGED <<now, db, tombs, apps, stage, late, intent, written, requests, failures>>
  BY DEF SaveCursor
<1>2. pull[n] \in Pull /\ m \in Nodes /\ pull[n].last \in Nat /\ pull[n].pages \in Nat
  BY DEF IndInv, Pulls, Pull
<1>3. p \in Pull /\ p.phase # "importing" /\ p.last = 0
  BY <1>2 DEF Idle, Pull, Phases
<1>4. /\ cursor' \in [Nodes -> [Nodes -> Nat]]
      /\ \A x, y \in Nodes : cursor'[x][y] <= Len(db[y].log)
  <2>1. pull[n].last <= Len(db[m].log)
    BY DEF IndInv, Pulls, PagesInLog
  <2> HIDE DEF m
  <2>2. cursor' \in [Nodes -> [Nodes -> Nat]]
    BY <1>1, <1>2 DEF IndInv, Pulls
  <2>3. \A x, y \in Nodes : cursor'[x][y] = IF x = n /\ y = m THEN pull[n].last ELSE cursor[x][y]
    BY <1>1, <1>2 DEF IndInv, Pulls
  <2> QED
    BY <2>1, <2>2, <2>3 DEF IndInv, Pulls
<1> HIDE DEF p, m
<1>5. Replicas' /\ Pulls'
  BY <1>1, <1>3, <1>4, IdleInv
<1> QED
  BY <1>1, <1>5 DEF IndInv, Others

-----------------------------------------------------------------------------
(* The theorems                                                              *)

LEMMA NextInv == IndInv /\ [Next]_vars => IndInv' /\ NoneRevived
<1> SUFFICES ASSUME IndInv, [Next]_vars PROVE IndInv' /\ NoneRevived
  OBVIOUS
<1>0. ASSUME db' = db PROVE NoneRevived
  BY <1>0 DEF NoneRevived
<1>1. CASE Tick
  BY <1>0, <1>1, MeshReplicationAssumption
     DEF Tick, IndInv, Replicas, Pulls, Others, VersionsUnique, PagesInLog, StagesSound
<1>2. ASSUME NEW n \in Nodes, Client(n)
      PROVE  IndInv' /\ NoneRevived
  <2>1. ASSUME NEW k \in Keys, Authenticate(n, k)
        PROVE  IndInv' /\ NoneRevived
    BY <1>0, <2>1, AuthenticateInv DEF Authenticate
  <2>2. ASSUME NEW app \in AllApps, InstallApp(n, app)
        PROVE  IndInv' /\ NoneRevived
    BY <1>0, <2>2, InstallAppInv DEF InstallApp
  <2> QED
    BY <1>2, <2>1, <2>2, WriteInv, ClearInv, ResyncInv, RegisterInv, UnregisterInv DEF Client
<1>3. ASSUME NEW n \in Nodes, Import(n)
      PROVE  IndInv' /\ NoneRevived
  <2>1. CASE Commit(n)
    BY <2>1, CommitInv
  <2>2. CASE Begin(n) \/ ApplyChange(n) \/ Reject(n) \/ SaveCursor(n)
    <3>1. db' = db
      BY <2>2 DEF Begin, ApplyChange, Reject, SaveCursor
    <3> QED
      BY <1>0, <2>2, <3>1, BeginInv, ApplyChangeInv, RejectInv, SaveCursorInv
  <2>3. CASE Install(n) \/ Load(n)
    <3>1. db' = db /\ Handles(n)
      BY <2>3 DEF Install, Load, Handles
    <3> QED
      BY <1>0, <3>1, HandlesInv
  <2> QED
    BY <1>3, <2>1, <2>2, <2>3 DEF Import
<1>4. ASSUME NEW n \in Nodes, Fail(n)
      PROVE  IndInv' /\ NoneRevived
  BY <1>0, <1>4, RejectInv DEF Fail
<1>5. ASSUME NEW n \in Nodes, NEW m \in Nodes, Fetch(n, m)
      PROVE  IndInv' /\ NoneRevived
  BY <1>0, <1>5, FetchInv DEF Fetch
<1>6. ASSUME NEW n \in Nodes, NEW m \in Nodes, Ask(n, m) \/ Match(n)
      PROVE  IndInv' /\ NoneRevived
  <2>1. db' = db /\ Handles(n)
    BY <1>6 DEF Ask, Match, Handles
  <2> QED
    BY <1>0, <2>1, HandlesInv
<1>7. CASE UNCHANGED vars
  BY <1>0, <1>7 DEF vars, IndInv, Replicas, Pulls, Others, VersionsUnique, PagesInLog, StagesSound
<1> QED
  BY <1>1, <1>2, <1>3, <1>4, <1>5, <1>6, <1>7 DEF Next

LEMMA Invariance == Spec => []IndInv
<1>1. Init => IndInv
  BY InitInv
<1>2. IndInv /\ [Next]_vars => IndInv'
  BY NextInv
<1> QED
  BY <1>1, <1>2, PTL DEF Spec

\* Every variable keeps its type, and a saved cursor is never ahead of its
\* peer's log, whatever pages are lost, repeated or cut short (SaveCursor).
THEOREM TypeCorrect == Spec => []TypeOK
<1>1. IndInv => TypeOK
  BY DEF IndInv, Replicas, Pulls, Others, TypeOK
<1> QED
  BY <1>1, Invariance, PTL

\* The records of an account have distinct server versions on every node, none
\* beyond the account's, with clients and imports writing them (NextVersion).
THEOREM DistinctServerVersions == Spec => []VersionsUnique
<1>1. IndInv => VersionsUnique
  BY DEF IndInv, Replicas
<1> QED
  BY <1>1, Invariance, PTL

\* Nothing of an account deleted at a node comes back to it, whatever its peers
\* send, unless the account registers again or a request of it that was
\* authenticated before the deletion is still to come (Tombstoned).
THEOREM NotRevived == Spec => DeletedAccountsNotRevived
<1>1. IndInv /\ [Next]_vars => [NoneRevived]_vars
  BY NextInv
<1> QED
  BY <1>1, Invariance, PTL DEF Spec, DeletedAccountsNotRevived

-----------------------------------------------------------------------------
(* The storage limit                                                         *)

\* A transaction of account a keeps every account within the limit if it keeps
\* a within it.
LEMMA TransactionWithinQuota ==
    ASSUME IndInv, WithinQuota, NEW n \in Nodes, NEW a, NEW d, WritesOf(db[n], d, a),
           Quota > 0 => Used(d, a) <= Quota, db' = [db EXCEPT ![n] = d]
    PROVE  WithinQuota'
<1> SUFFICES ASSUME Quota > 0, NEW m \in Nodes, NEW b \in Accounts
             PROVE  Used(db'[m], b) <= Quota
  BY DEF WithinQuota
<1>1. /\ Used(db[m], b) <= Quota /\ Quota \in Nat
      /\ Used(db[m], b) \in Nat /\ Used(db'[m], b) \in Nat
  BY UsedType, MeshStoreAssumption DEF WithinQuota
<1>2. db'[m] = IF m = n THEN d ELSE db[m]
  BY DEF IndInv, Replicas
<1>3. CASE m = n /\ b # a
  BY <1>1, <1>2, <1>3, OthersUsed
<1>4. CASE m # n \/ b = a
  BY <1>1, <1>2, <1>4
<1> QED
  BY <1>3, <1>4

\* What commits without exceeding the limit is within it if what was there was.
LEMMA NotExceeded ==
    ASSUME NEW before \in Nat, NEW after \in Nat, before <= Quota, Quota > 0,
           ~Exceeds(before, after)
    PROVE  after <= Quota
BY MeshStoreAssumption DEF Exceeds

LEMMA CommittedWithinQuota ==
    ASSUME IndInv, WithinQuota, NEW n \in Nodes, NEW k \in Keys, NEW d,
           Committed(n, k, d), WritesOf(db[n], d, Owner[k])
    PROVE  WithinQuota'
<1>1. Quota > 0 => Used(d, Owner[k]) <= Quota
  BY UsedType, NotExceeded, MeshStoreAssumption DEF WithinQuota, Committed
<1> QED
  BY <1>1, TransactionWithinQuota DEF Committed

LEMMA ClientWithinQuota ==
    ASSUME IndInv, WithinQuota, NEW n \in Nodes, Client(n)
    PROVE  WithinQuota'
<1> USE DEF IndInv
<1>0. Sound(db[n]) /\ Clock(n) \in Nat /\ \A k \in Keys : Owner[k] \in Accounts
  BY DatabaseOf, ClockType, MeshStoreAssumption
<1>1. ASSUME NEW k \in Keys, Write(n, k) \/ Tombstone(n, k)
      PROVE  WithinQuota'
  <2>1. PICK at \in DeviceTimes, rank \in Ranks, dead \in BOOLEAN :
           Save(n, k, [at |-> at, dead |-> dead, rank |-> rank])
    BY <1>1 DEF Write, Tombstone
  <2> DEFINE c == [at |-> at, dead |-> dead, rank |-> rank]
             u == UpsertUser(db[n], Owner[k])
             d == ClientUpsert(u, k, c, Clock(n))
  <2>2. c \in Content
    BY MeshStoreAssumption, MeshReplicationAssumption DEF DeviceTimes, Content
  <2>3. Committed(n, k, d)
    BY <2>1 DEF Save
  <2>4. Sound(u) /\ WritesOf(db[n], u, Owner[k])
    BY <1>0, UpsertUserSound
  <2> HIDE DEF c, u
  <2>5. Sound(d) /\ WritesOf(u, d, Owner[k])
    BY <1>0, <2>2, <2>4, ClientUpsertSound
  <2> HIDE DEF d
  <2>6. WritesOf(db[n], d, Owner[k])
    BY <1>0, <2>4, <2>5, WritesCompose
  <2> QED
    BY <2>3, <2>6, CommittedWithinQuota
<1>2. ASSUME NEW k \in Keys, Clear(n, k)
      PROVE  WithinQuota'
  <2> DEFINE u == UpsertUser(db[n], Owner[k])
             d == ReplaceData(u, k, Clock(n))
  <2>1. db' = [db EXCEPT ![n] = d]
    BY <1>2 DEF Clear, Replicas
  <2>2. Sound(u) /\ WritesOf(db[n], u, Owner[k]) /\ u.recs = db[n].recs
    BY <1>0, UpsertUserSound DEF UpsertUser, Sound, Database
  <2>3. d.recs = u.recs \/ d.recs = [u.recs EXCEPT ![k] = NoRow]
    <3> HIDE DEF u
    <3>1. d \in {NextVersion(u, k), NextVersion(Removed(u, k, Clock(n)), k)}
      BY DEF ReplaceData
    <3>2. NextVersion(u, k).recs = u.recs
      BY <2>2, NextVersionFields DEF Sound
    <3>3. Removed(u, k, Clock(n)) \in Database
      BY <1>0, <2>2, RemovedSound DEF Sound
    <3>4. NextVersion(Removed(u, k, Clock(n)), k).recs = Removed(u, k, Clock(n)).recs
      BY <3>3, NextVersionFields
    <3>5. Removed(u, k, Clock(n)).recs = [u.recs EXCEPT ![k] = NoRow]
      BY <2>2 DEF Removed, Sound, Database
    <3> QED
      BY <3>1, <3>2, <3>4, <3>5
  <2>4. \A l \in Keys : d.recs[l] = db[n].recs[l] \/ ~Present(d.recs[l])
    BY <2>2, <2>3 DEF Sound, Database, Present, NoRow
  <2>5. Used(d, Owner[k]) <= Used(db[n], Owner[k])
    BY <2>4, UsedMonotonic DEF KeysOf
  <2> HIDE DEF u
  <2>6. Sound(d) /\ WritesOf(u, d, Owner[k])
    BY <1>0, <2>2, ReplaceDataSound
  <2> HIDE DEF d
  <2>7. WritesOf(db[n], d, Owner[k])
    BY <1>0, <2>2, <2>6, WritesCompose
  <2>8. Quota > 0 => Used(d, Owner[k]) <= Quota
    BY <1>0, <2>5, UsedType, MeshStoreAssumption DEF WithinQuota
  <2> QED
    BY <2>1, <2>7, <2>8, TransactionWithinQuota
<1>3. ASSUME NEW k \in Keys, Resync(n, k)
      PROVE  WithinQuota'
  <2> DEFINE r == db[n].recs[k]
             c == [at |-> r.at, dead |-> FALSE, rank |-> r.rank]
             u == ReplaceData(db[n], k, Clock(n))
             d == ClientUpsert(u, k, c, Clock(n))
  <2>1. Committed(n, k, d)
    BY <1>3 DEF Resync
  <2>2. c \in Content
    BY <1>0, <1>3 DEF Resync, Sound, Database, Row, NoRow, Present, Content
  <2>3. Sound(u) /\ WritesOf(db[n], u, Owner[k])
    BY <1>0, ReplaceDataSound
  <2> HIDE DEF c, u
  <2>4. Sound(d) /\ WritesOf(u, d, Owner[k])
    BY <1>0, <2>2, <2>3, ClientUpsertSound
  <2> HIDE DEF d
  <2>5. WritesOf(db[n], d, Owner[k])
    BY <1>0, <2>3, <2>4, WritesCompose
  <2> QED
    BY <2>1, <2>5, CommittedWithinQuota
<1>4. ASSUME NEW a \in Accounts, Register(n, a)
      PROVE  WithinQuota'
  <2> DEFINE d == UpsertUser(db[n], a)
  <2>1. db' = [db EXCEPT ![n] = d]
    BY <1>4 DEF Register
  <2>2. WritesOf(db[n], d, a) /\ d.recs = db[n].recs
    BY <1>0, UpsertUserSound DEF UpsertUser, Sound, Database
  <2>3. Used(d, a) <= Used(db[n], a)
    BY <2>2, UsedMonotonic
  <2>4. Quota > 0 => Used(d, a) <= Quota
    BY <2>3, UsedType, MeshStoreAssumption DEF WithinQuota
  <2> HIDE DEF d
  <2> QED
    BY <2>1, <2>2, <2>4, TransactionWithinQuota
<1>5. ASSUME NEW a \in Accounts, Unregister(n, a)
      PROVE  WithinQuota'
  <2> DEFINE gone == {k \in KeysOf(a) : Present(db[n].recs[k])}
  <2>1. PICK order \in Orders(gone) : db' = [db EXCEPT ![n] = DeleteAccount(db[n], a, Clock(n), order)]
    BY <1>5 DEF Unregister, Replicas
  <2>2. Cardinality(gone) \in Nat
    <3>1. gone \subseteq Keys
      BY DEF KeysOf
    <3> QED
      BY <3>1, FS_Subset, FS_CardinalityType, MeshStoreAssumption
  <2>3. order \in [1..Cardinality(gone) -> Keys]
    BY <2>1 DEF Orders, KeysOf
  <2> DEFINE d == DeleteAccount(db[n], a, Clock(n), order)
  <2>4. WritesOf(db[n], d, a) /\ Empty(d, a)
    BY <1>0, <2>2, <2>3, DeleteAccountSound
  <2> HIDE DEF d
  <2>5. Used(d, a) <= Used(db[n], a)
    BY <2>4, UsedMonotonic DEF Empty
  <2>6. Quota > 0 => Used(d, a) <= Quota
    BY <2>5, UsedType, MeshStoreAssumption DEF WithinQuota
  <2> QED
    BY <2>1, <2>4, <2>6, TransactionWithinQuota DEF d
<1>6. ASSUME db' = db PROVE WithinQuota'
  BY <1>6 DEF WithinQuota
<1>7. ASSUME NEW k \in Keys, Authenticate(n, k)
      PROVE  WithinQuota'
  BY <1>6, <1>7 DEF Authenticate
<1>8. ASSUME NEW app \in AllApps, InstallApp(n, app)
      PROVE  WithinQuota'
  BY <1>6, <1>8 DEF InstallApp
<1> QED
  BY <1>1, <1>2, <1>3, <1>4, <1>5, <1>7, <1>8 DEF Client

LEMMA CommitWithinQuota ==
    ASSUME IndInv, WithinQuota, NEW n \in Nodes, Commit(n)
    PROVE  WithinQuota'
<1> SUFFICES ASSUME Quota > 0, NEW m \in Nodes, NEW a \in Accounts
             PROVE  Used(db'[m], a) <= Quota
  BY DEF WithinQuota
<1>1. db'[m] = IF m = n THEN stage[n] ELSE db[m]
  BY DEF Commit, IndInv, Replicas
<1>2. ~Exceeds(Used(db[n], a), Used(stage[n], a))
  BY DEF Commit, StorageFull
<1>3. Used(db[m], a) <= Quota /\ Used(db[n], a) <= Quota
  BY DEF WithinQuota
<1> QED
  BY <1>1, <1>2, <1>3, UsedType, NotExceeded

\* No account grows past its limit on a node, by its clients' writes, by a page
\* that holds several of its records or by pages of several peers (Exceeds).
THEOREM QuotaKept == Spec => []WithinQuota
<1>1. Init => WithinQuota
  <2> SUFFICES ASSUME Init, Quota > 0, NEW n \in Nodes, NEW a \in Accounts
               PROVE  Used(db[n], a) <= Quota
    BY DEF WithinQuota
  <2> PICK legacy \in SUBSET Legacy : db = [m \in Nodes |-> InitialDatabase(legacy)]
    BY DEF Init
  <2> DEFINE k == CHOOSE k \in legacy : TRUE
  <2>1. db[n] = InitialDatabase(legacy)
    OBVIOUS
  <2>2. LiveKeys(InitialDatabase(legacy), a) \subseteq {k}
    <3> DEFINE fresh == [users |-> Accounts, recs |-> [l \in Keys |-> NoRow],
                         vers |-> [x \in Accounts |-> 0], log |-> <<>>]
               old   == [at |-> Beyond, dead |-> FALSE, rank |-> 1]
    <3>1. InitialDatabase(legacy) = fresh \/ InitialDatabase(legacy) = Stored(fresh, k, old)
      BY DEF InitialDatabase
    <3>2. \A l \in Keys : ~Present(fresh.recs[l])
      BY DEF Present, NoRow
    <3>3. fresh \in Database
      BY DEF Database
    <3> HIDE DEF fresh, old
    <3>4. \A l \in Keys : l # k => Stored(fresh, k, old).recs[l] = fresh.recs[l]
      BY <3>3 DEF Stored, NextVersion, Database
    <3> QED
      BY <3>1, <3>2, <3>4 DEF LiveKeys, KeysOf
  <2>3. Cardinality({k}) = 1 /\ IsFiniteSet({k})
    BY FS_Singleton
  <2>4. Used(InitialDatabase(legacy), a) <= 1
    BY <2>2, <2>3, FS_Subset DEF Used
  <2> QED
    BY <2>1, <2>4, UsedType, MeshStoreAssumption
<1>2. ASSUME IndInv, WithinQuota, [Next]_vars
      PROVE  WithinQuota'
  <2>1. ASSUME db' = db PROVE WithinQuota'
    BY <1>2, <2>1 DEF WithinQuota
  <2>2. ASSUME NEW n \in Nodes, Match(n) \/ Import(n) \/ Fail(n)
                             \/ (\E m \in Nodes : Ask(n, m) \/ Fetch(n, m))
        PROVE  WithinQuota'
    <3>1. CASE Commit(n)
      BY <1>2, <3>1, CommitWithinQuota
    <3>2. CASE ~Commit(n)
      BY <2>1, <2>2, <3>2
         DEF Match, Import, Install, Load, Begin, ApplyChange, Reject, SaveCursor, Fail, Ask, Fetch
    <3> QED
      BY <3>1, <3>2
  <2>3. CASE Tick \/ UNCHANGED vars
    BY <2>1, <2>3 DEF Tick, vars
  <2> QED
    BY <1>2, <2>2, <2>3, ClientWithinQuota DEF Next
<1> QED
  BY <1>1, <1>2, Invariance, PTL DEF Spec

-----------------------------------------------------------------------------
(* Clients that only store records                                           *)

\* Clients store records and tombstones and remove nothing, two writes of a key
\* never have the same time, no record is from before the limit on times, and
\* the nodes agree on the time.
Calm ==
    /\ Requests \cap {"clear", "resync", "unregister"} = {}
    /\ UniqueTimes
    /\ Legacy = {}
    /\ \A n, m \in Nodes : Skew[n] = Skew[m]

\* y is a record, and no older than x.
NotOlder(y, x) == Present(y) /\ ~Older(y, x)

\* What the order compares, of rows, contents and items alike.
Comparable(r) == r.at \in Int /\ r.dead \in BOOLEAN /\ r.rank \in Int

LEMMA NotOlderReflexive ==
    ASSUME NEW x, Comparable(x), Present(x)
    PROVE  NotOlder(x, x)
BY DEF NotOlder, Older, Wins, Comparable

LEMMA NotOlderTransitive ==
    ASSUME NEW x, NEW y, NEW z, Comparable(x), Comparable(y), Comparable(z),
           NotOlder(z, y), NotOlder(y, x)
    PROVE  NotOlder(z, x)
BY DEF NotOlder, Older, Wins, Comparable

LEMMA RowsComparable ==
    ASSUME NEW d \in Database, NEW k \in Keys
    PROVE  /\ Comparable(d.recs[k])
           /\ Present(d.recs[k]) => d.recs[k].at \in Nat
<1>1. d.recs[k] \in Row \cup {NoRow}
  BY DEF Database
<1>2. CASE d.recs[k] \in Row
  BY <1>2 DEF Comparable, Row
<1>3. CASE d.recs[k] = NoRow
  BY <1>3 DEF Comparable, NoRow, Present
<1> QED
  BY <1>1, <1>2, <1>3

LEMMA ContentsComparable ==
    /\ \A c \in Content : Comparable(c) /\ Present(c) /\ c.at \in Nat
    /\ \A item \in Item : Comparable(item) /\ Present(item) /\ item.at \in Nat
BY DEF Comparable, Content, Item, Present

\* The database has every account and has logged no deletion.
Kept(d) == d.users = Accounts /\ \A i \in DOMAIN d.log : d.log[i].op = "upsert"

\* e comes from d by writes that replace no record with an older one.
Advances(d, e) == \A k \in Keys : Present(d.recs[k]) => NotOlder(e.recs[k], d.recs[k])

\* e comes from d by writes that are all in its log.
Continues(d, e) ==
    /\ Len(e.log) >= Len(d.log)
    /\ \A i \in 1..Len(d.log) : e.log[i] = d.log[i]
    /\ \A k \in Keys : e.recs[k] # d.recs[k] =>
          \E i \in 1..Len(e.log) : i > Len(d.log) /\ e.log[i].key = k

Grows(d, e) == Advances(d, e) /\ Continues(d, e)

LEMMA GrowsReflexive ==
    ASSUME NEW d \in Database
    PROVE  Grows(d, d)
<1>1. Len(d.log) \in Nat
  BY DEF Database
<1>2. \A k \in Keys : Comparable(d.recs[k])
  BY RowsComparable
<1> QED
  BY <1>1, <1>2, NotOlderReflexive DEF Grows, Advances, Continues

LEMMA GrowsTransitive ==
    ASSUME NEW d \in Database, NEW e \in Database, NEW f \in Database,
           Grows(d, e), Grows(e, f)
    PROVE  Grows(d, f)
<1>1. Len(d.log) \in Nat /\ Len(e.log) \in Nat /\ Len(f.log) \in Nat
  BY DEF Database
<1>2. Advances(d, f)
  <2> SUFFICES ASSUME NEW k \in Keys, Present(d.recs[k])
               PROVE  NotOlder(f.recs[k], d.recs[k])
    BY DEF Advances
  <2>1. NotOlder(e.recs[k], d.recs[k])
    BY DEF Grows, Advances
  <2>2. NotOlder(f.recs[k], e.recs[k])
    BY <2>1 DEF Grows, Advances, NotOlder
  <2> QED
    BY <2>1, <2>2, RowsComparable, NotOlderTransitive
<1>3. Continues(d, f)
  <2>1. Len(e.log) >= Len(d.log) /\ Len(f.log) >= Len(e.log)
    BY DEF Grows, Continues
  <2>2. \A i \in 1..Len(d.log) : f.log[i] = d.log[i]
    BY <1>1, <2>1 DEF Grows, Continues
  <2>3. ASSUME NEW k \in Keys, f.recs[k] # d.recs[k]
        PROVE  \E i \in 1..Len(f.log) : i > Len(d.log) /\ f.log[i].key = k
    <3>1. CASE f.recs[k] # e.recs[k]
      BY <1>1, <2>1, <3>1 DEF Grows, Continues
    <3>2. CASE e.recs[k] # d.recs[k]
      <4>1. PICK i \in 1..Len(e.log) : i > Len(d.log) /\ e.log[i].key = k
        BY <3>2 DEF Grows, Continues
      <4>2. i \in 1..Len(f.log) /\ f.log[i] = e.log[i]
        BY <1>1, <2>1 DEF Grows, Continues
      <4> QED
        BY <4>1, <4>2
    <3> QED
      BY <2>3, <3>1, <3>2
  <2> QED
    BY <1>1, <2>1, <2>2, <2>3 DEF Continues
<1> QED
  BY <1>2, <1>3 DEF Grows

\* An account that is there stays as it is.
LEMMA UpsertUserSame ==
    ASSUME NEW d \in Database, NEW a \in d.users
    PROVE  UpsertUser(d, a) = d
<1>1. d.users \cup {a} = d.users
  OBVIOUS
<1> QED
  BY <1>1 DEF UpsertUser, Database

\* The row r holds content c.
Holds(r, c) == r.at = c.at /\ r.dead = c.dead /\ r.rank = c.rank

LEMMA StoredGrows ==
    ASSUME NEW d \in Database, NEW k \in Keys, NEW c \in Content, Kept(d),
           Present(d.recs[k]) => NotOlder(c, d.recs[k])
    PROVE  LET e == Stored(d, k, c)
           IN  /\ Grows(d, e) /\ Kept(e) /\ Holds(e.recs[k], c)
               /\ \A l \in Keys : l # k => e.recs[l] = d.recs[l]
<1> DEFINE e == Stored(d, k, c)
           n == NextVersion(d, k)
           row == [at |-> c.at, dead |-> c.dead, rank |-> c.rank,
                   ver |-> d.vers[Owner[k]] + 1]
<1>1. n.users = d.users /\ n.recs = d.recs /\ n.log = d.log /\ n \in Database
  BY NextVersionFields
<1> HIDE DEF n
<1>2. e = [n EXCEPT !.recs[k] = row, !.log = Logged(d, k, "upsert", 0)]
  BY DEF Stored, n
<1>3. Holds(row, c)
  BY DEF Holds
<1> HIDE DEF e, row
<1>4. /\ e.users = d.users /\ e.recs = [d.recs EXCEPT ![k] = row]
      /\ e.log = Logged(d, k, "upsert", 0)
  BY <1>1, <1>2 DEF Database
<1>5. e.recs[k] = row /\ \A l \in Keys : l # k => e.recs[l] = d.recs[l]
  BY <1>4 DEF Database
<1>6. /\ Len(d.log) \in Nat /\ d.log \in Seq(Change)
      /\ Len(e.log) = Len(d.log) + 1
      /\ \A i \in 1..Len(d.log) : e.log[i] = d.log[i]
      /\ e.log[Len(d.log) + 1] = [key |-> k, op |-> "upsert", at |-> 0]
      /\ DOMAIN e.log = 1..Len(d.log) + 1 /\ DOMAIN d.log = 1..Len(d.log)
  BY <1>4 DEF Logged, Database
<1>7. Kept(e)
  BY SMTT(30), <1>4, <1>6 DEF Kept
<1>8. Continues(d, e)
  <2>1. Len(d.log) + 1 \in 1..Len(e.log) /\ Len(d.log) + 1 > Len(d.log)
    BY <1>6
  <2>2. \A l \in Keys : e.recs[l] # d.recs[l] => l = k
    BY <1>5
  <2>3. e.log[Len(d.log) + 1].key = k
    BY <1>6
  <2> QED
    BY <1>6, <2>1, <2>2, <2>3 DEF Continues
<1>9. Advances(d, e)
  <2>1. Present(d.recs[k]) => NotOlder(row, d.recs[k])
    BY <1>3 DEF Holds, NotOlder, Older, Wins, Present
  <2> QED
    BY <1>5, <2>1, RowsComparable, NotOlderReflexive DEF Advances
<1> QED
  BY <1>3, <1>5, <1>7, <1>8, <1>9 DEF Grows, e

\* The merge of an imported record that is not dated beyond the limit, with one
\* that is not either, keeps the newer of the two.
LEMMA UpsertRecordGrows ==
    ASSUME NEW d \in Database, NEW k \in Keys, NEW c \in Content, NEW clock \in Nat,
           Kept(d), ~Frozen(c, clock), ~Frozen(d.recs[k], clock)
    PROVE  LET e == UpsertRecord(d, k, c, clock)
           IN  /\ Grows(d, e) /\ Kept(e) /\ NotOlder(e.recs[k], c)
               /\ e.recs[k] = d.recs[k] \/ Holds(e.recs[k], c)
               /\ \A l \in Keys : l # k => e.recs[l] = d.recs[l]
<1> DEFINE e == UpsertRecord(d, k, c, clock)
<1>1. Comparable(c) /\ Present(c) /\ Comparable(d.recs[k])
  BY ContentsComparable, RowsComparable
<1>2. [c EXCEPT !.at = NormalizeWriteTime(@, clock)] = c
  BY MeshStoreAssumption DEF NormalizeWriteTime, Frozen, WriteTimeLimit, Content
<1>3. e = IF Accepts(d, k, c, clock) THEN Stored(d, k, c) ELSE d
  BY <1>2 DEF UpsertRecord
<1> HIDE DEF e
<1>4. CASE Accepts(d, k, c, clock)
  <2>1. Present(d.recs[k]) => NotOlder(c, d.recs[k])
    BY <1>1, <1>4 DEF Accepts, NotOlder, Older, Wins, Comparable
  <2>2. /\ Grows(d, e) /\ Kept(e) /\ Holds(e.recs[k], c)
        /\ \A l \in Keys : l # k => e.recs[l] = d.recs[l]
    BY <1>3, <1>4, <2>1, StoredGrows
  <2>3. NotOlder(c, c)
    BY <1>1, NotOlderReflexive
  <2>4. NotOlder(e.recs[k], c)
    BY <2>2, <2>3 DEF NotOlder, Older, Wins, Present, Holds
  <2> QED
    BY <2>2, <2>4 DEF e
<1>5. CASE ~Accepts(d, k, c, clock)
  <2>1. e = d
    BY <1>3, <1>5
  <2>2. NotOlder(d.recs[k], c)
    BY <1>5 DEF Accepts, NotOlder
  <2> QED
    BY <2>1, <2>2, GrowsReflexive DEF e
<1> QED
  BY <1>4, <1>5

\* A client's write whose time is not the stored record's keeps the newer of
\* the two.
LEMMA ClientUpsertGrows ==
    ASSUME NEW d \in Database, NEW k \in Keys, NEW c \in Content, NEW clock \in Nat,
           Kept(d), ~Frozen(d.recs[k], clock),
           Present(d.recs[k]) => d.recs[k].at # NormalizeWriteTime(c.at, clock)
    PROVE  LET e == ClientUpsert(d, k, c, clock)
               w == [c EXCEPT !.at = NormalizeWriteTime(@, clock)]
           IN  /\ Grows(d, e) /\ Kept(e)
               /\ \/ e.recs[k] = d.recs[k] /\ w.at < d.recs[k].at
                  \/ Holds(e.recs[k], w) /\ (Present(d.recs[k]) => w.at > d.recs[k].at)
               /\ \A l \in Keys : l # k => e.recs[l] = d.recs[l]
<1> DEFINE e == ClientUpsert(d, k, c, clock)
           w == [c EXCEPT !.at = NormalizeWriteTime(@, clock)]
<1>1. w \in Content /\ w.at = NormalizeWriteTime(c.at, clock)
  BY ClampedType DEF Content
<1>2. e = IF ~Present(d.recs[k]) \/ w.at >= d.recs[k].at \/ Frozen(d.recs[k], clock)
          THEN Stored(d, k, w) ELSE NextVersion(d, k)
  BY DEF ClientUpsert
<1> HIDE DEF e, w
<1>3. Comparable(w) /\ Present(w) /\ Comparable(d.recs[k])
  BY <1>1, ContentsComparable, RowsComparable
<1>4. CASE e = Stored(d, k, w) /\ (~Present(d.recs[k]) \/ w.at >= d.recs[k].at)
  <2>1. Present(d.recs[k]) => NotOlder(w, d.recs[k])
    BY <1>1, <1>3, <1>4 DEF NotOlder, Older, Comparable
  <2>2. /\ Grows(d, e) /\ Kept(e) /\ Holds(e.recs[k], w)
        /\ \A l \in Keys : l # k => e.recs[l] = d.recs[l]
    BY <1>1, <1>4, <2>1, StoredGrows
  <2>3. Present(d.recs[k]) => w.at > d.recs[k].at
    BY <1>1, <1>3, <1>4 DEF Comparable
  <2> QED
    BY <2>2, <2>3 DEF e, w
<1>5. CASE e = NextVersion(d, k) /\ ~(w.at >= d.recs[k].at)
  <2>1. e.users = d.users /\ e.recs = d.recs /\ e.log = d.log
    BY <1>5, NextVersionFields
  <2>2. Kept(e)
    BY <2>1 DEF Kept
  <2>3. Grows(d, e)
    BY <2>1, GrowsReflexive DEF Grows, Advances, Continues
  <2>4. w.at < d.recs[k].at
    BY <1>3, <1>5 DEF Comparable
  <2> QED
    BY <2>1, <2>2, <2>3, <2>4 DEF e, w
<1> QED
  BY <1>2, <1>4, <1>5

-----------------------------------------------------------------------------
(* Calm nodes never replace a record with an older one                       *)

\* A record that there is holds something of ts, what clients have saved of it,
\* and is not dated beyond the limit.
OneOf(ts, r) == \E w \in ts : Holds(r, w)
Dated(ts, clock, r) == Present(r) => OneOf(ts, r) /\ ~Frozen(r, clock)

Orderly(ts, clock, d) == Kept(d) /\ \A k \in Keys : Dated(ts[k], clock, d.recs[k])

\* No account is deleted, every record, in a database, a transaction or a page,
\* holds what some client has saved, and a transaction grows its database.
CalmInv ==
    \A n \in Nodes :
        /\ tombs[n] = {}
        /\ Orderly(written, Clock(n), db[n])
        /\ \A item \in pull[n].rest :
              item.op = "upsert" /\ Dated(written[item.key], Clock(n), item)
        /\ pull[n].phase = "importing" =>
              Orderly(written, Clock(n), stage[n]) /\ Grows(db[n], stage[n])

LEMMA CalmInit ==
    ASSUME Calm, Init
    PROVE  CalmInv
<1> SUFFICES ASSUME NEW n \in Nodes
             PROVE  /\ tombs[n] = {} /\ Orderly(written, Clock(n), db[n])
                    /\ pull[n].rest = {} /\ pull[n].phase = "idle"
  BY DEF CalmInv
<1>1. db[n] = InitialDatabase({})
  BY DEF Init, Calm
<1>2. /\ db[n].users = Accounts /\ DOMAIN db[n].log = {}
      /\ \A k \in Keys : db[n].recs[k] = NoRow
  BY <1>1 DEF InitialDatabase
<1>3. Orderly(written, Clock(n), db[n])
  BY <1>2 DEF Orderly, Kept, Dated, Present, NoRow
<1> QED
  BY <1>3 DEF Init, Idle

\* What is dated stays dated as time passes and clients write.
LEMMA DatedLater ==
    ASSUME NEW ts, NEW later, ts \subseteq later, NEW clock \in Nat, NEW next \in Nat,
           clock <= next, NEW r, Comparable(r), Dated(ts, clock, r)
    PROVE  Dated(later, next, r)
BY MeshStoreAssumption DEF Dated, OneOf, Frozen, WriteTimeLimit, Comparable

LEMMA OrderlyLater ==
    ASSUME NEW ts, NEW later, \A k \in Keys : ts[k] \subseteq later[k],
           NEW clock \in Nat, NEW next \in Nat, clock <= next,
           NEW d \in Database, Orderly(ts, clock, d)
    PROVE  Orderly(later, next, d)
BY DatedLater, RowsComparable DEF Orderly

\* A step keeps the invariant where it leaves a node alone.
LEMMA CalmStays ==
    ASSUME IndInv, IndInv', CalmInv, now <= now',
           \A k \in Keys : written[k] \subseteq written'[k],
           \A n \in Nodes : tombs'[n] = {},
           \A n \in Nodes :
              \/ db'[n] = db[n]
              \/ /\ Orderly(written', now' + Skew[n], db'[n])
                 /\ Grows(db[n], db'[n]) /\ pull'[n].phase # "importing",
           \A n \in Nodes : \A item \in pull'[n].rest :
              \/ item \in pull[n].rest
              \/ item.op = "upsert" /\ Dated(written'[item.key], now' + Skew[n], item),
           \A n \in Nodes : pull'[n].phase = "importing" =>
              \/ pull[n].phase = "importing" /\ stage'[n] = stage[n]
              \/ Orderly(written', now' + Skew[n], stage'[n]) /\ Grows(db'[n], stage'[n])
    PROVE  CalmInv' /\ \A n \in Nodes : Grows(db[n], db'[n])
<1> SUFFICES ASSUME NEW n \in Nodes
             PROVE  /\ Orderly(written', now' + Skew[n], db'[n])
                    /\ \A item \in pull'[n].rest :
                          item.op = "upsert" /\ Dated(written'[item.key], now' + Skew[n], item)
                    /\ pull'[n].phase = "importing" =>
                          Orderly(written', now' + Skew[n], stage'[n]) /\ Grows(db'[n], stage'[n])
                    /\ Grows(db[n], db'[n])
  BY DEF CalmInv, Clock
<1> DEFINE clock == now + Skew[n]
           next == now' + Skew[n]
<1>1. clock \in Nat /\ next \in Nat /\ clock <= next
  BY MeshReplicationAssumption DEF IndInv, Others
<1>2. db[n] \in Database /\ stage[n] \in Database /\ pull[n] \in Pull
  BY DEF IndInv, Replicas, Pulls
<1>3. /\ Orderly(written, clock, db[n])
      /\ \A item \in pull[n].rest : item.op = "upsert" /\ Dated(written[item.key], clock, item)
      /\ pull[n].phase = "importing" => Orderly(written, clock, stage[n]) /\ Grows(db[n], stage[n])
  BY DEF CalmInv, Clock
<1> HIDE DEF clock, next
<1>4. Orderly(written', next, db[n])
  BY <1>1, <1>2, <1>3, OrderlyLater
<1>5. Orderly(written', next, db'[n]) /\ Grows(db[n], db'[n])
  BY <1>2, <1>4, GrowsReflexive DEF next
<1>6. ASSUME NEW item \in pull'[n].rest
      PROVE  item.op = "upsert" /\ Dated(written'[item.key], next, item)
  <2>1. CASE item \in pull[n].rest
    <3>1. item \in Item /\ item.key \in Keys /\ Comparable(item)
      BY <1>2, <2>1, ContentsComparable DEF Pull, Item
    <3>2. item.op = "upsert" /\ Dated(written[item.key], clock, item)
      BY <1>3, <2>1
    <3>3. written[item.key] \subseteq written'[item.key]
      BY <3>1
    <3> QED
      BY <1>1, <3>1, <3>2, <3>3, DatedLater
  <2>2. CASE item \notin pull[n].rest
    BY <2>2 DEF next
  <2> QED
    BY <2>1, <2>2
<1>7. ASSUME pull'[n].phase = "importing"
      PROVE  Orderly(written', next, stage'[n]) /\ Grows(db'[n], stage'[n])
  <2>1. db'[n] = db[n]
    BY <1>7
  <2>2. CASE pull[n].phase = "importing" /\ stage'[n] = stage[n]
    BY <1>1, <1>2, <1>3, <2>1, <2>2, OrderlyLater
  <2>3. CASE ~(pull[n].phase = "importing" /\ stage'[n] = stage[n])
    BY <1>7, <2>3 DEF next
  <2> QED
    BY <2>2, <2>3
<1> QED
  BY <1>5, <1>6, <1>7 DEF next

\* A client's write is of a time that no write of the key had.
LEMMA SaveCalm ==
    ASSUME Calm, IndInv, IndInv', CalmInv, NEW n \in Nodes, pull[n].phase # "importing",
           NEW k \in Keys, NEW content \in Content, Save(n, k, content),
           UNCHANGED <<now, cursor, pull, stage>>
    PROVE  /\ CalmInv' /\ \A x \in Nodes : Grows(db[x], db'[x])
           /\ \A x \in Nodes, l \in Keys :
                 (x # n \/ l # k) => db'[x].recs[l] = db[x].recs[l]
           /\ LET w == [content EXCEPT !.at = NormalizeWriteTime(@, Clock(n))]
                  r == db[n].recs[k]
              IN  /\ \A v \in written[k] : v.at # w.at
                  /\ written' = [written EXCEPT ![k] = @ \cup {w}]
                  /\ \/ db'[n].recs[k] = r /\ w.at < r.at
                     \/ Holds(db'[n].recs[k], w) /\ (Present(r) => w.at > r.at)
<1> DEFINE w == [content EXCEPT !.at = NormalizeWriteTime(@, Clock(n))]
           d == ClientUpsert(db[n], k, content, Clock(n))
<1>1. /\ Clock(n) \in Nat /\ Owner[k] \in Accounts /\ db[n] \in Database
      /\ written \in [Keys -> SUBSET Content] /\ now \in Nat
  BY ClockType, MeshStoreAssumption DEF IndInv, Replicas, Others
<1>2. Orderly(written, Clock(n), db[n]) /\ Kept(db[n]) /\ tombs[n] = {}
  BY DEF CalmInv, Orderly
<1>3. UpsertUser(db[n], Owner[k]) = db[n]
  BY <1>1, <1>2, UpsertUserSame DEF Kept
<1>4. /\ \A v \in written[k] : v.at # w.at
      /\ written' = [written EXCEPT ![k] = @ \cup {w}]
      /\ db' = [db EXCEPT ![n] = d] /\ UNCHANGED <<tombs, apps>>
  BY <1>3 DEF Save, Committed, Calm
<1>5. Present(db[n].recs[k]) => db[n].recs[k].at # w.at /\ ~Frozen(db[n].recs[k], Clock(n))
  BY <1>2, <1>4 DEF Orderly, Dated, OneOf, Holds
<1>6. ~Frozen(db[n].recs[k], Clock(n))
  BY <1>1, <1>5, RowsComparable, MeshStoreAssumption DEF Frozen, WriteTimeLimit, Present, Comparable
<1>7. w.at = NormalizeWriteTime(content.at, Clock(n)) /\ w \in Content
  BY <1>1, ClampedType DEF Content
<1>8. /\ Grows(db[n], d) /\ Kept(d)
      /\ \/ d.recs[k] = db[n].recs[k] /\ w.at < db[n].recs[k].at
         \/ Holds(d.recs[k], w) /\ (Present(db[n].recs[k]) => w.at > db[n].recs[k].at)
      /\ \A l \in Keys : l # k => d.recs[l] = db[n].recs[l]
  BY <1>1, <1>2, <1>5, <1>6, <1>7, ClientUpsertGrows
<1>9. ~Frozen(w, Clock(n))
  BY <1>1, <1>7, TimeType, MeshStoreAssumption
     DEF NormalizeWriteTime, WriteTimeLimit, Content, Frozen
<1> HIDE DEF w, d
<1>10. \A l \in Keys : written[l] \subseteq written'[l] /\ (l = k => w \in written'[l])
  BY <1>1, <1>4
<1>11. Orderly(written', Clock(n), d)
  <2> SUFFICES ASSUME NEW l \in Keys PROVE Dated(written'[l], Clock(n), d.recs[l])
    BY <1>8 DEF Orderly
  <2>1. CASE d.recs[l] = db[n].recs[l]
    BY <1>2, <1>10, <2>1 DEF Orderly, Dated, OneOf
  <2>2. CASE l = k /\ Holds(d.recs[l], w)
    BY <1>9, <1>10, <2>2 DEF Dated, OneOf, Frozen, Holds
  <2> QED
    BY <1>8, <2>1, <2>2
<1>12. db'[n] = d /\ \A x \in Nodes : x # n => db'[x] = db[x]
  BY <1>4 DEF IndInv, Replicas
<1>13. now <= now'
  BY <1>1
<1>14. \A x \in Nodes : tombs'[x] = {}
  BY <1>4 DEF CalmInv
<1>15. \A x \in Nodes :
          \/ db'[x] = db[x]
          \/ /\ Orderly(written', now' + Skew[x], db'[x])
             /\ Grows(db[x], db'[x]) /\ pull'[x].phase # "importing"
  BY <1>8, <1>11, <1>12 DEF Clock
<1>16. CalmInv' /\ \A x \in Nodes : Grows(db[x], db'[x])
  BY <1>10, <1>13, <1>14, <1>15, CalmStays
<1> QED
  BY <1>4, <1>8, <1>12, <1>16 DEF w

\* A step of a client.
LEMMA ClientCalm ==
    ASSUME Calm, IndInv, IndInv', CalmInv, NEW n \in Nodes, Client(n)
    PROVE  CalmInv' /\ \A x \in Nodes : Grows(db[x], db'[x])
<1>0. now \in Nat /\ \A x \in Nodes : tombs[x] = {}
  BY DEF IndInv, Others, CalmInv
<1>1. ASSUME NEW k \in Keys, Write(n, k) \/ Tombstone(n, k)
      PROVE  CalmInv' /\ \A x \in Nodes : Grows(db[x], db'[x])
  <2>1. PICK at \in DeviceTimes, rank \in Ranks, dead \in BOOLEAN :
           Save(n, k, [at |-> at, dead |-> dead, rank |-> rank])
    BY <1>1 DEF Write, Tombstone
  <2>2. [at |-> at, dead |-> dead, rank |-> rank] \in Content
    BY MeshStoreAssumption, MeshReplicationAssumption DEF DeviceTimes, Content
  <2>3. pull[n].phase # "importing" /\ UNCHANGED <<now, cursor, pull, stage>>
    BY <1>1 DEF Write, Tombstone, Request
  <2> QED
    BY <2>1, <2>2, <2>3, SaveCalm
<1>2. ASSUME NEW k \in Keys, Clear(n, k) \/ Resync(n, k)
      PROVE  FALSE
  BY <1>2 DEF Clear, Resync, Request, Calm
<1>3. ASSUME NEW a \in Accounts, Unregister(n, a)
      PROVE  FALSE
  BY <1>3 DEF Unregister, Request, Calm
<1>4. ASSUME db' = db, \A x \in Nodes : tombs'[x] = {},
             UNCHANGED <<now, written, pull, stage>>
      PROVE  CalmInv' /\ \A x \in Nodes : Grows(db[x], db'[x])
  BY <1>0, <1>4, CalmStays
<1>5. ASSUME NEW a \in Accounts, Register(n, a)
      PROVE  CalmInv' /\ \A x \in Nodes : Grows(db[x], db'[x])
  <2>1. db[n] \in Database /\ a \in db[n].users
    BY DEF IndInv, Replicas, CalmInv, Orderly, Kept
  <2>2. UpsertUser(db[n], a) = db[n]
    BY <2>1, UpsertUserSame
  <2>3. db' = db
    BY <1>5, <2>2 DEF Register, IndInv, Replicas
  <2>4. \A x \in Nodes : tombs'[x] = {}
    BY <1>0, <1>5 DEF Register, IndInv, Replicas
  <2> QED
    BY <1>4, <1>5, <2>3, <2>4 DEF Register, Request
<1>6. ASSUME NEW k \in Keys, Authenticate(n, k)
      PROVE  CalmInv' /\ \A x \in Nodes : Grows(db[x], db'[x])
  BY <1>0, <1>4, <1>6 DEF Authenticate
<1>7. ASSUME NEW app \in AllApps, InstallApp(n, app)
      PROVE  CalmInv' /\ \A x \in Nodes : Grows(db[x], db'[x])
  BY <1>0, <1>4, <1>7 DEF InstallApp, Request
<1> QED
  BY <1>1, <1>2, <1>3, <1>5, <1>6, <1>7 DEF Client

\* What a change of a page does to an open transaction.
LEMMA AppliedGrows ==
    ASSUME IndInv, NEW n \in Nodes, tombs[n] = {}, NEW d \in Database, NEW item \in Item,
           Orderly(written, Clock(n), d), item.op = "upsert",
           Dated(written[item.key], Clock(n), item)
    PROVE  LET e == Applied(n, d, item)
               allowed == Allows(Policy[n][pull[n].peer], pull[n].known, item.key)
           IN  /\ Grows(d, e) /\ Orderly(written, Clock(n), e)
               /\ allowed => NotOlder(e.recs[item.key], item)
               /\ \A k \in Keys : e.recs[k] # d.recs[k] => k = item.key /\ allowed
<1> DEFINE e == Applied(n, d, item)
           allowed == Allows(Policy[n][pull[n].peer], pull[n].known, item.key)
           c == [at |-> item.at, dead |-> item.dead, rank |-> item.rank]
           key == item.key
<1>1. /\ Clock(n) \in Nat /\ key \in Keys /\ Owner[key] \in Accounts
      /\ c \in Content /\ item.at \in Nat /\ Present(item)
  BY ClockType, MeshStoreAssumption, ContentsComparable DEF Item, Content
<1>2. Kept(d) /\ UpsertUser(d, Owner[key]) = d
  BY <1>1, UpsertUserSame DEF Orderly, Kept
<1>3. e = IF ~allowed THEN d ELSE UpsertRecord(d, key, c, Clock(n))
  BY <1>2 DEF Applied
<1>4. /\ OneOf(written[key], c) /\ ~Frozen(c, Clock(n))
      /\ Dated(written[key], Clock(n), d.recs[key])
  BY <1>1 DEF Dated, OneOf, Holds, Frozen, Orderly
<1>5. ~Frozen(d.recs[key], Clock(n))
  BY <1>1, <1>4, RowsComparable, MeshStoreAssumption
     DEF Dated, Frozen, WriteTimeLimit, Present, Comparable
<1>6. Holds(c, item)
  BY DEF Holds
<1> HIDE DEF e, allowed, c
<1>7. CASE ~allowed
  <2>1. e = d
    BY <1>3, <1>7
  <2> QED
    BY <1>7, <2>1, GrowsReflexive DEF e, allowed
<1>8. CASE allowed
  <2>0. e = UpsertRecord(d, key, c, Clock(n))
    BY <1>3, <1>8
  <2>1. /\ Grows(d, e) /\ Kept(e) /\ NotOlder(e.recs[key], c)
        /\ e.recs[key] = d.recs[key] \/ Holds(e.recs[key], c)
        /\ \A l \in Keys : l # key => e.recs[l] = d.recs[l]
    BY <1>1, <1>2, <1>4, <1>5, <2>0, UpsertRecordGrows
  <2>2. Dated(written[key], Clock(n), e.recs[key])
    BY <1>4, <2>1 DEF Dated, OneOf, Holds, Frozen
  <2>3. Orderly(written, Clock(n), e)
    BY <2>1, <2>2 DEF Orderly
  <2>4. NotOlder(e.recs[key], item)
    BY <1>6, <2>1 DEF NotOlder, Older, Wins, Holds
  <2> QED
    BY <1>8, <2>1, <2>3, <2>4 DEF e, allowed
<1> QED
  BY <1>7, <1>8

LEMMA HandlesCalm ==
    ASSUME IndInv, IndInv', CalmInv, NEW n \in Nodes, Handles(n)
    PROVE  CalmInv' /\ \A x \in Nodes : Grows(db[x], db'[x])
<1>1. /\ UNCHANGED <<now, db, tombs, stage, written>>
      /\ \A x \in Nodes : x # n => pull'[x] = pull[x]
      /\ Handled(pull[n], pull'[n])
  BY HandlesMoves
<1>2. now <= now' /\ \A x \in Nodes : tombs'[x] = {}
  BY <1>1 DEF IndInv, Others, CalmInv
<1>3. \A x \in Nodes : \A item \in pull'[x].rest : item \in pull[x].rest
  BY <1>1 DEF Handled
<1>4. \A x \in Nodes : pull'[x].phase = "importing" => pull[x].phase = "importing" /\ stage'[x] = stage[x]
  BY <1>1 DEF Handled
<1> QED
  BY <1>1, <1>2, <1>3, <1>4, CalmStays

LEMMA BeginCalm ==
    ASSUME IndInv, IndInv', CalmInv, NEW n \in Nodes, Begin(n)
    PROVE  CalmInv' /\ \A x \in Nodes : Grows(db[x], db'[x])
<1>1. /\ UNCHANGED <<now, db, tombs, written>>
      /\ stage' = [stage EXCEPT ![n] = db[n]]
      /\ pull' = [pull EXCEPT ![n].phase = "importing"]
  BY DEF Begin
<1>2. now \in Nat /\ pull \in [Nodes -> Pull] /\ stage \in [Nodes -> Database] /\ db[n] \in Database
  BY DEF IndInv, Others, Pulls, Replicas
<1>3. \A x \in Nodes : pull'[x].rest = pull[x].rest /\ (x # n => pull'[x] = pull[x] /\ stage'[x] = stage[x])
  BY <1>1, <1>2 DEF Pull
<1>4. stage'[n] = db[n] /\ db'[n] = db[n]
  BY <1>1, <1>2
<1>5. Orderly(written', now' + Skew[n], stage'[n]) /\ Grows(db'[n], stage'[n])
  BY <1>1, <1>2, <1>4, GrowsReflexive DEF CalmInv, Clock
<1>6. now <= now' /\ \A x \in Nodes : tombs'[x] = {}
  BY <1>1, <1>2 DEF CalmInv
<1>7. \A x \in Nodes : \A item \in pull'[x].rest : item \in pull[x].rest
  BY <1>3
<1>8. \A x \in Nodes : pull'[x].phase = "importing" =>
          \/ pull[x].phase = "importing" /\ stage'[x] = stage[x]
          \/ Orderly(written', now' + Skew[x], stage'[x]) /\ Grows(db'[x], stage'[x])
  BY <1>3, <1>5
<1> QED
  BY <1>1, <1>6, <1>7, <1>8, CalmStays

LEMMA ApplyChangeCalm ==
    ASSUME IndInv, IndInv', CalmInv, NEW n \in Nodes, ApplyChange(n)
    PROVE  CalmInv' /\ \A x \in Nodes : Grows(db[x], db'[x])
<1>1. PICK item \in pull[n].rest :
         /\ stage' = [stage EXCEPT ![n] = Applied(n, stage[n], item)]
         /\ pull' = [pull EXCEPT ![n].rest = @ \ {item}]
  BY DEF ApplyChange, IndInv, Pulls
<1>2. /\ pull[n].phase = "importing"
      /\ UNCHANGED <<now, db, tombs, apps, cursor, late, intent, written, requests, failures>>
  BY DEF ApplyChange
<1>3. /\ now \in Nat /\ pull \in [Nodes -> Pull] /\ item \in Item
      /\ stage \in [Nodes -> Database] /\ stage'[n] \in Database /\ db[n] \in Database
  <2>1. stage' \in [Nodes -> Database]
    BY DEF IndInv, Pulls
  <2>2. /\ now \in Nat /\ pull[n] \in Pull /\ pull \in [Nodes -> Pull]
        /\ stage \in [Nodes -> Database] /\ db[n] \in Database
    BY DEF IndInv, Others, Pulls, Replicas
  <2>3. item \in Item
    BY <1>1, <2>2 DEF Pull
  <2> QED
    BY <2>1, <2>2, <2>3
<1> DEFINE e == Applied(n, stage[n], item)
<1>4. /\ item.op = "upsert" /\ Dated(written[item.key], Clock(n), item) /\ tombs[n] = {}
      /\ Orderly(written, Clock(n), stage[n]) /\ Grows(db[n], stage[n])
  BY <1>2 DEF CalmInv
<1>5. Grows(stage[n], e) /\ Orderly(written, Clock(n), e)
  BY <1>3, <1>4, AppliedGrows
<1> HIDE DEF e
<1>6. /\ stage'[n] = e
      /\ \A x \in Nodes : x # n => stage'[x] = stage[x] /\ pull'[x] = pull[x]
      /\ \A x \in Nodes : pull'[x].rest \subseteq pull[x].rest
  BY <1>1, <1>3 DEF e, Pull
<1>7. Grows(db[n], e)
  BY <1>3, <1>4, <1>5, <1>6, GrowsTransitive
<1>8. \A x \in Nodes : pull'[x].phase = "importing" =>
          \/ pull[x].phase = "importing" /\ stage'[x] = stage[x]
          \/ Orderly(written', now' + Skew[x], stage'[x]) /\ Grows(db'[x], stage'[x])
  BY <1>2, <1>5, <1>6, <1>7 DEF Clock
<1>9. now <= now' /\ \A x \in Nodes : tombs'[x] = {}
  BY <1>2, <1>3 DEF CalmInv
<1> QED
  BY <1>2, <1>6, <1>8, <1>9, CalmStays

LEMMA CommitCalm ==
    ASSUME IndInv, IndInv', CalmInv, NEW n \in Nodes, Commit(n)
    PROVE  CalmInv' /\ \A x \in Nodes : Grows(db[x], db'[x])
<1>1. /\ pull[n].phase = "importing"
      /\ db' = [db EXCEPT ![n] = stage[n]]
      /\ stage' = [stage EXCEPT ![n] = EmptyDatabase]
      /\ pull' = [pull EXCEPT ![n].phase = "imported"]
      /\ UNCHANGED <<now, tombs, written>>
  BY DEF Commit
<1>2. /\ now \in Nat /\ pull \in [Nodes -> Pull] /\ stage \in [Nodes -> Database]
      /\ db \in [Nodes -> Database]
  BY DEF IndInv, Others, Pulls, Replicas
<1>3. /\ db'[n] = stage[n] /\ pull'[n].phase = "imported"
      /\ \A x \in Nodes : x # n => db'[x] = db[x] /\ stage'[x] = stage[x] /\ pull'[x] = pull[x]
      /\ \A x \in Nodes : pull'[x].rest = pull[x].rest
  BY <1>1, <1>2 DEF Pull
<1>4. Orderly(written', now' + Skew[n], db'[n]) /\ Grows(db[n], db'[n])
  BY <1>1, <1>3 DEF CalmInv, Clock
<1>5. now <= now' /\ \A x \in Nodes : tombs'[x] = {}
  BY <1>1, <1>2 DEF CalmInv
<1>6. \A x \in Nodes :
          \/ db'[x] = db[x]
          \/ /\ Orderly(written', now' + Skew[x], db'[x])
             /\ Grows(db[x], db'[x]) /\ pull'[x].phase # "importing"
  BY <1>3, <1>4
<1>7. \A x \in Nodes : pull'[x].phase = "importing" => pull[x].phase = "importing" /\ stage'[x] = stage[x]
  BY <1>3
<1>8. \A x \in Nodes : \A item \in pull'[x].rest : item \in pull[x].rest
  BY <1>3
<1> QED
  BY <1>1, <1>5, <1>6, <1>7, <1>8, CalmStays

\* A pull that ends, or goes on to its next page, has no changes in hand.
LEMMA EndCalm ==
    ASSUME IndInv, IndInv', CalmInv, NEW n \in Nodes, Reject(n) \/ Fail(n) \/ SaveCursor(n)
    PROVE  CalmInv' /\ \A x \in Nodes : Grows(db[x], db'[x])
<1>1. PICK p : /\ pull' = [pull EXCEPT ![n] = p]
               /\ p.phase # "importing" /\ p.rest = {}
  <2> DEFINE more == [Idle(n) EXCEPT !.phase = "more", !.peer = pull[n].peer,
                                     !.pages = pull[n].pages]
  <2>1. Idle(n).phase = "idle" /\ Idle(n).rest = {} /\ more.phase = "more" /\ more.rest = {}
    BY DEF Idle
  <2>2. pull' = [pull EXCEPT ![n] = Idle(n)] \/ pull' = [pull EXCEPT ![n] = more]
    BY DEF Reject, Fail, SaveCursor
  <2> QED
    BY <2>1, <2>2
<1>2. /\ UNCHANGED <<now, db, tombs, written>>
      /\ stage' \in {stage, [stage EXCEPT ![n] = EmptyDatabase]}
  BY DEF Reject, Fail, SaveCursor
<1>3. now \in Nat /\ pull \in [Nodes -> Pull] /\ stage \in [Nodes -> Database]
  BY DEF IndInv, Others, Pulls
<1>4. /\ pull'[n].rest = {} /\ pull'[n].phase # "importing"
      /\ \A x \in Nodes : x # n => pull'[x] = pull[x] /\ stage'[x] = stage[x]
  BY <1>1, <1>2, <1>3
<1>5. now <= now' /\ \A x \in Nodes : tombs'[x] = {}
  BY <1>2, <1>3 DEF CalmInv
<1>6. \A x \in Nodes : pull'[x].phase = "importing" => pull[x].phase = "importing" /\ stage'[x] = stage[x]
  BY <1>4
<1>7. \A x \in Nodes : \A item \in pull'[x].rest : item \in pull[x].rest
  BY <1>4
<1> QED
  BY <1>2, <1>5, <1>6, <1>7, CalmStays

\* An upsert is exported with the content its record has.
LEMMA ItemCalm ==
    ASSUME IndInv, CalmInv, NEW m \in Nodes, NEW n \in Nodes, NEW from \in Nat,
           NEW i \in Emitted(n, m, from)
    PROVE  LET item == ItemOf(m, i)
           IN  /\ item.op = "upsert" /\ item.key = db[m].log[i].key
               /\ Present(db[m].recs[item.key]) /\ Holds(item, db[m].recs[item.key])
               /\ Allows(Policy[n][m], pull[n].known, item.key)
<1>1. db[m] \in Database /\ Kept(db[m]) /\ i \in 1..Len(db[m].log)
  BY PageType DEF IndInv, Replicas, CalmInv, Orderly
<1>2. db[m].log[i].op = "upsert"
  BY <1>1 DEF Kept, Database
<1>3. Allows(Policy[n][m], pull[n].known, db[m].log[i].key) /\ Present(db[m].recs[db[m].log[i].key])
  BY <1>2 DEF Emitted, Exportable
<1> QED
  BY <1>2, <1>3 DEF ItemOf, Holds

\* The page that a request brings: none, or the items of the rows exported.
LEMMA FetchedPage ==
    ASSUME IndInv, NEW n \in Nodes, NEW m \in Nodes, Fetch(n, m)
    PROVE  LET rows == Emitted(n, m, cursor[n][m])
           IN  /\ cursor[n][m] \in Nat
               /\ UNCHANGED <<now, db, tombs, apps, cursor, stage, late, written>>
               /\ \A x \in Nodes : x # n => pull'[x] = pull[x]
               /\ \/ pull'[n].phase = "idle" /\ pull'[n].rest = {}
                  \/ /\ pull'[n].phase = "fetched" /\ pull'[n].peer = m
                     /\ pull'[n].rest = {ItemOf(m, i) : i \in rows}
                     /\ pull'[n].apps = pull[n].apps
                     /\ pull'[n].last \in rows \cup {0}
                     /\ \A i \in rows : i <= pull'[n].last
<1> DEFINE rows == Emitted(n, m, cursor[n][m])
<1>1. pull \in [Nodes -> Pull] /\ cursor[n][m] \in Nat
  BY DEF IndInv, Pulls
<1>2. UNCHANGED <<now, db, tombs, apps, cursor, stage, late, written>>
  BY DEF Fetch
<1>3. CASE pull' = [pull EXCEPT ![n] = Idle(n)]
  <2>1. Idle(n).phase = "idle" /\ Idle(n).rest = {}
    BY DEF Idle
  <2>2. pull'[n] = Idle(n) /\ \A x \in Nodes : x # n => pull'[x] = pull[x]
    BY <1>1, <1>3
  <2> QED
    BY <1>1, <1>2, <2>1, <2>2
<1>4. CASE pull' # [pull EXCEPT ![n] = Idle(n)]
  <2>1. PICK last \in rows \cup {0} :
           /\ \A i \in rows : i <= last
           /\ pull' = [pull EXCEPT ![n] =
                        [phase |-> "fetched", peer |-> m,
                         rest |-> {ItemOf(m, i) : i \in rows},
                         apps |-> pull[n].apps, known |-> {},
                         last |-> last, truncated |-> Cardinality(rows) >= Batch,
                         pages |-> pull[n].pages + 1]]
    BY <1>4 DEF Fetch
  <2> DEFINE p == [phase |-> "fetched", peer |-> m,
                   rest |-> {ItemOf(m, i) : i \in rows},
                   apps |-> pull[n].apps, known |-> {},
                   last |-> last, truncated |-> Cardinality(rows) >= Batch,
                   pages |-> pull[n].pages + 1]
  <2>2. /\ p.phase = "fetched" /\ p.peer = m /\ p.rest = {ItemOf(m, i) : i \in rows}
        /\ p.apps = pull[n].apps /\ p.last = last
    OBVIOUS
  <2>3. pull' = [pull EXCEPT ![n] = p]
    BY <2>1
  <2> HIDE DEF p
  <2>4. pull'[n] = p /\ \A x \in Nodes : x # n => pull'[x] = pull[x]
    BY <1>1, <2>3
  <2> QED
    BY <1>1, <1>2, <2>1, <2>2, <2>4
<1> QED
  BY <1>3, <1>4

LEMMA FetchCalm ==
    ASSUME Calm, IndInv, IndInv', CalmInv, NEW n \in Nodes, NEW m \in Nodes, Fetch(n, m)
    PROVE  CalmInv' /\ \A x \in Nodes : Grows(db[x], db'[x])
<1> DEFINE rows == Emitted(n, m, cursor[n][m])
<1>1. /\ UNCHANGED <<now, db, tombs, stage, written>> /\ cursor[n][m] \in Nat
      /\ \A x \in Nodes : x # n => pull'[x] = pull[x]
  BY FetchedPage
<1>2. /\ pull'[n].phase # "importing"
      /\ pull'[n].rest = {} \/ pull'[n].rest = {ItemOf(m, i) : i \in rows}
  BY FetchedPage
<1>3. now \in Nat
  BY DEF IndInv, Others
<1>4. ASSUME NEW i \in rows
      PROVE  /\ ItemOf(m, i).op = "upsert"
             /\ Dated(written'[ItemOf(m, i).key], now' + Skew[n], ItemOf(m, i))
  <2> DEFINE item == ItemOf(m, i)
  <2>1. /\ item \in Item /\ item.op = "upsert" /\ Present(db[m].recs[item.key])
        /\ Holds(item, db[m].recs[item.key])
    BY <1>1, PageType, ItemCalm
  <2> HIDE DEF item
  <2>2. item.key \in Keys
    BY <2>1 DEF Item
  <2>3. Dated(written[item.key], Clock(m), db[m].recs[item.key])
    BY <2>2 DEF CalmInv, Orderly
  <2>4. Clock(m) = Clock(n)
    BY DEF Clock, Calm
  <2>5. Dated(written[item.key], Clock(n), item)
    BY <2>1, <2>3, <2>4 DEF Dated, OneOf, Holds, Frozen
  <2> QED
    BY <1>1, <2>1, <2>5 DEF Clock, item
<1>5. \A x \in Nodes : \A item \in pull'[x].rest :
         \/ item \in pull[x].rest
         \/ item.op = "upsert" /\ Dated(written'[item.key], now' + Skew[x], item)
  BY <1>1, <1>2, <1>4
<1>6. now <= now' /\ \A x \in Nodes : tombs'[x] = {}
  BY <1>1, <1>3 DEF CalmInv
<1>7. \A x \in Nodes : pull'[x].phase = "importing" => pull[x].phase = "importing" /\ stage'[x] = stage[x]
  BY <1>1, <1>2
<1> QED
  BY <1>1, <1>5, <1>6, <1>7, CalmStays

LEMMA CalmStep ==
    ASSUME Calm, IndInv, IndInv', CalmInv, [Next]_vars
    PROVE  CalmInv' /\ \A x \in Nodes : Grows(db[x], db'[x])
<1>0. now \in Nat /\ \A x \in Nodes : tombs[x] = {}
  BY DEF IndInv, Others, CalmInv
<1>1. CASE Tick \/ UNCHANGED vars
  <2>1. now <= now' /\ UNCHANGED <<db, tombs, written, pull, stage>>
    BY <1>0, <1>1 DEF Tick, vars
  <2> QED
    BY <1>0, <2>1, CalmStays
<1>2. ASSUME NEW n \in Nodes, Import(n)
      PROVE  CalmInv' /\ \A x \in Nodes : Grows(db[x], db'[x])
  <2>1. CASE Install(n) \/ Load(n)
    BY <2>1, HandlesCalm DEF Handles
  <2> QED
    BY <1>2, <2>1, BeginCalm, ApplyChangeCalm, CommitCalm, EndCalm DEF Import
<1>3. ASSUME NEW n \in Nodes, Match(n) \/ \E m \in Nodes : Ask(n, m)
      PROVE  CalmInv' /\ \A x \in Nodes : Grows(db[x], db'[x])
  BY <1>3, HandlesCalm DEF Handles
<1> QED
  BY <1>1, <1>2, <1>3, ClientCalm, EndCalm, FetchCalm DEF Next

LEMMA CalmInvariance ==
    ASSUME Calm
    PROVE  Spec => [](IndInv /\ CalmInv)
<1>1. Init => IndInv /\ CalmInv
  BY InitInv, CalmInit
<1>2. (IndInv /\ CalmInv) /\ [Next]_vars => (IndInv /\ CalmInv)'
  BY NextInv, CalmStep
<1> QED
  BY <1>1, <1>2, PTL DEF Spec

\* Among calm nodes a stored record is never lost and never replaced by an
\* older one, whatever pages are repeated, delayed, reordered or cut short on
\* the way (UpsertRecord, ClientUpsert).
THEOREM NewestStays ==
    ASSUME Calm
    PROVE  Spec => NeverOlder
<1>1. ASSUME IndInv, CalmInv, [Next]_vars
      PROVE  [\A n \in Nodes, k \in Keys :
                LET before == db[n].recs[k]
                    after  == db'[n].recs[k]
                IN  Present(before) =>
                        /\ Present(after)
                        /\ Older(after, before) => Frozen(before, Clock(n)) /\ ~Frozen(after, Clock(n))]_db
  <2>1. \A n \in Nodes : Grows(db[n], db'[n])
    BY <1>1, NextInv, CalmStep
  <2> QED
    BY <2>1 DEF Grows, Advances, NotOlder
<1>2. Spec => [](IndInv /\ CalmInv)
  BY CalmInvariance
<1> QED
  BY <1>1, <1>2, PTL DEF Spec, NeverOlder

-----------------------------------------------------------------------------
(* Where a policy names apps, both ends of a pull know them                  *)

\* Whatever a node asks for by app is of an app that its peer has from the start,
\* and that the node has too, unless it asks for the peer's manifests as well.
AppsKnown ==
    \A n, m \in Nodes, k \in Keys :
        (Wanted(n, m, k) /\ Policy[n][m].byApp) =>
            /\ App[k] \in InitialApps[m]
            /\ Policy[n][m].registry \/ App[k] \in InitialApps[n]

\* Node n has the apps as, and is in pull p: the apps of what it asks for come
\* with the page, unless n has them, until they are installed; and whichever node
\* is at work on the page has read that it has them.
AppsAt(n, as, p) ==
    /\ InitialApps[n] \subseteq as
    /\ \A k \in Keys : (Wanted(n, p.peer, k) /\ Policy[n][p.peer].byApp) =>
          /\ p.phase \in {"asked", "matched", "fetched"} => App[k] \in as \cup p.apps
          /\ p.phase \in {"matched", "loaded", "importing"} => App[k] \in p.known

AppInv == \A n \in Nodes : AppsAt(n, apps[n], pull[n])

LEMMA AppInit == Init => AppInv
BY DEF Init, AppInv, AppsAt, Idle

\* No app is ever taken away; a step of node n changes its pull at most.
LEMMA AppsStay ==
    ASSUME AppInv, NEW n \in Nodes, \A x \in Nodes : apps[x] \subseteq apps'[x],
           \A x \in Nodes : x # n => pull'[x] = pull[x],
           pull'[n] = pull[n] \/ AppsAt(n, apps'[n], pull'[n])
    PROVE  AppInv'
BY DEF AppInv, AppsAt

LEMMA AskApps ==
    ASSUME AppsKnown, IndInv, AppInv, NEW n \in Nodes, NEW m \in Nodes, Ask(n, m)
    PROVE  AppInv'
<1> DEFINE q == [Idle(n) EXCEPT !.phase = "asked", !.peer = m, !.apps = ExportedApps(n, m),
                                !.pages = pull[n].pages]
<1>1. pull' = [pull EXCEPT ![n] = q] /\ UNCHANGED apps
  BY DEF Ask
<1>2. q.phase = "asked" /\ q.peer = m /\ q.apps = ExportedApps(n, m)
  BY DEF Idle
<1> HIDE DEF q
<1>3. pull'[n] = q /\ \A x \in Nodes : x # n => pull'[x] = pull[x]
  BY <1>1 DEF IndInv, Pulls
<1>4. InitialApps[n] \subseteq apps[n] /\ InitialApps[m] \subseteq apps[m]
  BY DEF AppInv, AppsAt
<1>5. ASSUME NEW k \in Keys, Wanted(n, m, k), Policy[n][m].byApp
      PROVE  App[k] \in apps[n] \cup ExportedApps(n, m)
  <2>1. App[k] \in apps[m] /\ (Policy[n][m].registry \/ App[k] \in apps[n])
    BY <1>4, <1>5 DEF AppsKnown
  <2> QED
    BY <1>5, <2>1 DEF ExportedApps, Wanted
<1>6. AppsAt(n, apps'[n], pull'[n])
  BY <1>1, <1>2, <1>3, <1>4, <1>5 DEF AppsAt
<1> QED
  BY <1>1, <1>3, <1>6, AppsStay

LEMMA FetchApps ==
    ASSUME IndInv, AppInv, NEW n \in Nodes, NEW m \in Nodes, Fetch(n, m)
    PROVE  AppInv'
<1>1. /\ UNCHANGED apps /\ \A x \in Nodes : x # n => pull'[x] = pull[x]
      /\ \/ pull'[n].phase = "idle"
         \/ /\ pull'[n].phase = "fetched" /\ pull'[n].peer = m
            /\ pull'[n].apps = pull[n].apps
  BY FetchedPage
<1>2. Policy[n][m].byApp => pull[n].phase = "matched" /\ pull[n].peer = m
  BY DEF Fetch
<1>3. AppsAt(n, apps[n], pull[n])
  BY DEF AppInv
<1>4. AppsAt(n, apps'[n], pull'[n])
  BY <1>1, <1>2, <1>3 DEF AppsAt
<1> QED
  BY <1>1, <1>4, AppsStay

\* A step of a pull after its request.
LEMMA ImportApps ==
    ASSUME AppsKnown, IndInv, AppInv, NEW n \in Nodes, Match(n) \/ Import(n) \/ Fail(n)
    PROVE  AppInv'
<1>0. /\ apps \in [Nodes -> SUBSET AllApps]
      /\ pull \in [Nodes -> Pull] /\ pull[n] \in Pull /\ pull[n].peer \in Nodes
      /\ AppsAt(n, apps[n], pull[n])
      /\ \A m \in Nodes : InitialApps[m] \subseteq apps[m]
  BY DEF IndInv, Others, Pulls, Pull, AppInv, AppsAt
<1>1. CASE Match(n)
  <2>1. /\ pull[n].phase = "asked" /\ UNCHANGED apps
        /\ pull' = [pull EXCEPT ![n].phase = "matched", ![n].known = apps[pull[n].peer]]
    BY <1>1 DEF Match
  <2>2. /\ pull'[n].phase = "matched" /\ pull'[n].peer = pull[n].peer
        /\ pull'[n].apps = pull[n].apps /\ pull'[n].known = apps[pull[n].peer]
        /\ \A x \in Nodes : x # n => pull'[x] = pull[x]
    BY <1>0, <2>1 DEF Pull
  <2>3. AppsAt(n, apps'[n], pull'[n])
    BY <1>0, <2>1, <2>2 DEF AppsAt, AppsKnown
  <2> QED
    BY <2>1, <2>2, <2>3, AppsStay
<1>2. CASE Install(n)
  <2>1. PICK app \in pull[n].apps :
           /\ pull[n].phase = "fetched"
           /\ apps' = [apps EXCEPT ![n] = @ \cup {app}]
           /\ pull' = [pull EXCEPT ![n].apps = @ \ {app}]
    BY <1>2 DEF Install
  <2>2. /\ pull'[n].phase = "fetched" /\ pull'[n].peer = pull[n].peer
        /\ pull'[n].apps = pull[n].apps \ {app}
        /\ \A x \in Nodes : x # n => pull'[x] = pull[x]
    BY <1>0, <2>1 DEF Pull
  <2>3. apps'[n] = apps[n] \cup {app} /\ \A x \in Nodes : apps[x] \subseteq apps'[x]
    BY <1>0, <2>1
  <2>4. AppsAt(n, apps'[n], pull'[n])
    BY <1>0, <2>1, <2>2, <2>3 DEF AppsAt
  <2> QED
    BY <2>2, <2>3, <2>4, AppsStay
<1>3. CASE Load(n)
  <2>1. /\ pull[n].phase = "fetched" /\ pull[n].apps = {} /\ UNCHANGED apps
        /\ pull' = [pull EXCEPT ![n].phase = "loaded", ![n].known = apps[n]]
    BY <1>3 DEF Load
  <2>2. /\ pull'[n].phase = "loaded" /\ pull'[n].peer = pull[n].peer
        /\ pull'[n].known = apps[n]
        /\ \A x \in Nodes : x # n => pull'[x] = pull[x]
    BY <1>0, <2>1 DEF Pull
  <2>3. AppsAt(n, apps'[n], pull'[n])
    BY <1>0, <2>1, <2>2 DEF AppsAt
  <2> QED
    BY <2>1, <2>2, <2>3, AppsStay
<1>4. CASE Begin(n)
  <2>1. /\ pull[n].phase = IF Policy[n][pull[n].peer].byApp THEN "loaded" ELSE "fetched"
        /\ UNCHANGED apps /\ pull' = [pull EXCEPT ![n].phase = "importing"]
    BY <1>4 DEF Begin
  <2>2. /\ pull'[n].phase = "importing" /\ pull'[n].peer = pull[n].peer
        /\ pull'[n].known = pull[n].known
        /\ \A x \in Nodes : x # n => pull'[x] = pull[x]
    BY <1>0, <2>1 DEF Pull
  <2>3. AppsAt(n, apps'[n], pull'[n])
    BY <1>0, <2>1, <2>2 DEF AppsAt
  <2> QED
    BY <2>1, <2>2, <2>3, AppsStay
<1>5. CASE ApplyChange(n)
  <2>1. PICK item \in pull[n].rest : pull' = [pull EXCEPT ![n].rest = @ \ {item}]
    BY <1>5 DEF ApplyChange
  <2>2. UNCHANGED apps
    BY <1>5 DEF ApplyChange
  <2>3. /\ pull'[n].phase = pull[n].phase /\ pull'[n].peer = pull[n].peer
        /\ pull'[n].known = pull[n].known /\ pull'[n].apps = pull[n].apps
        /\ \A x \in Nodes : x # n => pull'[x] = pull[x]
    BY <1>0, <2>1 DEF Pull
  <2>4. AppsAt(n, apps'[n], pull'[n])
    BY <1>0, <2>2, <2>3 DEF AppsAt
  <2> QED
    BY <2>2, <2>3, <2>4, AppsStay
<1>6. CASE Commit(n)
  <2>1. UNCHANGED apps /\ pull' = [pull EXCEPT ![n].phase = "imported"]
    BY <1>6 DEF Commit
  <2>2. pull'[n].phase = "imported" /\ \A x \in Nodes : x # n => pull'[x] = pull[x]
    BY <1>0, <2>1 DEF Pull
  <2>3. AppsAt(n, apps'[n], pull'[n])
    BY <1>0, <2>1, <2>2 DEF AppsAt
  <2> QED
    BY <2>1, <2>2, <2>3, AppsStay
<1>7. CASE Reject(n) \/ Fail(n) \/ SaveCursor(n)
  <2> DEFINE more == [Idle(n) EXCEPT !.phase = "more", !.peer = pull[n].peer,
                                     !.pages = pull[n].pages]
  <2>1. Idle(n).phase = "idle" /\ more.phase = "more"
    BY DEF Idle
  <2>2. /\ pull' = [pull EXCEPT ![n] = Idle(n)] \/ pull' = [pull EXCEPT ![n] = more]
        /\ UNCHANGED apps
    BY <1>7 DEF Reject, Fail, SaveCursor
  <2> HIDE DEF more
  <2>3. pull'[n].phase \in {"idle", "more"} /\ \A x \in Nodes : x # n => pull'[x] = pull[x]
    BY <1>0, <2>1, <2>2
  <2>4. AppsAt(n, apps'[n], pull'[n])
    BY <1>0, <2>2, <2>3 DEF AppsAt
  <2> QED
    BY <2>2, <2>3, <2>4, AppsStay
<1> QED
  BY <1>1, <1>2, <1>3, <1>4, <1>5, <1>6, <1>7 DEF Import

LEMMA AppStep ==
    ASSUME AppsKnown, IndInv, AppInv, [Next]_vars
    PROVE  AppInv'
<1>1. CASE Tick \/ UNCHANGED vars
  BY <1>1 DEF Tick, vars, AppInv
<1>2. ASSUME NEW n \in Nodes, Client(n)
      PROVE  AppInv'
  <2>1. pull' = pull /\ \A x \in Nodes : apps[x] \subseteq apps'[x]
    <3>1. ASSUME NEW app \in AllApps, InstallApp(n, app)
          PROVE  pull' = pull /\ \A x \in Nodes : apps[x] \subseteq apps'[x]
      BY <3>1 DEF InstallApp, Request, IndInv, Others
    <3>2. CASE UNCHANGED <<pull, apps>>
      BY <3>2
    <3> QED
      BY ZenonT(60), <1>2, <3>1, <3>2 DEF Client, Authenticate, Write, Tombstone, Save, Clear, Resync,
                              Register, Unregister, Request
  <2> QED
    BY <2>1, AppsStay
<1> QED
  BY <1>1, <1>2, AskApps, ImportApps, FetchApps DEF Next

-----------------------------------------------------------------------------
(* No cursor passes a change that was not applied                            *)

\* Record k is in d, and every change of it is logged up to seq.
Settled(d, k, seq) ==
    Present(d.recs[k]) /\ \A i \in DOMAIN d.log : d.log[i].key = k => i <= seq

Brings(rest, k, theirs) == \E item \in rest : item.key = k /\ NotOlder(item, theirs)

\* Once the cursor that pull p has in hand is saved, the database, d now and s
\* in the transaction, will hold record k as theirs or newer.
Delivers(p, d, s, k, theirs) ==
    \/ p.phase \in {"idle", "more", "asked", "matched"}
    \/ p.phase \in {"fetched", "loaded"} /\ (NotOlder(d.recs[k], theirs) \/ Brings(p.rest, k, theirs))
    \/ p.phase = "importing" /\ (NotOlder(s.recs[k], theirs) \/ Brings(p.rest, k, theirs))
    \/ p.phase = "imported" /\ NotOlder(d.recs[k], theirs)

\* What is settled at a saved cursor is at the node; what is settled at the
\* cursor in hand is there or will be when the page is imported.
CursorInv ==
    \A n \in Nodes, k \in Keys :
        /\ \A m \in Nodes :
              Wanted(n, m, k) /\ Settled(db[m], k, cursor[n][m])
                 => NotOlder(db[n].recs[k], db[m].recs[k])
        /\ Wanted(n, pull[n].peer, k) /\ Settled(db[pull[n].peer], k, pull[n].last)
              => Delivers(pull[n], db[n], stage[n], k, db[pull[n].peer].recs[k])

\* A record that has changed since a place in the log has a change behind it.
LEMMA SettledBefore ==
    ASSUME NEW d \in Database, NEW e \in Database, Grows(d, e), NEW k \in Keys,
           NEW seq \in Nat, seq <= Len(d.log), Settled(e, k, seq)
    PROVE  Settled(d, k, seq) /\ e.recs[k] = d.recs[k]
<1>1. /\ Len(d.log) \in Nat /\ DOMAIN d.log = 1..Len(d.log)
      /\ Len(e.log) \in Nat /\ DOMAIN e.log = 1..Len(e.log)
      /\ Len(e.log) >= Len(d.log)
      /\ \A i \in 1..Len(d.log) : e.log[i] = d.log[i]
  BY DEF Database, Grows, Continues
<1>2. e.recs[k] = d.recs[k]
  <2> SUFFICES ASSUME e.recs[k] # d.recs[k] PROVE FALSE
    OBVIOUS
  <2>1. PICK i \in 1..Len(e.log) : i > Len(d.log) /\ e.log[i].key = k
    BY DEF Grows, Continues
  <2> QED
    BY <1>1, <2>1 DEF Settled
<1>3. ASSUME NEW i \in 1..Len(d.log), d.log[i].key = k
      PROVE  i <= seq
  BY <1>1, <1>3 DEF Settled
<1> QED
  BY <1>1, <1>2, <1>3 DEF Settled

\* Databases that grow keep what was at a saved cursor,
LEMMA SavedStays ==
    ASSUME IndInv, IndInv', CursorInv, \A x \in Nodes : Grows(db[x], db'[x]),
           NEW n \in Nodes, NEW m \in Nodes, NEW k \in Keys, Wanted(n, m, k),
           Settled(db'[m], k, cursor[n][m])
    PROVE  NotOlder(db'[n].recs[k], db'[m].recs[k])
<1>1. /\ db[n] \in Database /\ db[m] \in Database
      /\ cursor[n][m] \in Nat /\ cursor[n][m] <= Len(db[m].log)
  BY DEF IndInv, Replicas, Pulls
<1>2. db'[n] \in Database /\ db'[m] \in Database
  BY DEF IndInv, Replicas
<1>3. Settled(db[m], k, cursor[n][m]) /\ db'[m].recs[k] = db[m].recs[k]
  BY <1>1, <1>2, SettledBefore
<1>4. NotOlder(db[n].recs[k], db[m].recs[k])
  BY <1>3 DEF CursorInv
<1>5. NotOlder(db'[n].recs[k], db[n].recs[k])
  BY <1>4 DEF Grows, Advances, NotOlder
<1> QED
  BY <1>1, <1>2, <1>3, <1>4, <1>5, RowsComparable, NotOlderTransitive

\* and what a page will bring.
LEMMA InHandStays ==
    ASSUME IndInv, IndInv', CursorInv, \A x \in Nodes : Grows(db[x], db'[x]),
           NEW n \in Nodes, NEW k \in Keys, Wanted(n, pull[n].peer, k),
           Settled(db'[pull[n].peer], k, pull[n].last)
    PROVE  /\ db'[pull[n].peer].recs[k] = db[pull[n].peer].recs[k]
           /\ Delivers(pull[n], db[n], stage[n], k, db[pull[n].peer].recs[k])
           /\ Delivers(pull[n], db'[n], stage[n], k, db[pull[n].peer].recs[k])
<1> DEFINE m == pull[n].peer
           theirs == db[m].recs[k]
<1>1. /\ m \in Nodes /\ pull[n].last \in Nat /\ pull[n].last <= Len(db[m].log)
      /\ db[n] \in Database /\ db[m] \in Database
  BY DEF IndInv, Replicas, Pulls, Pull, PagesInLog
<1>2. db'[n] \in Database /\ db'[m] \in Database
  BY <1>1 DEF IndInv, Replicas
<1>3. Settled(db[m], k, pull[n].last) /\ db'[m].recs[k] = theirs
  BY <1>1, <1>2, SettledBefore
<1>4. Delivers(pull[n], db[n], stage[n], k, theirs)
  BY <1>3 DEF CursorInv
<1>5. NotOlder(db[n].recs[k], theirs) => NotOlder(db'[n].recs[k], theirs)
  <2> SUFFICES ASSUME NotOlder(db[n].recs[k], theirs) PROVE NotOlder(db'[n].recs[k], theirs)
    OBVIOUS
  <2>1. NotOlder(db'[n].recs[k], db[n].recs[k])
    BY DEF Grows, Advances, NotOlder
  <2> QED
    BY <1>1, <1>2, <2>1, RowsComparable, NotOlderTransitive
<1> HIDE DEF theirs
<1>6. Delivers(pull[n], db'[n], stage[n], k, theirs)
  BY <1>4, <1>5 DEF Delivers
<1> QED
  BY <1>3, <1>4, <1>6 DEF theirs

\* A step of node n, which may save the cursor it has in hand.
LEMMA CursorsStay ==
    ASSUME IndInv, IndInv', CursorInv, \A x \in Nodes : Grows(db[x], db'[x]),
           NEW n \in Nodes,
           \A x \in Nodes : x # n => pull'[x] = pull[x] /\ stage'[x] = stage[x],
           \A x, m \in Nodes :
              \/ cursor'[x][m] = cursor[x][m]
              \/ \A k \in Keys : Wanted(x, m, k) /\ Settled(db'[m], k, cursor'[x][m])
                    => NotOlder(db'[x].recs[k], db'[m].recs[k]),
           \/ pull'[n] = pull[n] /\ stage'[n] = stage[n]
           \/ \A k \in Keys :
                 Wanted(n, pull'[n].peer, k) /\ Settled(db'[pull'[n].peer], k, pull'[n].last)
                    => Delivers(pull'[n], db'[n], stage'[n], k, db'[pull'[n].peer].recs[k])
    PROVE  CursorInv'
<1> SUFFICES ASSUME NEW x \in Nodes, NEW k \in Keys
             PROVE  /\ \A m \in Nodes :
                          Wanted(x, m, k) /\ Settled(db'[m], k, cursor'[x][m])
                             => NotOlder(db'[x].recs[k], db'[m].recs[k])
                    /\ Wanted(x, pull'[x].peer, k) /\ Settled(db'[pull'[x].peer], k, pull'[x].last)
                          => Delivers(pull'[x], db'[x], stage'[x], k, db'[pull'[x].peer].recs[k])
  BY DEF CursorInv
<1>1. ASSUME NEW m \in Nodes, Wanted(x, m, k), Settled(db'[m], k, cursor'[x][m])
      PROVE  NotOlder(db'[x].recs[k], db'[m].recs[k])
  <2>1. CASE cursor'[x][m] = cursor[x][m]
    BY <1>1, <2>1, SavedStays
  <2>2. CASE cursor'[x][m] # cursor[x][m]
    BY <1>1, <2>2
  <2> QED
    BY <2>1, <2>2
<1>2. ASSUME Wanted(x, pull'[x].peer, k), Settled(db'[pull'[x].peer], k, pull'[x].last)
      PROVE  Delivers(pull'[x], db'[x], stage'[x], k, db'[pull'[x].peer].recs[k])
  <2>1. CASE pull'[x] = pull[x] /\ stage'[x] = stage[x]
    BY <1>2, <2>1, InHandStays
  <2>2. CASE ~(pull'[x] = pull[x] /\ stage'[x] = stage[x])
    BY <1>2, <2>2
  <2> QED
    BY <2>1, <2>2
<1> QED
  BY <1>1, <1>2

LEMMA CursorInit ==
    ASSUME Calm, Init
    PROVE  CursorInv
<1> SUFFICES ASSUME NEW n \in Nodes, NEW k \in Keys
             PROVE  /\ pull[n].phase = "idle"
                    /\ \A m \in Nodes : ~Present(db[m].recs[k])
  BY DEF CursorInv, Settled, Delivers
<1>1. \A m \in Nodes : db[m].recs[k] = NoRow
  BY DEF Init, Calm, InitialDatabase
<1> QED
  BY <1>1 DEF Init, Idle, Present, NoRow

LEMMA HandlesCursors ==
    ASSUME IndInv, IndInv', CursorInv, \A x \in Nodes : Grows(db[x], db'[x]),
           NEW n \in Nodes, Handles(n)
    PROVE  CursorInv'
<1>1. /\ UNCHANGED <<db, cursor, stage>>
      /\ \A x \in Nodes : x # n => pull'[x] = pull[x]
      /\ Handled(pull[n], pull'[n])
  BY HandlesMoves
<1>2. ASSUME NEW k \in Keys, Wanted(n, pull'[n].peer, k),
             Settled(db'[pull'[n].peer], k, pull'[n].last)
      PROVE  Delivers(pull'[n], db'[n], stage'[n], k, db'[pull'[n].peer].recs[k])
  <2>1. CASE pull'[n].phase \in {"asked", "matched"}
    BY <2>1 DEF Delivers
  <2>2. CASE pull'[n].phase \in {"fetched", "loaded"}
    <3>1. /\ pull[n].phase = "fetched" /\ pull'[n].rest = pull[n].rest
          /\ pull'[n].last = pull[n].last /\ pull'[n].peer = pull[n].peer
      BY <1>1, <2>2 DEF Handled
    <3>2. Delivers(pull[n], db[n], stage[n], k, db[pull[n].peer].recs[k])
      BY <1>1, <1>2, <3>1, InHandStays
    <3> QED
      BY <1>1, <2>2, <3>1, <3>2 DEF Delivers
  <2> QED
    BY <1>1, <2>1, <2>2 DEF Handled
<1> QED
  BY <1>1, <1>2, CursorsStay

LEMMA BeginCursors ==
    ASSUME IndInv, IndInv', CursorInv, \A x \in Nodes : Grows(db[x], db'[x]),
           NEW n \in Nodes, Begin(n)
    PROVE  CursorInv'
<1>1. /\ pull[n].phase \in {"fetched", "loaded"} /\ UNCHANGED <<db, cursor>>
      /\ stage' = [stage EXCEPT ![n] = db[n]]
      /\ pull' = [pull EXCEPT ![n].phase = "importing"]
  BY DEF Begin
<1>2. pull \in [Nodes -> Pull] /\ stage \in [Nodes -> Database]
  BY DEF IndInv, Pulls
<1>3. /\ pull'[n].phase = "importing" /\ pull'[n].peer = pull[n].peer
      /\ pull'[n].rest = pull[n].rest /\ pull'[n].last = pull[n].last /\ stage'[n] = db[n]
      /\ \A x \in Nodes : x # n => pull'[x] = pull[x] /\ stage'[x] = stage[x]
  BY <1>1, <1>2 DEF Pull
<1>4. ASSUME NEW k \in Keys, Wanted(n, pull'[n].peer, k),
             Settled(db'[pull'[n].peer], k, pull'[n].last)
      PROVE  Delivers(pull'[n], db'[n], stage'[n], k, db'[pull'[n].peer].recs[k])
  <2>1. Delivers(pull[n], db[n], stage[n], k, db[pull[n].peer].recs[k])
    BY <1>1, <1>3, <1>4, InHandStays
  <2> QED
    BY <1>1, <1>3, <2>1 DEF Delivers
<1> QED
  BY <1>1, <1>3, <1>4, CursorsStay

LEMMA ApplyChangeCursors ==
    ASSUME IndInv, IndInv', CalmInv, AppInv, CursorInv,
           \A x \in Nodes : Grows(db[x], db'[x]), NEW n \in Nodes, ApplyChange(n)
    PROVE  CursorInv'
<1>1. PICK item \in pull[n].rest :
         /\ stage' = [stage EXCEPT ![n] = Applied(n, stage[n], item)]
         /\ pull' = [pull EXCEPT ![n].rest = @ \ {item}]
  BY DEF ApplyChange, IndInv, Pulls
<1>2. pull[n].phase = "importing" /\ UNCHANGED <<db, cursor>>
  BY DEF ApplyChange
<1>3. /\ pull \in [Nodes -> Pull] /\ stage \in [Nodes -> Database] /\ db[n] \in Database
      /\ item \in Item
  <2>1. pull \in [Nodes -> Pull] /\ stage \in [Nodes -> Database] /\ db[n] \in Database
    BY DEF IndInv, Pulls, Replicas
  <2> QED
    BY <1>1, <2>1 DEF Pull
<1> DEFINE e == Applied(n, stage[n], item)
           m == pull[n].peer
<1>4. /\ item.op = "upsert" /\ Dated(written[item.key], Clock(n), item) /\ tombs[n] = {}
      /\ Orderly(written, Clock(n), stage[n])
  BY <1>2 DEF CalmInv
<1>5. /\ Grows(stage[n], e)
      /\ Allows(Policy[n][m], pull[n].known, item.key) => NotOlder(e.recs[item.key], item)
  BY <1>3, <1>4, AppliedGrows
<1> HIDE DEF e
<1>6. /\ stage'[n] = e
      /\ pull'[n].phase = "importing" /\ pull'[n].peer = m /\ pull'[n].last = pull[n].last
      /\ pull'[n].rest = pull[n].rest \ {item}
      /\ \A x \in Nodes : x # n => stage'[x] = stage[x] /\ pull'[x] = pull[x]
  BY <1>1, <1>2, <1>3 DEF e, Pull
<1>7. e \in Database
  <2>1. stage' \in [Nodes -> Database]
    BY DEF IndInv, Pulls
  <2> QED
    BY <1>6, <2>1
<1>8. ASSUME NEW k \in Keys, Wanted(n, pull'[n].peer, k),
             Settled(db'[pull'[n].peer], k, pull'[n].last)
      PROVE  Delivers(pull'[n], db'[n], stage'[n], k, db'[pull'[n].peer].recs[k])
  <2> DEFINE theirs == db[m].recs[k]
  <2>1. Delivers(pull[n], db[n], stage[n], k, theirs) /\ Wanted(n, m, k)
    BY <1>2, <1>6, <1>8, InHandStays
  <2>2. Comparable(theirs) /\ Comparable(e.recs[k]) /\ Comparable(stage[n].recs[k]) /\ Comparable(item)
    <3>1. db[m] \in Database
      BY <1>3 DEF Pull, IndInv, Replicas
    <3> QED
      BY <1>3, <1>7, <3>1, RowsComparable, ContentsComparable
  <2> HIDE DEF theirs
  <2>3. NotOlder(stage[n].recs[k], theirs) \/ Brings(pull[n].rest, k, theirs)
    BY <1>2, <2>1 DEF Delivers
  <2>4. NotOlder(e.recs[k], theirs) \/ Brings(pull'[n].rest, k, theirs)
    <3>1. CASE NotOlder(stage[n].recs[k], theirs)
      <4>1. NotOlder(e.recs[k], stage[n].recs[k])
        BY <1>5, <3>1 DEF Grows, Advances, NotOlder
      <4> QED
        BY <2>2, <3>1, <4>1, NotOlderTransitive
    <3>2. CASE item.key = k /\ NotOlder(item, theirs)
      <4>1. Policy[n][m].byApp => App[k] \in pull[n].known
        BY <1>2, <2>1 DEF AppInv, AppsAt
      <4>2. NotOlder(e.recs[k], item)
        BY <1>5, <2>1, <3>2, <4>1 DEF Allows, Wanted
      <4> QED
        BY <2>2, <3>2, <4>2, NotOlderTransitive
    <3>3. CASE \E other \in pull[n].rest \ {item} : other.key = k /\ NotOlder(other, theirs)
      BY <1>6, <3>3 DEF Brings
    <3> QED
      BY <2>3, <3>1, <3>2, <3>3 DEF Brings
  <2> QED
    BY <1>2, <1>6, <2>4 DEF Delivers, theirs
<1> QED
  BY <1>2, <1>6, <1>8, CursorsStay

LEMMA CommitCursors ==
    ASSUME IndInv, IndInv', CursorInv, \A x \in Nodes : Grows(db[x], db'[x]),
           NEW n \in Nodes, Commit(n)
    PROVE  CursorInv'
<1>1. /\ pull[n].phase = "importing" /\ pull[n].rest = {} /\ UNCHANGED cursor
      /\ db' = [db EXCEPT ![n] = stage[n]]
      /\ stage' = [stage EXCEPT ![n] = EmptyDatabase]
      /\ pull' = [pull EXCEPT ![n].phase = "imported"]
  BY DEF Commit
<1>2. pull \in [Nodes -> Pull] /\ stage \in [Nodes -> Database] /\ db \in [Nodes -> Database]
  BY DEF IndInv, Pulls, Replicas
<1>3. /\ pull'[n].phase = "imported" /\ pull'[n].peer = pull[n].peer
      /\ pull'[n].last = pull[n].last /\ db'[n] = stage[n]
      /\ \A x \in Nodes : x # n => pull'[x] = pull[x] /\ stage'[x] = stage[x]
  BY <1>1, <1>2 DEF Pull
<1>4. ASSUME NEW k \in Keys, Wanted(n, pull'[n].peer, k),
             Settled(db'[pull'[n].peer], k, pull'[n].last)
      PROVE  Delivers(pull'[n], db'[n], stage'[n], k, db'[pull'[n].peer].recs[k])
  <2>1. /\ Delivers(pull[n], db[n], stage[n], k, db[pull[n].peer].recs[k])
        /\ db'[pull'[n].peer].recs[k] = db[pull[n].peer].recs[k]
    BY <1>3, <1>4, InHandStays
  <2>2. NotOlder(stage[n].recs[k], db[pull[n].peer].recs[k])
    BY <1>1, <2>1 DEF Delivers, Brings
  <2> QED
    BY <1>3, <2>1, <2>2 DEF Delivers
<1> QED
  BY <1>1, <1>3, <1>4, CursorsStay

\* The cursor in hand is saved once its page is imported; a pull that ends in
\* any other way saves none.
LEMMA EndCursors ==
    ASSUME IndInv, IndInv', CursorInv, \A x \in Nodes : Grows(db[x], db'[x]),
           NEW n \in Nodes, Reject(n) \/ Fail(n) \/ SaveCursor(n)
    PROVE  CursorInv'
<1> DEFINE more == [Idle(n) EXCEPT !.phase = "more", !.peer = pull[n].peer,
                                   !.pages = pull[n].pages]
           m == pull[n].peer
<1>1. Idle(n).phase = "idle" /\ more.phase = "more"
  BY DEF Idle
<1>2. /\ pull' = [pull EXCEPT ![n] = Idle(n)] \/ pull' = [pull EXCEPT ![n] = more]
      /\ UNCHANGED db
      /\ stage' \in {stage, [stage EXCEPT ![n] = EmptyDatabase]}
      /\ \/ UNCHANGED cursor
         \/ pull[n].phase = "imported" /\ cursor' = [cursor EXCEPT ![n][m] = pull[n].last]
  BY DEF Reject, Fail, SaveCursor
<1>3. /\ pull \in [Nodes -> Pull] /\ stage \in [Nodes -> Database]
      /\ cursor \in [Nodes -> [Nodes -> Nat]] /\ m \in Nodes
  BY DEF IndInv, Pulls, Pull
<1> HIDE DEF more, m
<1>4. /\ pull'[n].phase \in {"idle", "more"}
      /\ \A x \in Nodes : x # n => pull'[x] = pull[x] /\ stage'[x] = stage[x]
  BY <1>1, <1>2, <1>3
<1>5. ASSUME NEW x \in Nodes, NEW y \in Nodes, cursor'[x][y] # cursor[x][y], NEW k \in Keys,
             Wanted(x, y, k), Settled(db'[y], k, cursor'[x][y])
      PROVE  NotOlder(db'[x].recs[k], db'[y].recs[k])
  <2>1. /\ pull[n].phase = "imported" /\ x = n /\ y = pull[n].peer
        /\ cursor'[x][y] = pull[n].last
    BY <1>2, <1>3, <1>5 DEF m
  <2>2. Delivers(pull[n], db[n], stage[n], k, db[pull[n].peer].recs[k])
    BY <1>2, <1>5, <2>1, InHandStays
  <2> QED
    BY <1>2, <2>1, <2>2 DEF Delivers
<1>6. \A k \in Keys : Delivers(pull'[n], db'[n], stage'[n], k, db'[pull'[n].peer].recs[k])
  BY <1>4 DEF Delivers
<1> QED
  BY <1>4, <1>5, <1>6, CursorsStay

\* A page ends at its last row, and has every exportable row before that.
LEMMA PageHasRow ==
    ASSUME IndInv, NEW n \in Nodes, NEW m \in Nodes, NEW from \in Nat,
           NEW last \in Emitted(n, m, from), NEW i \in Exportable(n, m, from), i <= last
    PROVE  i \in Emitted(n, m, from)
<1> DEFINE rows == Exportable(n, m, from)
           upTo(j) == {x \in rows : x <= j}
<1>1. Len(db[m].log) \in Nat /\ rows \subseteq 1..Len(db[m].log) /\ IsFiniteSet(rows)
  <2>1. Len(db[m].log) \in Nat
    BY DEF IndInv, Replicas, Database
  <2>2. rows \subseteq from + 1..Len(db[m].log)
    BY Zenon DEF Exportable
  <2>3. from + 1..Len(db[m].log) \subseteq 1..Len(db[m].log)
    <3> DEFINE l == Len(db[m].log)
    <3>1. l \in Nat
      BY <2>1
    <3> HIDE DEF l
    <3>2. from + 1..l \subseteq 1..l
      BY <3>1
    <3> QED
      BY <3>2 DEF l
  <2>4. IsFiniteSet(1..Len(db[m].log))
    BY <2>1, FS_Interval
  <2>5. rows \subseteq 1..Len(db[m].log)
    BY <2>2, <2>3
  <2> HIDE DEF rows
  <2> QED
    BY <2>1, <2>4, <2>5, FS_Subset
<1>2. last \in rows /\ Cardinality(upTo(last)) <= Batch
  BY DEF Emitted
<1>3. upTo(i) \subseteq upTo(last) /\ upTo(last) \subseteq rows
  BY <1>1, <1>2
<1>4. /\ IsFiniteSet(upTo(last)) /\ IsFiniteSet(upTo(i))
      /\ Cardinality(upTo(i)) <= Cardinality(upTo(last))
      /\ Cardinality(upTo(i)) \in Nat /\ Cardinality(upTo(last)) \in Nat
  BY <1>1, <1>3, FS_Subset, FS_CardinalityType
<1>5. Cardinality(upTo(i)) <= Batch
  BY <1>2, <1>4, MeshReplicationAssumption
<1> QED
  BY <1>5 DEF Emitted

LEMMA FetchCursors ==
    ASSUME IndInv, IndInv', CalmInv, AppInv, CursorInv,
           \A x \in Nodes : Grows(db[x], db'[x]),
           NEW n \in Nodes, NEW m \in Nodes, Fetch(n, m)
    PROVE  CursorInv'
<1> DEFINE from == cursor[n][m]
           rows == Emitted(n, m, from)
<1>1. /\ from \in Nat
      /\ UNCHANGED <<now, db, tombs, apps, cursor, stage, late, written>>
      /\ \A x \in Nodes : x # n => pull'[x] = pull[x]
  BY FetchedPage
<1>2. \/ pull'[n].phase = "idle"
      \/ /\ pull'[n].phase = "fetched" /\ pull'[n].peer = m
         /\ pull'[n].rest = {ItemOf(m, i) : i \in rows}
         /\ pull'[n].last \in rows \cup {0}
  BY FetchedPage
<1>3. db[m] \in Database /\ Orderly(written, Clock(m), db[m])
  BY DEF IndInv, Replicas, CalmInv
<1>4. /\ Len(db[m].log) \in Nat /\ DOMAIN db[m].log = 1..Len(db[m].log)
      /\ \A i \in 1..Len(db[m].log) : db[m].log[i].op = "upsert" /\ db[m].log[i].key \in Keys
  <2>1. db[m].log \in Seq(Change)
    BY <1>3 DEF Database
  <2>2. /\ Len(db[m].log) \in Nat /\ DOMAIN db[m].log = 1..Len(db[m].log)
        /\ \A i \in 1..Len(db[m].log) : db[m].log[i].key \in Keys
    <3>1. /\ Len(db[m].log) \in Nat /\ DOMAIN db[m].log = 1..Len(db[m].log)
          /\ \A i \in 1..Len(db[m].log) : db[m].log[i] \in Change
      BY <2>1
    <3> QED
      BY <3>1 DEF Change
  <2> QED
    BY <1>3, <2>2 DEF Orderly, Kept
<1>5. ASSUME NEW k \in Keys, Wanted(n, pull'[n].peer, k),
             Settled(db'[pull'[n].peer], k, pull'[n].last)
      PROVE  Delivers(pull'[n], db'[n], stage'[n], k, db'[pull'[n].peer].recs[k])
  <2>1. CASE pull'[n].phase = "idle"
    BY <2>1 DEF Delivers
  <2>2. CASE pull'[n].phase = "fetched"
    <3> DEFINE last == pull'[n].last
               theirs == db[m].recs[k]
    <3>1. /\ pull'[n].peer = m /\ pull'[n].rest = {ItemOf(m, i) : i \in rows}
          /\ last \in rows \cup {0}
          /\ Wanted(n, m, k) /\ Settled(db[m], k, last) /\ Present(theirs)
      BY <1>1, <1>2, <1>5, <2>2 DEF Settled
    <3> HIDE DEF last
    <3>2. CASE Settled(db[m], k, from)
      <4>1. NotOlder(db[n].recs[k], theirs)
        BY <3>1, <3>2 DEF CursorInv
      <4> QED
        BY <1>1, <2>2, <3>1, <4>1 DEF Delivers
    <3>3. CASE ~Settled(db[m], k, from)
      <4>1. PICK i \in 1..Len(db[m].log) : db[m].log[i].key = k /\ i > from
        BY <1>1, <1>4, <3>1, <3>3 DEF Settled
      <4>2. i <= last
        BY <1>4, <3>1, <4>1 DEF Settled
      <4>3. last \in rows
        BY <3>1, <4>1, <4>2
      <4>4. Owner[k] \in db[m].users
        BY <1>3, MeshStoreAssumption DEF Orderly, Kept
      <4>5. Allows(Policy[n][m], pull[n].known, k)
        BY <3>1 DEF Allows, Wanted, Fetch, AppInv, AppsAt
      <4>6. i \in Exportable(n, m, from)
        BY <1>1, <1>4, <3>1, <4>1, <4>4, <4>5 DEF Exportable
      <4>7. i \in rows
        BY <1>1, <4>2, <4>3, <4>6, PageHasRow
      <4>8. ItemOf(m, i).key = k /\ Holds(ItemOf(m, i), theirs)
        BY <1>1, <4>1, <4>7, ItemCalm
      <4>9. NotOlder(ItemOf(m, i), theirs)
        <5>1. NotOlder(theirs, theirs)
          BY <1>3, <3>1, RowsComparable, NotOlderReflexive
        <5> QED
          BY <4>8, <5>1 DEF NotOlder, Older, Wins, Holds, Present
      <4>10. Brings(pull'[n].rest, k, theirs)
        BY <3>1, <4>7, <4>8, <4>9 DEF Brings
      <4> QED
        BY <1>1, <2>2, <3>1, <4>10 DEF Delivers
    <3> QED
      BY <3>2, <3>3
  <2> QED
    BY <1>2, <2>1, <2>2
<1> QED
  BY <1>1, <1>5, CursorsStay

LEMMA CursorStep ==
    ASSUME Calm, AppsKnown, IndInv, CalmInv, AppInv, CursorInv, [Next]_vars
    PROVE  (IndInv /\ CalmInv /\ AppInv /\ CursorInv)'
<1>1. IndInv'
  BY NextInv
<1>2. CalmInv' /\ \A x \in Nodes : Grows(db[x], db'[x])
  BY <1>1, CalmStep
<1>3. AppInv'
  BY <1>1, AppStep
<1>4. cursor' = cursor /\ pull' = pull /\ stage' = stage => CursorInv'
  <2> SUFFICES ASSUME cursor' = cursor, pull' = pull, stage' = stage,
                      NEW n \in Nodes, NEW k \in Keys
               PROVE  /\ \A m \in Nodes :
                            Wanted(n, m, k) /\ Settled(db'[m], k, cursor[n][m])
                               => NotOlder(db'[n].recs[k], db'[m].recs[k])
                      /\ Wanted(n, pull[n].peer, k) /\ Settled(db'[pull[n].peer], k, pull[n].last)
                            => Delivers(pull[n], db'[n], stage[n], k, db'[pull[n].peer].recs[k])
    BY DEF CursorInv
  <2>1. ASSUME NEW m \in Nodes, Wanted(n, m, k), Settled(db'[m], k, cursor[n][m])
        PROVE  NotOlder(db'[n].recs[k], db'[m].recs[k])
    BY <1>1, <1>2, <2>1, SavedStays
  <2>2. ASSUME Wanted(n, pull[n].peer, k), Settled(db'[pull[n].peer], k, pull[n].last)
        PROVE  Delivers(pull[n], db'[n], stage[n], k, db'[pull[n].peer].recs[k])
    BY <1>1, <1>2, <2>2, InHandStays
  <2> QED
    BY <2>1, <2>2
<1>5. CASE Tick \/ UNCHANGED vars
  <2>1. cursor' = cursor /\ pull' = pull /\ stage' = stage
    <3>1. CASE Tick
      BY <3>1 DEF Tick
    <3>2. CASE UNCHANGED vars
      BY <3>2 DEF vars
    <3> QED
      BY <1>5, <3>1, <3>2
  <2> QED
    BY <1>1, <1>2, <1>3, <1>4, <2>1
<1>6. ASSUME NEW n \in Nodes, Client(n)
      PROVE  CursorInv'
  BY <1>4, <1>6 DEF Client, Authenticate, Write, Tombstone, Clear, Resync, Register,
                    Unregister, InstallApp, Request
<1>7. ASSUME NEW n \in Nodes, Import(n) \/ Fail(n)
      PROVE  CursorInv'
  <2>1. CASE Install(n) \/ Load(n)
    BY <1>1, <1>2, <2>1, HandlesCursors DEF Handles
  <2> QED
    BY <1>1, <1>2, <1>7, <2>1, BeginCursors, ApplyChangeCursors, CommitCursors, EndCursors DEF Import
<1>8. ASSUME NEW n \in Nodes, Match(n) \/ \E m \in Nodes : Ask(n, m)
      PROVE  CursorInv'
  BY <1>1, <1>2, <1>8, HandlesCursors DEF Handles
<1> QED
  BY <1>1, <1>2, <1>3, <1>5, <1>6, <1>7, <1>8, FetchCursors DEF Next

\* Among calm nodes a cursor never passes a change that was not applied: a node
\* holds all that its peers had logged up to the cursors it saved, as they do or
\* newer, and what it asks for by app too, where the peers have the apps from the
\* start: a node may still have to install them from the pages of its pulls, and
\* apps may be approved at any node at any time (PullPeer, SaveCursor).
THEOREM CursorsAreSound ==
    ASSUME Calm, AppsKnown
    PROVE  Spec => []CursorSound
<1>1. Init => IndInv /\ CalmInv /\ AppInv /\ CursorInv
  BY InitInv, CalmInit, AppInit, CursorInit
<1>2. /\ IndInv /\ CalmInv /\ AppInv /\ CursorInv
      /\ [Next]_vars
      => (IndInv /\ CalmInv /\ AppInv /\ CursorInv)'
  BY CursorStep
<1>3. IndInv /\ CalmInv /\ CursorInv => CursorSound
  <2> SUFFICES ASSUME IndInv, CalmInv, CursorInv, NEW n \in Nodes, NEW m \in Nodes,
                      NEW k \in Keys, Wanted(n, m, k), Present(db[m].recs[k]),
                      LoggedBy(m, k, cursor[n][m])
               PROVE  UpToDate(n, m, k)
    BY DEF CursorSound
  <2>1. NotOlder(db[n].recs[k], db[m].recs[k])
    BY DEF CursorInv, Settled, LoggedBy
  <2>2. ~Frozen(db[n].recs[k], Clock(n))
    BY <2>1 DEF NotOlder, CalmInv, Orderly, Dated
  <2> QED
    BY <2>1, <2>2 DEF NotOlder, UpToDate
<1> QED
  BY <1>1, <1>2, <1>3, PTL DEF Spec

-----------------------------------------------------------------------------
(* Two nodes that have read each other                                       *)

\* Two records of which neither is older are the same record: the order leaves
\* no tie.
LEMMA NoTies ==
    ASSUME NEW d \in Database, NEW e \in Database, NEW k \in Keys,
           NotOlder(d.recs[k], e.recs[k]), NotOlder(e.recs[k], d.recs[k])
    PROVE  Same(d.recs[k], e.recs[k])
<1> DEFINE r == d.recs[k]
           s == e.recs[k]
<1>1. r \in Row \cup {NoRow} /\ s \in Row \cup {NoRow}
  BY DEF Database
<1>2. r \in Row /\ s \in Row
  BY <1>1 DEF NotOlder, Present, NoRow
<1>3. r.at = s.at /\ r.dead = s.dead /\ r.rank = s.rank
  BY <1>2 DEF NotOlder, Older, Wins, Row
<1> QED
  BY <1>2, <1>3 DEF Same, Row

LEMMA AbsentSame ==
    ASSUME NEW d \in Database, NEW e \in Database, NEW k \in Keys,
           ~Present(d.recs[k]), ~Present(e.recs[k])
    PROVE  Same(d.recs[k], e.recs[k])
<1>1. d.recs[k] = NoRow /\ e.recs[k] = NoRow
  BY DEF Database, Present, Row
<1> QED
  BY <1>1 DEF Same

\* Calm nodes that pull from each other, by app only what is of apps their peers
\* have from the start, and that have both read every change of a record hold the
\* same record (ExportSQL, CompareRecordRepresentation).
THEOREM ReadersStayAlike ==
    ASSUME Calm, AppsKnown
    PROVE  Spec => []ReadersAgree
<1>1. Init => IndInv /\ CalmInv /\ AppInv /\ CursorInv
  BY InitInv, CalmInit, AppInit, CursorInit
<1>2. /\ IndInv /\ CalmInv /\ AppInv /\ CursorInv
      /\ [Next]_vars
      => (IndInv /\ CalmInv /\ AppInv /\ CursorInv)'
  BY CursorStep
<1>3. IndInv /\ CursorInv => ReadersAgree
  <2> SUFFICES ASSUME IndInv, CursorInv, NEW n \in Nodes, NEW m \in Nodes, NEW k \in Keys,
                      Wanted(n, m, k), LoggedBy(m, k, cursor[n][m]),
                      Wanted(m, n, k), LoggedBy(n, k, cursor[m][n])
               PROVE  Same(db[n].recs[k], db[m].recs[k])
    BY DEF ReadersAgree
  <2>1. db[n] \in Database /\ db[m] \in Database
    BY DEF IndInv, Replicas
  <2>2. Present(db[m].recs[k]) => NotOlder(db[n].recs[k], db[m].recs[k])
    BY DEF CursorInv, Settled, LoggedBy
  <2>3. Present(db[n].recs[k]) => NotOlder(db[m].recs[k], db[n].recs[k])
    BY DEF CursorInv, Settled, LoggedBy
  <2>4. CASE Present(db[n].recs[k])
    BY <2>1, <2>2, <2>3, <2>4, NoTies DEF NotOlder
  <2>5. CASE ~Present(db[n].recs[k])
    BY <2>1, <2>2, <2>5, AbsentSame DEF NotOlder
  <2> QED
    BY <2>4, <2>5
<1> QED
  BY <1>1, <1>2, <1>3, PTL DEF Spec

-----------------------------------------------------------------------------
(* Calm nodes implement last-writer-wins replicas                            *)

DeviceContents == [at : DeviceTimes, dead : BOOLEAN, rank : Ranks]

Held == [n \in Nodes |-> [k \in Keys |-> ContentOf(db[n].recs[k])]]

\* Clients have saved what devices send, and no two contents of one time.
WrittenInv ==
    \A k \in Keys :
        /\ written[k] \subseteq DeviceContents
        /\ \A v, w \in written[k] : v.at = w.at => v = w

\* A row that is there holds one of the contents saved of its key.
LEMMA ContentSaved ==
    ASSUME NEW ts \in SUBSET DeviceContents, NEW r, Present(r), OneOf(ts, r)
    PROVE  ContentOf(r) \in ts
<1>1. PICK w \in ts : Holds(r, w)
  BY DEF OneOf
<1>2. w = [at |-> w.at, dead |-> w.dead, rank |-> w.rank]
  BY <1>1 DEF DeviceContents
<1> QED
  BY <1>1, <1>2 DEF ContentOf, Holds

\* The time of a write is a device's time or the limit, which is below it.
LEMMA DeviceTime ==
    ASSUME NEW at \in DeviceTimes, NEW clock \in Nat
    PROVE  NormalizeWriteTime(at, clock) \in DeviceTimes
BY MeshStoreAssumption, MeshReplicationAssumption
   DEF DeviceTimes, NormalizeWriteTime, WriteTimeLimit

\* A client's write is a write of a replica.
LEMMA SaveWrites ==
    ASSUME Calm, IndInv, IndInv', CalmInv, WrittenInv, NEW n \in Nodes, NEW k \in Keys,
           Write(n, k) \/ Tombstone(n, k)
    PROVE  /\ WrittenInv'
           /\ \E c \in DeviceContents :
                /\ \A w \in written[k] : w.at # c.at
                /\ written' = [written EXCEPT ![k] = @ \cup {c}]
                /\ Held' = [Held EXCEPT ![n][k] = IF c.at > @.at THEN c ELSE @]
<1>1. PICK at \in DeviceTimes, rank \in Ranks, dead \in BOOLEAN :
         Save(n, k, [at |-> at, dead |-> dead, rank |-> rank])
  BY DEF Write, Tombstone
<1> DEFINE content == [at |-> at, dead |-> dead, rank |-> rank]
           w == [content EXCEPT !.at = NormalizeWriteTime(@, Clock(n))]
           r == db[n].recs[k]
<1>2. content \in Content
  BY MeshStoreAssumption, MeshReplicationAssumption DEF DeviceTimes, Content
<1>3. pull[n].phase # "importing" /\ UNCHANGED <<now, cursor, pull, stage>>
  BY DEF Write, Tombstone, Request
<1>4. /\ \A x \in Nodes, l \in Keys :
            (x # n \/ l # k) => db'[x].recs[l] = db[x].recs[l]
      /\ \A v \in written[k] : v.at # w.at
      /\ written' = [written EXCEPT ![k] = @ \cup {w}]
      /\ \/ db'[n].recs[k] = r /\ w.at < r.at
         \/ Holds(db'[n].recs[k], w) /\ (Present(r) => w.at > r.at)
  BY <1>1, <1>2, <1>3, SaveCalm
<1>5. Clock(n) \in Nat /\ written \in [Keys -> SUBSET Content] /\ db[n] \in Database
  BY ClockType DEF IndInv, Replicas, Others
<1>6. w \in DeviceContents /\ w.at \in Nat
  <2>1. NormalizeWriteTime(at, Clock(n)) \in DeviceTimes
    BY <1>5, DeviceTime
  <2>2. w = [at |-> NormalizeWriteTime(at, Clock(n)), dead |-> dead, rank |-> rank]
    OBVIOUS
  <2>3. DeviceTimes \subseteq Nat
    BY MeshStoreAssumption, MeshReplicationAssumption DEF DeviceTimes
  <2> QED
    BY <2>1, <2>2, <2>3 DEF DeviceContents
<1>7. r.at \in Int /\ (~Present(r) => w.at > r.at)
  BY <1>5, <1>6, RowsComparable DEF Comparable, Present
<1>8. w = [at |-> w.at, dead |-> w.dead, rank |-> w.rank]
  OBVIOUS
<1> HIDE DEF w, content
<1>9. ContentOf(db'[n].recs[k]) = IF w.at > ContentOf(r).at THEN w ELSE ContentOf(r)
  BY <1>4, <1>6, <1>7, <1>8 DEF ContentOf, Holds
<1> HIDE DEF r
<1>10. Held' = [Held EXCEPT ![n][k] = IF w.at > @.at THEN w ELSE @]
  <2>1. /\ Held' = [x \in Nodes |-> [l \in Keys |-> ContentOf(db'[x].recs[l])]]
        /\ Held = [x \in Nodes |-> [l \in Keys |-> ContentOf(db[x].recs[l])]]
    BY DEF Held
  <2>2. \A x \in Nodes, l \in Keys :
           ContentOf(db'[x].recs[l]) =
              IF x = n /\ l = k THEN IF w.at > Held[n][k].at THEN w ELSE Held[n][k]
              ELSE Held[x][l]
    BY <1>4, <1>9, <2>1 DEF r
  <2> DEFINE row == [l \in Keys |-> IF l = k THEN IF w.at > Held[n][k].at THEN w ELSE Held[n][k]
                                  ELSE Held[n][l]]
  <2>3. [l \in Keys |-> ContentOf(db'[n].recs[l])] = row
    BY <2>2
  <2>4. ASSUME NEW x \in Nodes, x # n
        PROVE  [l \in Keys |-> ContentOf(db'[x].recs[l])] = Held[x]
    BY <2>1, <2>2, <2>4
  <2>5. row = [Held[n] EXCEPT ![k] = IF w.at > @.at THEN w ELSE @]
    BY <2>1
  <2> HIDE DEF row
  <2>6. Held' = [x \in Nodes |-> IF x = n THEN row ELSE Held[x]]
    BY <2>1, <2>3, <2>4
  <2> QED
    BY <2>1, <2>5, <2>6
<1>11. WrittenInv'
  <2> SUFFICES ASSUME NEW l \in Keys
               PROVE  /\ written'[l] \subseteq DeviceContents
                      /\ \A u, v \in written'[l] : u.at = v.at => u = v
    BY DEF WrittenInv
  <2>1. CASE l = k
    BY <1>4, <1>5, <1>6, <2>1 DEF WrittenInv
  <2>2. CASE l # k
    BY <1>4, <1>5, <2>2 DEF WrittenInv
  <2> QED
    BY <2>1, <2>2
<1> QED
  BY <1>4, <1>6, <1>10, <1>11

\* What a commit changes is newer, and some client has saved it.
LEMMA CommitLearns ==
    ASSUME Calm, IndInv, IndInv', CalmInv, WrittenInv, NEW n \in Nodes, Commit(n)
    PROVE  /\ UNCHANGED written
           /\ \E news \in [Keys -> DeviceContents \cup {ContentOf(NoRow)}] :
                /\ \A k \in Keys : news[k] # Held[n][k] =>
                      news[k] \in written[k] /\ news[k].at > Held[n][k].at
                /\ Held' = [Held EXCEPT ![n] = news]
<1>1. UNCHANGED written /\ db' = [db EXCEPT ![n] = stage[n]]
  BY DEF Commit
<1>2. CalmInv' /\ Grows(db[n], db'[n])
  BY CommitCalm
<1>3. db[n] \in Database /\ db'[n] \in Database /\ db \in [Nodes -> Database]
  BY DEF IndInv, Replicas
<1> DEFINE news == [k \in Keys |-> ContentOf(db'[n].recs[k])]
<1>4. ASSUME NEW d \in Database, NEW k \in Keys, Dated(written[k], Clock(n)', d.recs[k])
      PROVE  /\ ContentOf(d.recs[k]) \in written[k] \cup {ContentOf(NoRow)}
             /\ Present(d.recs[k]) => ContentOf(d.recs[k]) \in written[k]
             /\ ~Present(d.recs[k]) => d.recs[k] = NoRow
  <2>1. written[k] \in SUBSET DeviceContents
    BY DEF WrittenInv
  <2>2. CASE Present(d.recs[k])
    BY <1>4, <2>1, <2>2, ContentSaved DEF Dated
  <2>3. CASE ~Present(d.recs[k])
    BY <2>3 DEF Database, Present, Row
  <2> QED
    BY <2>2, <2>3
<1>5. ASSUME NEW k \in Keys
      PROVE  /\ news[k] \in DeviceContents \cup {ContentOf(NoRow)}
             /\ news[k] # Held[n][k] =>
                   news[k] \in written[k] /\ news[k].at > Held[n][k].at
  <2> DEFINE r == db[n].recs[k]
             s == db'[n].recs[k]
  <2>1. Held[n][k] = ContentOf(r) /\ news[k] = ContentOf(s)
    BY DEF Held
  <2>2. /\ ContentOf(s) \in written[k] \cup {ContentOf(NoRow)}
        /\ Present(s) => ContentOf(s) \in written[k]
        /\ ~Present(s) => s = NoRow
    BY <1>1, <1>2, <1>3, <1>4 DEF CalmInv, Orderly
  <2>3. Dated(written[k], Clock(n), r)
    BY DEF CalmInv, Orderly
  <2>4. /\ Present(r) => ContentOf(r) \in written[k]
        /\ ~Present(r) => r = NoRow
    <3>1. CASE Present(r)
      BY <2>3, <3>1, ContentSaved DEF Dated, WrittenInv
    <3>2. CASE ~Present(r)
      BY <1>3, <3>2 DEF Database, Present, Row
    <3> QED
      BY <3>1, <3>2
  <2>5. Present(r) => NotOlder(s, r)
    BY <1>2 DEF Grows, Advances
  <2>6. r.at \in Int /\ s.at \in Int /\ ContentOf(r).at = r.at /\ ContentOf(s).at = s.at
    BY <1>3, RowsComparable DEF Comparable, ContentOf
  <2>7. written[k] \subseteq DeviceContents /\ \A v, w \in written[k] : v.at = w.at => v = w
    BY DEF WrittenInv
  <2> HIDE DEF r, s, news
  <2>8. CASE ContentOf(s) # ContentOf(r)
    <3>1. Present(s)
      BY <2>2, <2>4, <2>5, <2>8 DEF NotOlder
    <3>2. Present(r) => r.at # s.at /\ s.at >= r.at
      BY <2>2, <2>4, <2>5, <2>6, <2>7, <2>8, <3>1 DEF NotOlder, Older
    <3>3. ~Present(r) => s.at > r.at
      BY <2>6, <3>1 DEF Present
    <3>4. s.at > r.at
      BY <2>6, <3>2, <3>3
    <3> QED
      BY <2>1, <2>2, <2>6, <2>7, <3>1, <3>4
  <2>9. CASE ContentOf(s) = ContentOf(r)
    BY <2>1, <2>2, <2>7, <2>9
  <2> QED
    BY <2>8, <2>9
<1>6. news \in [Keys -> DeviceContents \cup {ContentOf(NoRow)}]
  BY <1>5
<1>7. Held' = [Held EXCEPT ![n] = news]
  BY <1>1, <1>3 DEF Held
<1> QED
  BY <1>1, <1>5, <1>6, <1>7

\* Every other step leaves the databases, and what has been written, alone.
LEMMA OthersStay ==
    ASSUME Calm, IndInv, CalmInv, [Next]_vars,
           \A n \in Nodes : ~Commit(n),
           \A n \in Nodes, k \in Keys : ~Write(n, k) /\ ~Tombstone(n, k)
    PROVE  UNCHANGED <<db, written>>
<1>1. ASSUME NEW n \in Nodes, NEW k \in Keys, Clear(n, k) \/ Resync(n, k)
      PROVE  FALSE
  BY <1>1 DEF Clear, Resync, Request, Calm
<1>2. ASSUME NEW n \in Nodes, NEW a \in Accounts, Unregister(n, a)
      PROVE  FALSE
  BY <1>2 DEF Unregister, Request, Calm
<1>3. ASSUME NEW n \in Nodes, NEW a \in Accounts, Register(n, a)
      PROVE  UNCHANGED <<db, written>>
  <2>1. db[n] \in Database /\ a \in db[n].users /\ db \in [Nodes -> Database]
    BY DEF IndInv, Replicas, CalmInv, Orderly, Kept
  <2>2. UpsertUser(db[n], a) = db[n]
    BY <2>1, UpsertUserSame
  <2> QED
    BY <1>3, <2>1, <2>2 DEF Register
<1>4. ASSUME NEW n \in Nodes, Client(n)
      PROVE  UNCHANGED <<db, written>>
  BY <1>1, <1>2, <1>3, <1>4 DEF Client, Authenticate, InstallApp
<1>5. ASSUME NEW n \in Nodes,
             \/ Match(n) \/ Import(n) \/ Fail(n)
             \/ \E m \in Nodes : Ask(n, m) \/ Fetch(n, m)
      PROVE  UNCHANGED <<db, written>>
  BY <1>5 DEF Match, Import, Install, Load, Begin, ApplyChange, Reject, SaveCursor, Fail, Ask, Fetch
<1>6. CASE Tick \/ UNCHANGED vars
  BY <1>6 DEF Tick, vars
<1> QED
  BY <1>4, <1>5, <1>6 DEF Next

LEMMA ReplicaStep ==
    ASSUME Calm, IndInv, IndInv', CalmInv, WrittenInv, [Next]_vars
    PROVE  WrittenInv' /\ [Registers!Next]_<<written, Held>>
<1>1. ASSUME NEW n \in Nodes, NEW k \in Keys, Write(n, k) \/ Tombstone(n, k)
      PROVE  WrittenInv' /\ Registers!Next
  <2>1. PICK c \in DeviceContents :
          /\ \A w \in written[k] : w.at # c.at
          /\ written' = [written EXCEPT ![k] = @ \cup {c}]
          /\ Held' = [Held EXCEPT ![n][k] = IF c.at > @.at THEN c ELSE @]
    BY <1>1, SaveWrites
  <2>2. Registers!Write(n, k, c)
    BY <2>1 DEF Registers!Write, Registers!Newer, Held
  <2> QED
    BY <1>1, <2>2, SaveWrites DEF Registers!Next, DeviceContents
<1>2. ASSUME NEW n \in Nodes, Commit(n)
      PROVE  WrittenInv' /\ Registers!Next
  <2>1. UNCHANGED written
    BY <1>2, CommitLearns
  <2>2. PICK news \in [Keys -> DeviceContents \cup {ContentOf(NoRow)}] :
           /\ \A k \in Keys : news[k] # Held[n][k] =>
                 news[k] \in written[k] /\ news[k].at > Held[n][k].at
           /\ Held' = [Held EXCEPT ![n] = news]
    BY <1>2, CommitLearns
  <2>3. Registers!Learn(n)
    BY <2>1, <2>2 DEF Registers!Learn, Registers!Newer, Held, DeviceContents
  <2> QED
    BY <2>1, <2>3 DEF Registers!Next, WrittenInv
<1>3. CASE UNCHANGED <<db, written>>
  BY <1>3 DEF WrittenInv, Held
<1> QED
  BY <1>1, <1>2, <1>3, OthersStay

LEMMA ReplicaInit ==
    ASSUME Calm, Init
    PROVE  WrittenInv /\ Registers!Init
<1>1. \A n \in Nodes : db[n] = InitialDatabase({})
  BY DEF Init, Calm
<1>2. \A n \in Nodes, k \in Keys : db[n].recs[k] = NoRow
  BY <1>1 DEF InitialDatabase
<1>3. written = [k \in Keys |-> {}]
  BY DEF Init
<1> QED
  BY <1>2, <1>3 DEF WrittenInv, Registers!Init

\* Calm nodes implement last-writer-wins replicas: a write is a write of the
\* replica, a commit makes it learn newer contents that some client saved, and
\* nothing else changes what it holds (UpsertRecord, ClientUpsert, PullPeer).
THEOREM NodesKeepTheNewest ==
    ASSUME Calm
    PROVE  Spec => KeepsNewest
<1>1. Init => IndInv /\ CalmInv /\ WrittenInv /\ Registers!Init
  BY InitInv, CalmInit, ReplicaInit
<1>2. IndInv /\ CalmInv /\ WrittenInv /\ [Next]_vars
      => (IndInv /\ CalmInv /\ WrittenInv)' /\ [Registers!Next]_<<written, Held>>
  BY NextInv, CalmStep, ReplicaStep
<1> QED
  BY <1>1, <1>2, PTL DEF Spec, KeepsNewest, Registers!Spec, Held
=============================================================================
