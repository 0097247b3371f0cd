--------------------------- MODULE MeshReplication ---------------------------
(***************************************************************************)
(* Nodes that replicate encrypted records by pulling each other's change    *)
(* logs (mesh.zi, mesh_store.zi), while clients write to them, re-sync and  *)
(* delete their accounts.  One pull is: load the saved cursor and request a *)
(* page, for which the peer reads its manifests, its apps and then its      *)
(* changes; install the page's app manifests, read which apps there are,    *)
(* apply the page's changes in one transaction, commit, save the next       *)
(* cursor in a transaction of its own, and request the next page if there   *)
(* is more.  A pull may end at any point of this (a lost request, an error, *)
(* a crash), and then leaves no more than what it committed.                *)
(***************************************************************************)
EXTENDS MeshStore

CONSTANTS
    Nodes,
    Peers,        \* Peers[n]: the nodes that n's policy lets it pull from
    Policy,       \* Policy[n][m]: what a pull of n from m asks for
    App,          \* App[k]: the app that owns the collection of key k
    InitialApps,  \* InitialApps[n]: the apps registered at n to begin with
    Legacy,       \* keys that may have been stored everywhere before write times
                  \* were limited
    Skew,         \* Skew[n]: how far n's clock runs ahead
    Batch,        \* NodeSyncBatchLimit: changes in a page
    MaxPages,     \* MaxPagesPerPull
    Requests,     \* the client requests of the instance
    UniqueTimes,  \* whether clients never date two writes of a key the same
    MaxTime,      \* bound on the global clock
    MaxRequests,  \* bound on the client requests of a behaviour
    MaxFailures,  \* bound on the failed pulls of a behaviour
    MaxLog        \* bound on a change log, beyond which a node stops pulling

ASSUME MeshReplicationAssumption ==
    /\ IsFiniteSet(Nodes)
    /\ Peers \in [Nodes -> SUBSET Nodes]
    /\ Policy \in [Nodes -> [Nodes -> [keys : SUBSET Keys, byApp : BOOLEAN,
                                       registry : BOOLEAN]]]
    /\ InitialApps \in [Nodes -> SUBSET {App[k] : k \in Keys}]
    /\ Legacy \subseteq Keys /\ \A k, l \in Legacy : k = l
    /\ Skew \in [Nodes -> Nat]
    /\ Batch \in Nat \ {0} /\ MaxPages \in Nat \ {0}
    /\ Requests \subseteq {"write", "tombstone", "clear", "resync", "register",
                           "unregister", "install", "delayed"}
    /\ UniqueTimes \in BOOLEAN
    /\ MaxTime \in Nat /\ MaxRequests \in Nat /\ MaxFailures \in Nat /\ MaxLog \in Nat

VARIABLES
    now,       \* global time; node n reads Clock(n)
    db,        \* db[n]: the committed database of n
    tombs,     \* tombs[n]: the accounts deleted at n (server_account_tombstones)
    apps,      \* apps[n]: the apps whose manifest is registered at n
    cursor,    \* cursor[n][m]: the cursor n has saved for m (node_sync_cursors)
    pull,      \* pull[n]: the pull that n's worker is in
    stage,     \* stage[n]: the database inside n's open import transaction
    late,      \* late[n]: the keys of the sync requests that n has authenticated
               \* and whose transaction has still to begin
    intent,    \* intent[k]: what the last client request about k left: the
               \* record "kept" or "gone" (history; no action reads it)
    written,   \* written[k]: where UniqueTimes, what clients have saved of key k
               \* (history; its times are the ones no further write has)
    requests,  \* client requests so far
    failures   \* failed pulls so far

vars == <<now, db, tombs, apps, cursor, pull, stage, late, intent, written,
          requests, failures>>

AllApps == {App[k] : k \in Keys}
Clock(n) == now + Skew[n]

\* One exported change, with the sequence number it has in the exporter's log.
Item == [seq : Nat, key : Keys, op : {"upsert", "delete"},
         at : Nat, dead : BOOLEAN, rank : Nat]

Phases == {"idle", "more", "asked", "matched", "fetched", "loaded", "importing", "imported"}

\* rest: the changes of the page not yet applied; apps: its manifests not yet
\* installed; known: the apps that the node at work has read it has; last: the cursor
\* to save; truncated: whether the exporter has more; pages: pages read by this pull.
Pull == [phase : Phases, peer : Nodes, rest : SUBSET Item, apps : SUBSET AllApps,
         known : SUBSET AllApps, last : Nat, truncated : BOOLEAN, pages : Nat]

Idle(n) == [phase |-> "idle", peer |-> n, rest |-> {}, apps |-> {}, known |-> {},
            last |-> 0, truncated |-> FALSE, pages |-> 0]

EmptyDatabase == [users |-> {}, recs |-> [k \in Keys |-> NoRow],
                  vers |-> [a \in Accounts |-> 0], log |-> <<>>]

-----------------------------------------------------------------------------
(* Initial states: every account is registered at every node.  A legacy key,  *)
(* of which there is at most one, may hold a record dated beyond any limit.   *)

Beyond == MaxTime + Drift + 1

InitialDatabase(legacy) ==
    LET fresh == [users |-> Accounts, recs |-> [k \in Keys |-> NoRow],
                  vers |-> [a \in Accounts |-> 0], log |-> <<>>]
        old   == [at |-> Beyond, dead |-> FALSE, rank |-> 1]
    IN  IF legacy = {} THEN fresh ELSE Stored(fresh, CHOOSE k \in legacy : TRUE, old)

Init ==
    /\ now = 0
    /\ \E legacy \in SUBSET Legacy : db = [n \in Nodes |-> InitialDatabase(legacy)]
    /\ tombs = [n \in Nodes |-> {}]
    /\ apps = InitialApps
    /\ cursor = [n \in Nodes |-> [m \in Nodes |-> 0]]
    /\ pull = [n \in Nodes |-> Idle(n)]
    /\ stage = [n \in Nodes |-> EmptyDatabase]
    /\ late = [n \in Nodes |-> {}]
    /\ intent = [k \in Keys |-> "none"]
    /\ written = [k \in Keys |-> {}]
    /\ requests = 0
    /\ failures = 0

-----------------------------------------------------------------------------
(* Client requests.  Each is one transaction, and waits while an import holds *)
(* the node's write lock.                                                     *)

Request(n, kind) ==
    /\ kind \in Requests
    /\ pull[n].phase # "importing"
    /\ requests < MaxRequests
    /\ requests' = requests + 1
    /\ UNCHANGED <<now, cursor, pull, stage, failures>>

\* A sync request carries the account's public key, which adds an account the
\* node does not know yet; a deleted account is refused.
Admitted(n, k) == (Owner[k] \in db[n].users \/ Owner[k] \notin tombs[n]) /\ App[k] \in apps[n]

\* A request is authenticated before its transaction begins, and checked no
\* more: the account may be deleted in between.
Authenticate(n, k) ==
    /\ "delayed" \in Requests
    /\ requests < MaxRequests
    /\ Admitted(n, k)
    /\ late' = [late EXCEPT ![n] = @ \cup {k}]
    /\ UNCHANGED <<now, db, tombs, apps, cursor, pull, stage, intent, written, requests, failures>>

\* The transaction of a request begins at once or later.
Begins(n, k) ==
    \/ Admitted(n, k) /\ UNCHANGED late
    \/ k \in late[n] /\ late' = [late EXCEPT ![n] = @ \ {k}]

\* The request commits unless it would grow the account past its limit.
Committed(n, k, d) ==
    /\ ~Exceeds(Used(db[n], Owner[k]), Used(d, Owner[k]))
    /\ db' = [db EXCEPT ![n] = d]

Save(n, k, content) ==
    /\ Begins(n, k)
    /\ LET saved == [content EXCEPT !.at = NormalizeWriteTime(@, Clock(n))]
       IN  /\ UniqueTimes => \A w \in written[k] : w.at # saved.at
           /\ written' = IF UniqueTimes THEN [written EXCEPT ![k] = @ \cup {saved}]
                         ELSE written
    /\ Committed(n, k, ClientUpsert(UpsertUser(db[n], Owner[k]), k, content, Clock(n)))
    /\ intent' = [intent EXCEPT ![k] = IF content.dead THEN "gone" ELSE "kept"]
    /\ UNCHANGED <<tombs, apps>>

DeviceTimes == 0..MaxTime + Drift

Write(n, k) ==
    /\ Request(n, "write")
    /\ \E at \in DeviceTimes, rank \in Ranks :
          Save(n, k, [at |-> at, dead |-> FALSE, rank |-> rank])

Tombstone(n, k) ==
    /\ Request(n, "tombstone")
    /\ \E at \in DeviceTimes, rank \in Ranks :
          Save(n, k, [at |-> at, dead |-> TRUE, rank |-> rank])

\* A full re-sync of the app that owns k, whose device no longer has the record.
Clear(n, k) ==
    /\ Request(n, "clear")
    /\ Begins(n, k)
    /\ db' = [db EXCEPT ![n] = ReplaceData(UpsertUser(@, Owner[k]), k, Clock(n))]
    /\ intent' = IF Present(db[n].recs[k]) THEN [intent EXCEPT ![k] = "gone"] ELSE intent
    /\ UNCHANGED <<tombs, apps, written>>

\* A full re-sync whose device uploads again the record that the node stores.
Resync(n, k) ==
    /\ Request(n, "resync")
    /\ Begins(n, k)
    /\ LET r       == db[n].recs[k]
           cleared == ReplaceData(db[n], k, Clock(n))
       IN  /\ Present(r) /\ ~r.dead
           /\ Committed(n, k, ClientUpsert(cleared, k,
                  [at |-> r.at, dead |-> FALSE, rank |-> r.rank], Clock(n)))
    /\ intent' = [intent EXCEPT ![k] = "kept"]
    /\ UNCHANGED <<tombs, apps, written>>

Register(n, a) ==
    /\ Request(n, "register")
    /\ tombs' = [tombs EXCEPT ![n] = @ \ {a}]
    /\ db' = [db EXCEPT ![n] = UpsertUser(@, a)]
    /\ UNCHANGED <<apps, late, intent, written>>

Orders(S) == {f \in [1..Cardinality(S) -> S] : \A i, j \in DOMAIN f : f[i] = f[j] => i = j}

Unregister(n, a) ==
    /\ Request(n, "unregister")
    /\ a \in db[n].users
    /\ tombs' = [tombs EXCEPT ![n] = @ \cup {a}]
    /\ \E order \in Orders({k \in KeysOf(a) : Present(db[n].recs[k])}) :
          db' = [db EXCEPT ![n] = DeleteAccount(@, a, Clock(n), order)]
    /\ intent' = [k \in Keys |-> IF Owner[k] = a /\ Present(db[n].recs[k])
                                THEN "gone" ELSE intent[k]]
    /\ UNCHANGED <<apps, late, written>>

\* An operator approves an app's manifest at the node.
InstallApp(n, app) ==
    /\ Request(n, "install")
    /\ apps' = [apps EXCEPT ![n] = @ \cup {app}]
    /\ UNCHANGED <<db, tombs, late, intent, written>>

-----------------------------------------------------------------------------
(* Export, at the node pulled from *)

\* AllowsAccount and AllowsRecord: the filters of the policy, and, where the
\* policy names apps, that the app of the collection is one of those known.
Allows(policy, known, k) == k \in policy.keys /\ (policy.byApp => App[k] \in known)

\* Mutant of Exportable: the export starts one row late.
ExportableLate(n, m, from) ==
    {i \in from + 2..Len(db[m].log) :
        LET row == db[m].log[i]
        IN  /\ Allows(Policy[n][m], pull[n].known, row.key)
            /\ \/ row.op = "delete"
               \/ Present(db[m].recs[row.key]) /\ Owner[row.key] \in db[m].users}

\* The log rows after `from` that an export emits: every deletion, and every
\* upsert whose record and account are still there.
Exportable(n, m, from) ==
    {i \in from + 1..Len(db[m].log) :
        LET row == db[m].log[i]
        IN  /\ Allows(Policy[n][m], pull[n].known, row.key)
            /\ \/ row.op = "delete"
               \/ Present(db[m].recs[row.key]) /\ Owner[row.key] \in db[m].users}

Emitted(n, m, from) ==
    LET rows == Exportable(n, m, from)
    IN  {i \in rows : Cardinality({j \in rows : j <= i}) <= Batch}

\* Mutant of ItemOf: a tombstone is exported as a live record.
ItemAlive(m, i) ==
    LET row == db[m].log[i]
        r   == db[m].recs[row.key]
    IN  IF row.op = "delete"
        THEN [seq |-> i, key |-> row.key, op |-> "delete", at |-> row.at,
              dead |-> FALSE, rank |-> 0]
        ELSE [seq |-> i, key |-> row.key, op |-> "upsert", at |-> r.at,
              dead |-> FALSE, rank |-> r.rank]

\* An upsert is exported with the record's present content.
ItemOf(m, i) ==
    LET row == db[m].log[i]
        r   == db[m].recs[row.key]
    IN  IF row.op = "delete"
        THEN [seq |-> i, key |-> row.key, op |-> "delete", at |-> row.at,
              dead |-> FALSE, rank |-> 0]
        ELSE [seq |-> i, key |-> row.key, op |-> "upsert", at |-> r.at,
              dead |-> r.dead, rank |-> r.rank]

\* The manifests of the policy's apps, which go with every page.
ExportedApps(n, m) ==
    IF Policy[n][m].registry /\ Policy[n][m].byApp
    THEN apps[m] \cap {App[k] : k \in Policy[n][m].keys}
    ELSE {}

-----------------------------------------------------------------------------
(* The pull of one node *)

\* The worker turns to peer m, or asks it for the next page.
Turns(n, m) ==
    /\ m \in Peers[n]
    /\ \/ pull[n].phase = "idle"
       \/ pull[n].phase = "more" /\ pull[n].peer = m
    /\ Len(db[n].log) <= MaxLog

\* Request a page under a policy that names apps: m reads its manifests first ...
Ask(n, m) ==
    /\ Policy[n][m].byApp
    /\ Turns(n, m)
    /\ pull' = [pull EXCEPT ![n] =
          [Idle(n) EXCEPT !.phase = "asked", !.peer = m, !.apps = ExportedApps(n, m),
                          !.pages = pull[n].pages]]
    /\ UNCHANGED <<now, db, tombs, apps, cursor, stage, late, intent, written, requests, failures>>

\* ... and then, for its collections, which apps it has.
Match(n) ==
    /\ pull[n].phase = "asked"
    /\ pull' = [pull EXCEPT ![n].phase = "matched", ![n].known = apps[pull[n].peer]]
    /\ UNCHANGED <<now, db, tombs, apps, cursor, stage, late, intent, written, requests, failures>>

\* m reads its changes after the cursor, and n receives the page.  last is the
\* exporter's NextCursor, or else the page's greatest sequence number, 0 if it has none.
Fetch(n, m) ==
    /\ IF Policy[n][m].byApp
       THEN pull[n].phase = "matched" /\ pull[n].peer = m
       ELSE Turns(n, m)
    /\ LET rows == Emitted(n, m, cursor[n][m])
           sent == pull[n].apps
       IN  \/ /\ rows = {} /\ sent = {}
              /\ pull' = [pull EXCEPT ![n] = Idle(n)]
           \/ /\ rows # {} \/ sent # {}
              /\ \E last \in rows \cup {0} :
                    /\ \A i \in rows : i <= last
                    /\ pull' = [pull EXCEPT ![n] =
                          [phase |-> "fetched", peer |-> m,
                           rest |-> {ItemOf(m, i) : i \in rows}, apps |-> sent, known |-> {},
                           last |-> last, truncated |-> Cardinality(rows) >= Batch,
                           pages |-> pull[n].pages + 1]]
    /\ UNCHANGED <<now, db, tombs, apps, cursor, stage, late, intent, written, requests, failures>>

\* Register one app of the page, in a transaction of its own.
Install(n) ==
    /\ pull[n].phase = "fetched"
    /\ \E app \in pull[n].apps :
          /\ apps' = [apps EXCEPT ![n] = @ \cup {app}]
          /\ pull' = [pull EXCEPT ![n].apps = @ \ {app}]
    /\ UNCHANGED <<now, db, tombs, cursor, stage, late, intent, written, requests, failures>>

\* Read, for a policy that names apps, which ones n has by now.
Load(n) ==
    /\ Policy[n][pull[n].peer].byApp
    /\ pull[n].phase = "fetched" /\ pull[n].apps = {}
    /\ pull' = [pull EXCEPT ![n].phase = "loaded", ![n].known = apps[n]]
    /\ UNCHANGED <<now, db, tombs, apps, cursor, stage, late, intent, written, requests, failures>>

\* Open the transaction of the page's changes.
Begin(n) ==
    /\ pull[n].phase = IF Policy[n][pull[n].peer].byApp THEN "loaded" ELSE "fetched"
    /\ stage' = [stage EXCEPT ![n] = db[n]]
    /\ pull' = [pull EXCEPT ![n].phase = "importing"]
    /\ UNCHANGED <<now, db, tombs, apps, cursor, late, intent, written, requests, failures>>

\* Mutant of Applied: the account's tombstone is not consulted.
AppliedToDeleted(n, d, item) ==
    IF ~Allows(Policy[n][pull[n].peer], pull[n].known, item.key)
    THEN d
    ELSE IF item.op = "delete"
         THEN ApplyDeletion(d, item.key, item.at, Clock(n))
         ELSE UpsertRecord(UpsertUser(d, Owner[item.key]), item.key,
                  [at |-> item.at, dead |-> item.dead, rank |-> item.rank], Clock(n))

\* What a change does to the database inside the transaction.
Applied(n, d, item) ==
    IF ~Allows(Policy[n][pull[n].peer], pull[n].known, item.key) \/ Owner[item.key] \in tombs[n]
    THEN d
    ELSE IF item.op = "delete"
         THEN ApplyDeletion(d, item.key, item.at, Clock(n))
         ELSE UpsertRecord(UpsertUser(d, Owner[item.key]), item.key,
                  [at |-> item.at, dead |-> item.dead, rank |-> item.rank], Clock(n))

\* The next change in the order of OrderedChanges.
ApplyChange(n) ==
    /\ pull[n].phase = "importing"
    /\ \E item \in pull[n].rest :
          /\ \A other \in pull[n].rest : item.seq <= other.seq
          /\ stage' = [stage EXCEPT ![n] = Applied(n, @, item)]
          /\ pull' = [pull EXCEPT ![n].rest = @ \ {item}]
    /\ UNCHANGED <<now, db, tombs, apps, cursor, late, intent, written, requests, failures>>

StorageFull(n) == \E a \in Accounts : Exceeds(Used(db[n], a), Used(stage[n], a))

Commit(n) ==
    /\ pull[n].phase = "importing" /\ pull[n].rest = {}
    /\ ~StorageFull(n)
    /\ db' = [db EXCEPT ![n] = stage[n]]
    /\ stage' = [stage EXCEPT ![n] = EmptyDatabase]
    /\ pull' = [pull EXCEPT ![n].phase = "imported"]
    /\ UNCHANGED <<now, tombs, apps, cursor, late, intent, written, requests, failures>>

\* One account past its limit rolls back the page of every account.
Reject(n) ==
    /\ pull[n].phase = "importing" /\ pull[n].rest = {}
    /\ StorageFull(n)
    /\ stage' = [stage EXCEPT ![n] = EmptyDatabase]
    /\ pull' = [pull EXCEPT ![n] = Idle(n)]
    /\ UNCHANGED <<now, db, tombs, apps, cursor, late, intent, written, requests, failures>>

\* Mutants of SaveCursor: the cursor is saved one row too far; the cursor is
\* saved, and the pull ended, while the import is still open.
SaveCursorPast(n) ==
    /\ pull[n].phase = "imported"
    /\ cursor' = [cursor EXCEPT ![n][pull[n].peer] = pull[n].last + 1]
    /\ pull' = [pull EXCEPT ![n] = Idle(n)]
    /\ UNCHANGED <<now, db, tombs, apps, stage, late, intent, written, requests, failures>>

SaveCursorEarly(n) ==
    /\ pull[n].phase \in {"importing", "imported"}
    /\ cursor' = [cursor EXCEPT ![n][pull[n].peer] = pull[n].last]
    /\ pull' = [pull EXCEPT ![n] = Idle(n)]
    /\ stage' = [stage EXCEPT ![n] = EmptyDatabase]
    /\ UNCHANGED <<now, db, tombs, apps, late, intent, written, requests, failures>>

SaveCursor(n) ==
    /\ pull[n].phase = "imported"
    /\ cursor' = [cursor EXCEPT ![n][pull[n].peer] = pull[n].last]
    /\ pull' = [pull EXCEPT ![n] =
          IF pull[n].truncated /\ pull[n].pages < MaxPages
          THEN [Idle(n) EXCEPT !.phase = "more", !.peer = pull[n].peer,
                               !.pages = pull[n].pages]
          ELSE Idle(n)]
    /\ UNCHANGED <<now, db, tombs, apps, stage, late, intent, written, requests, failures>>

\* The pull ends early: a request or a response is lost, a step returns an
\* error, or the node restarts.  An open transaction is rolled back.
Fail(n) ==
    /\ pull[n].phase # "idle"
    /\ failures < MaxFailures
    /\ failures' = failures + 1
    /\ stage' = [stage EXCEPT ![n] = EmptyDatabase]
    /\ pull' = [pull EXCEPT ![n] = Idle(n)]
    /\ UNCHANGED <<now, db, tombs, apps, cursor, late, intent, written, requests>>

Tick ==
    /\ now < MaxTime
    /\ now' = now + 1
    /\ UNCHANGED <<db, tombs, apps, cursor, pull, stage, late, intent, written, requests, failures>>

-----------------------------------------------------------------------------

Client(n) ==
    \/ \E k \in Keys : \/ Authenticate(n, k)
                      \/ Write(n, k) \/ Tombstone(n, k) \/ Clear(n, k) \/ Resync(n, k)
    \/ \E a \in Accounts : Register(n, a) \/ Unregister(n, a)
    \/ \E app \in AllApps : InstallApp(n, app)

Import(n) ==
    \/ Install(n) \/ Load(n) \/ Begin(n)
    \/ ApplyChange(n) \/ Commit(n) \/ Reject(n) \/ SaveCursor(n)

Next ==
    \/ Tick
    \/ \E n \in Nodes :
          \/ Client(n) \/ Match(n) \/ Import(n) \/ Fail(n)
          \/ \E m \in Nodes : Ask(n, m) \/ Fetch(n, m)

Spec == Init /\ [][Next]_vars

\* The worker runs a pull to its end and tries every peer in each round.
Fairness ==
    \A n \in Nodes : /\ WF_vars(Match(n) \/ Import(n))
                     /\ \A m \in Peers[n] : SF_vars(Ask(n, m) \/ Fetch(n, m))

FairSpec == Spec /\ Fairness

-----------------------------------------------------------------------------
(* Properties *)

\* Every variable has its type, and no saved cursor is ahead of the log that it
\* is a position in: the peer's next changes would be skipped.
TypeOK ==
    /\ now \in 0..MaxTime
    /\ db \in [Nodes -> Database]
    /\ tombs \in [Nodes -> SUBSET Accounts]
    /\ apps \in [Nodes -> SUBSET AllApps]
    /\ cursor \in [Nodes -> [Nodes -> Nat]]
    /\ \A n, m \in Nodes : cursor[n][m] <= Len(db[m].log)
    /\ pull \in [Nodes -> Pull]
    /\ stage \in [Nodes -> Database]
    /\ late \in [Nodes -> SUBSET Keys]
    /\ intent \in [Keys -> {"none", "kept", "gone"}]
    /\ written \in [Keys -> SUBSET Content]
    /\ requests \in 0..MaxRequests
    /\ failures \in 0..MaxFailures

Wanted(n, m, k) == m \in Peers[n] /\ k \in Policy[n][m].keys

LoggedBy(m, k, seq) == \A i \in DOMAIN db[m].log : db[m].log[i].key = k => i <= seq

\* n holds record k as m does or newer, and not as of beyond the limit.
UpToDate(n, m, k) ==
    LET mine   == db[n].recs[k]
        theirs == db[m].recs[k]
    IN  /\ Present(mine) /\ ~Frozen(mine, Clock(n))
        /\ Older(mine, theirs) => Frozen(theirs, Clock(m))

\* A cursor never passes a change that was not applied: once every change of
\* a record in the peer's log is behind the cursor saved for the peer, the node
\* holds that record as the peer does or newer, and no longer one from beyond
\* the limit.  SaveCursor runs after the import's transaction, in one of its
\* own, and upserts are exported with the content of the moment rather than of
\* the change (PullPeer, ExportSQL).
CursorSound ==
    \A n, m \in Nodes, k \in Keys :
        (Wanted(n, m, k) /\ Present(db[m].recs[k]) /\ LoggedBy(m, k, cursor[n][m]))
            => UpToDate(n, m, k)

\* Two records of an account never have the same server version on a node, and
\* none has one beyond the account's: clients page their changes by version
\* (NextVersion is called once for each write, by clients and imports).
VersionsUnique == \A n \in Nodes : DistinctVersions(db[n])

\* A node keeps nothing of an account deleted on it ("the live tables keep
\* nothing of it: it no longer syncs", account_hold.zi).
DeletedAccountsStayEmpty == \A n \in Nodes : \A a \in tombs[n] : Empty(db[n], a)

\* Once a node holds nothing of a deleted account, nothing of it comes back,
\* whatever its peers still export and whatever page was being imported at the
\* deletion, unless a request of the account that was authenticated before the
\* deletion is still to come (Tombstoned, AuthenticateBearer).
NoneRevived ==
    \A n \in Nodes : \A a \in tombs[n] \cap tombs'[n] :
        (Empty(db[n], a) /\ late[n] \cap KeysOf(a) = {}) => Empty(db'[n], a)
DeletedAccountsNotRevived == [][NoneRevived]_vars

\* Neither a client nor a peer grows an account past its limit, though a page
\* may hold several changes of it that pass the limit only together
\* (RememberQuota, Exceeds).
WithinQuota ==
    Quota > 0 => \A n \in Nodes, a \in Accounts : Used(db[n], a) <= Quota

\* A stored record is never replaced by an older one, nor lost, however pages
\* are repeated, delayed or reordered between peers, unless it is dated beyond
\* the limit, when any write replaces it (UpsertRecord).
NeverOlder ==
    [][\A n \in Nodes, k \in Keys :
          LET before == db[n].recs[k]
              after  == db'[n].recs[k]
          IN  Present(before) =>
                  /\ Present(after)
                  /\ Older(after, before) => Frozen(before, Clock(n)) /\ ~Frozen(after, Clock(n))]_db

Same(x, y) == [x EXCEPT !.ver = 0] = [y EXCEPT !.ver = 0]

\* Once clients stop writing, a node comes to hold every record of its peer in
\* the peer's version or a newer one, over any number of hops, and a record from
\* beyond the limit does not stand in the way.
CatchesUp ==
    <>[](\A n, m \in Nodes, k \in Keys :
            (Wanted(n, m, k) /\ Present(db[m].recs[k])) => UpToDate(n, m, k))

\* Once clients stop writing, nodes that pull from each other end up with the
\* same records.
Converges ==
    <>[](\A n, m \in Nodes, k \in Keys :
            Wanted(n, m, k) => Same(db[n].recs[k], db[m].recs[k]))

\* Nodes that pull from each other and have both read every change of a record
\* hold the same record, whatever pages they read it in, in what order and how
\* often: the order of two records leaves no tie (ExportSQL,
\* CompareRecordRepresentation).
ReadersAgree ==
    \A n, m \in Nodes, k \in Keys :
        (/\ Wanted(n, m, k) /\ LoggedBy(m, k, cursor[n][m])
         /\ Wanted(m, n, k) /\ LoggedBy(n, k, cursor[m][n]))
            => Same(db[n].recs[k], db[m].recs[k])

ContentOf(r) == [at |-> r.at, dead |-> r.dead, rank |-> r.rank]

\* The databases as replicas of what clients have saved.
Registers == INSTANCE LastWriterWins WITH
    Replicas <- Nodes,
    Records  <- Keys,
    Contents <- [at : DeviceTimes, dead : BOOLEAN, rank : Ranks],
    None     <- ContentOf(NoRow),
    held     <- [n \in Nodes |-> [k \in Keys |-> ContentOf(db[n].recs[k])]]

\* Where clients only save records, the nodes implement last-writer-wins
\* replicas: whatever a page brings, and however long it was under way, a node
\* takes from it only what some client saved, and only what is newer.
KeepsNewest == Registers!Spec

\* Once clients stop writing, every node comes to hold the newest of all that
\* was saved of a record, wherever that was: no write is lost to an older one.
NewestWins == Registers!Settled

\* A record that a client's request removed from a node does not come back to
\* it unless a client stores it again ("deletions replicate", README).
DeletionsStick ==
    [][\A n \in Nodes, k \in Keys :
          (intent[k] = "gone" /\ Present(db'[n].recs[k]))
              => (intent'[k] = "kept" \/ Present(db[n].recs[k]))]_<<db, intent>>

\* A record that the last request about it stored is still on some node.
NothingLost ==
    \A k \in Keys :
        intent[k] = "kept" => \E n \in Nodes :
            Present(db[n].recs[k]) /\ ~db[n].recs[k].dead

=============================================================================
