# Daochi in TLA+

Daochi is a node for personal, end-to-end encrypted data. Devices sync opaque records to a node; nodes
replicate them to each other; around this core a node keeps accounts and devices, a signed token ledger
("Dew"), deposits, referrals, chat, lists and app registrations. The node is written in Ziran (`*.zi`) over
SQLite. This directory models the parts of it that are hard to test, checks them with TLC, and proves the
most important properties for every value of the parameters with TLAPS.

Beside the node stand the programs that operate it, in Python and shell: they publish packages into the directory the
node serves from, mirror it, migrate its settings, build its native library, deploy it and roll it back, and
configure its bot. They are modelled too.

## The system: components, state, operations, properties

| Component | State it keeps | Operations | What makes it correct |
|---|---|---|---|
| Mesh replication (`mesh.zi`, `mesh_store.zi`, `mesh_cursor.zi`, `mesh_policy.zi`, `mesh_apps.zi`) | `node_sync_cursors`, the database of records | one worker pulls pages of each peer's change log, installs manifests, imports changes in one transaction, saves the cursor in another; export handler | last writer wins on every node; a cursor never passes an unapplied change; peers converge; an account's limit and deletion hold against imports |
| Change log and schema (`store_schema.zi`) | `server_encrypted_records`, `server_mesh_changes`, `server_sync_state`, tombstones | triggers log each insert, update and delete; a tombstone's content is stripped | every change is logged in the transaction that makes it |
| Client sync (`sync_http.zi`, `sync_application.zi`, `sync_writes.zi`, `account_state.zi`) | the same tables, typed tables, `server_version` | authenticate, validate, apply in one transaction, full re-sync, answer with changes | versions are unique positions; the limit holds; a deleted account stays deleted |
| Record paging (`record_sync.zi`, `delegated_sync.zi`) | none of its own | apply, then read a page up to the version of the moment | a device that pages to the end misses nothing |
| State hash history (`state_history.zi`, `state_hash.zi`, `sync_clients.zi`) | hash per account and version, compaction bounds | record, match, forget | a device that is given changes only ends with the node's state |
| Mesh history compaction (`mesh_history.zi`) | `compactedThrough`, per-peer cursors | acknowledge, compact, snapshot | a peer never skips a compacted change |
| Token ledger (`token_ledger.zi`, `token_allocation.zi`, `token_receipt.zi`, `token_checkpoint.zi`) | receipts in a hash chain, nonces, allocations | credit, spend, checkpoint | idempotent per nonce or payment, never overspent, an append-only chain |
| Gifts, unlocks, shop, rewards (`token_gift.zi`, `unlock.zi`, `token_shop.zi`, `token_reward.zi`, `reward_*.zi`) | unlock rows, claims | spend and grant in one transaction | a purchase is paid for once, and granted if paid |
| Monero deposits (`monero_deposits.zi`, `monero_deposit_store.zi`, `monero_invoice*.zi`, `monero_wallet.zi`) | deposits with a status, scan height | scan, confirm, credit, hold, compensate, finalize, roll back | a transfer is credited at most once, and taken back if the chain drops it |
| Referrals (`referral*.zi`) | issued and reversed rewards, outbox, debts | settle a purchase, process the outbox, collect debts | the reward follows the net purchase |
| Google Play (`google_play*.zi`) | purchases, reconciliation state | verify, grant, revoke on refund | as for deposits |
| Account hold (`account_hold.zi`, `retention.zi`) | a file per deleted account | hold, restore, expire | restore gives back what was held; nothing lives meanwhile |
| Authentication (`challenge.zi`, `session.zi`, `auth_sessions.zi`, `http_auth.zi`, `authorization*.zi`, `device_*.zi`, `signed_tx.zi`) | challenges, sessions, grants, device keys | issue, consume, revoke | a challenge or signed transaction is used once; a revoked grant ends |
| Trust and pairing (`trust_*.zi`, `node_*.zi`, `peer_trust.zi`) | peers, invitations, name claims, nonces | invite, accept, claim, resolve | a nonce is used once |
| App registry (`app_store.zi`, `app_registration.zi`, `app_grants.zi`, `manifest.zi`) | manifests with a sequence, approvals | register, approve, suspend | an old approval never undoes a newer one |
| Package publication and retention (`scripts/stage-release.py`, `app_release.py`, `package_retention.py`) | a directory per app: bundles, descriptors, archived releases, `latest-v2.json`, `history-v2.json`, `latest.json` | publish in format 2 under a lock, or in format 1 without; retire old releases of every app | what is offered can be fetched, with its dependencies; the latest pointer only advances; hosts of each format keep a release |
| Package mirror (`cdn/mirror.py`) | an object store of limited size, and its inventory | collect, lock, read the inventory, reserve, upload | every object is counted, the budget is kept |
| Node environment (`scripts/migrate-legacy-env.py`, `deploy/set-environment.sh`) | `daochi.env` | rename old names by hand or in a deployment, replace values | no setting is lost or changed; a second migration changes nothing |
| Native build (`Makefile`, `scripts/verify_deployment_inputs.py`) | the library and the record of its build | check, clean, compile, record | a make that succeeds leaves a library of its own inputs |
| Deployment and rollback (`.github/workflows/deploy.yml`, `deploy/*`, `scripts/verify_deployment_inputs.py`) | source tree, build and manifest on the host; installed files; backups; the service and its database | pin, send, verify, build, record, install, check health, roll back | the service runs one version in whole, built from what was pinned; writes survive; a rollback leaves nothing; the outage ends |
| Bot profile (`scripts/configure-lumi-bot.py`) | the profile at Telegram | compare, write, verify | a run that says verified is right; other bots stay as they are |
| Build checks, remote consoles, SSH bootstrap, compression benchmark (`scripts/`, `bench/`) | none that outlives a run | check, ask, measure | outside of this project |
| Social, chat, publications, lists, feedback, Lumi, packages, blobs, metrics, configuration, documentation | rows of their own | create, read, delete | mostly local to one row |

The parts meet in four places: SQLite's single writer (transactions serialise, everything between two
transactions interleaves), the record triggers (every path that writes a record feeds the mesh log), the token
ledger's nonces (every purchase, gift, deposit and reward is a spend or a credit), and account deletion (which
cascades through every table, while requests already authenticated and pages already fetched are under way).

The programs meet in files: a publication adds bundles while the mirror reads them and another publication retires them, a deployment
migrates the settings and moves the database. Their steps are commands, any of which may fail or be the last.

What is hard: steps of different transactions of one operation (fetch, import, cursor), content read later than
the change that announced it, pages that are repeated or split, clocks of different precision, accounts deleted
while their requests are under way, limits reached by several changes together, and retries of what has been done.
`PROJECT.json` lists the hazards at their lines.

## Modules

- `MeshStore` - the database of one node as a value, and the operators on it: the last-writer-wins merge
  (`UpsertRecord`, `ApplyDeletion`), a client's write (`ClientUpsert`), the clearing of a full re-sync
  (`ReplaceData`), the deletion of an account (`DeleteAccount`), each with what the triggers append to the change
  log and the version `NextVersion` gives; the storage measure and limit (`Used`, `Exceeds`).
- `MeshReplication` - nodes, each with a database, tombstones, registered apps, saved cursors, and the pull its
  worker is in; clients that write, tombstone, re-sync, register and delete accounts, with the gap between a request's
  authentication and its transaction.
- `LastWriterWins` - the abstract specification: replicas whose records hold one of the contents that clients wrote to them, each at a
  time of its own, and leave it only for a newer one. `MeshReplication` is checked and proved to implement it where clients only
  store records (`KeepsNewest`).
- `TokenLedger` - the token tables of a node as a value: the ledger, the lots a credit opens and the trace of the units a
  debit takes from them, processed payments and spend nonces; what an account may spend in a title (`Spendable`), the insertion of
  a receipt with its effect on the lots (`Insert`), and the once-only `Credited` and `Charged` built on it.
- `TokenAccounts` - the handlers that use the ledger: store purchases and refunds, wallet deposits, spends, gifts, unlocks,
  while accounts make and end friendships, are deleted and come back.
- `Purses` - the abstract specification: each account has a purse for each title and one for all of them, every
  effect happens once, and only a refund takes what is not there. `TokenAccounts` is checked and proved to implement it (`PursesKept`).
- `PackageStore` - the package directory: publishers of both formats, retention (`RetainedChoices`, `References`) and its
  removals file by file, publishers that overlap and stop between any two files.
- `PackageMirror` - runs of the mirror, whose requests may fail with or without effect, while the store changes.
- `NodeEnvironment` - the settings file as the sequence of its lines, with both modes of the migration - `Extended` appends the new
  names that no line has (`WithNames`), `CanonicalOnly` keeps of the settings with one new name the first line (`Remaining`, `InOrder`), under that name - and
  the replacement of values (`Replaced`).
- `NativeBuild` - the make target of the native library, while compilers and sources change.
- `Deployment` - consecutive deployments, command by command, with the rollback, and the service whose database has a log.
- `BotProfile` - runs that configure the bot, overlapping, with lost answers and edits by others.
- `Operations` - the six programs above side by side: the first state chooses the one that runs.
- `MCMesh`, `MCTokens`, `MCOperations` - the instances for TLC.
- `MeshReplication_proofs` (with the lemmas about `MeshStore`), `PackageStore_proofs`, `Deployment_proofs`, `Scripts_proofs`
  (about `NativeBuild`, `BotProfile`, `PackageMirror`, `NodeEnvironment` and `Operations`), and three that build on each other about the tokens: `TokenAccounts_proofs`,
  `TokenBooks_proofs` (sums), `TokenPurses_proofs` (refinement) - the lemmas and theorems.
- `Sums` - lemmas about `SumFunctionOnSet` of the community modules, for the proofs.

`MeshReplication` composes the operators of `MeshStore`, `TokenAccounts` those of `TokenLedger`. The two systems
share accounts only; account deletion is in both. The operating programs share no variable of their models:
`PackageMirror` has the store as a set of bundles that `Republish` changes, and a deployment's calls of the settings
programs are single steps of `Deployment`, whose details are `NodeEnvironment`.

### How the model corresponds to the code

| Model | Code |
|---|---|
| `db[n].recs`, `.vers`, `.users`, `.log` | `server_encrypted_records`, `server_sync_state`, `server_users`, `server_mesh_changes` |
| `tombs[n]`, `apps[n]`, `cursor[n][m]` | `server_account_tombstones`, registered manifests, `node_sync_cursors` |
| `pull[n]`, `stage[n]` | the locals of `PullPeer` and the open transaction of `ImportEncryptedBatch` |
| `late[n]` | requests between `AuthenticateBearer` and `ApplyWithinLimit` |
| `Ask`, `Match`, `Fetch` | the export of one page: manifests (`mesh.zi:155`), the apps for the policy's collections (`mesh_store.zi:206`), changes - statements of their own |
| `Install`, `Load`, `Begin`, `ApplyChange`, `Commit`/`Reject`, `SaveCursor` | the steps of one page in `PullPeer`: a transaction per manifest, the apps the importer has, the transaction of the changes, the cursor; each is an action because other actors act between them |
| `book.ledger`, `.lots`, `.traced` | `token_ledger`, `token_allocations`, `token_allocation_debits` |
| `book.paid`, `.nonces` | `token_processed_payments`, `token_spend_nonces` |
| `sales`, `friends`, `unlocks` | `google_play_purchase_lifecycle`, `server_friendships`, `account_unlocks` |
| `written[k]` | no variable of the code: what clients have saved of a record, for the properties and for distinct times |
| `Fail` | an error return anywhere in `PullPeer`, a lost request, or a restart |

A record's content is its time, whether it is a tombstone, and its rank among the representations of one time
(the order of `CompareRecordRepresentation`, taken to be total). Times are ticks; a deletion is logged in
whole `Second`s. A full re-sync concerns one record per app, so clearing the app is clearing a key. A stored record has one
unit of size and a tombstone none. A client's tombstone is taken to arrive without content, so that the
stripping trigger does not log it a second time. `MaxTime`, `MaxRequests`, `MaxFailures` and `MaxLog` bound
the instances and appear in guards only.

For the operating programs a step is a command, a file that is replaced, or a request, because a run may end or another act between any
two; what a run has read is in its record.

| Model | Code |
|---|---|
| `bundles[a]`, `archived[a]`, `releases[a]` | the files `<digest>.zx`/`.zib`, `<digest>.*.release-v2.json` and `release-<n>.json` of app `a` |
| `latest[a]`, `history[a]`, `legacy[a]` | what `latest-v2.json`, `history-v2.json` and `latest.json` name |
| `lock`, `run[p]` | `publication_lock`; the locals of `stage` and `retain` in process `p` |
| `stored`, `inventory`, `bucket`, `mirror[m]` | the node's bundles, `.mirror.json`, the objects, the locals of a run |
| `environment` | the lines of `daochi.env` |
| `library`, `metadata`, `make`, `since` | the static library, its record, where `make` is, the inputs there were since it began |
| `origin`, `host`, `backup` | `/opt/daochi-src`; `/opt/daochi` with the settings and the credential; the files with the stamp |
| `database`, `wal`, `service`, `job` | `daochi.db`, `daochi.db-wal`, the unit, the workflow's current command |
| `configured[b]`, `configuring[r]` | the fields at Telegram that have the wanted value; the locals of a run |

`accepted` and `reverted` of `Deployment`, `edited` of `BotProfile`, `torn` and `raced` of `PackageStore` and `forgotten` of `PackageMirror` record
history for the properties: no action reads them. A digest stands for a
bundle's content. `Stop`, `Abandon`, `StopMake`, `Fail` and `ExitEarly` are an error of any command, a signal, or a lost host.

Every token handler is one transaction on the node's single connection, so it is one action; its refusal, and its repetition after a
lost answer, change nothing and are stutters - that this is so is what the nonce and payment guards of the actions say. A receipt is its
position in the ledger. The reference of a spend is its action and key; other references are one value.
`History` is the ledger from before the allocation tables: it has payments and nonces, but no lots. The shop's
coins are products like the others. Amounts are whole and small: integer width is not modelled, and a refund is of some units rather
than of a quantity. A deposit has no title (`NoTitle`), as in the code. `MaxEntries` bounds the ledger, in guards only.

## Runs

Runs of the mesh are instances of `MCMesh`, runs of the tokens of `MCTokens`, runs of the operating programs of `MCOperations`.

| Run | Expectation | Question |
|---|---|---|
| `lww` | pass: `TypeOK`, `CursorSound`, `ReadersAgree`, `NeverOlder`, `Converges`, `KeepsNewest`, `NewestWins` | Two nodes pull from each other in pages of one change while three client writes or tombstones are dated up to one tick ahead, with one failure anywhere. |
| `line` | pass: `CatchesUp` | Three nodes in a line; the manifest starts at the first, a frozen record may be everywhere; three requests and a failure. |
| `accounts` | pass: `VersionsUnique`, `WithinQuota`, `DeletedAccountsNotRevived` | Two records of one account, room for one; three requests that write, tombstone, clear, re-sync, register or delete, each perhaps delayed between its authentication and its transaction; pages of two changes. |
| `ties` | violation of `Converges` | Two representations at one time. |
| `deletion_ahead` | violation of `Converges` | A record dated ahead of the clock is cleared. |
| `deletion_echo` | violation of `DeletionsStick` | The peer's copy of a cleared record is imported again. |
| `resync_split` | violation of `NothingLost` | A page boundary inside a full re-sync. |
| `late` | violation of `DeletedAccountsStayEmpty` | An authenticated request commits after the deletion of its account. |
| `ledger` | pass: `TypeOK`, `AuditTrail`, `BoughtStaysInTitle`, `GiftsPaired`, `ItemsChargedOnce`, `UnlocksPaidFor` | Two accounts with purchases and a charge under Entity from before the lots, and up to four new receipts in every order. |
| `purses` | pass: `PursesKept` | The ledger implements `Purses`, with five new receipts. |
| `operations` | pass: `OperationsTypeOK` and the properties below | Each operating program by itself, with overlapping runs, lost answers, failing commands and stops: the first state chooses the program. |
| `crashed_rollback` | violation of `RollbackRestores` | A rollback after the new version's process died and left its log. |

What the properties of `lww` and `line` say. `CursorSound`: a saved cursor never passes a change that was not applied. `ReadersAgree`: two nodes
whose cursors are past all changes of a record at each other hold the same record - without any fairness, unlike `Converges`. `NeverOlder`: no stored
record is replaced by an older one. `KeepsNewest`: what a node takes from a page, however late, is something a client saved and is newer than what the
node held: the nodes implement `LastWriterWins`. `Converges` and `NewestWins`: once clients stop, the nodes have the same records, and of each the
newest that was saved anywhere. `CatchesUp`: over hops too, and in spite of records from beyond the limit.

What the token properties say. `AuditTrail`: what is left of a lot is what was credited less what is traced to it, each
debit is traced in full to lots of its own account, and untraced units do not exceed what the account had before there
were lots. `BoughtStaysInTitle`: units bought in a store for a title leave only by a purchase in that title or their own
refund. `GiftsPaired`: no gift is half done. `ItemsChargedOnce`: no product of the shop or unlock is charged to an account
twice, over changed titles, changed prices and deleted accounts. `UnlocksPaidFor`: a client that chooses the key of a spend cannot
make it pass for the payment of an unlock. `PursesKept`: sums over receipts and lots behave like purses, whose balance only a
refund of spent units takes below zero.

What the properties of `operations` say.

- Packages. `OffersServed`: the latest release and every release of the history can be downloaded. `DependenciesServed`: so can
  the exact bundles of other apps they need. Both except the files in `torn`, which releases lacked that a stopped retention was still to
  retire. `LegacyServed`: the bundle of `latest.json` outlives the releases of format 2 with the same
  bytes, unless its publication overlapped a retention (`raced`). `NoRollback`: the latest pointer only advances. `FormatsRetained`: a history
  that lists an archived release of a format that can be read goes on listing one of that format, while no archive has a torn first bundle.
- `SpaceCounted`: after lost answers and overlapping runs, every object in the bucket is reserved, and the reservation fits, but for what a
  run forgot that took a failed request for a missing inventory (`forgotten`).
- `SettingsKept` and `DeployedOnce`: a migration changes the value of no setting - of a file that sets `MONERO_WALLET_RPC_URL` and
  an older name of it to different values, it keeps one of the two - and a second one changes nothing.
- `NativeFresh`: a make that succeeds leaves a library of inputs there were while it ran.
- Deployments. `RunsWhole`: a service has binary, manifest, settings, credential and schema of one version. `BuiltFromPinned`:
  that version was built from what was pinned. `AcceptedKept`: no write of a version that was not rolled back is lost.
  `RollbackRestores`: of a version that was, nothing is left. `OutageEnds`: a stopped service runs again, unless a rollback fails too.
- `VerdictHolds`: a run that says verified is right about all that nobody else edited. `OtherBotsUntouched`: with the token
  of another bot nothing is changed.

In `operations` only the first version's process may die (`MayDie`), because of what `crashed_rollback` shows; that is the one
constant in which the two differ for a deployment.

The passing runs of the mesh leave out what the violations show: `lww` and `line` use distinct times and no hard deletion. Elsewhere, where
the code does not keep to a property in every case, the property itself names the case, and the instance reaches it: without that clause TLC finds
`OffersServed`, `DependenciesServed`, `LegacyServed`, `SpaceCounted` and `SettingsKept` violated in `operations` (in 74, 66, 29, 17 and 4 states).

Bounds. Two nodes are the smallest mesh with an echo, three in a line the smallest with a hop. Pages of one
change put every page boundary everywhere; pages of two let one page exceed a limit only as a whole. Two
requests are needed for a race of versions, three for a write, a tombstone and a write again. `Drift = 1` and
`Second = 2` make room for a record ahead of the clock and for a truncated deletion; `line`, where pulls of apps take more steps, has `Drift = 0` and
three requests. `lww` reaches 205,606 states, `line` 106,838 and `accounts` 1,117,270.

For the tokens, two accounts are needed for a gift, three titles for the shop's, Entity and another, two gift requests to repeat a
gift of the same amount, and amounts 1 and 2 to split a debit over two lots and a refund into two. One account's history holds an item
charged under Entity, the other's an unlock. Four new receipts are enough to buy, spend part of the lot, be refunded below zero and spend
again; five, in `purses`, to pay in as well. `ledger` reaches 493,797 states, `purses` about 37,000.

For the operating programs: two publishers, of whom one stops once, and `Retained = 2` with four releases of a game in both
formats, so that retention chooses, protects and removes. Its third release has the bundle of the second, as two sequences
have in `scripts/test_stage_release.py`, and a publication of format 1 has that bundle too; three releases of a collection need bundles of the
game, and may themselves be needed, and the metadata of the second may be unreadable. So two of a game's releases share a bundle that a third app's
release depends on, a dependency may be retired half-way, and the same bytes are in both formats. The dependencies of later releases
only fix an order of publication, which keeps the instance small. There are two stores to begin with, one that is moving from format 1 to format 2 and one
that is already there. Retention needs at least one place per format, hence
`Retained >= 2` where the code has 3. Two mirrors and three bundles, of which two do not fit together and one is too large
(an empty inventory is within the budget, for every size of bundles); any read of the inventory may be misread. Four lines and two values put a
setting under all its three names, with a repetition. Three
deployments make a failed one stand between two others; the ratio is raised or not. Two runs of the bot. The run reaches 387,455 states.

Fairness of deployments: the workflow's job goes from command to command (`WF JobStep`), each of which ends or fails; nothing
is assumed of the service, of its writers or of the operator.

Fairness. The worker of `mesh.zi` runs one pull to its end (weak fairness of `Import`, a single process) and
visits every peer in each round of its ticker (strong fairness of the first step of a pull, whose peer another pull may
interrupt). Nothing is assumed of clients, of the clock or of failures, which are bounded.

## Proofs

The mesh, first half. Lemmas show that each operator of `MeshStore` returns a `Sound` database - of the right type, its versions distinct -
and that a transaction of one account leaves the records and versions of the others alone. They are
combined into the inductive invariant `IndInv`: `Replicas` (types, and `VersionsUnique`), `Pulls` (the
cursor to be saved is within the exporter's log - `PagesInLog` -, and the staged database is sound, holds nothing of a deleted
account that had been empty, and keeps the others - `StagesSound`), and `Others`. `PagesInLog` is needed because the
cursor is saved from the page, not from the log; `StagesSound` because `Commit` installs a database that was built over several
steps while requests may not write but tombstones may be compared at each.

Second half: last writer wins, and no change is skipped. The order of records is total on what a node can hold (`Comparable`), an
operator of the store never puts an older record over a newer one (`Advances`) and logs every key it changes behind what was logged
(`Continues`); `Grows` is both. `CalmInv` says that every record, in a database, a page or a transaction, holds what some client saved and is not from beyond
the limit (`Dated`), and that a transaction grows its database. `AppInv` says, for each step of a pull, that the app of every record it asks for is at the node or still to be installed from the page, and that whichever
node is at work on the page has read that it has it. `CursorInv`
extends `CursorSound` to the cursor that a pull has in hand (`Delivers`): what is behind it is at the node, in the rest of the page, or in
the transaction, as the exporter has it *now*. The last word is the point: an upsert is exported with the content of the moment, so a record that
changes after its page was read must have a new change beyond the cursor (`SettledBefore`). Where two nodes have read each other, `CursorInv` holds both
ways, and two records of which neither is older are one (`NoTies`): that is `ReadersStayAlike`.

The refinement of `LastWriterWins` maps what a node holds of a key to what its row has, and `written` to itself. A client's request is `Write`
(`SaveWrites`); `Commit`, which puts a transaction of several steps in the place of the database, is `Learn` (`CommitLearns`): by `CalmInv` what it brings was saved by
a client, by `Grows` it is no older, and as clients never save two contents of one time (`WrittenInv`), what is no older and another is newer. Every other
step leaves the databases alone (`OthersStay`). `Learn` takes any newer contents, not only the newest: that the newest arrives is liveness (`NewestWins`).

| Theorem | States |
|---|---|
| `TypeCorrect` | `Spec => []TypeOK`, with no cursor ahead of the log it belongs to |
| `DistinctServerVersions` | `Spec => []VersionsUnique` |
| `NotRevived` | `Spec => DeletedAccountsNotRevived` |
| `QuotaKept` | `Spec => []WithinQuota` |
| `NewestStays` | `Calm` implies `Spec => NeverOlder` |
| `CursorsAreSound` | `Calm` and `AppsKnown` imply `Spec => []CursorSound` |
| `ReadersStayAlike` | `Calm` and `AppsKnown` imply `Spec => []ReadersAgree` |
| `NodesKeepTheNewest` | `Calm` implies `Spec => KeepsNewest`: the nodes implement `LastWriterWins` |

They hold for every set of nodes and keys, every policy and every bound that the two assumptions allow. The last four have hypotheses, satisfied by
the instance of `lww`. Each is needed: without it TLC finds a violation.

- `Calm`: clients do not clear, fully re-sync or delete an account, which remove records by request; write times are distinct, the clocks of the nodes agree and no record
  is from beyond the limit at the start. With unequal clocks, or with such old records, a clamped time ties with another record's, and with equal
  times two writes tie; of a tie, a client's write keeps whatever came last.
- `AppsKnown`: of the records that a pull limited to apps asks for, the peer has the apps from the start, and the node has them too or installs the peer's
  manifests. Operators may install apps at any time, between any two steps of a page; what the hypothesis excludes is that an app reaches the *peer* late. The
  export reads its manifests, then its apps, then its changes, in separate statements: of an app installed between the first two, a page has records and no
  manifest; of one installed after the second, it lacks records that are logged before others it has. Either way the node saves a cursor past a record that
  it does not have (`mesh_store.zi:393`). Where the policy has the registry, the next page without records takes the cursor back to 0 and
  all is read again: that is what `CatchesUp` checks, with apps that arrive late at every node.

The tokens. `TokenAccounts_proofs` first shows what adding a receipt does whatever becomes of the lots (`InsertAppends`,
`ChargedAppends`, `CreditedAppends`), then that three kinds of additions keep the invariant `BookInv` - one that is
neither purchase nor gift (`OtherAdded`), a purchase whose nonce is new (`PurchaseAdded`), the two of a gift
(`GiftAdded`) - and then, action by action, that `IInv` is inductive. `BookInv` is stronger than the properties: the nonce of
a purchase names its receipt (`Named`, without which a second charge could not be told from the first), an item is charged
under its title or was under Entity (`Titled`, so that the two lookups see every earlier charge), and a credited gift was charged
(`GiftsCharged`, so that a new debit is never followed by an old credit).

`TokenBooks_proofs` is about sums. `Sums` gets what a sum is, and how it changes with its set or its summands, from least counterexamples:
the induction theorems of the library cannot be used, well-foundedness can. A debit takes from the lots of a title in their order, and
what it takes adds up (`OldestFirst`). The invariant `BooksInv` holds at each book `Audited`: lots, trace and ledger sum up to the same units, and the
balance of an account is its lots and its history less what was taken from no lot. That third part is needed because the guard of a debit reads the balance
and the lots only, and nothing else bounds what it takes from no lot.

`TokenPurses_proofs` is the refinement. Its invariant `DeepInv` adds that each new credit has its lot, so that a refund
finds the purse its purchase is in (`Opened`), that no more is refunded than was bought (`Refunds`), and that a payment is
never a nonce, so that every effect counts once (`Shaped`). Each handler then is one step of `Purses` or leaves them alone.

| Theorem | States |
|---|---|
| `BooksStayInOrder` | `Spec => []BooksInv`, the invariant of the sums |
| `Typed` | `Spec => []TypeOK` |
| `GiftsStayPaired` | `Spec => []GiftsPaired` |
| `ItemsStayChargedOnce` | `Spec => []ItemsChargedOnce` |
| `UnlocksStayPaidFor` | `Spec => []UnlocksPaidFor` |
| `EveryUnitIsTraced` | `Spec => []AuditTrail` |
| `BoughtUnitsStayInTitle` | `Spec => []BoughtStaysInTitle` |
| `PursesStayKept` | `Spec => PursesKept`: the ledger implements `Purses` |

They assume of the history (`HistoryAssumption`) that it charged each item once, at the shop's price and under its title or
Entity, that nonces were unique, that it has no gifts, and that it refunded no more than was bought; and that the purse of all titles is not
a title.

The operating programs have invariants of their own.

- `PackageStore_proofs`. `StoreInv`: every release an app has is of the offers or of a staged store (`HeldKnown`); what a release that is latest or listed lacks
  of its own bundles and of those it depends on (`Missing`) is torn, and so it is for an archived one, unless retention is about to retire it (`HeldWhole`);
  and for each run (`RunInv`) that it holds the lock (`InLock`), that what it has written of
  its release is there (`Written`), that what it has seen of an app is protected if it is to stay or is offered (`Gathered`), and that no file it is going
  to remove is protected (`Removing`). Nothing keeps two releases, of one app or of two, of one format or of both, from having the same bundles: what
  makes a removal safe is only that everything which stays was seen before the first file goes. An archive that a stopped retention had
  chosen may come back later, when a newer one is unreadable or taken for the other format; `Stop` therefore marks as torn all that such a release lacks.
  `RetainedSome` shows that a nonempty archive leaves a nonempty choice, so that the latest is not mistaken for an old store's.
  `LegacyInv` adds the publications of format 1, which take no lock: what `latest.json` names, or a publisher is about to name there, is stored and no removal
  under way has chosen it, unless it is `raced`.
- `Scripts_proofs`. `MirrorInv`: a run that uploads holds the lock and has reserved what it uploads, and one that reserves has read the inventory of the moment or has misread it. `NativeInv`: a recorded build is never accepted
  (`NeverAccepted`), so every library comes from the make that leaves it. `BotInv`: which fields a run has read with the wanted value, after whose write.
  The settings: every setting of a file is under its new name in a line that the migration of a deployment keeps (`NothingAppended`: the code's last loop,
  which appends what is missing, has nothing to do), names of before are gone, and with no conflict each line's value is the one its name had. That
  the last occurrence of a name counts, and that kept lines keep their order, is what the lemmas about `SelectLastInSeq` and `InOrder` say; for the latter, that every
  finite set of places has an ascending enumeration is proved by taking away its greatest place (`SetsByInduction` of `Sums`).
  `OperationsInv` is the conjunction of the six invariants, each of which is kept by its program's steps and by those that leave its variables alone.
- `Deployment_proofs`. `DeployInv` is a table of the job's steps: the tree and build (`OriginReady`), the service (`ServiceWhole`),
  the installed files (`HostAt`), the copies (`BackupAt`) and the writes (`WritesKept`) before each. `RollbackRestores` needs more,
  and an assumption: if only version 0 may die, a service that was rolled back leaves an empty log (`LogEmpty`), the host is
  clean of earlier versions that were reverted (`HostClean`), and so are the copies (`BackupClean`, `ChangesOld`, `DatabaseBack`).

| Theorem | States |
|---|---|
| `OffersStayServed`, `NothingRollsBack` | `StoreSpec => []OffersServed`, `StoreSpec => NoRollback` |
| `FormatsStay` | `StoreSpec => FormatsRetained` |
| `LegacyStaysServed` | `StoreSpec => []LegacyServed` |
| `DependenciesStayServed` | `StoreSpec => []DependenciesServed` |
| `SpaceStaysCounted` | `MirrorSpec => []SpaceCounted` |
| `NativeStaysFresh` | `NativeSpec => []NativeFresh` |
| `VerdictsHold`, `OtherBotsStayUntouched` | `BotSpec => []VerdictHolds`, `BotSpec => []OtherBotsUntouched` |
| `RunsStayWhole`, `BuildsArePinned`, `WritesSurvive` | `DeploySpec => []RunsWhole`, `... => []BuiltFromPinned`, `... => []AcceptedKept` |
| `SettingsStay`, `MigratedOnce` | `EnvironmentSpec => SettingsKept`, `EnvironmentSpec => DeployedOnce` |
| `OperationsStayTyped` | `OperationsSpec => []OperationsTypeOK` |
| `RollbacksRestore` | `MayDie \subseteq {0}` implies `DeploySpec => []RollbackRestores` |

All but `OperationsStayTyped` are about each program by itself; `MCOperations` checks the same specifications side by side, where at most one of them
takes steps. The store's assumptions (`PackageStoreAssumption`, `StagedComplete`) are about what it
holds at first. Those on the settings (`NodeEnvironmentAssumption`) are the tables of `migrate-legacy-env.py`: no two names have one new name,
and no new name of the first table is an old one of it.

Every invariant that a run checks, and every action property, is thus the subject of a theorem, except those that the code violates. Only model-checked: `Converges`,
`NewestWins`, `CatchesUp` and `OutageEnds`, which are liveness under fairness and out of the prover's reach.

## What the modelling showed beside the runs

Where a run of its own shows it, it is a finding in `PROJECT.json`. The first five below are cases that a property of `operations` excepts by name,
and that its instance reaches; the others are read in the code.

- Shared bundles (`package_retention.py:123`). Two releases of an app with the same bundle are both retired, and the publisher stops
  after it removed the bytes and before it removed the second archive. The next history may list that archive: a missing `.zib` counts as the
  portable format. `OffersServed` excepts what is `torn`; without that TLC shows the history in 74 states.
- Unreadable metadata and a stop (`package_retention.py:111`). Retention removes a bundle of another app, and the publisher stops before it removes the
  release that needs it. If a later run cannot read a newer release, it counts the doomed one among those to keep, and offers it
  without its dependency, against the first line of the file, "every blob referenced by retained apps". `DependenciesServed` excepts it
  likewise; the counterexample without has 66 states.
- A publication of format 1 (`stage-release.py:83`) takes no lock: retention may remove a bundle, which a retired release of format 2 had too, between its write and its pointer's.
  `LegacyServed` excepts the publication (`raced`); the counterexample without has 29 states. Of two that overlap the earlier sequence may also be written last.
- `mirror.py:91` takes any failed `get` whose output contains `404` for a missing inventory, and starts an empty one (`MisreadInventory`). `SpaceCounted`
  excepts what is thereby `forgotten`; the counterexample without has 17 states. The budget then bounds what the new inventory counts, not the bucket.
- `migrate-legacy-env.py:24` looks only at names that begin with `KSYNC_` or `DAOCHI_`. One of the new names, `MONERO_WALLET_RPC_URL`, does not:
  a conflict with it goes unnoticed, the file's order decides which value stays, and without `--canonical-only` each migration appends it again.
  `SettingsKept` requires of such a file (`SetTwice`) only that one of the two values stays.
- `check_native_build` (`verify_deployment_inputs.py:195`) compares the record with an identity that lacks its field `artifact`, so it is never
  true after `record_native_build`, and every make builds again. What is recorded is the identity of the inputs after the build.
- A store from before the archives has a latest release without an archive: its format does not count for retention.
- `retain` keeps three releases where a comment (`package_http.zi:71`) says up to ten. Nothing removes a bundle that a stopped publisher wrote and no
  release names, nor an object from the mirror: its budget fills for good.
- A rollback loses, by design, the writes that the new version accepted before it was found unhealthy. A host that stops between the two
  `mv` of `install.sh:55` keeps a binary with another's manifest. A rollback that fails ends in `broken`, from which the model
  has no further deployment, though the workflow would allow one.
- A publication that stops leaves an archived release that the latest pointer does not name yet; the next history may list it.
  The refusal of another archive under the same sequence (`WriteRelease`) takes such a stop and a changed release; the instance does not reach it.

Smaller hazards that the list of `PROJECT.json` leaves to this text, none of which a property covers: nodes whose clocks differ clamp the
same write to different times (`timestamp.zi:63`); a manifest of one app that conflicts fails the whole pull of a peer in every round
(`mesh_apps.zi:151`); an account's allowance is read before the transaction that uses it (`sync_http.zi:291`); a generic spend under the
key `unlock:<product>` settles nothing and blocks every later unlock of the product (`unlock.zi:266`, and likewise for a gift's key);
delegated sync applies a request and reads its page in two steps (`record_sync.zi:130`); rewards and reversals of referrals are processed
long after what caused them (`referral_settlement.zi:244`); a deposit may vanish with its block after it was credited (`monero_deposits.zi:327`).

## Not modelled, and the plan

Not modelled, for good: parsing and formatting, cryptography (signatures, hashes and ciphertext are what they
authenticate or hide), the network's transport, documentation, metrics, configuration, the checks of build inputs and reports, the remote consoles, the SSH bootstrap and the benchmark, and the components whose operations are single
statements on rows of their own (social, chat, publications, feedback, packages, games). `PROJECT.json` gives the reason for each.

Left out of the parts that are modelled: for the mesh, trust-space names, manifest versions, the HTTP import endpoint, clock skew
between nodes (a constant, so far 0) and typed tables; for the tokens, commission lots and their offsets, rescaling, the
hash chain, nonces without a request hash, and 64-bit limits; for the operating programs, signatures and the contents of bundles, the string
checks of the SSH configuration, the timer that deletes old backups, and the loss of power. `deploy.yml` installs a Google Play credential before the copies
are taken, and no rollback takes it back: that step is not in `Deployment`. `migrate-legacy-env.py` reads the settings
and replaces them in two steps, which are one in `NodeEnvironment`: an operator who saves in between loses that edit.

The plan, in this order:

1. `PlayPurchases` - the lifecycle of a store purchase: verification with and without an account binding, consumption and its
   retry, notices of refunds against snapshots of quantities, the polling loops. Abstract specification: each unit is credited at most
   once and taken back at most once. Runs: notices and snapshots in every order. Composes `TokenLedger`.
2. `RecordPaging` - a device that applies, pages to a version and stores a cursor while others write and re-sync, and the state
   hash it may match. Property: a device that pages to the end has what the node has; restart of versions after a deletion.
3. `MoneroDeposits` - scan, confirm, credit, hold and roll back over a chain that may reorganise, with a restart between any two
   steps; then `Referrals`, whose outbox and debts follow purchases and refunds. Properties: a transfer is credited once,
   and the reward is the share of the net purchase once the outbox is empty.
4. `MeshHistory` - compaction of the change log against the cursors of peers. Refinement: a peer of a compacted log receives what a
   peer of the full log would.
5. Pure algorithms, checked against a definition over bounded inputs: the order of `CompareRecordRepresentation`,
   the merge of ordered changes, containment of policies.
6. Account hold, one-time challenges and grants.
7. Proofs of the invariants of the new modules, and of the mesh's under weaker hypotheses than `Calm`: clears with distinct times.
8. Mesh runs with skew, with a limit and a blocked peer under fairness, and with pulls that meet records without their apps and have no registry to recover by.
