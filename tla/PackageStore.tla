----------------------------- MODULE PackageStore -----------------------------
(***************************************************************************)
(* The package directory of a node, as scripts/stage-release.py publishes   *)
(* into it (app_release.py, package_retention.py) while the node serves     *)
(* from it.  A publication of release format 2 holds the store's lock,      *)
(* writes the bundles, the archived release and the pointer to the latest,  *)
(* and then retires old releases of every app.  One of format 1 holds no    *)
(* lock.  Every file is replaced atomically, and a publisher may stop       *)
(* between any two of them.                                                 *)
(***************************************************************************)
EXTENDS Naturals, FiniteSets

CONSTANTS
    Apps,
    Digests,        \* contents of bundles, each known by its hash
    Portable,       \* the digests of .zx files; the others are .zib files
    Publishers,     \* runs of stage-release.py that may overlap
    Offers,         \* the releases that may be published in format 2
    LegacyOffers,   \* the releases that may be published in format 1
    Staged,         \* stores from before archives: what latest-v2.json and
                    \* latest.json name in each app's directory
    Unreadable,     \* archived releases whose metadata a reader may not understand
    Retained,       \* RETAINED_RELEASES
    MaxStops        \* bound on the publishers that stop half-way

\* module is the first artifact; others, the standalone variant if there is one.
Release == [app : Apps, seq : Nat, module : Digests, others : SUBSET Digests,
            deps : SUBSET (Apps \X Digests)]
LegacyRelease == [app : Apps, seq : Nat, digest : Digests]
File == Apps \X Digests

Artifacts(r) == {r.module} \cup r.others
Bundles(r) == {<<r.app, d>> : d \in Artifacts(r)}

ASSUME PackageStoreAssumption ==
    /\ Portable \subseteq Digests
    /\ Offers \subseteq Release
    /\ LegacyOffers \subseteq LegacyRelease
    /\ Staged \subseteq [latest : [Apps -> SUBSET Release],
                         legacy : [Apps -> SUBSET LegacyRelease]]
    /\ \A s \in Staged : \A a \in Apps :
         /\ \A r \in s.latest[a] : r.app = a
         /\ \A q, r \in s.latest[a] : q = r
         /\ \A v \in s.legacy[a] : v.app = a
    /\ Unreadable \subseteq Release
    /\ Retained \in Nat /\ Retained >= 2
    /\ MaxStops \in Nat

\* A store from before archives has the bundles that its releases depend on: each
\* was looked up as they were published, and nothing has removed a file since.
ASSUME StagedComplete ==
    \A s \in Staged : \A a \in Apps : \A r \in s.latest[a] : \A f \in r.deps :
       \/ \E q \in s.latest[f[1]] : f[2] \in Artifacts(q)
       \/ \E v \in s.legacy[f[1]] : f[2] = v.digest

VARIABLES
    bundles,   \* bundles[a]: the bundle files of app a
    archived,  \* archived[a]: those with a descriptor beside them (.release-v2.json)
    releases,  \* releases[a]: the archived releases (release-<sequence>.json)
    latest,    \* latest[a]: what latest-v2.json names, {} while there is none
    history,   \* history[a]: the releases of history-v2.json, {} while there is none
    legacy,    \* legacy[a]: what latest.json names, {} while there is none
    lock,      \* the publishers in the store's publication lock
    run,       \* run[p]: where publisher p is
    stops,     \* publishers that stopped half-way so far
    torn,      \* files that releases a stopped retention was still to retire lack
    raced      \* publications of format 1 that a retention may have overlooked

storeFiles == <<bundles, archived, releases, latest, history, legacy>>

\* torn and raced are history variables: no action reads them.
storeVars == <<storeFiles, lock, run, stops, torn, raced>>

(***************************************************************************)
(* A run: step is where it is, release what it publishes, files what it has *)
(* still to write or remove, apps the directories that retention has still  *)
(* to look at, and protected, candidates and unread what that has found.   *)
(***************************************************************************)
Idle == [step |-> "idle", release |-> {}, files |-> {}, apps |-> {},
         protected |-> {}, candidates |-> {}, unread |-> {}]

Steps == {"idle", "inspected", "store", "released", "survey", "prune", "legacy"}

StoreRun == [step : Steps, release : SUBSET (Release \cup LegacyRelease),
             files : SUBSET File, apps : SUBSET Apps, protected : SUBSET File,
             candidates : SUBSET Release, unread : SUBSET Release]

StoreTypeOK ==
    /\ bundles \in [Apps -> SUBSET Digests]
    /\ archived \in [Apps -> SUBSET Digests]
    /\ releases \in [Apps -> SUBSET Release]
    /\ latest \in [Apps -> SUBSET Release]
    /\ history \in [Apps -> SUBSET Release]
    /\ legacy \in [Apps -> SUBSET LegacyRelease]
    /\ lock \subseteq Publishers /\ (\A p, q \in lock : p = q)
    /\ run \in [Publishers -> StoreRun]
    /\ stops \in 0..MaxStops
    /\ torn \subseteq File
    /\ raced \subseteq LegacyRelease

StoreInit ==
    /\ \E s \in Staged : latest = s.latest /\ legacy = s.legacy
    /\ archived = [a \in Apps |-> UNION {Artifacts(r) : r \in latest[a]}]
    /\ bundles = [a \in Apps |-> archived[a] \cup {v.digest : v \in legacy[a]}]
    /\ releases = [a \in Apps |-> {}]
    /\ history = [a \in Apps |-> {}]
    /\ lock = {}
    /\ run = [p \in Publishers |-> Idle]
    /\ stops = 0
    /\ torn = {}
    /\ raced = {}

-----------------------------------------------------------------------------
(* What a publication checks. *)

DependenciesStored(r) == \A f \in r.deps : f[2] \in bundles[f[1]]

\* Both variants, and every dependency, use the portable format of the module.
SameFormat(r) ==
    \A d \in r.others \cup {f[2] : f \in r.deps} : d \in Portable <=> r.module \in Portable

NoSelfDependency(r) == \A f \in r.deps : f[1] # r.app

\* Mutant of Advances: the sequences are not compared.
AdvancesAny(r) == TRUE

\* The latest release may be published again; a new one has to advance it.
Advances(r) == \A q \in latest[r.app] : q = r \/ r.seq > q.seq

(* What retention decides. *)

\* read_release: the releases of a that a survey may find unreadable.
UnreadableReleases(a) == SUBSET (releases[a] \cap Unreadable)

\* The suffix that the release's first artifact is found under.
StoredAsZib(r) == r.module \in bundles[r.app] /\ r.module \notin Portable

NewestOfFormat(rs) ==
    {r \in rs : \A q \in rs : StoredAsZib(q) = StoredAsZib(r) => q.seq <= r.seq}

\* The n newest of rs.
Newest(rs, n) == {r \in rs : Cardinality({q \in rs : q.seq > r.seq}) < n}

\* Mutant of RetainedChoices: the newest releases whatever their format.
NewestAlone(rs) == Newest(rs, Retained)

RetainedChoices(rs) ==
    LET first == NewestOfFormat(rs)
    IN  first \cup Newest(rs \ first, Retained - Cardinality(first))

\* Mutant of References: a release protects only its own bundles.
OwnBundles(rs) == UNION {Bundles(r) : r \in rs}

References(rs) == UNION {Bundles(r) \cup r.deps : r \in rs}

\* Mutant of LegacyFiles: retention does not look at latest.json.
NoLegacyFiles(a) == {}

LegacyFiles(a) == {<<a, v.digest>> : v \in legacy[a]}

-----------------------------------------------------------------------------
Published(p) == CHOOSE r \in run[p].release : TRUE

Retaining(p) == run[p].step \in {"survey", "prune"}

\* The bundles of r that are not there with their descriptor, and the bundles it
\* depends on that are not there.
Missing(r) ==
    {f \in Bundles(r) : f[2] \notin bundles[f[1]] \cap archived[f[1]]}
      \cup {f \in r.deps : f[2] \notin bundles[f[1]]}

Leave(p) ==
    /\ lock' = lock \ {p}
    /\ run' = [run EXCEPT ![p] = Idle]

\* Reads the inputs and, without the lock, what the dependencies are stored as.
Inspect(p) ==
    /\ run[p].step = "idle"
    /\ \E r \in Offers :
         /\ NoSelfDependency(r) /\ SameFormat(r) /\ DependenciesStored(r)
         /\ run' = [run EXCEPT ![p].step = "inspected", ![p].release = {r}]
    /\ UNCHANGED <<storeFiles, lock, stops, torn, raced>>

\* Takes the lock, and checks again under it; what fails leaves at once.
Enter(p) ==
    /\ run[p].step = "inspected"
    /\ lock = {}
    /\ LET r == Published(p)
       IN  IF DependenciesStored(r) /\ Advances(r)
           THEN /\ lock' = {p}
                /\ run' = [run EXCEPT ![p].step = "store", ![p].files = Bundles(r)]
           ELSE Leave(p)
    /\ UNCHANGED <<storeFiles, stops, torn, raced>>

\* One artifact: the bundle, and then its descriptor, where they are missing.
WriteBundle(p) ==
    /\ run[p].step = "store"
    /\ \E f \in run[p].files :
         /\ f[2] \notin bundles[f[1]]
         /\ bundles' = [bundles EXCEPT ![f[1]] = @ \cup {f[2]}]
    /\ UNCHANGED <<archived, releases, latest, history, legacy, lock, run, stops, torn, raced>>

WriteDescriptor(p) ==
    /\ run[p].step = "store"
    /\ \E f \in run[p].files :
         /\ f[2] \in bundles[f[1]]
         /\ archived' = [archived EXCEPT ![f[1]] = @ \cup {f[2]}]
         /\ torn' = torn \ {f}
         /\ run' = [run EXCEPT ![p].files = @ \ {f}]
    /\ UNCHANGED <<bundles, releases, latest, history, legacy, lock, stops, raced>>

\* Mutant of WriteRelease: the release is archived before its bundles.
WriteReleaseFirst(p) ==
    /\ run[p].step = "store"
    /\ releases' = [releases EXCEPT ![Published(p).app] = @ \cup {Published(p)}]
    /\ run' = [run EXCEPT ![p].step = "released"]
    /\ UNCHANGED <<bundles, archived, latest, history, legacy, lock, stops, torn, raced>>

\* An archive of another release under the sequence ends the publication.
WriteRelease(p) ==
    /\ run[p].step = "store" /\ run[p].files = {}
    /\ LET r == Published(p)
       IN  IF \E q \in releases[r.app] : q.seq = r.seq /\ q # r
           THEN Leave(p) /\ UNCHANGED releases
           ELSE /\ releases' = [releases EXCEPT ![r.app] = @ \cup {r}]
                /\ run' = [run EXCEPT ![p].step = "released"]
                /\ UNCHANGED lock
    /\ UNCHANGED <<bundles, archived, latest, history, legacy, stops, torn, raced>>

WriteLatest(p) ==
    /\ run[p].step = "released"
    /\ latest' = [latest EXCEPT ![Published(p).app] = {Published(p)}]
    /\ run' = [run EXCEPT ![p].step = "survey", ![p].apps = Apps]
    /\ raced' = raced \cup UNION {run[q].release : q \in {q \in Publishers : run[q].step = "legacy"}}
    /\ UNCHANGED <<bundles, archived, releases, history, legacy, lock, stops, torn>>

\* One directory of retain(): choose, write the history, note what is needed.
\* A release it cannot read is not chosen, and nothing will be removed.
SurveyApp(p, a, unread) ==
    LET values == releases[a] \ unread
        kept == RetainedChoices(values)
        listed == IF kept # {} THEN kept ELSE latest[a]
    IN  /\ history' = [history EXCEPT ![a] = IF listed # {} THEN listed ELSE @]
        /\ run' = [run EXCEPT
             ![p].apps = @ \ {a},
             ![p].protected = @ \cup References(kept \cup latest[a]) \cup LegacyFiles(a),
             ![p].candidates = @ \cup (values \ kept),
             ![p].unread = @ \cup unread]
        /\ UNCHANGED <<bundles, archived, releases, latest, legacy, lock, stops, torn, raced>>

Survey(p) ==
    /\ run[p].step = "survey"
    /\ \E a \in run[p].apps : \E unread \in UnreadableReleases(a) : SurveyApp(p, a, unread)

\* All directories seen: a store with metadata nobody understands is left alone.
BeginPrune(p) ==
    /\ run[p].step = "survey" /\ run[p].apps = {}
    /\ IF run[p].unread = {}
       THEN run' = [run EXCEPT ![p].step = "prune"] /\ UNCHANGED lock
       ELSE Leave(p)
    /\ UNCHANGED <<storeFiles, stops, torn, raced>>

\* One retired release: its archive goes first, then what nothing protects.
Retire(p) ==
    /\ run[p].step = "prune" /\ run[p].files = {}
    /\ \E r \in run[p].candidates :
         /\ releases' = [releases EXCEPT ![r.app] = @ \ {r}]
         /\ run' = [run EXCEPT ![p].candidates = @ \ {r},
                               ![p].files = Bundles(r) \ run[p].protected]
    /\ UNCHANGED <<bundles, archived, latest, history, legacy, lock, stops, torn, raced>>

RemoveBundle(p) ==
    /\ run[p].step = "prune"
    /\ \E f \in run[p].files :
         /\ f[2] \in bundles[f[1]]
         /\ bundles' = [bundles EXCEPT ![f[1]] = @ \ {f[2]}]
    /\ UNCHANGED <<archived, releases, latest, history, legacy, lock, run, stops, torn, raced>>

RemoveDescriptor(p) ==
    /\ run[p].step = "prune"
    /\ \E f \in run[p].files :
         /\ f[2] \notin bundles[f[1]]
         /\ archived' = [archived EXCEPT ![f[1]] = @ \ {f[2]}]
         /\ run' = [run EXCEPT ![p].files = @ \ {f}]
    /\ UNCHANGED <<bundles, releases, latest, history, legacy, lock, stops, torn, raced>>

Finish(p) ==
    /\ run[p].step = "prune" /\ run[p].files = {} /\ run[p].candidates = {}
    /\ Leave(p)
    /\ UNCHANGED <<storeFiles, stops, torn, raced>>

\* Release format 1, which takes no lock: check, write the bundle ...
LegacyBundle(p) ==
    /\ run[p].step = "idle"
    /\ \E v \in LegacyOffers :
         /\ v.digest \notin Portable
         /\ \A u \in legacy[v.app] : v.seq > u.seq
         /\ bundles' = [bundles EXCEPT ![v.app] = @ \cup {v.digest}]
         /\ run' = [run EXCEPT ![p].step = "legacy", ![p].release = {v}]
         /\ raced' = IF \E q \in Publishers : Retaining(q) THEN raced \cup {v} ELSE raced \ {v}
    /\ UNCHANGED <<archived, releases, latest, history, legacy, lock, stops, torn>>

\* ... and then the pointer.
LegacyPointer(p) ==
    /\ run[p].step = "legacy"
    /\ legacy' = [legacy EXCEPT ![Published(p).app] = {Published(p)}]
    /\ run' = [run EXCEPT ![p] = Idle]
    /\ UNCHANGED <<bundles, archived, releases, latest, history, lock, stops, torn, raced>>

\* A publisher is killed, or a command of it fails: the lock goes with it.
Stop(p) ==
    /\ run[p].step # "idle"
    /\ stops < MaxStops
    /\ stops' = stops + 1
    /\ Leave(p)
    /\ torn' = torn \cup UNION {Missing(r) : r \in run[p].candidates}
    /\ UNCHANGED <<storeFiles, raced>>

StoreStep(p) ==
    \/ Inspect(p) \/ Enter(p) \/ WriteBundle(p) \/ WriteDescriptor(p)
    \/ WriteRelease(p) \/ WriteLatest(p) \/ Survey(p) \/ BeginPrune(p)
    \/ Retire(p) \/ RemoveBundle(p) \/ RemoveDescriptor(p) \/ Finish(p)
    \/ LegacyBundle(p) \/ LegacyPointer(p) \/ Stop(p)

StoreNext == \E p \in Publishers : StoreStep(p)

StoreSpec == StoreInit /\ [][StoreNext]_storeVars

-----------------------------------------------------------------------------
Offered(a) == latest[a] \cup history[a]

(* Whatever a node offers of an app - its latest release or a release of   *)
(* its history - can be downloaded: every variant is stored with its       *)
(* descriptor, while publishers overlap, retire releases, share bundles,   *)
(* and stop between any two files.  The exception is what a stopped        *)
(* retention leaves: a release that it was still to retire may have lost a *)
(* bundle to one that it has retired.                                      *)
OffersServed ==
    \A a \in Apps : \A r \in Offered(a) : \A f \in Bundles(r) \ torn :
       f[2] \in bundles[f[1]] \cap archived[f[1]]

(* So can the exact bundles of other apps that an offered release depends  *)
(* on, though those apps have retired the releases that brought them.  Of  *)
(* what a stopped retention leaves, a later one that cannot read the newer *)
(* releases offers some again.                                             *)
DependenciesServed ==
    \A a \in Apps : \A r \in Offered(a) : \A f \in r.deps \ torn : f[2] \in bundles[f[1]]

(* What latest-v2.json names never goes back to an earlier sequence, nor   *)
(* to other contents under the same one, however publications overlap.     *)
NoRollback ==
    [][\A a \in Apps : \A r \in latest[a] : \A q \in latest'[a] :
         q = r \/ q.seq > r.seq]_latest

(* A history that lists an archived .zib release, or an archived .zx one,  *)
(* lists one ever after, so hosts of either kind keep a release to run.    *)
(* A survey passes over a release whose metadata it cannot read, and takes *)
(* one that has lost its bundle for a .zx release.                         *)
FormatsRetained ==
    [][\A a \in Apps : (\A r \in releases[a] : <<a, r.module>> \notin torn) =>
         \A q \in (history[a] \cap releases[a]) \ Unreadable :
            \E r \in history'[a] : r.module \in Portable <=> q.module \in Portable]_history

(* The bundle that latest.json names, which hosts from before format 2     *)
(* still fetch, outlives the releases of format 2 with the same bytes,     *)
(* unless it was published, without the lock, while a retention ran.       *)
LegacyServed ==
    \A a \in Apps : \A v \in legacy[a] \ raced : v.digest \in bundles[a]
=============================================================================
