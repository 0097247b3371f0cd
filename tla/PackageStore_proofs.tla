------------------------- MODULE PackageStore_proofs -------------------------
(***************************************************************************)
(* Proofs about PackageStore, for any apps, releases - of shared bundles or *)
(* not, in one format or in both - and overlapping publishers.  The         *)
(* inductive invariant says what a publisher in the lock may rely on        *)
(* (InLock, Written), that every release an app still has is whole but for  *)
(* what stopped retentions have torn (HeldWhole), and why no file that      *)
(* retention removes is one of a release that is to stay: all of those are  *)
(* gathered while the directories are surveyed (Gathered, Removing).  For   *)
(* latest.json there is LegacyInv, built on it.                             *)
(***************************************************************************)
EXTENDS PackageStore, FiniteSetTheorems, WellFoundedInduction, TLAPS

Known == Offers \cup UNION {UNION {s.latest[a] : a \in Apps} : s \in Staged}

\* What an app still has.
Held(a) == releases[a] \cup latest[a] \cup history[a]

HeldKnown ==
    \A a \in Apps : /\ IsFiniteSet(releases[a])
                    /\ \A q, r \in latest[a] : q = r
                    /\ \A r \in Held(a) : r \in Known /\ r.app = a

Intact(r) == Missing(r) \subseteq torn

\* r is to be retired by a publisher that removes files.
Doomed(r) == \E p \in Publishers : run[p].step = "prune" /\ r \in run[p].candidates

HeldWhole ==
    \A a \in Apps : /\ \A r \in Offered(a) : Intact(r)
                    /\ \A r \in releases[a] : Intact(r) \/ Doomed(r)
                    /\ history[a] # {} => releases[a] \cup latest[a] # {}

LockedSteps == {"store", "released", "survey", "prune"}

Publishing == {"inspected", "store", "released"}

InLock(p) ==
    /\ run[p].step \in LockedSteps => lock = {p}
    /\ run[p].step \in Publishing => \E r \in Offers : run[p].release = {r}
    /\ run[p].step = "legacy" => \E v \in LegacyOffers : run[p].release = {v}

\* What is still to be written of a publication, and that it advances its app.
Written(p) ==
    \A r \in run[p].release :
       /\ run[p].step = "store" => Advances(r) /\ Missing(r) \subseteq run[p].files
       /\ run[p].step = "released" => Advances(r) /\ r \in releases[r.app]

\* A release to be retired is of an app already seen.
CandidatesKnown(p) ==
    /\ ~Retaining(p) => run[p].candidates = {}
    /\ \A c \in run[p].candidates : c \in Known /\ c.app \notin run[p].apps

Needs(r) == Bundles(r) \cup r.deps

\* Of an app already seen, what is to stay or is offered has all it needs protected,
\* unless its metadata was not understood; and something stays of what is offered.
Gathered(p) ==
    \A a \in Apps \ run[p].apps :
       /\ \A r \in (releases[a] \ (run[p].candidates \cup run[p].unread)) \cup latest[a] :
            Needs(r) \subseteq run[p].protected
       /\ run[p].unread = {} => \A r \in history[a] : Needs(r) \subseteq run[p].protected
       /\ history[a] # {} => (releases[a] \ run[p].candidates) \cup latest[a] # {}

\* Nothing is removed before all is seen and understood, nor what is protected.
Removing(p) ==
    /\ run[p].step \in {"released", "survey"} => run[p].files = {}
    /\ run[p].step = "prune" => /\ run[p].apps = {} /\ run[p].unread = {}
                                /\ run[p].files \cap run[p].protected = {}

RunInv(p) ==
    /\ InLock(p) /\ Written(p) /\ CandidatesKnown(p)
    /\ Retaining(p) => Gathered(p)
    /\ Removing(p)

StoreInv ==
    /\ StoreTypeOK
    /\ HeldKnown
    /\ HeldWhole
    /\ \A p \in Publishers : RunInv(p)

-----------------------------------------------------------------------------
LEMMA IdleTyped == Idle \in StoreRun
BY DEF Idle, StoreRun, Steps

LEMMA KnownReleases == Known \subseteq Release
<1>1. \A s \in Staged : \A a \in Apps : s.latest[a] \subseteq Release
  BY PackageStoreAssumption
<1> QED
  BY <1>1, PackageStoreAssumption DEF Known

LEMMA PublishedOne ==
    ASSUME NEW p, NEW r, run[p].release = {r}
    PROVE  Published(p) = r
BY DEF Published

LEMMA BundlesTyped ==
    ASSUME NEW r \in Release
    PROVE  /\ Bundles(r) \subseteq File
           /\ \A f \in Bundles(r) : f[1] = r.app /\ f[2] \in Artifacts(r)
           /\ r.app \in Apps
           /\ r.deps \subseteq File
BY DEF Bundles, File, Artifacts, Release

LEMMA MissingTyped ==
    ASSUME NEW r \in Release
    PROVE  Missing(r) \subseteq File /\ Missing(r) \subseteq Needs(r)
BY BundlesTyped DEF Missing, Needs

LEMMA SmallestNat ==
    ASSUME NEW S, S \subseteq Nat, S # {}
    PROVE  \E x \in S : \A y \in S : x <= y
<1> DEFINE R == OpToRel(<, Nat)
<1>1. IsWellFoundedOn(R, Nat)
  BY NatLessThanWellFounded
<1>2. \A x, y \in Nat : x < y <=> <<x, y>> \in R
  BY DEF OpToRel
<1> HIDE DEF R
<1>3. PICK x \in S : \A y \in S : ~ (<<y, x>> \in R)
  BY <1>1, WFMin
<1>4. \A y \in S : ~ (y < x)
  BY <1>2, <1>3, Zenon
<1>5. \A y \in S : x <= y
  BY <1>4, SMT
<1> QED
  BY <1>5

\* Some release of a finite set has the largest sequence.
LEMMA SomeNewest ==
    ASSUME NEW rs, rs \subseteq Release, IsFiniteSet(rs), rs # {}
    PROVE  \E r \in rs : \A q \in rs : q.seq <= r.seq
<1> DEFINE Above(r) == {q \in rs : q.seq > r.seq}
           S == {Cardinality(Above(r)) : r \in rs}
<1>1. \A r \in rs : IsFiniteSet(Above(r)) /\ Cardinality(Above(r)) \in Nat
  <2> TAKE r \in rs
  <2>1. Above(r) \in SUBSET rs
    OBVIOUS
  <2>2. IsFiniteSet(Above(r))
    BY <2>1, FS_Subset
  <2> QED
    BY <2>2, FS_CardinalityType
<1>2. PICK x \in S : \A y \in S : x <= y
  <2>1. S \subseteq Nat /\ S # {}
    BY <1>1
  <2> HIDE DEF S
  <2> QED
    BY <2>1, SmallestNat
<1>3. PICK r \in rs : \A q \in rs : Cardinality(Above(r)) <= Cardinality(Above(q))
  BY ZenonT(60), <1>2
<1>4. ASSUME NEW q \in rs, q.seq > r.seq
      PROVE  FALSE
  <2>1. Above(q) \in SUBSET Above(r) /\ q \in Above(r) /\ q \notin Above(q)
    BY <1>4 DEF Release
  <2>2. Cardinality(Above(q)) <= Cardinality(Above(r)) /\ Cardinality(Above(q)) # Cardinality(Above(r))
    <3> HIDE DEF Above
    <3> QED
      BY <1>1, <2>1, FS_Subset
  <2> HIDE DEF Above
  <2> QED
    BY <1>1, <1>3, <2>2
<1> QED
  BY <1>4 DEF Release

\* Retention keeps something of whatever there is.
LEMMA RetainedSome ==
    ASSUME NEW rs, rs \subseteq Release, IsFiniteSet(rs), rs # {}
    PROVE  RetainedChoices(rs) # {} /\ RetainedChoices(rs) \subseteq rs
<1>1. PICK r \in rs : \A q \in rs : q.seq <= r.seq
  BY SomeNewest
<1>2. r \in NewestOfFormat(rs) /\ NewestOfFormat(rs) \subseteq rs
  BY <1>1 DEF NewestOfFormat
<1> QED
  BY <1>2 DEF RetainedChoices, Newest

-----------------------------------------------------------------------------
LEMMA StoreInvInit == StoreInit => StoreInv
<1> SUFFICES ASSUME StoreInit
             PROVE  StoreInv
  OBVIOUS
<1>s. PICK s \in Staged : latest = s.latest /\ legacy = s.legacy
  BY DEF StoreInit
<1>1. /\ latest \in [Apps -> SUBSET Release] /\ legacy \in [Apps -> SUBSET LegacyRelease]
      /\ \A a \in Apps : /\ \A q, r \in latest[a] : q = r
                         /\ \A r \in latest[a] : r.app = a
  BY <1>s, PackageStoreAssumption
<1>2. \A a \in Apps : \A r \in latest[a] : Artifacts(r) \subseteq Digests
  BY <1>1 DEF Artifacts, Release
<1>3. \A a \in Apps : \A v \in legacy[a] : v.digest \in Digests
  BY <1>1 DEF LegacyRelease
<1>4. StoreTypeOK
  <2>1. archived \in [Apps -> SUBSET Digests]
    BY <1>2 DEF StoreInit
  <2>2. bundles \in [Apps -> SUBSET Digests]
    BY <1>3, <2>1 DEF StoreInit
  <2>3. /\ releases = [a \in Apps |-> {}] /\ history = [a \in Apps |-> {}] /\ lock = {}
        /\ run = [p \in Publishers |-> Idle] /\ stops = 0 /\ torn = {} /\ raced = {}
    BY DEF StoreInit
  <2> QED
    BY <1>1, <2>1, <2>2, <2>3, IdleTyped, PackageStoreAssumption DEF StoreTypeOK
<1>5. \A a \in Apps : releases[a] = {} /\ history[a] = {} /\ latest[a] \subseteq Known
  BY <1>s DEF StoreInit, Known
<1>6. HeldKnown
  BY <1>1, <1>5, FS_EmptySet DEF HeldKnown, Held
<1>7. ASSUME NEW a \in Apps, NEW r \in latest[a]
      PROVE  Missing(r) = {}
  <2>1. r.app = a /\ r \in Release
    BY <1>1
  <2>2. \A f \in Bundles(r) : f[2] \in bundles[f[1]] \cap archived[f[1]]
    BY <2>1, BundlesTyped DEF StoreInit
  <2>3. ASSUME NEW f \in r.deps
        PROVE  f[2] \in bundles[f[1]]
    <3>1. f[1] \in Apps
      BY <2>1, BundlesTyped DEF File
    <3>2. \/ \E q \in latest[f[1]] : f[2] \in Artifacts(q)
          \/ \E v \in legacy[f[1]] : f[2] = v.digest
      BY <1>s, StagedComplete
    <3> QED
      BY <3>1, <3>2 DEF StoreInit
  <2> QED
    BY <2>2, <2>3 DEF Missing
<1>8. HeldWhole
  BY <1>5, <1>7 DEF HeldWhole, Offered, Intact
<1>9. \A p \in Publishers : RunInv(p)
  BY DEF StoreInit, Idle, RunInv, InLock, Written, CandidatesKnown, Retaining, Removing,
         LockedSteps, Publishing
<1> QED
  BY <1>4, <1>6, <1>8, <1>9 DEF StoreInv

-----------------------------------------------------------------------------
(* The actions.  Every lemma assumes the invariant before the step.         *)

LEMMA PublishedKnown ==
    ASSUME StoreInv, NEW p \in Publishers, run[p].step \in Publishing
    PROVE  \E r \in Offers : /\ run[p].release = {r} /\ Published(p) = r
                             /\ r \in Release /\ r \in Known
<1>1. PICK r \in Offers : run[p].release = {r}
  BY DEF StoreInv, RunInv, InLock
<1> QED
  BY <1>1, PublishedOne, PackageStoreAssumption DEF Known

\* Leaving, or being stopped, keeps the types.
LEMMA LeaveTyped ==
    ASSUME StoreTypeOK, NEW p \in Publishers, Leave(p)
    PROVE  /\ lock' \subseteq Publishers /\ (\A q, r \in lock' : q = r)
           /\ run' \in [Publishers -> StoreRun]
BY IdleTyped DEF StoreTypeOK, Leave

LEMMA StoreStepTyped ==
    ASSUME StoreInv, NEW p \in Publishers, StoreStep(p)
    PROVE  StoreTypeOK'
<1> USE DEF StoreInv, StoreTypeOK
<1>1. CASE Inspect(p)
  <2>1. PICK r \in Offers : run' = [run EXCEPT ![p].step = "inspected", ![p].release = {r}]
    BY <1>1 DEF Inspect
  <2>2. r \in Release
    BY PackageStoreAssumption
  <2>3. [run[p] EXCEPT !.step = "inspected", !.release = {r}] \in StoreRun
    BY <2>2 DEF StoreRun, Steps
  <2> QED
    BY <1>1, <2>1, <2>3 DEF Inspect, storeFiles
<1>2. CASE Enter(p)
  <2>1. PICK r \in Release : Published(p) = r
    BY <1>2, PublishedKnown DEF Enter, Publishing
  <2>2. CASE DependenciesStored(r) /\ Advances(r)
    <3>1. [run[p] EXCEPT !.step = "store", !.files = Bundles(r)] \in StoreRun
      BY ZenonT(60), BundlesTyped DEF StoreRun, Steps
    <3>2. lock' = {p} /\ run' = [run EXCEPT ![p].step = "store", ![p].files = Bundles(r)]
      BY <1>2, <2>1, <2>2 DEF Enter
    <3> QED
      BY <1>2, <3>1, <3>2 DEF Enter, storeFiles
  <2>3. CASE ~(DependenciesStored(r) /\ Advances(r))
    BY <1>2, <2>1, <2>3, LeaveTyped DEF Enter, storeFiles
  <2> QED
    BY <2>2, <2>3
<1>3. CASE WriteBundle(p)
  BY <1>3 DEF WriteBundle, StoreRun, File
<1>4. CASE WriteDescriptor(p)
  <2>1. PICK f \in run[p].files :
          /\ archived' = [archived EXCEPT ![f[1]] = @ \cup {f[2]}]
          /\ torn' = torn \ {f}
          /\ run' = [run EXCEPT ![p].files = @ \ {f}]
    BY <1>4 DEF WriteDescriptor
  <2>2. f[1] \in Apps /\ f[2] \in Digests
    BY DEF StoreRun, File
  <2>3. [run[p] EXCEPT !.files = @ \ {f}] \in StoreRun
    BY DEF StoreRun
  <2>4. archived' \in [Apps -> SUBSET Digests] /\ torn' \subseteq File
    BY <2>1, <2>2
  <2>5. run' \in [Publishers -> StoreRun]
    BY <2>1, <2>3
  <2>6. UNCHANGED <<bundles, releases, latest, history, legacy, lock, stops, raced>>
    BY <1>4 DEF WriteDescriptor
  <2> QED
    BY <2>4, <2>5, <2>6
<1>5. CASE WriteRelease(p)
  <2>1. PICK r \in Release : Published(p) = r
    BY <1>5, PublishedKnown DEF WriteRelease, Publishing
  <2>2. CASE \E q \in releases[r.app] : q.seq = r.seq /\ q # r
    BY <1>5, <2>1, <2>2, LeaveTyped DEF WriteRelease
  <2>3. CASE ~ \E q \in releases[r.app] : q.seq = r.seq /\ q # r
    <3>1. [run[p] EXCEPT !.step = "released"] \in StoreRun
      BY DEF StoreRun, Steps
    <3>2. releases' = [releases EXCEPT ![r.app] = @ \cup {r}]
          /\ run' = [run EXCEPT ![p].step = "released"] /\ UNCHANGED lock
      BY <1>5, <2>1, <2>3 DEF WriteRelease
    <3> QED
      BY <1>5, <3>1, <3>2 DEF WriteRelease
  <2> QED
    BY <2>2, <2>3
<1>6. CASE WriteLatest(p)
  <2>1. PICK r \in Release : Published(p) = r
    BY <1>6, PublishedKnown DEF WriteLatest, Publishing
  <2>2. [run[p] EXCEPT !.step = "survey", !.apps = Apps] \in StoreRun
    BY DEF StoreRun, Steps
  <2>3. raced' \subseteq LegacyRelease
    <3>1. \A q \in Publishers : run[q].step = "legacy" => run[q].release \subseteq LegacyRelease
      BY PackageStoreAssumption DEF RunInv, InLock
    <3> QED
      BY <1>6, <3>1 DEF WriteLatest
  <2> QED
    BY <1>6, <2>1, <2>2, <2>3 DEF WriteLatest
<1>7. CASE Survey(p)
  <2>1. PICK a \in run[p].apps : \E u \in UnreadableReleases(a) : SurveyApp(p, a, u)
    BY <1>7 DEF Survey
  <2>u. PICK unread \in UnreadableReleases(a) : SurveyApp(p, a, unread)
    BY <2>1
  <2> DEFINE values == releases[a] \ unread
             kept == RetainedChoices(values)
             added == References(kept \cup latest[a]) \cup LegacyFiles(a)
  <2>2. a \in Apps
    BY DEF StoreRun
  <2>3. kept \subseteq values /\ values \subseteq Release /\ unread \subseteq Release
    BY <2>2 DEF RetainedChoices, NewestOfFormat, Newest, UnreadableReleases
  <2>4. added \subseteq File
    <3> HIDE DEF kept
    <3>1. \A r \in kept \cup latest[a] : Bundles(r) \cup r.deps \subseteq File
      BY <2>2, <2>3, BundlesTyped
    <3>2. LegacyFiles(a) \subseteq File
      BY <2>2 DEF LegacyFiles, LegacyRelease, File
    <3> QED
      BY <3>1, <3>2 DEF References
  <2> HIDE DEF kept, added
  <2>5. [run[p] EXCEPT !.apps = @ \ {a}, !.protected = @ \cup added,
                       !.candidates = @ \cup (values \ kept),
                       !.unread = @ \cup unread] \in StoreRun
    BY <2>3, <2>4 DEF StoreRun
  <2> DEFINE surveyed == [run[p] EXCEPT !.apps = @ \ {a}, !.protected = @ \cup added,
                       !.candidates = @ \cup (values \ kept),
                       !.unread = @ \cup unread]
  <2>6. run' = [run EXCEPT ![p] = surveyed]
    <3>1. run[p].protected \cup References(kept \cup latest[a]) \cup LegacyFiles(a)
            = run[p].protected \cup added
      BY DEF added
    <3> QED
      BY <2>u, <3>1 DEF kept, SurveyApp
  <2>7. history' \in [Apps -> SUBSET Release]
    BY <2>u, <2>2, <2>3 DEF kept, SurveyApp
  <2>8. run' \in [Publishers -> StoreRun]
    <3> HIDE DEF surveyed
    <3>1. surveyed \in StoreRun
      BY <2>5 DEF surveyed
    <3> QED
      BY <2>6, <3>1
  <2> QED
    BY <2>u, <2>7, <2>8 DEF SurveyApp
<1>8. CASE BeginPrune(p)
  <2>1. [run[p] EXCEPT !.step = "prune"] \in StoreRun
    BY DEF StoreRun, Steps
  <2> QED
    BY <1>8, <2>1, LeaveTyped DEF BeginPrune, storeFiles
<1>9. CASE Retire(p)
  <2>1. PICK r \in run[p].candidates :
          /\ releases' = [releases EXCEPT ![r.app] = @ \ {r}]
          /\ run' = [run EXCEPT ![p].candidates = @ \ {r},
                                ![p].files = Bundles(r) \ run[p].protected]
    BY <1>9 DEF Retire
  <2>2. r \in Release
    BY DEF StoreRun
  <2>3. [run[p] EXCEPT !.candidates = @ \ {r}, !.files = Bundles(r) \ run[p].protected]
          \in StoreRun
    <3> DEFINE left   == run[p].candidates \ {r}
               doomed == Bundles(r) \ run[p].protected
    <3>1. left \in SUBSET Release /\ doomed \in SUBSET File /\ run[p] \in StoreRun
      BY <2>2, BundlesTyped DEF StoreRun
    <3> HIDE DEF left, doomed
    <3>2. [run[p] EXCEPT !.candidates = left, !.files = doomed] \in StoreRun
      BY <3>1 DEF StoreRun
    <3> QED
      BY <3>2 DEF left, doomed
  <2> QED
    BY <1>9, <2>1, <2>3 DEF Retire
<1>10. CASE RemoveBundle(p)
  BY <1>10 DEF RemoveBundle, StoreRun, File
<1>11. CASE RemoveDescriptor(p)
  <2>1. PICK f \in run[p].files :
          /\ archived' = [archived EXCEPT ![f[1]] = @ \ {f[2]}]
          /\ run' = [run EXCEPT ![p].files = @ \ {f}]
    BY <1>11 DEF RemoveDescriptor
  <2>2. f[1] \in Apps /\ f[2] \in Digests
    BY DEF StoreRun, File
  <2>3. [run[p] EXCEPT !.files = @ \ {f}] \in StoreRun
    BY DEF StoreRun
  <2> QED
    BY <1>11, <2>1, <2>2, <2>3 DEF RemoveDescriptor
<1>12. CASE Finish(p)
  BY <1>12, LeaveTyped DEF Finish, storeFiles
<1>13. CASE LegacyBundle(p)
  <2>1. PICK v \in LegacyOffers :
          /\ bundles' = [bundles EXCEPT ![v.app] = @ \cup {v.digest}]
          /\ run' = [run EXCEPT ![p].step = "legacy", ![p].release = {v}]
          /\ raced' \subseteq raced \cup {v}
    BY <1>13 DEF LegacyBundle
  <2>2. v \in LegacyRelease
    BY PackageStoreAssumption
  <2>3. [run[p] EXCEPT !.step = "legacy", !.release = {v}] \in StoreRun
    BY <2>2 DEF StoreRun, Steps
  <2>4. bundles' \in [Apps -> SUBSET Digests]
    BY <2>1, <2>2 DEF LegacyRelease
  <2>5. raced' \subseteq LegacyRelease
    BY <2>1, <2>2
  <2> QED
    BY <1>13, <2>1, <2>3, <2>4, <2>5 DEF LegacyBundle
<1>14. CASE LegacyPointer(p)
  <2>1. PICK v \in LegacyOffers : run[p].release = {v}
    BY <1>14 DEF LegacyPointer, RunInv, InLock
  <2>2. Published(p) = v /\ v \in LegacyRelease
    BY <2>1, PublishedOne, PackageStoreAssumption
  <2> QED
    BY <1>14, <2>2, IdleTyped DEF LegacyPointer
<1>15. CASE Stop(p)
  <2>1. stops' \in 0..MaxStops
    BY <1>15, PackageStoreAssumption DEF Stop
  <2>2. \A r \in run[p].candidates : Missing(r) \subseteq File
    BY MissingTyped DEF StoreRun
  <2>3. torn' \subseteq File
    BY <1>15, <2>2 DEF Stop
  <2> QED
    BY <1>15, <2>1, <2>3, LeaveTyped DEF Stop, storeFiles
<1> QED
  BY <1>1, <1>2, <1>3, <1>4, <1>5, <1>6, <1>7, <1>8, <1>9, <1>10, <1>11, <1>12, <1>13,
     <1>14, <1>15 DEF StoreStep

-----------------------------------------------------------------------------
-----------------------------------------------------------------------------
(* What an action does, field by field of the run of its publisher.         *)

Outside == {"idle", "inspected"}

OthersStay(p) == \A q \in Publishers : q # p => run'[q] = run[q]

\* A step that leaves the files alone, and after which its publisher is not in the
\* lock; what a retention leaves unfinished is noted.
Leaves(p) ==
    /\ run'[p].step \in Outside /\ run'[p].candidates = {} /\ OthersStay(p)
    /\ run'[p].step = "inspected" => \E r \in Offers : run'[p].release = {r}
    /\ lock' \in {lock, lock \ {p}}
    /\ UNCHANGED storeFiles /\ raced' = raced /\ torn \subseteq torn'
    /\ run[p].step = "prune" => \A r \in run[p].candidates : Missing(r) \subseteq torn'

LEMMA InspectMoves ==
    ASSUME StoreInv, NEW p \in Publishers, Inspect(p)
    PROVE  Leaves(p)
<1>1. PICK r \in Offers : run' = [run EXCEPT ![p].step = "inspected", ![p].release = {r}]
  BY DEF Inspect
<1>2. run'[p] = [run[p] EXCEPT !.step = "inspected", !.release = {r}]
  BY <1>1 DEF StoreInv, StoreTypeOK
<1>3. /\ run'[p].step = "inspected" /\ run'[p].release = {r}
      /\ run'[p].candidates = run[p].candidates
  BY <1>2 DEF StoreInv, StoreTypeOK, StoreRun
<1>4. run[p].candidates = {} /\ run[p].step = "idle"
  BY DEF Inspect, StoreInv, RunInv, CandidatesKnown, Retaining
<1>5. OthersStay(p)
  BY <1>1 DEF OthersStay, StoreInv, StoreTypeOK
<1> QED
  BY <1>3, <1>4, <1>5 DEF Inspect, Leaves, Outside

LEMMA LeaveMoves ==
    ASSUME StoreInv, NEW p \in Publishers, Leave(p), UNCHANGED <<storeFiles, raced>>,
           torn \subseteq torn',
           run[p].step = "prune" => \A r \in run[p].candidates : Missing(r) \subseteq torn'
    PROVE  Leaves(p)
<1>1. run'[p] = Idle /\ OthersStay(p)
  BY DEF Leave, OthersStay, StoreInv, StoreTypeOK
<1> QED
  BY <1>1 DEF Leave, Idle, Leaves, Outside

LEMMA EnterMoves ==
    ASSUME StoreInv, NEW p \in Publishers, Enter(p), ~Leave(p)
    PROVE  /\ \E r \in Offers : /\ run'[p].release = {r} /\ run'[p].files = Bundles(r)
                                /\ DependenciesStored(r) /\ Advances(r)
           /\ run[p].step = "inspected" /\ run'[p].step = "store" /\ OthersStay(p)
           /\ run'[p].candidates = {} /\ lock = {} /\ lock' = {p}
           /\ UNCHANGED <<storeFiles, torn, raced>>
<1>1. PICK r \in Offers : run[p].release = {r} /\ Published(p) = r
  BY PublishedKnown DEF Enter, Publishing
<1>2. /\ DependenciesStored(r) /\ Advances(r)
      /\ run' = [run EXCEPT ![p].step = "store", ![p].files = Bundles(r)]
      /\ lock' = {p}
  BY <1>1 DEF Enter
<1>3. run'[p] = [run[p] EXCEPT !.step = "store", !.files = Bundles(r)]
  BY <1>2 DEF StoreInv, StoreTypeOK
<1>4. /\ run'[p].step = "store" /\ run'[p].release = run[p].release
      /\ run'[p].files = Bundles(r) /\ run'[p].candidates = run[p].candidates
  BY <1>3 DEF StoreInv, StoreTypeOK, StoreRun
<1>5. run[p].candidates = {}
  BY DEF Enter, StoreInv, RunInv, CandidatesKnown, Retaining
<1> QED
  BY <1>1, <1>2, <1>4, <1>5 DEF Enter, OthersStay, StoreInv, StoreTypeOK

\* A file is added, and what is no longer to be written is there.
LEMMA WriteFileMoves ==
    ASSUME StoreInv, NEW p \in Publishers, WriteBundle(p) \/ WriteDescriptor(p)
    PROVE  /\ run[p].step = "store" /\ run'[p].step = "store" /\ OthersStay(p)
           /\ run'[p].release = run[p].release /\ run'[p].candidates = {}
           /\ \A a \in Apps : bundles[a] \subseteq bundles'[a] /\ archived[a] \subseteq archived'[a]
           /\ \A f \in File : f \in run[p].files \ run'[p].files \/ f \in torn \ torn' =>
                f[2] \in bundles'[f[1]] \cap archived'[f[1]]
           /\ UNCHANGED <<releases, latest, history, legacy, lock, raced>>
<1>0. run[p].step = "store" /\ run[p].candidates = {}
  BY DEF WriteBundle, WriteDescriptor, StoreInv, RunInv, CandidatesKnown, Retaining
<1>1. CASE WriteBundle(p)
  BY <1>0, <1>1 DEF WriteBundle, OthersStay, StoreInv, StoreTypeOK
<1>2. CASE WriteDescriptor(p)
  <2>1. PICK f \in run[p].files :
          /\ f[2] \in bundles[f[1]]
          /\ archived' = [archived EXCEPT ![f[1]] = @ \cup {f[2]}]
          /\ torn' = torn \ {f}
          /\ run' = [run EXCEPT ![p].files = @ \ {f}]
    BY <1>2 DEF WriteDescriptor
  <2>2. run'[p] = [run[p] EXCEPT !.files = @ \ {f}]
    BY <2>1 DEF StoreInv, StoreTypeOK
  <2>3. /\ run'[p].step = run[p].step /\ run'[p].release = run[p].release
        /\ run'[p].files = run[p].files \ {f} /\ run'[p].candidates = run[p].candidates
    BY <2>2 DEF StoreInv, StoreTypeOK, StoreRun
  <2>4. f[1] \in Apps
    BY DEF StoreInv, StoreTypeOK, StoreRun, File
  <2>5. /\ \A a \in Apps : archived[a] \subseteq archived'[a]
        /\ f[2] \in bundles[f[1]] \cap archived'[f[1]]
    BY <2>1, <2>4 DEF StoreInv, StoreTypeOK
  <2>6. OthersStay(p)
    BY <2>1 DEF OthersStay, StoreInv, StoreTypeOK
  <2> QED
    BY <1>0, <1>2, <2>1, <2>3, <2>5, <2>6 DEF WriteDescriptor
<1> QED
  BY <1>1, <1>2

LEMMA WriteReleaseMoves ==
    ASSUME StoreInv, NEW p \in Publishers, WriteRelease(p), ~Leave(p)
    PROVE  /\ \E r \in Offers :
                /\ run[p].release = {r} /\ Missing(r) = {}
                /\ releases' = [releases EXCEPT ![r.app] = @ \cup {r}]
           /\ run[p].step = "store" /\ run'[p].step = "released" /\ OthersStay(p)
           /\ run'[p].release = run[p].release /\ run'[p].candidates = {}
           /\ run'[p].files = {}
           /\ UNCHANGED <<bundles, archived, latest, history, legacy, lock, torn, raced>>
<1>1. PICK r \in Offers : run[p].release = {r} /\ Published(p) = r
  BY PublishedKnown DEF WriteRelease, Publishing
<1>2. /\ releases' = [releases EXCEPT ![r.app] = @ \cup {r}]
      /\ run' = [run EXCEPT ![p].step = "released"] /\ UNCHANGED lock
  BY <1>1 DEF WriteRelease
<1>3. run'[p] = [run[p] EXCEPT !.step = "released"]
  BY <1>2 DEF StoreInv, StoreTypeOK
<1>4. /\ run'[p].step = "released" /\ run'[p].release = run[p].release
      /\ run'[p].candidates = run[p].candidates /\ run'[p].files = run[p].files
  BY <1>3 DEF StoreInv, StoreTypeOK, StoreRun
<1>5. run[p].candidates = {} /\ run[p].files = {} /\ Missing(r) = {}
  BY <1>1 DEF WriteRelease, StoreInv, RunInv, CandidatesKnown, Retaining, Written
<1> QED
  BY <1>1, <1>2, <1>4, <1>5 DEF WriteRelease, OthersStay, StoreInv, StoreTypeOK

LEMMA WriteLatestMoves ==
    ASSUME StoreInv, NEW p \in Publishers, WriteLatest(p)
    PROVE  /\ \E r \in Offers : /\ run[p].release = {r} /\ r \in releases[r.app]
                                /\ r.app \in Apps
                                /\ latest' = [latest EXCEPT ![r.app] = {r}]
           /\ run[p].step = "released" /\ run'[p].step = "survey" /\ OthersStay(p)
           /\ run'[p].apps = Apps /\ run'[p].candidates = {} /\ run'[p].files = {}
           /\ raced \subseteq raced'
           /\ \A q \in Publishers : run[q].step = "legacy" => run[q].release \subseteq raced'
           /\ UNCHANGED <<bundles, archived, releases, history, legacy, lock, torn>>
<1>1. PICK r \in Offers : run[p].release = {r} /\ Published(p) = r /\ r \in Release
  BY PublishedKnown DEF WriteLatest, Publishing
<1>2. run' = [run EXCEPT ![p].step = "survey", ![p].apps = Apps]
  BY DEF WriteLatest
<1>3. run'[p] = [run[p] EXCEPT !.step = "survey", !.apps = Apps]
  BY <1>2 DEF StoreInv, StoreTypeOK
<1>4. /\ run'[p].step = "survey" /\ run'[p].apps = Apps
      /\ run'[p].candidates = run[p].candidates /\ run'[p].files = run[p].files
  BY <1>3 DEF StoreInv, StoreTypeOK, StoreRun
<1>5. /\ run[p].candidates = {} /\ run[p].files = {} /\ run[p].step = "released"
      /\ r \in releases[r.app]
  BY <1>1 DEF WriteLatest, StoreInv, RunInv, CandidatesKnown, Retaining, Removing, Written
<1>6. r.app \in Apps
  BY <1>1, BundlesTyped
<1>7. \A q \in Publishers : run[q].step = "legacy" => run[q].release \subseteq raced'
  BY DEF WriteLatest
<1>8. OthersStay(p)
  BY <1>2 DEF OthersStay, StoreInv, StoreTypeOK
<1> QED
  BY <1>1, <1>4, <1>5, <1>6, <1>7, <1>8 DEF WriteLatest

\* What a survey of the directory of a does.
Surveyed(p, a, unread) ==
    LET values == releases[a] \ unread
        kept == RetainedChoices(values)
        listed == IF kept # {} THEN kept ELSE latest[a]
    IN  /\ a \in Apps
        /\ run[p].step = "survey" /\ run'[p].step = "survey" /\ OthersStay(p)
        /\ run'[p].apps = run[p].apps \ {a} /\ run'[p].files = {}
        /\ run'[p].protected = run[p].protected \cup References(kept \cup latest[a])
                                                \cup LegacyFiles(a)
        /\ run'[p].candidates = run[p].candidates \cup (values \ kept)
        /\ run'[p].unread = run[p].unread \cup unread
        /\ history' = [history EXCEPT ![a] = IF listed # {} THEN listed ELSE @]
        /\ UNCHANGED <<bundles, archived, releases, latest, legacy, lock, torn, raced>>

LEMMA SurveyMoves ==
    ASSUME StoreInv, NEW p \in Publishers, Survey(p)
    PROVE  \E a \in run[p].apps : \E unread \in UnreadableReleases(a) : Surveyed(p, a, unread)
<1>1. PICK a \in run[p].apps : \E u \in UnreadableReleases(a) : SurveyApp(p, a, u)
  BY DEF Survey
<1>2. PICK unread \in UnreadableReleases(a) : SurveyApp(p, a, unread)
  BY <1>1
<1> DEFINE values == releases[a] \ unread
           kept == RetainedChoices(values)
           needed == run[p].protected \cup References(kept \cup latest[a]) \cup LegacyFiles(a)
<1>3. run' = [run EXCEPT ![p] =
                [run[p] EXCEPT !.apps = @ \ {a}, !.protected = needed,
                               !.candidates = @ \cup (values \ kept),
                               !.unread = @ \cup unread]]
  BY <1>2 DEF SurveyApp, StoreInv, StoreTypeOK
<1> HIDE DEF kept
<1>4. /\ run'[p].step = run[p].step /\ run'[p].apps = run[p].apps \ {a}
      /\ run'[p].files = run[p].files
      /\ run'[p].protected = needed
      /\ run'[p].candidates = run[p].candidates \cup (values \ kept)
      /\ run'[p].unread = run[p].unread \cup unread
      /\ OthersStay(p)
  BY <1>3 DEF StoreInv, StoreTypeOK, StoreRun, OthersStay
<1>5. a \in Apps
  BY DEF StoreInv, StoreTypeOK, StoreRun
<1>6. run[p].files = {}
  BY DEF Survey, StoreInv, RunInv, Removing
<1> QED
  BY <1>2, <1>4, <1>5, <1>6 DEF kept, Survey, SurveyApp, Surveyed

LEMMA BeginPruneMoves ==
    ASSUME StoreInv, NEW p \in Publishers, BeginPrune(p), ~Leave(p)
    PROVE  /\ run[p].step = "survey" /\ run'[p].step = "prune" /\ OthersStay(p)
           /\ run[p].apps = {} /\ run[p].unread = {}
           /\ run'[p].apps = {} /\ run'[p].unread = {} /\ run'[p].files = {}
           /\ run'[p].protected = run[p].protected /\ run'[p].candidates = run[p].candidates
           /\ UNCHANGED <<storeFiles, lock, torn, raced>>
<1>1. run' = [run EXCEPT ![p].step = "prune"] /\ run[p].unread = {} /\ lock' = lock
  BY DEF BeginPrune
<1>2. run'[p] = [run[p] EXCEPT !.step = "prune"]
  BY <1>1 DEF StoreInv, StoreTypeOK
<1>3. /\ run'[p].step = "prune" /\ run'[p].apps = run[p].apps
      /\ run'[p].unread = run[p].unread /\ run'[p].files = run[p].files
      /\ run'[p].protected = run[p].protected /\ run'[p].candidates = run[p].candidates
  BY <1>2 DEF StoreInv, StoreTypeOK, StoreRun
<1>4. run[p].files = {}
  BY DEF BeginPrune, StoreInv, RunInv, Removing
<1> QED
  BY <1>1, <1>3, <1>4 DEF BeginPrune, OthersStay, StoreInv, StoreTypeOK

LEMMA RetireMoves ==
    ASSUME StoreInv, NEW p \in Publishers, Retire(p)
    PROVE  /\ \E c \in run[p].candidates :
                /\ c \in Known /\ c.app \in Apps
                /\ releases' = [releases EXCEPT ![c.app] = @ \ {c}]
                /\ run'[p].candidates = run[p].candidates \ {c}
                /\ run'[p].files = Bundles(c) \ run[p].protected
           /\ run[p].step = "prune" /\ run'[p].step = "prune" /\ OthersStay(p)
           /\ run'[p].apps = {} /\ run'[p].unread = {}
           /\ run'[p].protected = run[p].protected
           /\ UNCHANGED <<bundles, archived, latest, history, legacy, lock, torn, raced>>
<1>1. PICK c \in run[p].candidates :
        /\ releases' = [releases EXCEPT ![c.app] = @ \ {c}]
        /\ run' = [run EXCEPT ![p].candidates = @ \ {c},
                              ![p].files = Bundles(c) \ run[p].protected]
  BY DEF Retire
<1>2. run'[p] = [run[p] EXCEPT !.candidates = @ \ {c}, !.files = Bundles(c) \ run[p].protected]
  BY <1>1 DEF StoreInv, StoreTypeOK
<1>3. /\ run'[p].candidates = run[p].candidates \ {c}
      /\ run'[p].files = Bundles(c) \ run[p].protected
      /\ run'[p].step = run[p].step /\ run'[p].apps = run[p].apps
      /\ run'[p].unread = run[p].unread /\ run'[p].protected = run[p].protected
  BY <1>2 DEF StoreInv, StoreTypeOK, StoreRun
<1>4. c \in Known /\ run[p].apps = {} /\ run[p].unread = {}
  BY DEF Retire, StoreInv, RunInv, CandidatesKnown, Removing
<1>5. c.app \in Apps
  BY <1>4, KnownReleases, BundlesTyped
<1> QED
  BY <1>1, <1>3, <1>4, <1>5 DEF Retire, OthersStay, StoreInv, StoreTypeOK

\* What is removed, if anything, is one file of those to be removed.
LEMMA RemoveFileMoves ==
    ASSUME StoreInv, NEW p \in Publishers, RemoveBundle(p) \/ RemoveDescriptor(p)
    PROVE  /\ \E f \in run[p].files : \A g \in File :
                g # f => /\ g[2] \in bundles[g[1]] => g[2] \in bundles'[g[1]]
                         /\ g[2] \in archived[g[1]] => g[2] \in archived'[g[1]]
           /\ run[p].step = "prune" /\ run'[p].step = "prune" /\ OthersStay(p)
           /\ run'[p].files \subseteq run[p].files
           /\ run'[p].apps = {} /\ run'[p].unread = {}
           /\ run'[p].protected = run[p].protected /\ run'[p].candidates = run[p].candidates
           /\ UNCHANGED <<releases, latest, history, legacy, lock, torn, raced>>
<1> USE DEF StoreInv, StoreTypeOK
<1>0. /\ run[p].step = "prune" /\ run[p].apps = {} /\ run[p].unread = {}
      /\ \A f \in run[p].files : f[1] \in Apps /\ \A g \in File : g # f => g[1] # f[1] \/ g[2] # f[2]
  BY DEF RemoveBundle, RemoveDescriptor, RunInv, Removing, StoreRun, File
<1>1. CASE RemoveBundle(p)
  <2>1. PICK f \in run[p].files : bundles' = [bundles EXCEPT ![f[1]] = @ \ {f[2]}]
    BY <1>1 DEF RemoveBundle
  <2>2. \A g \in File : g # f /\ g[2] \in bundles[g[1]] => g[2] \in bundles'[g[1]]
    BY <1>0, <2>1 DEF File
  <2> QED
    BY <1>0, <1>1, <2>2 DEF RemoveBundle, OthersStay
<1>2. CASE RemoveDescriptor(p)
  <2>1. PICK f \in run[p].files : /\ archived' = [archived EXCEPT ![f[1]] = @ \ {f[2]}]
                                 /\ run' = [run EXCEPT ![p].files = @ \ {f}]
    BY <1>2 DEF RemoveDescriptor
  <2>2. run'[p] = [run[p] EXCEPT !.files = @ \ {f}]
    BY <2>1
  <2>3. /\ run'[p].step = run[p].step /\ run'[p].files = run[p].files \ {f}
        /\ run'[p].apps = run[p].apps /\ run'[p].unread = run[p].unread
        /\ run'[p].protected = run[p].protected /\ run'[p].candidates = run[p].candidates
    BY <2>2 DEF StoreRun
  <2>4. \A g \in File : g # f /\ g[2] \in archived[g[1]] => g[2] \in archived'[g[1]]
    BY <1>0, <2>1 DEF File
  <2> QED
    BY <1>0, <1>2, <2>1, <2>3, <2>4 DEF RemoveDescriptor, OthersStay
<1> QED
  BY <1>1, <1>2

LEMMA LegacyBundleMoves ==
    ASSUME StoreInv, NEW p \in Publishers, LegacyBundle(p)
    PROVE  /\ \E v \in LegacyOffers :
                /\ run'[p].release = {v} /\ v.app \in Apps /\ v.digest \in bundles'[v.app]
                /\ raced' = IF \E q \in Publishers : Retaining(q) THEN raced \cup {v}
                                                                  ELSE raced \ {v}
           /\ run[p].step = "idle" /\ run'[p].step = "legacy" /\ OthersStay(p)
           /\ run'[p].candidates = {}
           /\ \A a \in Apps : bundles[a] \subseteq bundles'[a]
           /\ UNCHANGED <<archived, releases, latest, history, legacy, lock, torn>>
<1>1. PICK v \in LegacyOffers :
        /\ bundles' = [bundles EXCEPT ![v.app] = @ \cup {v.digest}]
        /\ run' = [run EXCEPT ![p].step = "legacy", ![p].release = {v}]
        /\ raced' = IF \E q \in Publishers : Retaining(q) THEN raced \cup {v} ELSE raced \ {v}
  BY DEF LegacyBundle
<1>2. run'[p] = [run[p] EXCEPT !.step = "legacy", !.release = {v}]
  BY <1>1 DEF StoreInv, StoreTypeOK
<1>3. /\ run'[p].step = "legacy" /\ run'[p].release = {v}
      /\ run'[p].candidates = run[p].candidates
  BY <1>2 DEF StoreInv, StoreTypeOK, StoreRun
<1>4. v.app \in Apps
  BY PackageStoreAssumption DEF LegacyRelease
<1>5. run[p].candidates = {} /\ run[p].step = "idle"
  BY DEF LegacyBundle, StoreInv, RunInv, CandidatesKnown, Retaining
<1>6. v.digest \in bundles'[v.app] /\ \A a \in Apps : bundles[a] \subseteq bundles'[a]
  BY <1>1, <1>4 DEF StoreInv, StoreTypeOK
<1>7. OthersStay(p)
  BY <1>1 DEF OthersStay, StoreInv, StoreTypeOK
<1> QED
  BY <1>1, <1>3, <1>4, <1>5, <1>6, <1>7 DEF LegacyBundle

LEMMA LegacyPointerMoves ==
    ASSUME StoreInv, NEW p \in Publishers, LegacyPointer(p)
    PROVE  /\ \E v \in LegacyOffers : /\ run[p].release = {v} /\ v.app \in Apps
                                      /\ legacy' = [legacy EXCEPT ![v.app] = {v}]
           /\ run[p].step = "legacy" /\ run'[p].step = "idle" /\ OthersStay(p)
           /\ run'[p].candidates = {}
           /\ UNCHANGED <<bundles, archived, releases, latest, history, lock, torn, raced>>
<1>1. PICK v \in LegacyOffers : run[p].release = {v}
  BY DEF LegacyPointer, StoreInv, RunInv, InLock
<1>2. Published(p) = v /\ v.app \in Apps
  BY <1>1, PublishedOne, PackageStoreAssumption DEF LegacyRelease
<1> QED
  BY <1>1, <1>2 DEF LegacyPointer, Idle, OthersStay, StoreInv, StoreTypeOK

LEMMA StepKinds ==
    ASSUME StoreInv, NEW p \in Publishers, StoreStep(p), ~Leaves(p)
    PROVE  \/ Enter(p) /\ ~Leave(p)
           \/ WriteBundle(p) \/ WriteDescriptor(p)
           \/ WriteRelease(p) /\ ~Leave(p)
           \/ WriteLatest(p) \/ Survey(p)
           \/ BeginPrune(p) /\ ~Leave(p)
           \/ Retire(p) \/ RemoveBundle(p) \/ RemoveDescriptor(p)
           \/ LegacyBundle(p) \/ LegacyPointer(p)
<1>1. CASE Inspect(p)
  BY <1>1, InspectMoves
<1>2. CASE Leave(p) /\ (Enter(p) \/ BeginPrune(p))
  BY <1>2, LeaveMoves DEF Enter, BeginPrune
<1>3. CASE Leave(p) /\ WriteRelease(p)
  <2>1. PICK r \in Offers : run[p].release = {r} /\ Published(p) = r
    BY <1>3, PublishedKnown DEF WriteRelease, Publishing
  <2>2. UNCHANGED releases
    <3>1. run'[p].step = "idle" /\ run[p].step = "store"
      BY <1>3 DEF WriteRelease, Leave, Idle, StoreInv, StoreTypeOK
    <3>2. ~(run' = [run EXCEPT ![p].step = "released"])
      <4>1. run' = [run EXCEPT ![p].step = "released"]
              => run'[p] = [run[p] EXCEPT !.step = "released"]
        BY DEF StoreInv, StoreTypeOK
      <4> QED
        BY <3>1, <4>1 DEF StoreInv, StoreTypeOK, StoreRun
    <3> QED
      BY <1>3, <2>1, <3>2 DEF WriteRelease
  <2> QED
    BY <1>3, <2>2, LeaveMoves DEF WriteRelease, storeFiles
<1>4. CASE Finish(p)
  BY <1>4, LeaveMoves DEF Finish
<1>5. CASE Stop(p)
  <2>1. torn \subseteq torn' /\ \A r \in run[p].candidates : Missing(r) \subseteq torn'
    BY <1>5 DEF Stop
  <2> QED
    BY <1>5, <2>1, LeaveMoves DEF Stop
<1> QED
  BY <1>1, <1>2, <1>3, <1>4, <1>5 DEF StoreStep

-----------------------------------------------------------------------------
(* What the steps preserve.                                                 *)

Kept == HeldKnown /\ HeldWhole /\ \A q \in Publishers : RunInv(q)

LEMMA HeldTyped ==
    ASSUME StoreInv, NEW a \in Apps, NEW r \in Held(a)
    PROVE  r \in Known /\ r \in Release /\ r.app = a
BY KnownReleases DEF StoreInv, HeldKnown

\* Where files are only added, no release comes to lack one.
LEMMA GrowthMissing ==
    ASSUME NEW r \in Release,
           \A a \in Apps : bundles[a] \subseteq bundles'[a] /\ archived[a] \subseteq archived'[a]
    PROVE  Missing(r)' \subseteq Missing(r)
<1>1. \A f \in File : f[1] \in Apps
  BY DEF File
<1>2. \A f \in Bundles(r) \cup r.deps : f[1] \in Apps
  BY <1>1, BundlesTyped
<1> QED
  BY <1>2 DEF Missing

\* Of another publisher, what does not hold or still holds after the step.
LEMMA Bystander ==
    ASSUME StoreInv, NEW q \in Publishers, run'[q] = run[q],
           run[q].step \in LockedSteps =>
              /\ lock' = {q}
              /\ UNCHANGED <<releases, latest, history>>
              /\ \A r \in Release : Missing(r)' \subseteq Missing(r)
    PROVE  RunInv(q)'
<1> USE DEF StoreInv, RunInv
<1>1. InLock(q)'
  BY DEF InLock
<1>2. Written(q)'
  <2> SUFFICES ASSUME NEW r \in run[q].release, run[q].step \in {"store", "released"}
               PROVE  /\ run[q].step = "store" =>
                           Advances(r)' /\ Missing(r)' \subseteq run[q].files
                      /\ run[q].step = "released" => Advances(r)' /\ r \in releases'[r.app]
    BY DEF Written
  <2>1. r \in Release
    BY PublishedKnown DEF Publishing
  <2>2. /\ UNCHANGED <<releases, latest, history>>
        /\ Missing(r)' \subseteq Missing(r)
    BY <2>1 DEF LockedSteps
  <2>3. /\ run[q].step = "store" => Advances(r) /\ Missing(r) \subseteq run[q].files
        /\ run[q].step = "released" => Advances(r) /\ r \in releases[r.app]
    BY DEF Written
  <2>4. Advances(r) => Advances(r)'
    BY <2>2 DEF Advances
  <2> QED
    BY <2>2, <2>3, <2>4
<1>3. CandidatesKnown(q)'
  BY DEF CandidatesKnown, Retaining
<1>4. Retaining(q)' => Gathered(q)'
  BY DEF Retaining, LockedSteps, Gathered
<1>5. Removing(q)'
  BY DEF Removing
<1> QED
  BY <1>1, <1>2, <1>3, <1>4, <1>5

\* A step of the publisher in the lock leaves the others as they are, outside.
LEMMA OthersOutside ==
    ASSUME StoreInv, NEW p \in Publishers, run[p].step \in LockedSteps, OthersStay(p),
           NEW q \in Publishers, q # p
    PROVE  run[q].step \notin LockedSteps /\ RunInv(q)'
<1>1. run[q].step \notin LockedSteps
  BY DEF StoreInv, RunInv, InLock
<1>2. run'[q] = run[q]
  BY DEF OthersStay
<1> QED
  BY <1>1, <1>2, Bystander

\* The publisher in the lock is the only one that can be removing files.
LEMMA NoneDoomed ==
    ASSUME StoreInv, NEW p \in Publishers, run[p].step \in LockedSteps \ {"prune"}, NEW r
    PROVE  ~Doomed(r)
BY DEF StoreInv, RunInv, InLock, LockedSteps, Doomed

\* No release comes or goes, and what is whole or doomed is so afterwards.
LEMMA SameHeld ==
    ASSUME StoreInv, UNCHANGED <<releases, latest, history>>,
           \A r \in Release : /\ Intact(r) => Intact(r)'
                              /\ Doomed(r) => Doomed(r)' \/ Intact(r)'
    PROVE  HeldKnown' /\ HeldWhole'
<1>1. HeldKnown'
  BY DEF StoreInv, HeldKnown, Held
<1>2. \A a \in Apps : releases[a] \cup Offered(a) \subseteq Release
  BY HeldTyped DEF Held, Offered
<1>3. HeldWhole'
  BY <1>2 DEF StoreInv, HeldWhole, Offered
<1> QED
  BY <1>1, <1>3

LEMMA LeavesKeeps ==
    ASSUME StoreInv, NEW p \in Publishers, Leaves(p)
    PROVE  Kept'
<1>1. UNCHANGED <<bundles, archived, releases, latest, history>> /\ torn \subseteq torn'
  BY DEF Leaves, storeFiles
<1>2. \A r : Missing(r)' = Missing(r)
  BY <1>1 DEF Missing
<1>3. ASSUME NEW r \in Release
      PROVE  /\ Intact(r) => Intact(r)'
             /\ Doomed(r) => Doomed(r)' \/ Intact(r)'
  <2>1. Intact(r) => Intact(r)'
    BY <1>1, <1>2 DEF Intact
  <2>2. ASSUME NEW q \in Publishers, run[q].step = "prune", r \in run[q].candidates
        PROVE  Doomed(r)' \/ Intact(r)'
    <3>1. CASE q = p
      BY <1>2, <2>2, <3>1 DEF Leaves, Intact
    <3>2. CASE q # p
      BY <2>2, <3>2 DEF Leaves, OthersStay, Doomed
    <3> QED
      BY <3>1, <3>2
  <2> QED
    BY <2>1, <2>2 DEF Doomed
<1>4. HeldKnown' /\ HeldWhole'
  BY <1>1, <1>3, SameHeld
<1>5. RunInv(p)'
  BY DEF Leaves, Outside, RunInv, InLock, Written, CandidatesKnown, Retaining, Removing,
         LockedSteps, Publishing
<1>6. ASSUME NEW q \in Publishers, q # p
      PROVE  RunInv(q)'
  <2>1. run'[q] = run[q]
    BY <1>6 DEF Leaves, OthersStay
  <2>2. run[q].step \in LockedSteps => lock' = {q}
    BY <1>6 DEF Leaves, StoreInv, RunInv, InLock
  <2> QED
    BY <1>1, <1>2, <2>1, <2>2, Bystander
<1> QED
  BY <1>4, <1>5, <1>6 DEF Kept

LEMMA EnterKeeps ==
    ASSUME StoreInv, NEW p \in Publishers, Enter(p), ~Leave(p)
    PROVE  Kept'
<1>1. PICK r \in Offers : /\ run'[p].release = {r} /\ run'[p].files = Bundles(r)
                          /\ DependenciesStored(r) /\ Advances(r)
  BY EnterMoves
<1>2. /\ run[p].step = "inspected" /\ run'[p].step = "store" /\ OthersStay(p)
      /\ run'[p].candidates = {} /\ lock = {} /\ lock' = {p}
      /\ UNCHANGED <<bundles, archived, releases, latest, history, torn>>
  BY EnterMoves DEF storeFiles
<1>3. \A v : Missing(v)' = Missing(v) /\ (Intact(v) => Intact(v)')
  BY <1>2 DEF Missing, Intact
<1>4. \A v : Doomed(v) => Doomed(v)'
  BY <1>2 DEF Doomed, OthersStay
<1>5. HeldKnown' /\ HeldWhole'
  BY <1>2, <1>3, <1>4, SameHeld
<1>6. RunInv(p)'
  <2>1. Advances(r)' /\ Missing(r)' \subseteq Bundles(r)
    BY <1>1, <1>2 DEF Advances, Missing, DependenciesStored
  <2> QED
    BY <1>1, <1>2, <2>1
       DEF RunInv, InLock, Written, CandidatesKnown, Retaining, Removing, LockedSteps
<1>7. ASSUME NEW q \in Publishers, q # p
      PROVE  RunInv(q)'
  <2>1. run'[q] = run[q]
    BY <1>2, <1>7 DEF OthersStay
  <2>2. run[q].step \notin LockedSteps
    BY <1>2 DEF StoreInv, RunInv, InLock
  <2> QED
    BY <2>1, <2>2, Bystander
<1> QED
  BY <1>5, <1>6, <1>7 DEF Kept

LEMMA WriteFileKeeps ==
    ASSUME StoreInv, NEW p \in Publishers, WriteBundle(p) \/ WriteDescriptor(p)
    PROVE  Kept'
<1>1. PICK r \in Offers : run[p].release = {r} /\ r \in Release
  BY PublishedKnown, WriteFileMoves DEF Publishing
<1>2. /\ run[p].step = "store" /\ run'[p].step = "store" /\ OthersStay(p)
      /\ run'[p].release = {r} /\ run'[p].candidates = {}
      /\ \A a \in Apps : bundles[a] \subseteq bundles'[a] /\ archived[a] \subseteq archived'[a]
      /\ UNCHANGED <<releases, latest, history, lock>>
  BY <1>1, WriteFileMoves
<1>3. \A f \in File : f \in run[p].files \ run'[p].files \/ f \in torn \ torn' =>
        f[2] \in bundles'[f[1]] \cap archived'[f[1]]
  BY WriteFileMoves
<1>4. ASSUME NEW v \in Release
      PROVE  /\ Missing(v)' \subseteq Missing(v)
             /\ \A f \in Missing(v)' : f \in File /\ f[2] \notin bundles'[f[1]] \cap archived'[f[1]]
  <2>1. Missing(v)' \subseteq Missing(v)
    BY <1>2, GrowthMissing
  <2>2. \A f \in Missing(v)' : f[2] \notin bundles'[f[1]] \cap archived'[f[1]]
    BY DEF Missing
  <2> QED
    BY <2>1, <2>2, MissingTyped
<1>5. HeldKnown' /\ HeldWhole'
  <2>1. \A v \in Release : Intact(v) => Intact(v)'
    BY <1>3, <1>4 DEF Intact
  <2>2. \A v : ~Doomed(v)
    BY <1>2, NoneDoomed DEF LockedSteps
  <2> QED
    BY <1>2, <2>1, <2>2, SameHeld
<1>6. RunInv(p)'
  <2>1. lock' = {p} /\ Advances(r) /\ Missing(r) \subseteq run[p].files
    BY <1>1, <1>2 DEF StoreInv, RunInv, InLock, Written, LockedSteps
  <2>2. Advances(r)' /\ Missing(r)' \subseteq run'[p].files
    BY <1>1, <1>2, <1>3, <1>4, <2>1 DEF Advances
  <2> QED
    BY <1>1, <1>2, <2>1, <2>2 DEF RunInv, InLock, Written, CandidatesKnown, Retaining, Removing
<1> QED
  BY <1>2, <1>5, <1>6, OthersOutside DEF Kept, LockedSteps

LEMMA WriteReleaseKeeps ==
    ASSUME StoreInv, NEW p \in Publishers, WriteRelease(p), ~Leave(p)
    PROVE  Kept'
<1>1. PICK r \in Offers : /\ run[p].release = {r} /\ Missing(r) = {}
                          /\ releases' = [releases EXCEPT ![r.app] = @ \cup {r}]
  BY WriteReleaseMoves
<1>2. /\ run[p].step = "store" /\ run'[p].step = "released" /\ OthersStay(p)
      /\ run'[p].release = {r} /\ run'[p].candidates = {} /\ run'[p].files = {}
      /\ UNCHANGED <<bundles, archived, latest, history, lock, torn>>
  BY <1>1, WriteReleaseMoves
<1>3. r \in Known /\ r \in Release /\ r.app \in Apps
  BY PackageStoreAssumption, BundlesTyped DEF Known
<1>4. /\ releases'[r.app] = releases[r.app] \cup {r}
      /\ \A a \in Apps : a # r.app => releases'[a] = releases[a]
  BY <1>1, <1>3 DEF StoreInv, StoreTypeOK
<1>5. HeldKnown'
  <2>1. ASSUME NEW a \in Apps
        PROVE  IsFiniteSet(releases'[a])
    <3>1. IsFiniteSet(releases[a])
      BY DEF StoreInv, HeldKnown
    <3>2. releases'[a] \in {releases[a], releases[a] \cup {r}}
      BY <1>4
    <3>3. IsFiniteSet(releases[a] \cup {r})
      BY <3>1, FS_AddElement
    <3> QED
      BY <3>1, <3>2, <3>3
  <2>2. \A a \in Apps : \A q \in Held(a)' : q \in Held(a) \/ (q = r /\ a = r.app)
    BY <1>2, <1>4 DEF Held
  <2> QED
    BY <1>2, <1>3, <2>1, <2>2 DEF StoreInv, HeldKnown
<1>6. HeldWhole'
  <2>1. \A v : ~Doomed(v)
    BY <1>2, NoneDoomed DEF LockedSteps
  <2>2. \A v : Missing(v)' = Missing(v) /\ (Intact(v) => Intact(v)')
    BY <1>2 DEF Missing, Intact
  <2>3. Intact(r)
    BY <1>1 DEF Intact
  <2>4. \A a \in Apps : releases'[a] \subseteq releases[a] \cup {r} /\ releases[a] \subseteq releases'[a]
    BY <1>4
  <2> QED
    BY <1>2, <2>1, <2>2, <2>3, <2>4 DEF StoreInv, HeldWhole, Offered
<1>7. RunInv(p)'
  <2>1. lock' = {p} /\ Advances(r)
    BY <1>1, <1>2 DEF StoreInv, RunInv, InLock, Written, LockedSteps
  <2>2. Advances(r)' /\ r \in releases'[r.app]
    BY <1>2, <1>4, <2>1 DEF Advances
  <2> QED
    BY <1>1, <1>2, <2>1, <2>2 DEF RunInv, InLock, Written, CandidatesKnown, Retaining, Removing
<1> QED
  BY <1>2, <1>5, <1>6, <1>7, OthersOutside DEF Kept, LockedSteps

LEMMA WriteLatestKeeps ==
    ASSUME StoreInv, NEW p \in Publishers, WriteLatest(p)
    PROVE  Kept'
<1>1. PICK r \in Offers : /\ run[p].release = {r} /\ r \in releases[r.app] /\ r.app \in Apps
                          /\ latest' = [latest EXCEPT ![r.app] = {r}]
  BY WriteLatestMoves
<1>2. /\ run[p].step = "released" /\ run'[p].step = "survey" /\ OthersStay(p)
      /\ run'[p].apps = Apps /\ run'[p].candidates = {} /\ run'[p].files = {}
      /\ UNCHANGED <<bundles, archived, releases, history, lock, torn>>
  BY WriteLatestMoves
<1>3. \A a \in Apps : \/ latest'[a] = latest[a]
                      \/ latest'[a] = {r} /\ r \in releases[a]
  BY <1>1 DEF StoreInv, StoreTypeOK
<1>4. HeldKnown'
  <2>1. \A a \in Apps : Held(a)' \subseteq Held(a) /\ \A q, v \in latest'[a] : q = v
    BY <1>2, <1>3 DEF Held, StoreInv, HeldKnown
  <2> QED
    BY <1>2, <2>1 DEF StoreInv, HeldKnown
<1>5. HeldWhole'
  <2>1. \A v : ~Doomed(v)
    BY <1>2, NoneDoomed DEF LockedSteps
  <2>2. \A v : Intact(v) => Intact(v)'
    BY <1>2 DEF Missing, Intact
  <2> QED
    BY <1>2, <1>3, <2>1, <2>2 DEF StoreInv, HeldWhole, Offered
<1>6. RunInv(p)'
  <2>1. lock' = {p}
    BY <1>2 DEF StoreInv, RunInv, InLock, LockedSteps
  <2> QED
    BY <1>2, <2>1 DEF RunInv, InLock, Written, CandidatesKnown, Retaining, Gathered, Removing,
                      Publishing
<1> QED
  BY <1>2, <1>4, <1>5, <1>6, OthersOutside DEF Kept, LockedSteps

LEMMA SurveyKeeps ==
    ASSUME StoreInv, NEW p \in Publishers, Survey(p)
    PROVE  Kept'
<1>0. PICK a \in run[p].apps : \E u \in UnreadableReleases(a) : Surveyed(p, a, u)
  BY SurveyMoves
<1>1. PICK unread \in UnreadableReleases(a) : Surveyed(p, a, unread)
  BY <1>0
<1> DEFINE values == releases[a] \ unread
           kept == RetainedChoices(values)
           listed == IF kept # {} THEN kept ELSE latest[a]
<1>2. /\ a \in Apps /\ run[p].step = "survey" /\ run'[p].step = "survey" /\ OthersStay(p)
      /\ run'[p].apps = run[p].apps \ {a} /\ run'[p].files = {}
      /\ run[p].protected \subseteq run'[p].protected
      /\ References(kept \cup latest[a]) \subseteq run'[p].protected
      /\ run'[p].candidates = run[p].candidates \cup (values \ kept)
      /\ run'[p].unread = run[p].unread \cup unread
      /\ UNCHANGED <<bundles, archived, releases, latest, lock, torn>>
  BY <1>1 DEF Surveyed
<1>3. kept \subseteq values /\ (values # {} => kept # {})
  <2>1. values \subseteq Release /\ IsFiniteSet(values)
    BY <1>2, FS_Subset DEF StoreInv, StoreTypeOK, HeldKnown
  <2>2. kept \subseteq values
    BY DEF RetainedChoices, NewestOfFormat, Newest
  <2> HIDE DEF values
  <2>3. values # {} => kept # {}
    BY <2>1, RetainedSome
  <2> QED
    BY <2>2, <2>3
<1>4. unread \subseteq releases[a]
  BY DEF UnreadableReleases
<1>5. /\ history'[a] = IF listed # {} THEN listed ELSE history[a]
      /\ \A b \in Apps : b # a => history'[b] = history[b]
  BY <1>1 DEF Surveyed, StoreInv, StoreTypeOK
<1> HIDE DEF kept, values
<1>6. values = releases[a] \ unread
  BY DEF values
<1>7. /\ history'[a] \subseteq releases[a] \cup latest[a] \cup history[a]
      /\ history'[a] = history[a] \/ history'[a] \subseteq kept \cup latest[a]
      /\ releases[a] = {} /\ latest[a] = {} => history'[a] = history[a]
  BY <1>3, <1>5, <1>6
<1>8. HeldKnown'
  <2>1. \A b \in Apps : Held(b)' \subseteq Held(b)
    BY <1>2, <1>5, <1>7 DEF Held
  <2> QED
    BY <1>2, <2>1 DEF StoreInv, HeldKnown
<1>9. \A v : Intact(v) => Intact(v)'
  BY <1>2 DEF Missing, Intact
<1>10. HeldWhole'
  <2>1. \A v : ~Doomed(v)
    BY <1>2, NoneDoomed DEF LockedSteps
  <2>2. ASSUME NEW b \in Apps
        PROVE  /\ \A v \in history'[b] : Intact(v)
               /\ history'[b] # {} => releases[b] \cup latest[b] # {}
    BY <1>5, <1>7, <2>1 DEF StoreInv, HeldWhole, Offered
  <2> QED
    BY <1>2, <1>9, <2>1, <2>2 DEF StoreInv, HeldWhole, Offered
<1>11. ASSUME NEW b \in Apps, NEW c \in values \ kept
       PROVE  c \in Known /\ c.app = a /\ (b # a => c \notin releases[b])
  <2>1. c \in Held(a)
    BY <1>6 DEF Held
  <2>2. c \in releases[b] => c \in Held(b)
    BY DEF Held
  <2> QED
    BY <1>2, <2>1, <2>2, HeldTyped
<1>12. CandidatesKnown(p)'
  <2>1. \A c \in run[p].candidates : c \in Known /\ c.app \notin run[p].apps
    BY DEF StoreInv, RunInv, CandidatesKnown
  <2>2. \A c \in values \ kept : c \in Known /\ c.app = a
    BY <1>2, <1>11
  <2> QED
    BY <1>2, <2>1, <2>2 DEF CandidatesKnown, Retaining
<1>13. ASSUME NEW b \in Apps \ run[p].apps
       PROVE  /\ \A r \in (releases[b] \ (run'[p].candidates \cup run'[p].unread)) \cup latest[b] :
                   Needs(r) \subseteq run'[p].protected
              /\ run'[p].unread = {} => \A r \in history[b] : Needs(r) \subseteq run'[p].protected
              /\ history[b] # {} => (releases[b] \ run'[p].candidates) \cup latest[b] # {}
  <2>1. b # a
    BY <1>0
  <2>2. releases[b] \ run'[p].candidates = releases[b] \ run[p].candidates
    BY <1>2, <1>11, <2>1
  <2>3. Gathered(p)
    BY <1>2 DEF StoreInv, RunInv, Retaining
  <2>4. /\ \A r \in (releases[b] \ (run[p].candidates \cup run[p].unread)) \cup latest[b] :
             Needs(r) \subseteq run[p].protected
        /\ run[p].unread = {} => \A r \in history[b] : Needs(r) \subseteq run[p].protected
        /\ history[b] # {} => (releases[b] \ run[p].candidates) \cup latest[b] # {}
    BY <2>3 DEF Gathered
  <2> QED
    BY <1>2, <2>2, <2>4
<1>14. \A r \in kept \cup latest[a] : Needs(r) \subseteq run'[p].protected
  BY <1>2 DEF References, Needs
<1>15. \A c \in run[p].candidates : c \notin releases[a]
  <2>1. \A c \in releases[a] : c.app = a
    BY <1>2 DEF StoreInv, HeldKnown, Held
  <2> QED
    BY <1>0, <2>1 DEF StoreInv, RunInv, CandidatesKnown
<1>16. history[a] # {} => releases[a] \cup latest[a] # {}
  BY <1>2 DEF StoreInv, HeldWhole
<1>17. /\ \A r \in (releases[a] \ (run'[p].candidates \cup run'[p].unread)) \cup latest[a] :
            Needs(r) \subseteq run'[p].protected
       /\ run'[p].unread = {} => \A r \in history'[a] : Needs(r) \subseteq run'[p].protected
       /\ history'[a] # {} => (releases[a] \ run'[p].candidates) \cup latest[a] # {}
  <2>1. releases[a] \ (run'[p].candidates \cup run'[p].unread) \subseteq kept
    BY <1>2, <1>6
  <2>2. ASSUME run'[p].unread = {}, history'[a] # {}
        PROVE  history'[a] \subseteq kept \cup latest[a]
    BY <1>2, <1>3, <1>5, <1>6, <1>16, <2>2
  <2>3. ASSUME history'[a] # {}
        PROVE  (releases[a] \ run'[p].candidates) \cup latest[a] # {}
    <3>1. CASE values = {}
      <4>1. releases[a] \ run'[p].candidates = releases[a]
        BY <1>2, <1>15, <3>1
      <4>2. releases[a] \cup latest[a] # {}
        BY <1>3, <1>5, <1>6, <1>16, <2>3
      <4> QED
        BY <4>1, <4>2
    <3>2. CASE values # {}
      BY <1>2, <1>3, <1>6, <1>15, <3>2
    <3> QED
      BY <3>1, <3>2
  <2> QED
    BY <1>14, <2>1, <2>2, <2>3
<1>18. Gathered(p)'
  <2>1. \A b \in Apps \ run'[p].apps : b = a \/ (b \in Apps \ run[p].apps /\ b # a)
    BY <1>2
  <2> QED
    BY <1>2, <1>5, <1>13, <1>17, <2>1 DEF Gathered
<1>19. RunInv(p)'
  <2>1. lock' = {p}
    BY <1>2 DEF StoreInv, RunInv, InLock, LockedSteps
  <2> QED
    BY <1>2, <1>12, <1>18, <2>1 DEF RunInv, InLock, Written, Removing, Publishing
<1> QED
  BY <1>2, <1>8, <1>10, <1>19, OthersOutside DEF Kept, LockedSteps

LEMMA BeginPruneKeeps ==
    ASSUME StoreInv, NEW p \in Publishers, BeginPrune(p), ~Leave(p)
    PROVE  Kept'
<1>1. /\ run[p].step = "survey" /\ run'[p].step = "prune" /\ OthersStay(p)
      /\ run[p].apps = {} /\ run[p].unread = {}
      /\ run'[p].apps = {} /\ run'[p].unread = {} /\ run'[p].files = {}
      /\ run'[p].protected = run[p].protected /\ run'[p].candidates = run[p].candidates
      /\ UNCHANGED <<bundles, archived, releases, latest, history, lock, torn>>
  BY BeginPruneMoves DEF storeFiles
<1>2. HeldKnown' /\ HeldWhole'
  <2>1. \A v : (Intact(v) => Intact(v)') /\ ~Doomed(v)
    BY <1>1, NoneDoomed DEF Missing, Intact, LockedSteps
  <2> QED
    BY <1>1, <2>1, SameHeld
<1>3. RunInv(p)'
  <2>1. lock' = {p} /\ CandidatesKnown(p)' /\ Gathered(p)'
    BY <1>1 DEF StoreInv, RunInv, InLock, LockedSteps, CandidatesKnown, Gathered, Retaining
  <2> QED
    BY <1>1, <2>1 DEF RunInv, InLock, Written, Removing, Publishing
<1> QED
  BY <1>1, <1>2, <1>3, OthersOutside DEF Kept, LockedSteps

\* While files are removed, what is not to be retired has all it needs protected.
LEMMA StaysProtected ==
    ASSUME StoreInv, NEW p \in Publishers, run[p].step = "prune", NEW a \in Apps, NEW r,
           r \in Offered(a) \cup (releases[a] \ run[p].candidates)
    PROVE  Needs(r) \subseteq run[p].protected
<1>1. Gathered(p) /\ run[p].apps = {} /\ run[p].unread = {}
  BY DEF StoreInv, RunInv, Retaining, Removing
<1> QED
  BY <1>1 DEF Gathered, Offered

LEMMA RetireKeeps ==
    ASSUME StoreInv, NEW p \in Publishers, Retire(p)
    PROVE  Kept'
<1>1. PICK c \in run[p].candidates :
        /\ c \in Known /\ c.app \in Apps
        /\ releases' = [releases EXCEPT ![c.app] = @ \ {c}]
        /\ run'[p].candidates = run[p].candidates \ {c}
        /\ run'[p].files = Bundles(c) \ run[p].protected
  BY RetireMoves
<1>2. /\ run[p].step = "prune" /\ run'[p].step = "prune" /\ OthersStay(p)
      /\ run'[p].apps = {} /\ run'[p].unread = {}
      /\ run'[p].protected = run[p].protected
      /\ UNCHANGED <<bundles, archived, latest, history, lock, torn>>
  BY RetireMoves
<1>3. \A a \in Apps : releases'[a] = releases[a] \ {c}
  <2>1. \A a \in Apps : c \in releases[a] => c.app = a
    BY DEF StoreInv, HeldKnown, Held
  <2> QED
    BY <1>1, <2>1 DEF StoreInv, StoreTypeOK
<1>4. HeldKnown'
  <2>1. \A a \in Apps : IsFiniteSet(releases'[a])
    BY <1>3, FS_Subset DEF StoreInv, HeldKnown
  <2>2. \A a \in Apps : Held(a)' \subseteq Held(a)
    BY <1>2, <1>3 DEF Held
  <2> QED
    BY <1>2, <2>1, <2>2 DEF StoreInv, HeldKnown
<1>5. \A v : Intact(v) => Intact(v)'
  BY <1>2 DEF Missing, Intact
<1>6. \A v : Doomed(v) /\ v # c => Doomed(v)'
  BY <1>1, <1>2 DEF Doomed, OthersStay
<1>7. HeldWhole'
  <2> SUFFICES ASSUME NEW a \in Apps
               PROVE  /\ \A r \in Offered(a) : Intact(r)'
                      /\ \A r \in releases'[a] : Intact(r)' \/ Doomed(r)'
                      /\ history[a] # {} => releases'[a] \cup latest[a] # {}
    BY <1>2 DEF HeldWhole, Offered
  <2>1. \A r \in releases'[a] : r \in releases[a] /\ r # c
    BY <1>3
  <2>2. history[a] # {} => (releases[a] \ run[p].candidates) \cup latest[a] # {}
    BY <1>2 DEF StoreInv, RunInv, Retaining, Removing, Gathered
  <2>3. releases[a] \ run[p].candidates \subseteq releases'[a]
    BY <1>1, <1>3
  <2> QED
    BY <1>5, <1>6, <2>1, <2>2, <2>3 DEF StoreInv, HeldWhole, Offered
<1>8. RunInv(p)'
  <2>1. lock' = {p} /\ CandidatesKnown(p)'
    BY <1>1, <1>2 DEF StoreInv, RunInv, InLock, LockedSteps, CandidatesKnown, Retaining
  <2>2. Gathered(p)'
    <3>1. Gathered(p) /\ run[p].apps = {} /\ run[p].unread = {}
      BY <1>2 DEF StoreInv, RunInv, Retaining, Removing
    <3>2. \A a \in Apps : releases'[a] \ run'[p].candidates = releases[a] \ run[p].candidates
      BY <1>1, <1>3
    <3>3. \A a \in Apps : /\ releases'[a] \ (run'[p].candidates \cup run'[p].unread)
                               = releases[a] \ (run[p].candidates \cup run[p].unread)
                          /\ releases'[a] \ run'[p].candidates = releases[a] \ run[p].candidates
      BY <1>2, <3>1, <3>2
    <3> QED
      BY <1>2, <3>1, <3>3 DEF Gathered
  <2>3. run'[p].files \cap run'[p].protected = {}
    BY <1>1, <1>2
  <2> QED
    BY <1>2, <2>1, <2>2, <2>3 DEF RunInv, InLock, Written, Removing, Publishing
<1> QED
  BY <1>2, <1>4, <1>7, <1>8, OthersOutside DEF Kept, LockedSteps

LEMMA RemoveFileKeeps ==
    ASSUME StoreInv, NEW p \in Publishers, RemoveBundle(p) \/ RemoveDescriptor(p)
    PROVE  Kept'
<1>1. PICK f \in run[p].files : \A g \in File :
        g # f => /\ g[2] \in bundles[g[1]] => g[2] \in bundles'[g[1]]
                 /\ g[2] \in archived[g[1]] => g[2] \in archived'[g[1]]
  BY RemoveFileMoves
<1>2. /\ run[p].step = "prune" /\ run'[p].step = "prune" /\ OthersStay(p)
      /\ run'[p].files \subseteq run[p].files
      /\ run'[p].apps = {} /\ run'[p].unread = {}
      /\ run'[p].protected = run[p].protected /\ run'[p].candidates = run[p].candidates
      /\ UNCHANGED <<releases, latest, history, lock, torn>>
  BY RemoveFileMoves
<1>3. f \notin run[p].protected /\ run[p].apps = {} /\ run[p].unread = {}
  BY <1>2 DEF StoreInv, RunInv, Removing
<1>4. HeldKnown'
  BY <1>2 DEF StoreInv, HeldKnown, Held
<1>5. ASSUME NEW a \in Apps, NEW r \in Offered(a) \cup (releases[a] \ run[p].candidates)
      PROVE  Missing(r)' \subseteq Missing(r)
  <2>1. f \notin Needs(r)
    BY <1>2, <1>3, StaysProtected
  <2>2. r \in Release
    BY HeldTyped DEF Held, Offered
  <2>3. Bundles(r) \subseteq File \ {f} /\ r.deps \subseteq File \ {f}
    BY <2>1, <2>2, BundlesTyped DEF Needs
  <2> QED
    BY <1>1, <2>3 DEF Missing
<1>6. HeldWhole'
  <2>1. \A v \in run[p].candidates : Doomed(v)'
    BY <1>2 DEF Doomed
  <2>2. \A v : Doomed(v) => Doomed(v)'
    BY <1>2 DEF Doomed, OthersStay
  <2>3. ASSUME NEW a \in Apps, NEW r \in Offered(a) \cup (releases[a] \ run[p].candidates), Intact(r)
        PROVE  Intact(r)'
    BY <1>2, <1>5, <2>3 DEF Intact
  <2> QED
    BY <1>2, <2>1, <2>2, <2>3 DEF StoreInv, HeldWhole, Offered
<1>7. RunInv(p)'
  <2>1. lock' = {p} /\ CandidatesKnown(p)' /\ Gathered(p)'
    BY <1>2, <1>3
       DEF StoreInv, RunInv, InLock, LockedSteps, CandidatesKnown, Gathered, Retaining
  <2>2. run'[p].files \cap run'[p].protected = {}
    BY <1>2 DEF StoreInv, RunInv, Removing
  <2> QED
    BY <1>2, <2>1, <2>2 DEF RunInv, InLock, Written, Removing, Publishing
<1> QED
  BY <1>2, <1>4, <1>6, <1>7, OthersOutside DEF Kept, LockedSteps

\* Outside the lock: a publication of format 1.
LEMMA LegacyKeeps ==
    ASSUME StoreInv, NEW p \in Publishers, LegacyBundle(p) \/ LegacyPointer(p)
    PROVE  Kept'
<1>1. /\ run[p].step \in {"idle", "legacy"} /\ run'[p].step \in {"idle", "legacy"} /\ OthersStay(p)
      /\ run'[p].step = "legacy" => \E v \in LegacyOffers : run'[p].release = {v}
      /\ run'[p].candidates = {}
      /\ \A a \in Apps : bundles[a] \subseteq bundles'[a] /\ archived[a] \subseteq archived'[a]
      /\ UNCHANGED <<releases, latest, history, lock, torn>>
  BY LegacyBundleMoves, LegacyPointerMoves
<1>2. \A v \in Release : Missing(v)' \subseteq Missing(v)
  BY <1>1, GrowthMissing
<1>3. HeldKnown' /\ HeldWhole'
  <2>1. \A v \in Release : Intact(v) => Intact(v)'
    BY <1>1, <1>2 DEF Intact
  <2>2. \A v : Doomed(v) => Doomed(v)'
    BY <1>1 DEF Doomed, OthersStay
  <2> QED
    BY <1>1, <2>1, <2>2, SameHeld
<1>4. RunInv(p)'
  BY <1>1 DEF RunInv, InLock, Written, CandidatesKnown, Retaining, Removing, LockedSteps,
              Publishing
<1>5. ASSUME NEW q \in Publishers, q # p
      PROVE  RunInv(q)'
  <2>1. run'[q] = run[q]
    BY <1>1, <1>5 DEF OthersStay
  <2>2. run[q].step \in LockedSteps => lock' = {q}
    BY <1>1 DEF StoreInv, RunInv, InLock
  <2> QED
    BY <1>1, <1>2, <2>1, <2>2, Bystander
<1> QED
  BY <1>3, <1>4, <1>5 DEF Kept

LEMMA StoreStepKeeps ==
    ASSUME StoreInv, NEW p \in Publishers, StoreStep(p)
    PROVE  StoreInv'
<1>1. CASE Leaves(p)
  BY <1>1, StoreStepTyped, LeavesKeeps DEF Kept, StoreInv
<1>2. CASE ~Leaves(p)
  <2>1. Kept'
    BY <1>2, StepKinds, EnterKeeps, WriteFileKeeps, WriteReleaseKeeps, WriteLatestKeeps,
       SurveyKeeps, BeginPruneKeeps, RetireKeeps, RemoveFileKeeps, LegacyKeeps
  <2> QED
    BY <2>1, StoreStepTyped DEF Kept, StoreInv
<1> QED
  BY <1>1, <1>2

LEMMA StoreInvNext == StoreInv /\ [StoreNext]_storeVars => StoreInv'
<1> SUFFICES ASSUME StoreInv, [StoreNext]_storeVars
             PROVE  StoreInv'
  OBVIOUS
<1>1. CASE \E p \in Publishers : StoreStep(p)
  BY <1>1, StoreStepKeeps
<1>2. CASE UNCHANGED storeVars
  <2>1. UNCHANGED <<bundles, archived, releases, latest, history, legacy, lock, run, stops,
                    torn, raced>>
    BY <1>2 DEF storeVars, storeFiles
  <2>2. StoreTypeOK'
    BY <2>1 DEF StoreInv, StoreTypeOK
  <2>3. \A v : /\ Missing(v)' = Missing(v) /\ (Intact(v) => Intact(v)')
               /\ Doomed(v) => Doomed(v)'
    BY <2>1 DEF Missing, Intact, Doomed
  <2>4. HeldKnown' /\ HeldWhole'
    BY <2>1, <2>3, SameHeld
  <2>5. ASSUME NEW p \in Publishers
        PROVE  RunInv(p)'
    <3>1. run[p].step \in LockedSteps => lock' = {p}
      BY <2>1 DEF StoreInv, RunInv, InLock
    <3> QED
      BY <2>1, <2>3, <3>1, Bystander
  <2> QED
    BY <2>2, <2>4, <2>5 DEF StoreInv
<1> QED
  BY <1>1, <1>2 DEF StoreNext

-----------------------------------------------------------------------------
LEMMA StoreInvariance == StoreSpec => []StoreInv
BY StoreInvInit, StoreInvNext, PTL DEF StoreSpec

(* Whatever publishers overlap, retire releases, share bundles, and stop    *)
(* between any two files, what a node offers of an app is stored with its   *)
(* descriptors, but for what a stopped retention has torn.                  *)
THEOREM OffersStayServed == StoreSpec => []OffersServed
<1>1. StoreInv => OffersServed
  <2> SUFFICES ASSUME StoreInv, NEW a \in Apps, NEW r \in Offered(a), NEW f \in Bundles(r) \ torn
               PROVE  f[2] \in bundles[f[1]] \cap archived[f[1]]
    BY DEF OffersServed
  <2> QED
    BY DEF StoreInv, HeldWhole, Intact, Missing
<1> QED
  BY <1>1, StoreInvariance, PTL

(* So are the bundles of other apps that an offered release depends on,     *)
(* though those apps have retired the releases that brought them.           *)
THEOREM DependenciesStayServed == StoreSpec => []DependenciesServed
<1>1. StoreInv => DependenciesServed
  <2> SUFFICES ASSUME StoreInv, NEW a \in Apps, NEW r \in Offered(a), NEW f \in r.deps \ torn
               PROVE  f[2] \in bundles[f[1]]
    BY DEF DependenciesServed
  <2> QED
    BY DEF StoreInv, HeldWhole, Intact, Missing
<1> QED
  BY <1>1, StoreInvariance, PTL

(* No publication takes latest-v2.json back to an earlier sequence, or to   *)
(* other contents under the same one.                                       *)
THEOREM NothingRollsBack == StoreSpec => NoRollback
<1> DEFINE Forward == \A a \in Apps : \A r \in latest[a] : \A q \in latest'[a] :
                        q = r \/ q.seq > r.seq
<1>1. ASSUME StoreInv, [StoreNext]_storeVars
      PROVE  [Forward]_latest
  <2> SUFFICES ASSUME latest' # latest
               PROVE  Forward
    OBVIOUS
  <2>1. PICK p \in Publishers : WriteLatest(p)
    <3>1. PICK p \in Publishers : StoreStep(p)
      BY <1>1 DEF StoreNext, storeVars, storeFiles
    <3>2. ~(Inspect(p) \/ Enter(p) \/ BeginPrune(p) \/ Finish(p) \/ Stop(p))
      BY DEF Inspect, Enter, BeginPrune, Finish, Stop, storeFiles
    <3>3. ~(WriteBundle(p) \/ WriteDescriptor(p) \/ WriteRelease(p))
      BY DEF WriteBundle, WriteDescriptor, WriteRelease
    <3>4. ~(Survey(p) \/ Retire(p) \/ RemoveBundle(p) \/ RemoveDescriptor(p))
      BY DEF Survey, SurveyApp, Retire, RemoveBundle, RemoveDescriptor
    <3>5. ~(LegacyBundle(p) \/ LegacyPointer(p))
      BY DEF LegacyBundle, LegacyPointer
    <3> QED
      BY <3>1, <3>2, <3>3, <3>4, <3>5 DEF StoreStep
  <2>2. PICK r \in Offers : run[p].release = {r} /\ Published(p) = r
    BY <1>1, <2>1, PublishedKnown DEF WriteLatest, Publishing
  <2>3. \A q \in latest[r.app] : q = r \/ r.seq > q.seq
    BY <1>1, <2>1, <2>2 DEF WriteLatest, StoreInv, RunInv, Written, Advances
  <2>4. latest' = [latest EXCEPT ![r.app] = {r}]
    BY <2>1, <2>2 DEF WriteLatest
  <2>5. \A a \in Apps : \A q \in latest'[a] : q \in latest[a] \/ (a = r.app /\ q = r)
    BY <1>1, <2>4 DEF StoreInv, StoreTypeOK
  <2>6. \A a \in Apps : a # r.app => latest'[a] = latest[a]
    BY <1>1, <2>4 DEF StoreInv, StoreTypeOK
  <2>7. \A a \in Apps : \A q, v \in latest[a] : q = v
    BY <1>1 DEF StoreInv, HeldKnown
  <2> QED
    BY <2>3, <2>4, <2>5, <2>6, <2>7
<1> HIDE DEF Forward
<1>2. StoreSpec => [][Forward]_latest
  BY <1>1, StoreInvInit, StoreInvNext, PTL DEF StoreSpec
<1> QED
  BY <1>2 DEF NoRollback, Forward

-----------------------------------------------------------------------------
(* What the surveys keep.                                                   *)

\* A choice between the releases rs as RetainedChoices makes it, the formats told from the modules.
SameKind(q, r) == q.module \in Portable <=> r.module \in Portable

NewestOfKind(rs) == {r \in rs : \A q \in rs : SameKind(q, r) => q.seq <= r.seq}

Selection(rs) ==
    NewestOfKind(rs) \cup Newest(rs \ NewestOfKind(rs), Retained - Cardinality(NewestOfKind(rs)))

\* The suffix of a stored release is the one of its module.
LEMMA ChoicesByModule ==
    ASSUME NEW rs, \A r \in rs : r.module \in bundles[r.app]
    PROVE  RetainedChoices(rs) = Selection(rs)
<1>1. \A r \in rs : StoredAsZib(r) <=> r.module \notin Portable
  BY DEF StoredAsZib
<1>2. NewestOfFormat(rs) = NewestOfKind(rs)
  BY <1>1 DEF NewestOfFormat, NewestOfKind, SameKind, StoredAsZib
<1> QED
  BY <1>2 DEF RetainedChoices, Selection

\* Every kind there is has its newest release, which is chosen.
LEMMA NewestOfEachKind ==
    ASSUME NEW rs, rs \subseteq Release, IsFiniteSet(rs), NEW c \in rs
    PROVE  \E q \in NewestOfKind(rs) : SameKind(q, c) /\ q.seq >= c.seq
<1> DEFINE kind == {q \in rs : SameKind(q, c)}
<1>1. kind \in SUBSET rs /\ c \in kind
  BY DEF SameKind
<1>2. PICK q \in kind : \A v \in kind : v.seq <= q.seq
  <2>1. IsFiniteSet(kind) /\ kind \subseteq Release /\ kind # {}
    BY <1>1, FS_Subset
  <2> HIDE DEF kind
  <2> QED
    BY <2>1, SomeNewest
<1>3. q \in NewestOfKind(rs)
  BY <1>2 DEF NewestOfKind, SameKind
<1> QED
  BY <1>1, <1>2, <1>3 DEF Release

\* Where no module of an app is torn, the survey tells its releases' formats.
LEMMA HeldModules ==
    ASSUME StoreInv, NEW p \in Publishers, run[p].step = "survey", NEW a \in Apps,
           \A r \in releases[a] : <<a, r.module>> \notin torn,
           NEW rs, rs \subseteq releases[a]
    PROVE  /\ rs \subseteq Release /\ IsFiniteSet(rs)
           /\ RetainedChoices(rs) = Selection(rs)
<1>1. \A r \in rs : r \in Release /\ r.app = a
  BY HeldTyped DEF Held
<1>2. IsFiniteSet(rs)
  BY FS_Subset DEF StoreInv, HeldKnown
<1>3. \A r \in rs : r.module \in bundles[r.app]
  <2> TAKE r \in rs
  <2>1. <<a, r.module>> \in Bundles(r) /\ <<a, r.module>> \notin torn
    BY <1>1 DEF Bundles, Artifacts
  <2>2. Intact(r)
    BY NoneDoomed DEF LockedSteps, StoreInv, HeldWhole
  <2> QED
    BY <1>1, <2>1, <2>2 DEF Intact, Missing
<1> QED
  BY <1>1, <1>2, <1>3, ChoicesByModule

(* A history that lists a release that can be read, in either format, lists *)
(* one of that format after every survey of files that are not torn.        *)
THEOREM FormatsStay == StoreSpec => FormatsRetained
<1> DEFINE Lasting ==
      \A a \in Apps : (\A r \in releases[a] : <<a, r.module>> \notin torn) =>
         \A q \in (history[a] \cap releases[a]) \ Unreadable :
            \E r \in history'[a] : r.module \in Portable <=> q.module \in Portable
<1>1. ASSUME StoreInv, [StoreNext]_storeVars
      PROVE  [Lasting]_history
  <2> SUFFICES ASSUME history' # history
               PROVE  Lasting
    OBVIOUS
  <2>1. PICK p \in Publishers : Survey(p)
    <3>1. PICK p \in Publishers : StoreStep(p)
      BY <1>1 DEF StoreNext, storeVars, storeFiles
    <3>2. ~(Inspect(p) \/ Enter(p) \/ BeginPrune(p) \/ Finish(p) \/ Stop(p))
      BY DEF Inspect, Enter, BeginPrune, Finish, Stop, storeFiles
    <3>3. ~(WriteBundle(p) \/ WriteDescriptor(p) \/ WriteRelease(p) \/ WriteLatest(p))
      BY DEF WriteBundle, WriteDescriptor, WriteRelease, WriteLatest
    <3>4. ~(Retire(p) \/ RemoveBundle(p) \/ RemoveDescriptor(p))
      BY DEF Retire, RemoveBundle, RemoveDescriptor
    <3>5. ~(LegacyBundle(p) \/ LegacyPointer(p))
      BY DEF LegacyBundle, LegacyPointer
    <3> QED
      BY <3>1, <3>2, <3>3, <3>4, <3>5 DEF StoreStep
  <2>2. PICK a \in run[p].apps : \E u \in UnreadableReleases(a) : Surveyed(p, a, u)
    BY <1>1, <2>1, SurveyMoves
  <2>3. PICK unread \in UnreadableReleases(a) : Surveyed(p, a, unread)
    BY <2>2
  <2> DEFINE values == releases[a] \ unread
             kept == RetainedChoices(values)
             listed == IF kept # {} THEN kept ELSE latest[a]
  <2>4. /\ a \in Apps /\ run[p].step = "survey"
        /\ history' = [history EXCEPT ![a] = IF listed # {} THEN listed ELSE @]
    BY <2>3 DEF Surveyed
  <2>5. ASSUME \A r \in releases[a] : <<a, r.module>> \notin torn,
               NEW r \in (history[a] \cap releases[a]) \ Unreadable
        PROVE  \E q \in history'[a] : q.module \in Portable <=> r.module \in Portable
    <3>1. r \in values
      BY DEF UnreadableReleases
    <3>2. values \subseteq Release /\ IsFiniteSet(values) /\ kept = Selection(values)
      BY <1>1, <2>4, <2>5, HeldModules
    <3>3. PICK q \in NewestOfKind(values) : SameKind(q, r)
      <4> HIDE DEF values
      <4> QED
        BY <3>1, <3>2, NewestOfEachKind
    <3>4. q \in kept
      BY <3>2, <3>3 DEF Selection
    <3>5. history'[a] = kept
      <4> HIDE DEF kept
      <4> QED
        BY <1>1, <2>4, <3>4 DEF StoreInv, StoreTypeOK
    <3> QED
      BY <3>3, <3>4, <3>5 DEF SameKind
  <2>6. \A b \in Apps : b # a => history'[b] = history[b]
    BY <1>1, <2>4 DEF StoreInv, StoreTypeOK
  <2> QED
    BY <2>5, <2>6
<1> HIDE DEF Lasting
<1>2. StoreSpec => [][Lasting]_history
  BY <1>1, StoreInvariance, PTL DEF StoreSpec
<1> QED
  BY <1>2 DEF FormatsRetained, Lasting

-----------------------------------------------------------------------------
(* What latest.json names.                                                  *)

LegacyStored ==
    \A a \in Apps : \A v \in legacy[a] :
       v.app = a /\ (v \in raced \/ v.digest \in bundles[a])

\* A publication of format 1 whose bundle is written was raced by a retention, or has
\* it while there is none; and a retention protects what the directories it has seen name.
LegacyKept(p) ==
    /\ run[p].step = "legacy" => \A v \in run[p].release :
         \/ v \in raced
         \/ v.digest \in bundles[v.app] /\ \A q \in Publishers : ~Retaining(q)
    /\ Retaining(p) => \A a \in Apps \ run[p].apps : \A v \in legacy[a] :
         v \in raced \/ <<a, v.digest>> \in run[p].protected

LegacyInv == StoreInv /\ LegacyStored /\ \A p \in Publishers : LegacyKept(p)

\* Steps after which the pointers and the bundles that are there stay, and which
\* start no retention.
LEMMA LegacyCalm ==
    ASSUME LegacyInv, NEW p \in Publishers, UNCHANGED <<legacy, raced>>, OthersStay(p),
           \A a \in Apps : bundles[a] \subseteq bundles'[a],
           Retaining(p)' => Retaining(p), run'[p].step # "legacy",
           Retaining(p)' => LegacyKept(p)'
    PROVE  LegacyStored' /\ \A q \in Publishers : LegacyKept(q)'
<1>1. LegacyStored'
  BY DEF LegacyInv, LegacyStored
<1>2. \A q \in Publishers : Retaining(q)' => Retaining(q)
  BY DEF OthersStay, Retaining
<1>3. ASSUME NEW q \in Publishers, q # p
      PROVE  LegacyKept(q)'
  <2>1. run'[q] = run[q]
    BY <1>3 DEF OthersStay
  <2>2. ASSUME run[q].step = "legacy", NEW v \in run[q].release
        PROVE  \/ v \in raced
               \/ v.digest \in bundles'[v.app] /\ \A o \in Publishers : ~Retaining(o)'
    <3>1. v.app \in Apps
      BY <2>2, PackageStoreAssumption DEF LegacyInv, StoreInv, RunInv, InLock, LegacyRelease
    <3>2. v \in raced \/ (v.digest \in bundles[v.app] /\ \A o \in Publishers : ~Retaining(o))
      BY <2>2 DEF LegacyInv, LegacyKept
    <3> QED
      BY <1>2, <3>1, <3>2
  <2> QED
    BY <2>1, <2>2 DEF LegacyInv, LegacyKept, Retaining
<1>4. LegacyKept(p)'
  BY DEF LegacyKept
<1> QED
  BY <1>1, <1>3, <1>4

LEMMA LegacyStep ==
    ASSUME LegacyInv, NEW p \in Publishers, StoreStep(p)
    PROVE  LegacyStored' /\ \A q \in Publishers : LegacyKept(q)'
<1> USE DEF LegacyInv
<1>0. /\ \A q \in Publishers : run[q].step = "legacy" =>
           \E v \in LegacyOffers : run[q].release = {v} /\ v.app \in Apps
      /\ \A a \in Apps : legacy[a] \subseteq LegacyRelease
  <2>1. \A v \in LegacyOffers : v.app \in Apps
    BY PackageStoreAssumption DEF LegacyRelease
  <2> QED
    BY <2>1 DEF StoreInv, StoreTypeOK, RunInv, InLock
\* The publisher that removes files is the only one in the lock.
<1>one. \A q \in Publishers : Retaining(q) /\ run[p].step \in LockedSteps => q = p
  BY DEF StoreInv, RunInv, InLock, Retaining, LockedSteps
<1>1. CASE Leaves(p)
  BY <1>1, LegacyCalm DEF Leaves, Outside, Retaining, storeFiles
<1>2. CASE (Enter(p) \/ WriteRelease(p)) /\ ~Leave(p)
  <2>1. /\ run'[p].step \in {"store", "released"} /\ OthersStay(p)
        /\ UNCHANGED <<bundles, legacy, raced>>
    BY <1>2, EnterMoves, WriteReleaseMoves DEF storeFiles
  <2> QED
    BY <2>1, LegacyCalm DEF Retaining
<1>3. CASE WriteBundle(p) \/ WriteDescriptor(p)
  <2>1. /\ run'[p].step = "store" /\ OthersStay(p) /\ UNCHANGED <<legacy, raced>>
        /\ \A a \in Apps : bundles[a] \subseteq bundles'[a]
    BY <1>3, WriteFileMoves
  <2> QED
    BY <2>1, LegacyCalm DEF Retaining
<1>4. CASE WriteLatest(p)
  <2>1. /\ run[p].step = "released" /\ run'[p].step = "survey" /\ OthersStay(p)
        /\ run'[p].apps = Apps /\ raced \subseteq raced'
        /\ \A q \in Publishers : run[q].step = "legacy" => run[q].release \subseteq raced'
        /\ UNCHANGED <<bundles, legacy>>
    BY <1>4, WriteLatestMoves
  <2>2. LegacyStored'
    BY <2>1 DEF LegacyStored
  <2>3. ASSUME NEW q \in Publishers, q # p
        PROVE  LegacyKept(q)'
    <3>1. run'[q] = run[q] /\ ~Retaining(q)
      BY <1>one, <2>1, <2>3 DEF OthersStay, LockedSteps
    <3> QED
      BY <2>1, <3>1 DEF LegacyKept, Retaining
  <2>4. LegacyKept(p)'
    BY <2>1 DEF LegacyKept
  <2> QED
    BY <2>2, <2>3, <2>4
<1>5. CASE Survey(p)
  <2>1. PICK a \in run[p].apps : \E u \in UnreadableReleases(a) : Surveyed(p, a, u)
    BY <1>5, SurveyMoves
  <2>2. PICK unread \in UnreadableReleases(a) : Surveyed(p, a, unread)
    BY <2>1
  <2>3. /\ run[p].step = "survey" /\ run'[p].step = "survey" /\ OthersStay(p)
        /\ run'[p].apps = run[p].apps \ {a}
        /\ run[p].protected \cup LegacyFiles(a) \subseteq run'[p].protected
        /\ UNCHANGED <<bundles, legacy, raced>>
    BY <2>2 DEF Surveyed
  <2>4. LegacyKept(p)'
    BY <2>3 DEF LegacyKept, LegacyFiles, Retaining
  <2> QED
    BY <2>3, <2>4, LegacyCalm DEF Retaining
<1>6. CASE BeginPrune(p) /\ ~Leave(p)
  <2>1. /\ run[p].step = "survey" /\ run'[p].step = "prune" /\ OthersStay(p)
        /\ run[p].apps = {} /\ run'[p].apps = {} /\ run'[p].protected = run[p].protected
        /\ UNCHANGED <<bundles, legacy, raced>>
    BY <1>6, BeginPruneMoves DEF storeFiles
  <2>2. LegacyKept(p)'
    BY <2>1 DEF LegacyKept, Retaining
  <2> QED
    BY <2>1, <2>2, LegacyCalm DEF Retaining
<1>7. CASE Retire(p)
  <2>1. /\ run[p].step = "prune" /\ run'[p].step = "prune" /\ OthersStay(p)
        /\ run'[p].apps = {} /\ run'[p].protected = run[p].protected
        /\ UNCHANGED <<bundles, legacy, raced>>
    BY <1>7, RetireMoves
  <2>2. run[p].apps = {}
    BY <2>1 DEF StoreInv, RunInv, Removing
  <2>3. LegacyKept(p)'
    BY <2>1, <2>2 DEF LegacyKept, Retaining
  <2> QED
    BY <2>1, <2>3, LegacyCalm DEF Retaining
<1>8. CASE RemoveBundle(p) \/ RemoveDescriptor(p)
  <2>1. PICK f \in run[p].files :
          \A g \in File : g # f /\ g[2] \in bundles[g[1]] => g[2] \in bundles'[g[1]]
    BY <1>8, RemoveFileMoves
  <2>2. /\ run[p].step = "prune" /\ run'[p].step = "prune" /\ OthersStay(p)
        /\ run'[p].apps = {} /\ run'[p].protected = run[p].protected
        /\ UNCHANGED <<legacy, raced>>
    BY <1>8, RemoveFileMoves
  <2>3. run[p].apps = {} /\ f \notin run[p].protected
    BY <2>2 DEF StoreInv, RunInv, Removing
  <2>4. ASSUME NEW a \in Apps, NEW v \in legacy[a], v \notin raced
        PROVE  v.app = a /\ v.digest \in bundles'[a]
    <3>1. v.app = a /\ v.digest \in bundles[a] /\ <<a, v.digest>> \in File
      BY <1>0, <2>4 DEF LegacyStored, LegacyRelease, File
    <3>2. <<a, v.digest>> \in run[p].protected
      BY <2>2, <2>3, <2>4 DEF LegacyKept, Retaining
    <3> QED
      BY <2>1, <2>3, <3>1, <3>2
  <2>5. LegacyStored'
    <3>1. \A a \in Apps : \A v \in legacy[a] : v.app = a
      BY DEF LegacyStored
    <3> QED
      BY <2>2, <2>4, <3>1 DEF LegacyStored
  <2>6. ASSUME NEW q \in Publishers, q # p
        PROVE  LegacyKept(q)'
    <3>1. run'[q] = run[q] /\ ~Retaining(q)
      BY <1>one, <2>2, <2>6 DEF OthersStay, LockedSteps
    <3>2. run[q].step = "legacy" => \A v \in run[q].release : v \in raced
      BY <2>2 DEF LegacyKept, Retaining
    <3> QED
      BY <2>2, <3>1, <3>2 DEF LegacyKept, Retaining
  <2>7. LegacyKept(p)'
    BY <2>2, <2>3 DEF LegacyKept, Retaining
  <2> QED
    BY <2>5, <2>6, <2>7
<1>9. CASE LegacyBundle(p)
  <2>1. PICK v \in LegacyOffers :
          /\ run'[p].release = {v} /\ v.app \in Apps /\ v.digest \in bundles'[v.app]
          /\ raced' = IF \E q \in Publishers : Retaining(q) THEN raced \cup {v} ELSE raced \ {v}
    BY <1>9, LegacyBundleMoves
  <2>2. /\ run[p].step = "idle" /\ run'[p].step = "legacy" /\ OthersStay(p)
        /\ \A a \in Apps : bundles[a] \subseteq bundles'[a] /\ legacy'[a] = legacy[a]
    BY <1>9, LegacyBundleMoves
  <2>3. \A q \in Publishers : Retaining(q)' <=> Retaining(q)
    BY <2>2 DEF OthersStay, Retaining
  <2>4. \A u : u \in raced => u \in raced' \/ (u = v /\ \A q \in Publishers : ~Retaining(q))
    BY <2>1
  <2>5. LegacyStored'
    BY <2>1, <2>2, <2>4 DEF LegacyStored
  <2>6. ASSUME NEW q \in Publishers, q # p
        PROVE  LegacyKept(q)'
    <3>1. run'[q] = run[q]
      BY <2>2, <2>6 DEF OthersStay
    <3>2. ASSUME run[q].step = "legacy", NEW u \in run[q].release
          PROVE  \/ u \in raced'
                 \/ u.digest \in bundles'[u.app] /\ \A o \in Publishers : ~Retaining(o)'
      <4>1. u.app \in Apps
        BY <1>0, <3>2
      <4>2. u \in raced \/ (u.digest \in bundles[u.app] /\ \A o \in Publishers : ~Retaining(o))
        BY <3>2 DEF LegacyKept
      <4> QED
        BY <2>1, <2>2, <2>3, <2>4, <4>1, <4>2
    <3>3. ASSUME Retaining(q), NEW a \in Apps \ run[q].apps, NEW u \in legacy[a]
          PROVE  u \in raced' \/ <<a, u.digest>> \in run[q].protected
      BY <2>4, <3>3 DEF LegacyKept
    <3> QED
      BY <2>2, <2>3, <3>1, <3>2, <3>3 DEF LegacyKept
  <2>7. LegacyKept(p)'
    <3>1. v \in raced' \/ (v.digest \in bundles'[v.app] /\ \A o \in Publishers : ~Retaining(o)')
      BY <2>1, <2>3
    <3>2. ~Retaining(p)'
      BY <2>2 DEF Retaining
    <3> QED
      BY <2>1, <3>1, <3>2 DEF LegacyKept
  <2> QED
    BY <2>5, <2>6, <2>7
<1>10. CASE LegacyPointer(p)
  <2>1. PICK v \in LegacyOffers : /\ run[p].release = {v} /\ v.app \in Apps
                                 /\ legacy' = [legacy EXCEPT ![v.app] = {v}]
    BY <1>10, LegacyPointerMoves
  <2>2. /\ run[p].step = "legacy" /\ run'[p].step = "idle" /\ OthersStay(p)
        /\ UNCHANGED <<bundles, raced>>
    BY <1>10, LegacyPointerMoves
  <2>3. \A a \in Apps : \A u \in legacy'[a] : u \in legacy[a] \/ (u = v /\ a = v.app)
    BY <2>1 DEF StoreInv, StoreTypeOK
  <2>4. v \in raced \/ (v.digest \in bundles[v.app] /\ \A q \in Publishers : ~Retaining(q))
    BY <2>1, <2>2 DEF LegacyKept
  <2>5. LegacyStored'
    BY <2>2, <2>3, <2>4 DEF LegacyStored
  <2>6. \A q \in Publishers : Retaining(q)' <=> Retaining(q)
    BY <2>2 DEF OthersStay, Retaining
  <2>7. ASSUME NEW q \in Publishers, q # p
        PROVE  LegacyKept(q)'
    <3>1. run'[q] = run[q]
      BY <2>2, <2>7 DEF OthersStay
    <3>2. ASSUME Retaining(q), NEW a \in Apps \ run[q].apps, NEW u \in legacy'[a]
          PROVE  u \in raced \/ <<a, u.digest>> \in run[q].protected
      BY <2>3, <2>4, <3>2 DEF LegacyKept
    <3> QED
      BY <2>2, <2>6, <3>1, <3>2 DEF LegacyKept
  <2>8. LegacyKept(p)'
    BY <2>2 DEF LegacyKept, Retaining
  <2> QED
    BY <2>5, <2>7, <2>8
<1> QED
  BY <1>1, <1>2, <1>3, <1>4, <1>5, <1>6, <1>7, <1>8, <1>9, <1>10, StepKinds

(* What latest.json names can be fetched, though format 1 takes no lock,    *)
(* shares bundles with format 2, and retention never names its releases:    *)
(* every survey protects what the pointers name, so the exception are the   *)
(* publications between whose bundle and pointer a retention ran.           *)
THEOREM LegacyStaysServed == StoreSpec => []LegacyServed
<1>1. StoreInit => LegacyStored /\ \A p \in Publishers : LegacyKept(p)
  <2> SUFFICES ASSUME StoreInit
               PROVE  LegacyStored /\ \A p \in Publishers : LegacyKept(p)
    OBVIOUS
  <2>1. PICK s \in Staged : legacy = s.legacy
    BY DEF StoreInit
  <2>2. LegacyStored
    BY <2>1, PackageStoreAssumption DEF StoreInit, LegacyStored
  <2>3. \A p \in Publishers : LegacyKept(p)
    BY DEF StoreInit, Idle, LegacyKept, Retaining
  <2> QED
    BY <2>2, <2>3
<1>2. ASSUME LegacyInv, [StoreNext]_storeVars, StoreInv'
      PROVE  LegacyInv'
  <2>1. CASE \E p \in Publishers : StoreStep(p)
    BY <1>2, <2>1, LegacyStep DEF LegacyInv
  <2>2. CASE UNCHANGED storeVars
    BY <1>2, <2>2 DEF LegacyInv, LegacyStored, LegacyKept, Retaining, storeVars, storeFiles
  <2> QED
    BY <1>2, <2>1, <2>2 DEF StoreNext
<1>3. LegacyInv => LegacyServed
  BY DEF LegacyInv, LegacyStored, LegacyServed
<1>4. StoreSpec => []LegacyInv
  <2>1. StoreInit /\ StoreInv => LegacyInv
    BY <1>1 DEF LegacyInv
  <2>2. LegacyInv /\ [StoreNext]_storeVars /\ StoreInv' => LegacyInv'
    BY <1>2
  <2> QED
    BY <2>1, <2>2, StoreInvariance, PTL DEF StoreSpec
<1> QED
  BY <1>3, <1>4, PTL
=============================================================================
