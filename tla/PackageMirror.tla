----------------------------- MODULE PackageMirror -----------------------------
(***************************************************************************)
(* cdn/mirror.py: copies the bundles of a node's package store into an      *)
(* object store whose space is limited.  Runs of one host share a lock, but *)
(* read the store before they take it, while publications (PackageStore)    *)
(* add bundles and retire them.  A request to the object store may fail     *)
(* with or without effect, and a run may be killed at any step.             *)
(***************************************************************************)
EXTENDS Naturals, FiniteSets, FiniteSetsExt

CONSTANTS
    Objects,        \* the bundles there may ever be, <<app, digest>>
    Size,           \* Size[o]: the bytes of o
    MaxArtifact,    \* MAX_ARTIFACT_BYTES
    MaxMirror,      \* MAX_MIRROR_BYTES
    Mirrors         \* runs of the program on one host

ASSUME PackageMirrorAssumption ==
    /\ \A o \in Objects : o = <<o[1], o[2]>>
    /\ Size \in [Objects -> Nat \ {0}]
    /\ MaxArtifact \in Nat /\ MaxMirror \in Nat

VARIABLES
    stored,     \* the bundles in the node's store
    inventory,  \* what .mirror.json in the bucket reserves; {} while there is none
    bucket,     \* the bundles in the bucket
    holder,     \* the run that has the lock of the bucket, if any
    mirror,     \* mirror[m]: where run m is and what it has found
    forgotten   \* what a misread inventory counted and the one in its place does
                \* not: a history variable, which no action reads

mirrorVars == <<stored, inventory, bucket, holder, mirror, forgotten>>

AppsOf(objects) == {o[1] : o \in objects}

Resting == [step |-> "rest", apps |-> {}, found |-> {}, previous |-> {}, misread |-> FALSE,
            upload |-> {}]

MirrorSteps == {"rest", "collect", "wait", "read", "reserve", "upload"}

MirrorRun == [step : MirrorSteps, apps : SUBSET AppsOf(Objects),
              found : SUBSET Objects, previous : SUBSET Objects, misread : BOOLEAN,
              upload : SUBSET Objects]

MirrorTypeOK ==
    /\ stored \subseteq Objects
    /\ inventory \subseteq Objects
    /\ bucket \subseteq Objects
    /\ holder \subseteq Mirrors /\ (\A m, n \in holder : m = n)
    /\ mirror \in [Mirrors -> MirrorRun]
    /\ forgotten \subseteq Objects

MirrorInit ==
    /\ stored = {}
    /\ inventory = {}
    /\ bucket = {}
    /\ holder = {}
    /\ mirror = [m \in Mirrors |-> Resting]
    /\ forgotten = {}

Bytes(objects) == MapThenSumSet(LAMBDA o : Size[o], objects)

\* Mutant of Reserved: an inventory counts the present bundles only.
ReservedAnew(previous, found) == found

\* reserve_inventory: an object once reserved stays counted.
Reserved(previous, found) == previous \cup found

Fits(objects) == Bytes(objects) <= MaxMirror

-----------------------------------------------------------------------------
\* A run ends, with or without success; the lock ends with it.
Rest(m) ==
    /\ holder' = holder \ {m}
    /\ mirror' = [mirror EXCEPT ![m] = Resting]

BeginRun(m) ==
    /\ mirror[m].step = "rest"
    /\ mirror' = [mirror EXCEPT ![m].step = "collect", ![m].apps = AppsOf(stored)]
    /\ UNCHANGED <<stored, inventory, bucket, holder, forgotten>>

\* collect_artifacts: one app directory after the other, without any lock.
CollectApp(m) ==
    /\ mirror[m].step = "collect"
    /\ \E a \in mirror[m].apps :
         LET files == {o \in stored : o[1] = a}
         IN  IF \E o \in files : Size[o] > MaxArtifact
             THEN Rest(m)
             ELSE /\ mirror' = [mirror EXCEPT ![m].apps = @ \ {a},
                                              ![m].found = @ \cup files]
                  /\ UNCHANGED holder
    /\ UNCHANGED <<stored, inventory, bucket, forgotten>>

\* What was found, and would fit an empty bucket, waits for the lock.
Collected(m) ==
    /\ mirror[m].step = "collect" /\ mirror[m].apps = {}
    /\ IF mirror[m].found # {} /\ Fits(Reserved({}, mirror[m].found))
       THEN mirror' = [mirror EXCEPT ![m].step = "wait"] /\ UNCHANGED holder
       ELSE Rest(m)
    /\ UNCHANGED <<stored, inventory, bucket, forgotten>>

\* Mutant of Lock: the lock is not exclusive.
LockShared(m) ==
    /\ mirror[m].step = "wait"
    /\ holder' = holder \cup {m}
    /\ mirror' = [mirror EXCEPT ![m].step = "read"]
    /\ UNCHANGED <<stored, inventory, bucket, forgotten>>

Lock(m) ==
    /\ mirror[m].step = "wait" /\ holder = {}
    /\ holder' = {m}
    /\ mirror' = [mirror EXCEPT ![m].step = "read"]
    /\ UNCHANGED <<stored, inventory, bucket, forgotten>>

\* An inventory that the object store says it does not have counts as empty.
ReadInventory(m) ==
    /\ mirror[m].step = "read"
    /\ mirror' = [mirror EXCEPT ![m].step = "reserve", ![m].previous = inventory]
    /\ UNCHANGED <<stored, inventory, bucket, holder, forgotten>>

\* The answer is searched for "404" and a few phrases: a request that fails for
\* another reason, and has one of them in its output, counts as that too.
MisreadInventory(m) ==
    /\ mirror[m].step = "read"
    /\ mirror' = [mirror EXCEPT ![m].step = "reserve", ![m].misread = TRUE]
    /\ UNCHANGED <<stored, inventory, bucket, holder, forgotten>>

Replace(m, objects) ==
    /\ inventory' = objects
    /\ forgotten' =
         (forgotten \cup (IF mirror[m].misread THEN inventory ELSE {})) \ objects

\* Space first: the inventory is replaced before any bundle is uploaded.
Reserve(m) ==
    /\ mirror[m].step = "reserve"
    /\ LET objects == Reserved(mirror[m].previous, mirror[m].found)
       IN  IF Fits(objects)
           THEN /\ Replace(m, objects)
                /\ mirror' = [mirror EXCEPT ![m].step = "upload", ![m].misread = FALSE,
                                            ![m].upload = mirror[m].found]
                /\ UNCHANGED holder
           ELSE Rest(m) /\ UNCHANGED <<inventory, forgotten>>
    /\ UNCHANGED <<stored, bucket>>

\* The request took effect, but its answer was lost.
ReserveUnanswered(m) ==
    /\ mirror[m].step = "reserve"
    /\ LET objects == Reserved(mirror[m].previous, mirror[m].found)
       IN  Fits(objects) /\ Replace(m, objects)
    /\ Rest(m)
    /\ UNCHANGED <<stored, bucket>>

\* A bundle that was retired since it was found ends the run.
Upload(m) ==
    /\ mirror[m].step = "upload"
    /\ \E o \in mirror[m].upload :
         IF o \in stored
         THEN /\ bucket' = bucket \cup {o}
              /\ mirror' = [mirror EXCEPT ![m].upload = @ \ {o}]
              /\ UNCHANGED holder
         ELSE Rest(m) /\ UNCHANGED bucket
    /\ UNCHANGED <<stored, inventory, forgotten>>

UploadUnanswered(m) ==
    /\ mirror[m].step = "upload"
    /\ \E o \in mirror[m].upload \cap stored : bucket' = bucket \cup {o}
    /\ Rest(m)
    /\ UNCHANGED <<stored, inventory, forgotten>>

Uploaded(m) ==
    /\ mirror[m].step = "upload" /\ mirror[m].upload = {}
    /\ Rest(m)
    /\ UNCHANGED <<stored, inventory, bucket, forgotten>>

\* A request without effect fails, or the run is killed.
Abandon(m) ==
    /\ mirror[m].step # "rest"
    /\ Rest(m)
    /\ UNCHANGED <<stored, inventory, bucket, forgotten>>

\* Publications add bundles to the store, and retention removes them.
Republish ==
    /\ \E o \in Objects : stored' \in {stored \cup {o}, stored \ {o}}
    /\ UNCHANGED <<inventory, bucket, holder, mirror, forgotten>>

MirrorStep(m) ==
    \/ BeginRun(m) \/ CollectApp(m) \/ Collected(m) \/ Lock(m) \/ ReadInventory(m)
    \/ MisreadInventory(m) \/ Reserve(m) \/ ReserveUnanswered(m) \/ Upload(m) \/ UploadUnanswered(m)
    \/ Uploaded(m) \/ Abandon(m)

MirrorNext == Republish \/ \E m \in Mirrors : MirrorStep(m)

MirrorSpec == MirrorInit /\ [][MirrorNext]_mirrorVars

-----------------------------------------------------------------------------
(* Every object in the bucket is counted by the inventory, and what the    *)
(* inventory counts fits the budget: after lost answers, killed runs and   *)
(* runs that overlap, no upload is left that a later run would not count.  *)
(* Only a run that took a failed request for a missing inventory starts to *)
(* count anew, and forgets what it has not found itself.                   *)
SpaceCounted == bucket \subseteq inventory \cup forgotten /\ Fits(inventory)
=============================================================================
