------------------------------ MODULE Deployment ------------------------------
(***************************************************************************)
(* Deployments of a node, one after the other: .github/workflows/deploy.yml *)
(* pins and sends the source, the host verifies and builds it, records what *)
(* it built from (scripts/verify_deployment_inputs.py), and installs it     *)
(* (deploy/install.py, install.sh), or goes back (rollback.sh) when a       *)
(* command or the health check fails.  Meanwhile the service accepts writes *)
(* into its SQLite database, whose write-ahead log a service that dies      *)
(* leaves behind.  Deployment v replaces what ran before; 0 is the first.   *)
(***************************************************************************)
EXTENDS Naturals, FiniteSets

CONSTANTS
    MaxVersion,  \* bound on the deployments
    Sources,     \* contents of vendor/liboqs
    Pinned,      \* Pinned[v]: those of the commit that v's revision pins
    WithToken,   \* the deployments that set a mesh token
    MayDie       \* the versions whose process may die without closing the database

Versions == 0..MaxVersion

ASSUME DeploymentAssumption ==
    /\ MaxVersion \in Nat
    /\ Pinned \in [Versions -> Sources]
    /\ WithToken \subseteq Versions \ {0}
    /\ MayDie \subseteq Versions

VARIABLES
    origin,     \* /opt/daochi-src: the source tree, and what was built in it
    host,       \* the installed files
    database,   \* the changes in the database file
    wal,        \* the changes in its write-ahead log
    backup,     \* the copies of this deployment's stamp
    service,    \* the version that runs, if any does
    job,        \* the deployment under way and its next step
    accepted,   \* the versions that have accepted a write (not in the code)
    reverted    \* the versions that were rolled back (not in the code)

deployVars == <<origin, host, database, wal, backup, service, job, accepted, reverted>>

\* A change of the database: a version's migration, or a write it accepted.
Change == {"schema", "write"} \X Versions

Binary == [by : Versions, liboqs : Sources]
Manifest == [commit : Versions, liboqs : Sources, artifact : Binary]
Tree == [by : Versions, liboqs : Sources]

\* env and mesh are the version whose settings they hold; {} is a missing file.
Host == [binary : Binary, manifest : SUBSET Manifest, env : Versions, mesh : SUBSET Versions]

Following ==
    [pin |-> "send", send |-> "identify", identify |-> "build", build |-> "record",
     record |-> "verify", verify |-> "keep", keep |-> "stop", stop |-> "copy",
     copy |-> "settings", settings |-> "binary", binary |-> "manifest",
     manifest |-> "mesh", mesh |-> "env", env |-> "ratio", ratio |-> "start",
     start |-> "active", active |-> "health", health |-> "done",
     undo |-> "unbinary", unbinary |-> "undatabase", undatabase |-> "unenv",
     unenv |-> "unmanifest", unmanifest |-> "unmesh", unmesh |-> "restart",
     restart |-> "failed"]

\* What install.sh does about a command that fails: its flags by where it is.
\* Mutant of ServiceStopped: install.sh forgets that it stopped the service.
StoppedUnnoticed == {}

ServiceStopped == {"copy", "settings"}
RollbackReady == {"binary", "manifest", "mesh", "env", "ratio", "start", "active"}
Rollback == {"undo", "unbinary", "undatabase", "unenv", "unmanifest", "unmesh", "restart"}

DeployTypeOK ==
    /\ origin \in [tree : SUBSET Tree, binary : SUBSET Binary, manifest : SUBSET Manifest]
    /\ host \in Host
    /\ database \subseteq Change /\ wal \subseteq Change
    /\ backup \subseteq [host : Host, database : SUBSET Change]
    /\ service \subseteq Versions
    /\ job \in [by : Versions, step : DOMAIN Following \cup {"done", "failed", "broken"}]
    /\ accepted \subseteq Versions /\ reverted \subseteq Versions

DeployInit ==
    /\ origin = [tree |-> {}, binary |-> {}, manifest |-> {}]
    /\ host = [binary |-> [by |-> 0, liboqs |-> Pinned[0]], manifest |-> {},
               env |-> 0, mesh |-> {}]
    /\ database = {<<"schema", 0>>} /\ wal = {}
    /\ backup = {}
    /\ service = {0}
    /\ job = [by |-> 0, step |-> "done"]
    /\ accepted = {} /\ reverted = {}

-----------------------------------------------------------------------------
At(s) == job.step = s
Goto(s) == job' = [job EXCEPT !.step = s]
Proceed == Goto(Following[job.step])

\* The service's own steps.
Accept ==
    /\ \E v \in service : accepted' = accepted \cup {v} /\ wal' = wal \cup {<<"write", v>>}
    /\ UNCHANGED <<origin, host, database, backup, service, job, reverted>>

Checkpoint ==
    /\ service # {}
    /\ database' = database \cup wal /\ wal' = {}
    /\ UNCHANGED <<origin, host, backup, service, job, accepted, reverted>>

Die ==
    /\ \E v \in service : v \in MayDie
    /\ service' = {}
    /\ UNCHANGED <<origin, host, database, wal, backup, job, accepted, reverted>>

\* systemctl stop: a service that runs closes the database, which empties the log.
StopService ==
    /\ service' = {}
    /\ IF service # {}
       THEN database' = database \cup wal /\ wal' = {}
       ELSE UNCHANGED <<database, wal>>

\* systemctl start: the service replays the log, and migrates the database.
StartService ==
    /\ service' = {host.binary.by}
    /\ wal' = (wal \cup {<<"schema", host.binary.by>>}) \ database
    /\ UNCHANGED database

-----------------------------------------------------------------------------
(* Pinning, sending and building. *)

Begin ==
    /\ job.step \in {"done", "failed"}
    /\ job.by < MaxVersion
    /\ job' = [by |-> job.by + 1, step |-> "pin"]
    /\ backup' = {}
    /\ UNCHANGED <<origin, host, database, wal, service, accepted, reverted>>

\* pinned_source: the checkout is clean, and at the commit of the gitlink.
Pin ==
    /\ At("pin")
    /\ \E checkout \in Sources, dirty \in BOOLEAN :
         IF checkout = Pinned[job.by] /\ ~dirty THEN Proceed ELSE Goto("failed")
    /\ UNCHANGED <<origin, host, database, wal, backup, service, accepted, reverted>>

\* The tree that arrives need not be the one that was sent.
Send ==
    /\ At("send")
    /\ \E arrived \in Sources :
         origin' = [origin EXCEPT !.tree = {[by |-> job.by, liboqs |-> arrived]}]
    /\ Proceed
    /\ UNCHANGED <<host, database, wal, backup, service, accepted, reverted>>

\* Mutant of Identify: the tree is not compared.
IdentifyUnpinned ==
    /\ At("identify")
    /\ origin' = [origin EXCEPT !.binary = {}, !.manifest = {}]
    /\ Proceed
    /\ UNCHANGED <<host, database, wal, backup, service, accepted, reverted>>

\* verify_source compares the identity of the tree with the pinned one.  What
\* was built in the tree before is gone with that tree.
Identify ==
    /\ At("identify")
    /\ IF \A t \in origin.tree : t.liboqs = Pinned[job.by]
       THEN /\ origin' = [origin EXCEPT !.binary = {}, !.manifest = {}]
            /\ Proceed
       ELSE Goto("failed") /\ UNCHANGED origin
    /\ UNCHANGED <<host, database, wal, backup, service, accepted, reverted>>

Build ==
    /\ At("build")
    /\ origin' = [origin EXCEPT !.binary = origin.tree]
    /\ Proceed
    /\ UNCHANGED <<host, database, wal, backup, service, accepted, reverted>>

Record ==
    /\ At("record")
    /\ origin' = [origin EXCEPT !.manifest =
                    {[commit |-> job.by, liboqs |-> t.liboqs, artifact |-> t] :
                       t \in origin.binary}]
    /\ Proceed
    /\ UNCHANGED <<host, database, wal, backup, service, accepted, reverted>>

\* verify_artifact_manifest, after the build and again by install.sh.
Verify ==
    /\ At("verify")
    /\ IF \E m \in origin.manifest : m.commit = job.by /\ {m.artifact} = origin.binary
       THEN Proceed ELSE Goto("failed")
    /\ UNCHANGED <<origin, host, database, wal, backup, service, accepted, reverted>>

-----------------------------------------------------------------------------
(* install.sh *)

Keep ==
    /\ At("keep")
    /\ backup' = {[host |-> host, database |-> {}]}
    /\ Proceed
    /\ UNCHANGED <<origin, host, database, wal, service, accepted, reverted>>

StopOld ==
    /\ At("stop")
    /\ StopService
    /\ Proceed
    /\ UNCHANGED <<origin, host, backup, accepted, reverted>>

\* Mutant of CopyDatabase: the database file is copied without its log.
CopyFileAlone ==
    /\ At("copy")
    /\ backup' = {[b EXCEPT !.database = database] : b \in backup}
    /\ Proceed
    /\ UNCHANGED <<origin, host, database, wal, service, accepted, reverted>>

\* sqlite3 .backup reads the database with its log, and leaves no log behind.
CopyDatabase ==
    /\ At("copy")
    /\ database' = database \cup wal /\ wal' = {}
    /\ backup' = {[b EXCEPT !.database = database \cup wal] : b \in backup}
    /\ Proceed
    /\ UNCHANGED <<origin, host, service, accepted, reverted>>

CopySettings ==
    /\ At("settings")
    /\ backup' = {[b EXCEPT !.host.env = host.env, !.host.mesh = host.mesh] : b \in backup}
    /\ Proceed
    /\ UNCHANGED <<origin, host, database, wal, service, accepted, reverted>>

ReplaceBinary ==
    /\ At("binary")
    /\ \E b \in origin.binary : host' = [host EXCEPT !.binary = b]
    /\ Proceed
    /\ UNCHANGED <<origin, database, wal, backup, service, accepted, reverted>>

ReplaceManifest ==
    /\ At("manifest")
    /\ host' = [host EXCEPT !.manifest = origin.manifest]
    /\ Proceed
    /\ UNCHANGED <<origin, database, wal, backup, service, accepted, reverted>>

\* No token leaves the credential of the mesh as it is.
ReplaceMesh ==
    /\ At("mesh")
    /\ host' = [host EXCEPT !.mesh = IF job.by \in WithToken THEN {job.by} ELSE @]
    /\ Proceed
    /\ UNCHANGED <<origin, database, wal, backup, service, accepted, reverted>>

\* The migration of the names and the settings of deploy/node.env.
ReplaceEnv ==
    /\ At("env")
    /\ host' = [host EXCEPT !.env = job.by]
    /\ Proceed
    /\ UNCHANGED <<origin, database, wal, backup, service, accepted, reverted>>

\* apply-dew-ratio.sh.  Where it raises the ratio, the new binary opens the
\* database and closes it, unless that process dies; otherwise it opens nothing.
ApplyRatio ==
    /\ At("ratio")
    /\ \E raised \in BOOLEAN, dies \in {FALSE, job.by \in MayDie} :
         LET migrated == IF raised THEN {<<"schema", job.by>>} ELSE {}
         IN  IF raised /\ dies
             THEN wal' = wal \cup migrated /\ UNCHANGED database /\ Goto("undo")
             ELSE database' = database \cup migrated /\ UNCHANGED wal /\ Proceed
    /\ UNCHANGED <<origin, host, backup, service, accepted, reverted>>

Start ==
    /\ At("start")
    /\ StartService
    /\ Proceed
    /\ UNCHANGED <<origin, host, backup, accepted, reverted>>

\* is-active after three seconds, and then the health check of the workflow.
Active ==
    /\ At("active") /\ service # {}
    /\ Proceed
    /\ UNCHANGED <<origin, host, database, wal, backup, service, accepted, reverted>>

Healthy ==
    /\ At("health") /\ service # {}
    /\ Proceed
    /\ UNCHANGED <<origin, host, database, wal, backup, service, accepted, reverted>>

\* A service that runs may be found unhealthy too.
Unhealthy ==
    /\ At("health")
    /\ Goto("undo")
    /\ UNCHANGED <<origin, host, database, wal, backup, service, accepted, reverted>>

\* A command fails: the trap of install.sh goes back, or starts what it stopped.
Fail ==
    /\ job.step \in DOMAIN Following \ ({"health"} \cup Rollback)
    /\ IF job.step \in RollbackReady
       THEN Goto("undo") /\ UNCHANGED <<database, wal, service>>
       ELSE /\ IF job.step \in ServiceStopped
               THEN StartService ELSE UNCHANGED <<database, wal, service>>
            /\ Goto("failed")
    /\ UNCHANGED <<origin, host, backup, accepted, reverted>>

-----------------------------------------------------------------------------
(* rollback.sh *)

Undo ==
    /\ At("undo")
    /\ StopService
    /\ reverted' = reverted \cup {job.by}
    /\ Proceed
    /\ UNCHANGED <<origin, host, backup, accepted>>

RestoreBinary ==
    /\ At("unbinary")
    /\ \E b \in backup : host' = [host EXCEPT !.binary = b.host.binary]
    /\ Proceed
    /\ UNCHANGED <<origin, database, wal, backup, service, accepted, reverted>>

\* cp over the database file alone: the log beside it stays.
RestoreDatabase ==
    /\ At("undatabase")
    /\ \E b \in backup : database' = b.database
    /\ Proceed
    /\ UNCHANGED <<origin, host, wal, backup, service, accepted, reverted>>

RestoreEnv ==
    /\ At("unenv")
    /\ \E b \in backup : host' = [host EXCEPT !.env = b.host.env]
    /\ Proceed
    /\ UNCHANGED <<origin, database, wal, backup, service, accepted, reverted>>

\* Mutant of RestoreManifest: no manifest in the backup leaves the new one.
RestoreManifestGiven ==
    /\ At("unmanifest")
    /\ \E b \in backup :
         host' = [host EXCEPT !.manifest = IF b.host.manifest # {} THEN b.host.manifest ELSE @]
    /\ Proceed
    /\ UNCHANGED <<origin, database, wal, backup, service, accepted, reverted>>

RestoreManifest ==
    /\ At("unmanifest")
    /\ \E b \in backup : host' = [host EXCEPT !.manifest = b.host.manifest]
    /\ Proceed
    /\ UNCHANGED <<origin, database, wal, backup, service, accepted, reverted>>

\* Mutant of RestoreMesh: no credential in the backup leaves the new one.
RestoreMeshGiven ==
    /\ At("unmesh")
    /\ \E b \in backup :
         host' = [host EXCEPT !.mesh = IF b.host.mesh # {} THEN b.host.mesh ELSE @]
    /\ Proceed
    /\ UNCHANGED <<origin, database, wal, backup, service, accepted, reverted>>

RestoreMesh ==
    /\ At("unmesh")
    /\ \E b \in backup : host' = [host EXCEPT !.mesh = b.host.mesh]
    /\ Proceed
    /\ UNCHANGED <<origin, database, wal, backup, service, accepted, reverted>>

Restart ==
    /\ At("restart")
    /\ StartService
    /\ Proceed
    /\ UNCHANGED <<origin, host, backup, accepted, reverted>>

\* A command of rollback.sh fails: it is left to an operator, who is not modelled.
\* So is a start that fails.
RollbackFails ==
    /\ job.step \in Rollback
    /\ Goto("broken")
    /\ UNCHANGED <<origin, host, database, wal, backup, service, accepted, reverted>>

JobStep ==
    \/ Pin \/ Send \/ Identify \/ Build \/ Record \/ Verify \/ Keep \/ StopOld
    \/ CopyDatabase \/ CopySettings \/ ReplaceBinary \/ ReplaceManifest \/ ReplaceMesh
    \/ ReplaceEnv \/ ApplyRatio \/ Start \/ Active \/ Healthy \/ Unhealthy
    \/ Fail \/ Undo \/ RestoreBinary \/ RestoreDatabase \/ RestoreEnv
    \/ RestoreManifest \/ RestoreMesh \/ Restart \/ RollbackFails

DeployNext == Accept \/ Checkpoint \/ Die \/ Begin \/ JobStep

\* The scripts run to their end: no step of one waits for anything else.
DeploySpec == DeployInit /\ [][DeployNext]_deployVars /\ WF_deployVars(JobStep)

-----------------------------------------------------------------------------
Stored == database \cup wal

(* A service never runs on a mixture: with the binary of a version run its  *)
(* manifest, its environment, the mesh credential it had and its migrated   *)
(* database, whatever command of an installation or a rollback fails.       *)
RunsWhole ==
    \A v \in service :
        /\ host.binary.by = v /\ host.env = v
        /\ {m.commit : m \in host.manifest} = {v} \ {0}
        /\ IF v \in WithToken THEN host.mesh = {v} ELSE host.mesh \subseteq 1..v-1
        /\ <<"schema", v>> \in Stored

(* Nothing is left, while a service runs, of a version that was rolled back: *)
(* neither its settings nor its changes to the database.                     *)
RollbackRestores ==
    service # {} => \A v \in reverted :
        v \notin host.mesh /\ \A change \in Stored : change[2] # v

(* No write that a version accepted is lost, unless that version was rolled  *)
(* back: those of the version before it survive the deployment either way.   *)
AcceptedKept ==
    \A v \in service : \A w \in accepted \ reverted : <<"write", w>> \in Stored

(* What runs was built from the liboqs source that its revision pins, and    *)
(* its manifest describes exactly that binary.                               *)
BuiltFromPinned ==
    \A v \in service :
        /\ host.binary.liboqs = Pinned[v]
        /\ \A m \in host.manifest : m.artifact = host.binary /\ m.liboqs = Pinned[v]

(* A service that an installation has stopped runs again, unless a rollback  *)
(* failed and is left to the operator.                                       *)
OutageEnds == At("copy") ~> (service # {} \/ At("broken"))
=============================================================================
