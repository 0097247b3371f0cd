-------------------------- MODULE Deployment_proofs --------------------------
(***************************************************************************)
(* Proofs about Deployment, for any number of deployments and any sources.  *)
(* The inductive invariant is a table of the job's steps: what is known of  *)
(* the tree (OriginReady), of the installed files (HostAt), of the backup   *)
(* (BackupAt) and of the writes (WritesKept) before each of them.           *)
(***************************************************************************)
EXTENDS Deployment, TLAPS

Good(v) == [by |-> v, liboqs |-> Pinned[v]]

ManifestOf(v) ==
    IF v = 0 THEN {} ELSE {[commit |-> v, liboqs |-> Pinned[v], artifact |-> Good(v)]}

MeshFits(mesh, v) == IF v \in WithToken THEN mesh = {v} ELSE mesh \subseteq 1..v-1

Whole(h) ==
    /\ h.binary = Good(h.binary.by)
    /\ h.manifest = ManifestOf(h.binary.by)
    /\ h.env = h.binary.by
    /\ MeshFits(h.mesh, h.binary.by)

Sending == {"pin", "send", "identify", "build", "record", "verify"}
Preparing == {"keep", "stop", "copy", "settings", "binary"}
Installing == {"manifest", "mesh", "env", "ratio", "start", "active", "health"}
Stopped == {"copy", "settings", "binary", "manifest", "mesh", "env", "ratio", "start",
            "unbinary", "undatabase", "unenv", "unmanifest", "unmesh", "restart"}
Copied == {"settings", "binary"} \cup Installing \cup Rollback

OriginReady ==
    /\ At("identify") => \E t \in Tree : origin.tree = {t} /\ t.by = job.by
    /\ At("build") => origin.tree = {Good(job.by)}
    /\ At("record") => origin.binary = {Good(job.by)}
    /\ job.step \in Preparing \cup {"verify", "manifest"} =>
         origin.binary = {Good(job.by)} /\ origin.manifest = ManifestOf(job.by)

ServiceWhole ==
    /\ service # {} => /\ service = {host.binary.by} /\ Whole(host)
                       /\ <<"schema", host.binary.by>> \in Stored
    /\ job.step \in Stopped => service = {}
    /\ At("undo") /\ service # {} => host.binary.by = job.by

HostAt ==
    /\ job.step \in {"done", "failed"} => Whole(host) /\ host.binary.by <= job.by
    /\ job.step \in Sending \cup Preparing => Whole(host) /\ host.binary.by < job.by
    /\ job.step \in Installing => host.binary = Good(job.by)
    /\ job.step \in Installing \ {"manifest"} => host.manifest = ManifestOf(job.by)
    /\ job.step \in {"manifest", "mesh"} => host.mesh \subseteq 1..job.by-1
    /\ job.step \in Installing \ {"manifest", "mesh"} => MeshFits(host.mesh, job.by)
    /\ job.step \in Installing \ {"manifest", "mesh", "env"} => host.env = job.by

BackupAt ==
    /\ job.step \in Preparing \ {"keep"} => \E b \in backup : backup = {b} /\ b.host = host
    /\ job.step \in Installing \cup Rollback =>
         \E b \in backup : backup = {b} /\ Whole(b.host) /\ b.host.binary.by < job.by
    /\ \A b \in backup :
         /\ job.step \in Rollback \ {"undo", "unbinary"} => host.binary = b.host.binary
         /\ job.step \in {"unmanifest", "unmesh", "restart"} => host.env = b.host.env
         /\ job.step \in {"unmesh", "restart"} => host.manifest = b.host.manifest
         /\ At("restart") => host.mesh = b.host.mesh

WritesKept ==
    /\ job.step \in Rollback \ {"undo"} => job.by \in reverted
    /\ \A w \in accepted \ reverted : <<"write", w>> \in Stored
    /\ job.step \in Copied =>
         \A b \in backup : \A w \in accepted \ (reverted \cup {job.by}) :
            <<"write", w>> \in b.database

Numbered == job.step \in DOMAIN Following => job.by # 0

DeployInv ==
    /\ DeployTypeOK /\ Numbered
    /\ OriginReady /\ ServiceWhole /\ HostAt /\ BackupAt /\ WritesKept

-----------------------------------------------------------------------------
LEMMA FollowingSteps ==
    /\ DOMAIN Following = Sending \cup Preparing \cup Installing \cup Rollback
    /\ Following["pin"] = "send" /\ Following["send"] = "identify"
    /\ Following["identify"] = "build" /\ Following["build"] = "record"
    /\ Following["record"] = "verify" /\ Following["verify"] = "keep"
    /\ Following["keep"] = "stop" /\ Following["stop"] = "copy"
    /\ Following["copy"] = "settings" /\ Following["settings"] = "binary"
    /\ Following["binary"] = "manifest" /\ Following["manifest"] = "mesh"
    /\ Following["mesh"] = "env" /\ Following["env"] = "ratio"
    /\ Following["ratio"] = "start" /\ Following["start"] = "active"
    /\ Following["active"] = "health" /\ Following["health"] = "done"
    /\ Following["undo"] = "unbinary" /\ Following["unbinary"] = "undatabase"
    /\ Following["undatabase"] = "unenv" /\ Following["unenv"] = "unmanifest"
    /\ Following["unmanifest"] = "unmesh" /\ Following["unmesh"] = "restart"
    /\ Following["restart"] = "failed"
BY DEF Following, Sending, Preparing, Installing, Rollback

LEMMA VersionsNat == Versions \subseteq Nat
BY DeploymentAssumption DEF Versions

LEMMA HostNumbers ==
    ASSUME DeployTypeOK
    PROVE  job.by \in Nat /\ job.by \in Versions
           /\ host.binary.by \in Nat /\ host.binary.by \in Versions
BY VersionsNat DEF DeployTypeOK, Host, Binary

LEMMA GoodTyped ==
    ASSUME NEW v \in Versions
    PROVE  Good(v) \in Binary /\ Good(v).by = v /\ ManifestOf(v) \subseteq Manifest
BY DeploymentAssumption DEF Good, Binary, ManifestOf, Manifest

LEMMA DeployInvInit == DeployInit => DeployInv
<1> SUFFICES ASSUME DeployInit
             PROVE  DeployInv
  OBVIOUS
<1>1. 0 \in Versions
  BY DeploymentAssumption DEF Versions
<1>2. Good(0) \in Binary /\ ManifestOf(0) = {}
  BY <1>1, GoodTyped DEF ManifestOf
<1>3. DeployTypeOK
  BY <1>1, <1>2 DEF DeployInit, DeployTypeOK, Host, Good, Change
<1>4. Whole(host) /\ host.binary.by = 0
  BY <1>2, DeploymentAssumption DEF DeployInit, Whole, Good, MeshFits
<1>5. job.by = 0 /\ job.step = "done" /\ backup = {} /\ accepted = {} /\ service = {0}
      /\ <<"schema", 0>> \in Stored
  BY DEF DeployInit, Stored
<1> QED
  BY <1>3, <1>4, <1>5, FollowingSteps
     DEF DeployInv, Numbered, OriginReady, ServiceWhole, HostAt, BackupAt, WritesKept, At, Sending,
         Preparing, Installing, Stopped, Copied, Rollback

-----------------------------------------------------------------------------
(* The steps of a job, in the order of Following.                           *)

\* A step that changes nothing but where the job is, or fails before install.
LEMMA Moved ==
    ASSUME DeployTypeOK, NEW s, Goto(s)
    PROVE  job'.step = s /\ job'.by = job.by
           /\ (s \in DOMAIN Following \cup {"done", "failed", "broken"} =>
                 job' \in [by : Versions, step : DOMAIN Following \cup {"done", "failed", "broken"}])
BY DEF DeployTypeOK, Goto

\* A job ends, with the version that it found or with its own.
LEMMA EndedKeeps ==
    ASSUME DeployInv, DeployTypeOK', job'.step \in {"done", "failed"}, job'.by = job.by,
           Whole(host), host.binary.by <= job.by,
           UNCHANGED <<host, database, wal, service, accepted, reverted>>
    PROVE  DeployInv'
<1>1. Numbered' /\ OriginReady' /\ HostAt' /\ BackupAt'
  BY FollowingSteps DEF Numbered, OriginReady, HostAt, BackupAt, At, Sending, Preparing,
     Installing, Rollback
<1>2. ServiceWhole' /\ WritesKept'
  BY DEF DeployInv, ServiceWhole, WritesKept, Stored, At, Stopped, Copied, Installing, Rollback
<1> QED
  BY <1>1, <1>2 DEF DeployInv

\* The actions that send and build.
LEMMA SendingKeeps ==
    ASSUME DeployInv,
           Begin \/ Pin \/ Send \/ Identify \/ Build \/ Record \/ Verify
    PROVE  DeployInv'
<1> USE FollowingSteps DEF DeployInv, At
<1>1. CASE Begin
  <2>1. job'.by = job.by + 1 /\ job'.step = "pin" /\ job.by \in Nat /\ job'.by \in Versions
        /\ job'.by \in Nat
    BY <1>1, VersionsNat, DeploymentAssumption DEF Begin, DeployTypeOK, Versions
  <2>2. DeployTypeOK'
    BY <1>1, <2>1 DEF Begin, DeployTypeOK, Sending
  <2>3. Whole(host) /\ host.binary.by <= job.by /\ host.binary.by \in Nat
    BY <1>1, VersionsNat DEF Begin, HostAt, DeployTypeOK, Host, Binary
  <2> QED
    BY <1>1, <2>1, <2>2, <2>3
       DEF Begin, Numbered, OriginReady, ServiceWhole, HostAt, BackupAt, WritesKept, Stored, Sending,
           Preparing, Installing, Stopped, Copied, Rollback
<1>2. CASE Pin
  <2>1. job'.step \in {"send", "failed"} /\ job'.by = job.by
    BY <1>2, Moved DEF Pin, Proceed
  <2>2. DeployTypeOK'
    BY <1>2, Moved DEF Pin, Proceed, DeployTypeOK, Sending, Preparing
  <2>3. CASE job'.step = "failed"
    <3>1. Whole(host) /\ host.binary.by <= job.by
      BY <1>2, HostNumbers DEF Pin, HostAt, Sending
    <3> QED
      BY <1>2, <2>1, <2>2, <2>3, <3>1, EndedKeeps DEF Pin
  <2>4. CASE job'.step = "send"
    BY <1>2, <2>1, <2>2, <2>4
       DEF Pin, Numbered, OriginReady, ServiceWhole, HostAt, BackupAt, WritesKept, Stored,
           Sending, Preparing, Installing, Stopped, Copied, Rollback
  <2> QED
    BY <2>1, <2>3, <2>4
<1>3. CASE Send
  <2>1. job'.step = "identify" /\ job'.by = job.by /\ job.by \in Versions
    BY <1>3, Moved DEF Send, Proceed, DeployTypeOK
  <2>2. PICK t \in Tree : origin' = [origin EXCEPT !.tree = {t}] /\ t.by = job.by
    <3>1. PICK arrived \in Sources :
            origin' = [origin EXCEPT !.tree = {[by |-> job.by, liboqs |-> arrived]}]
      BY <1>3 DEF Send
    <3>2. [by |-> job.by, liboqs |-> arrived] \in Tree
      BY <2>1 DEF Tree
    <3> QED
      BY <3>1, <3>2
  <2>3. DeployTypeOK' /\ origin'.tree = {t}
    BY <1>3, <2>2, Moved DEF Send, Proceed, DeployTypeOK, Sending
  <2> QED
    BY <1>3, <2>1, <2>2, <2>3
       DEF Send, Numbered, OriginReady, ServiceWhole, HostAt, BackupAt, WritesKept, Stored,
           Sending, Preparing, Installing, Stopped, Copied, Rollback
<1>4. CASE Identify
  <2>1. PICK t \in Tree : origin.tree = {t} /\ t.by = job.by
    BY <1>4 DEF Identify, OriginReady
  <2>2. CASE t.liboqs = Pinned[job.by]
    <3>1. t = Good(job.by)
      BY <2>1, <2>2 DEF Tree, Good
    <3>2. /\ origin' = [origin EXCEPT !.binary = {}, !.manifest = {}]
          /\ job'.step = "build" /\ job'.by = job.by
      BY <1>4, <2>1, <2>2, Moved DEF Identify, Proceed
    <3>3. DeployTypeOK' /\ origin'.tree = {t}
      BY ZenonT(60), <1>4, <2>1, <3>2, Moved DEF Identify, Proceed, DeployTypeOK, Sending
    <3> QED
      BY <1>4, <3>1, <3>2, <3>3
         DEF Identify, Numbered, OriginReady, ServiceWhole, HostAt, BackupAt, WritesKept, Stored,
           Sending, Preparing, Installing, Stopped, Copied, Rollback
  <2>3. CASE t.liboqs # Pinned[job.by]
    <3>1. job'.step = "failed" /\ job'.by = job.by /\ UNCHANGED origin
      BY <1>4, <2>1, <2>3, Moved DEF Identify
    <3>2. DeployTypeOK'
      BY <1>4, <2>1, <2>3, Moved DEF Identify, DeployTypeOK
    <3>3. Whole(host) /\ host.binary.by <= job.by
      BY <1>4, HostNumbers DEF Identify, HostAt, Sending
    <3> QED
      BY <1>4, <3>1, <3>2, <3>3, EndedKeeps DEF Identify
  <2> QED
    BY <2>2, <2>3
<1>5. CASE Build
  <2>1. job'.step = "record" /\ job'.by = job.by
    BY <1>5, Moved DEF Build, Proceed
  <2>2. DeployTypeOK' /\ origin'.binary = {Good(job.by)}
    BY <1>5, Moved, GoodTyped DEF Build, Proceed, DeployTypeOK, OriginReady, Sending
  <2> QED
    BY <1>5, <2>1, <2>2
       DEF Build, Numbered, OriginReady, ServiceWhole, HostAt, BackupAt, WritesKept, Stored,
           Sending, Preparing, Installing, Stopped, Copied, Rollback
<1>6. CASE Record
  <2>1. job'.step = "verify" /\ job'.by = job.by /\ job.by \in Versions /\ job.by # 0
    BY <1>6, Moved DEF Record, Proceed, DeployTypeOK, Numbered, Sending
  <2>2. origin.binary = {Good(job.by)}
    BY <1>6 DEF Record, OriginReady
  <2>3. {[commit |-> job.by, liboqs |-> t.liboqs, artifact |-> t] : t \in origin.binary}
          = ManifestOf(job.by)
    BY <2>1, <2>2 DEF ManifestOf, Good
  <2>4. origin' = [origin EXCEPT !.manifest = ManifestOf(job.by)]
    BY <1>6, <2>3 DEF Record
  <2>5. DeployTypeOK' /\ origin'.binary = {Good(job.by)} /\ origin'.manifest = ManifestOf(job.by)
    BY <1>6, <2>1, <2>2, <2>4, Moved, GoodTyped DEF Record, Proceed, DeployTypeOK, Sending
  <2> QED
    BY <1>6, <2>1, <2>5
       DEF Record, Numbered, OriginReady, ServiceWhole, HostAt, BackupAt, WritesKept, Stored,
           Sending, Preparing, Installing, Stopped, Copied, Rollback
<1>7. CASE Verify
  <2>1. job'.step \in {"keep", "failed"} /\ job'.by = job.by
    BY <1>7, Moved DEF Verify, Proceed
  <2>2. DeployTypeOK'
    BY <1>7, Moved DEF Verify, Proceed, DeployTypeOK, Sending, Preparing
  <2>3. CASE job'.step = "failed"
    <3>1. Whole(host) /\ host.binary.by <= job.by
      BY <1>7, HostNumbers DEF Verify, HostAt, Sending
    <3> QED
      BY <1>7, <2>1, <2>2, <2>3, <3>1, EndedKeeps DEF Verify
  <2>4. CASE job'.step = "keep"
    BY <1>7, <2>1, <2>2, <2>4
       DEF Verify, Numbered, OriginReady, ServiceWhole, HostAt, BackupAt, WritesKept, Stored,
           Sending, Preparing, Installing, Stopped, Copied, Rollback
  <2> QED
    BY <2>1, <2>3, <2>4
<1> QED
  BY <1>1, <1>2, <1>3, <1>4, <1>5, <1>6, <1>7

\* What starts is the installed version, whole, and it migrates the database.
LEMMA Starting ==
    ASSUME DeployTypeOK, Whole(host), StartService
    PROVE  /\ service' = {host.binary.by} /\ service' \subseteq Versions
           /\ database' \subseteq Change /\ wal' \subseteq Change
           /\ database' \cup wal' = Stored \cup {<<"schema", host.binary.by>>}
BY DEF StartService, DeployTypeOK, Host, Binary, Change, Stored

LEMMA Stopping ==
    ASSUME DeployTypeOK, StopService
    PROVE  /\ service' = {} /\ database' \subseteq Change /\ wal' \subseteq Change
           /\ database' \cup wal' = Stored
BY DEF StopService, DeployTypeOK, Stored

\* What install.sh does before it replaces a file.
LEMMA PreparingKeeps ==
    ASSUME DeployInv, Keep \/ StopOld \/ CopyDatabase \/ CopySettings
    PROVE  DeployInv'
<1> USE FollowingSteps DEF DeployInv, At
<1>1. CASE Keep
  <2>1. job'.step = "stop" /\ job'.by = job.by
    BY <1>1, Moved DEF Keep, Proceed
  <2>2. DeployTypeOK'
    BY <1>1, Moved DEF Keep, Proceed, DeployTypeOK, Preparing
  <2>3. \E b \in backup' : backup' = {b} /\ b.host = host'
    BY <1>1 DEF Keep
  <2> QED
    BY <1>1, <2>1, <2>2, <2>3
       DEF Keep, Numbered, OriginReady, ServiceWhole, HostAt, BackupAt, WritesKept, Stored,
           Sending, Preparing, Installing, Stopped, Copied, Rollback
<1>2. CASE StopOld
  <2>1. job'.step = "copy" /\ job'.by = job.by
    BY <1>2, Moved DEF StopOld, Proceed
  <2>2. service' = {} /\ Stored' = Stored
    BY <1>2, Stopping DEF StopOld, Stored
  <2>3. DeployTypeOK'
    BY <1>2, Moved, Stopping DEF StopOld, Proceed, DeployTypeOK, Preparing
  <2> QED
    BY <1>2, <2>1, <2>2, <2>3
       DEF StopOld, Numbered, OriginReady, ServiceWhole, HostAt, BackupAt, WritesKept,
           Sending, Preparing, Installing, Stopped, Copied, Rollback
<1>3. CASE CopyDatabase
  <2>1. job'.step = "settings" /\ job'.by = job.by
    BY <1>3, Moved DEF CopyDatabase, Proceed
  <2>2. PICK b \in backup : backup = {b} /\ b.host = host
    BY <1>3 DEF CopyDatabase, BackupAt, Preparing
  <2>3. backup' = {[b EXCEPT !.database = database \cup wal]}
    BY <1>3, <2>2 DEF CopyDatabase
  <2>4. [b EXCEPT !.database = database \cup wal] \in [host : Host, database : SUBSET Change]
    BY <2>2 DEF DeployTypeOK
  <2>5. \E c \in backup' : backup' = {c} /\ c.host = host /\ c.database = Stored
    BY <2>2, <2>3 DEF DeployTypeOK, Stored
  <2>6. DeployTypeOK' /\ Stored' = Stored
    BY <1>3, <2>3, <2>4, Moved DEF CopyDatabase, Proceed, DeployTypeOK, Preparing, Stored
  <2>7. Numbered' /\ OriginReady' /\ ServiceWhole' /\ HostAt'
    BY <1>3, <2>1, <2>6
       DEF CopyDatabase, Numbered, OriginReady, ServiceWhole, HostAt, Sending, Preparing, Installing, Stopped
  <2>8. BackupAt' /\ WritesKept'
    BY <1>3, <2>1, <2>5, <2>6
       DEF CopyDatabase, BackupAt, WritesKept, Stored, Preparing, Installing, Copied, Rollback
  <2> QED
    BY <2>6, <2>7, <2>8
<1>4. CASE CopySettings
  <2>1. job'.step = "binary" /\ job'.by = job.by
    BY ZenonT(60), <1>4, Moved DEF CopySettings, Proceed
  <2>2. PICK b \in backup : backup = {b} /\ b.host = host
    BY <1>4 DEF CopySettings, BackupAt, Preparing
  <2>3. \A c \in backup : [c EXCEPT !.host.env = host.env, !.host.mesh = host.mesh] = c
    BY ZenonT(60), <2>2 DEF DeployTypeOK, Host
  <2>4. backup' = backup
    BY <1>4, <2>2, <2>3 DEF CopySettings
  <2>5. DeployTypeOK'
    BY ZenonT(60), <1>4, <2>4, Moved DEF CopySettings, Proceed, DeployTypeOK, Preparing
  <2>6. Numbered' /\ OriginReady' /\ ServiceWhole' /\ HostAt'
    BY <1>4, <2>1
       DEF CopySettings, Numbered, OriginReady, ServiceWhole, HostAt, Stored, Sending, Preparing,
           Installing, Stopped
  <2>7. BackupAt' /\ WritesKept'
    BY <1>4, <2>1, <2>2, <2>4
       DEF CopySettings, BackupAt, WritesKept, Stored, Preparing, Installing, Copied, Rollback
  <2> QED
    BY <2>5, <2>6, <2>7
<1> QED
  BY <1>1, <1>2, <1>3, <1>4

\* The files that install.sh replaces, while no service runs.
LEMMA ReplacingKeeps ==
    ASSUME DeployInv, ReplaceBinary \/ ReplaceManifest \/ ReplaceMesh \/ ReplaceEnv
    PROVE  DeployInv'
<1> USE FollowingSteps DEF DeployInv, At
<1>1. CASE ReplaceBinary
  <2>1. At("binary") /\ job'.step = "manifest" /\ job'.by = job.by
    BY <1>1, Moved DEF ReplaceBinary, Proceed
  <2>2. /\ origin.binary = {Good(job.by)} /\ Whole(host) /\ host.binary.by < job.by
        /\ host.mesh \subseteq 1..job.by-1
        /\ \E b \in backup : backup = {b} /\ b.host = host
    <3>1. /\ origin.binary = {Good(job.by)} /\ Whole(host) /\ host.binary.by < job.by
          /\ \E b \in backup : backup = {b} /\ b.host = host
      BY <2>1 DEF OriginReady, HostAt, BackupAt, Preparing
    <3>2. host.mesh \subseteq 1..job.by-1
      <4>1. CASE host.binary.by \in WithToken
        BY <3>1, <4>1, HostNumbers, DeploymentAssumption DEF Whole, MeshFits
      <4>2. CASE host.binary.by \notin WithToken
        BY <3>1, <4>2, HostNumbers DEF Whole, MeshFits
      <4> QED
        BY <4>1, <4>2
    <3> QED
      BY <3>1, <3>2
  <2>3. host' \in Host /\ host'.binary = Good(job.by) /\ host'.mesh = host.mesh
    BY <1>1, <2>2, GoodTyped, HostNumbers DEF ReplaceBinary, DeployTypeOK, Host, Binary
  <2>4. DeployTypeOK'
    BY <1>1, <2>3, Moved DEF ReplaceBinary, Proceed, DeployTypeOK, Installing
  <2>5. Numbered' /\ OriginReady' /\ ServiceWhole'
    BY <1>1, <2>1, <2>3
       DEF ReplaceBinary, Numbered, OriginReady, ServiceWhole, Stored, Preparing, Installing, Stopped
  <2>6. HostAt'
    BY <1>1, <2>1, <2>2, <2>3 DEF ReplaceBinary, HostAt, Sending, Preparing, Installing
  <2>7. BackupAt' /\ WritesKept'
    BY <1>1, <2>1, <2>2, <2>3
       DEF ReplaceBinary, BackupAt, WritesKept, Stored, Preparing, Installing, Copied, Rollback
  <2> QED
    BY <2>4, <2>5, <2>6, <2>7
<1>2. CASE ReplaceManifest
  <2>1. At("manifest") /\ job'.step = "mesh" /\ job'.by = job.by
    BY <1>2, Moved DEF ReplaceManifest, Proceed
  <2>2. origin.manifest = ManifestOf(job.by)
    BY <2>1 DEF OriginReady
  <2>3. host' \in Host /\ host'.manifest = ManifestOf(job.by)
        /\ host'.binary = host.binary /\ host'.mesh = host.mesh
    BY <1>2, <2>2, GoodTyped, HostNumbers DEF ReplaceManifest, DeployTypeOK, Host, Binary
  <2>4. DeployTypeOK'
    BY <1>2, <2>3, Moved DEF ReplaceManifest, Proceed, DeployTypeOK, Installing
  <2>5. Numbered' /\ OriginReady' /\ ServiceWhole'
    BY <1>2, <2>1, <2>3
       DEF ReplaceManifest, Numbered, OriginReady, ServiceWhole, Stored, Preparing, Installing, Stopped
  <2>6. HostAt'
    BY <1>2, <2>1, <2>2, <2>3 DEF ReplaceManifest, HostAt, Sending, Preparing, Installing
  <2>7. BackupAt' /\ WritesKept'
    BY <1>2, <2>1, <2>2, <2>3
       DEF ReplaceManifest, BackupAt, WritesKept, Stored, Preparing, Installing, Copied, Rollback
  <2> QED
    BY <2>4, <2>5, <2>6, <2>7
<1>3. CASE ReplaceMesh
  <2>1. At("mesh") /\ job'.step = "env" /\ job'.by = job.by
    BY <1>3, Moved DEF ReplaceMesh, Proceed
  <2>2. host.mesh \subseteq 1..job.by-1
    BY <2>1 DEF HostAt
  <2>3. host' \in Host /\ MeshFits(host'.mesh, job.by)
        /\ host'.binary = host.binary /\ host'.manifest = host.manifest
    BY <1>3, <2>2, HostNumbers DEF MeshFits, ReplaceMesh, DeployTypeOK, Host, Binary
  <2>4. DeployTypeOK'
    BY <1>3, <2>3, Moved DEF ReplaceMesh, Proceed, DeployTypeOK, Installing
  <2>5. Numbered' /\ OriginReady' /\ ServiceWhole'
    BY <1>3, <2>1, <2>3
       DEF ReplaceMesh, Numbered, OriginReady, ServiceWhole, Stored, Preparing, Installing, Stopped
  <2>6. HostAt'
    BY <1>3, <2>1, <2>2, <2>3 DEF ReplaceMesh, HostAt, Sending, Preparing, Installing
  <2>7. BackupAt' /\ WritesKept'
    BY <1>3, <2>1, <2>2, <2>3
       DEF ReplaceMesh, BackupAt, WritesKept, Stored, Preparing, Installing, Copied, Rollback
  <2> QED
    BY <2>4, <2>5, <2>6, <2>7
<1>4. CASE ReplaceEnv
  <2>1. At("env") /\ job'.step = "ratio" /\ job'.by = job.by
    BY <1>4, Moved DEF ReplaceEnv, Proceed
  <2>2. MeshFits(host.mesh, job.by)
    BY <2>1 DEF HostAt, Installing
  <2>3. host' \in Host /\ host'.env = job.by /\ host'.binary = host.binary
        /\ host'.manifest = host.manifest /\ host'.mesh = host.mesh
    BY <1>4, HostNumbers DEF ReplaceEnv, DeployTypeOK, Host, Binary
  <2>4. DeployTypeOK'
    BY <1>4, <2>3, Moved DEF ReplaceEnv, Proceed, DeployTypeOK, Installing
  <2>5. Numbered' /\ OriginReady' /\ ServiceWhole'
    BY <1>4, <2>1, <2>3
       DEF ReplaceEnv, Numbered, OriginReady, ServiceWhole, Stored, Preparing, Installing, Stopped
  <2>6. HostAt'
    BY <1>4, <2>1, <2>2, <2>3 DEF ReplaceEnv, HostAt, Sending, Preparing, Installing
  <2>7. BackupAt' /\ WritesKept'
    BY <1>4, <2>1, <2>2, <2>3
       DEF ReplaceEnv, BackupAt, WritesKept, Stored, Preparing, Installing, Copied, Rollback
  <2> QED
    BY <2>4, <2>5, <2>6, <2>7
<1> QED
  BY <1>1, <1>2, <1>3, <1>4

\* Whatever fails once files may have been replaced, the backup can go back.
LEMMA UndoingKeeps ==
    ASSUME DeployInv, DeployTypeOK', job.step \in {"binary"} \cup Installing,
           job'.step = "undo", job'.by = job.by, Stored \subseteq Stored',
           UNCHANGED <<host, backup, service, accepted, reverted>>
    PROVE  DeployInv'
<1> USE FollowingSteps DEF DeployInv, At
<1>1. \E b \in backup : backup = {b} /\ Whole(b.host) /\ b.host.binary.by < job.by
  BY DEF BackupAt, HostAt, Preparing
<1>2. service # {} => host.binary.by = job.by
  <2>1. CASE job.step \in Stopped
    BY <2>1 DEF ServiceWhole
  <2>2. CASE job.step \notin Stopped
    BY <2>2, HostNumbers, GoodTyped DEF HostAt, Installing, Stopped
  <2> QED
    BY <2>1, <2>2
<1>3. Numbered' /\ OriginReady' /\ HostAt'
  BY DEF Numbered, OriginReady, HostAt, Sending, Preparing, Installing
<1>4. ServiceWhole'
  BY <1>2 DEF ServiceWhole, Stopped
<1>5. BackupAt'
  BY <1>1 DEF BackupAt, Preparing, Installing, Rollback
<1>6. WritesKept'
  BY DEF WritesKept, Copied
<1> QED
  BY <1>3, <1>4, <1>5, <1>6

\* A new version's database, its start, and whether it is healthy.
LEMMA StartingKeeps ==
    ASSUME DeployInv, ApplyRatio \/ Start \/ Active \/ Healthy \/ Unhealthy
    PROVE  DeployInv'
<1> USE FollowingSteps DEF DeployInv, At
<1>1. CASE ApplyRatio
  <2>1. At("ratio") /\ UNCHANGED <<origin, host, backup, service, accepted, reverted>>
    BY <1>1 DEF ApplyRatio
  <2>2. Stored \subseteq Stored' /\ job'.by = job.by /\ job'.step \in {"undo", "start"}
        /\ DeployTypeOK'
    <3>1. <<"schema", job.by>> \in Change
      BY HostNumbers DEF Change
    <3>4. PICK migrated \in SUBSET {<<"schema", job.by>>} :
            \/ wal' = wal \cup migrated /\ UNCHANGED database /\ Goto("undo")
            \/ database' = database \cup migrated /\ UNCHANGED wal /\ Proceed
      BY <1>1 DEF ApplyRatio
    <3>2. CASE wal' = wal \cup migrated /\ UNCHANGED database /\ Goto("undo")
      BY <2>1, <3>1, <3>2, Moved DEF DeployTypeOK, Stored, Rollback
    <3>3. CASE database' = database \cup migrated /\ UNCHANGED wal /\ Proceed
      BY <2>1, <3>1, <3>3, Moved DEF DeployTypeOK, Stored, Proceed, Installing
    <3> QED
      BY <3>2, <3>3, <3>4
  <2>3. CASE job'.step = "undo"
    BY <2>1, <2>2, <2>3, UndoingKeeps DEF Installing
  <2>4. CASE job'.step = "start"
    <3>1. Numbered' /\ OriginReady' /\ ServiceWhole' /\ HostAt'
      BY <2>1, <2>2, <2>4
         DEF Numbered, OriginReady, ServiceWhole, HostAt, Sending, Preparing, Installing, Stopped
    <3>2. BackupAt' /\ WritesKept'
      BY <2>1, <2>2, <2>4 DEF BackupAt, WritesKept, Preparing, Installing, Copied, Rollback
    <3> QED
      BY <2>2, <3>1, <3>2
  <2> QED
    BY <2>2, <2>3, <2>4
<1>2. CASE Start
  <2>1. At("start") /\ job'.step = "active" /\ job'.by = job.by
        /\ UNCHANGED <<origin, host, backup, accepted, reverted>>
    BY <1>2, Moved DEF Start, Proceed
  <2>2. Whole(host) /\ host.binary.by = job.by
    BY <2>1, HostNumbers, GoodTyped DEF HostAt, Installing, Whole
  <2>3. service' = {host.binary.by} /\ Stored' = Stored \cup {<<"schema", host.binary.by>>}
        /\ DeployTypeOK'
    BY <1>2, <2>1, <2>2, Starting, Moved DEF Start, Proceed, DeployTypeOK, Stored, Installing
  <2>4. Numbered' /\ OriginReady' /\ ServiceWhole' /\ HostAt'
    BY <2>1, <2>2, <2>3
       DEF Numbered, OriginReady, ServiceWhole, HostAt, Sending, Preparing, Installing, Stopped
  <2>5. BackupAt' /\ WritesKept'
    BY <2>1, <2>3 DEF BackupAt, WritesKept, Preparing, Installing, Copied, Rollback
  <2> QED
    BY <2>3, <2>4, <2>5
<1>3. CASE Active
  <2>1. At("active") /\ job'.step = "health" /\ job'.by = job.by
        /\ UNCHANGED <<origin, host, database, wal, backup, service, accepted, reverted>>
    BY <1>3, Moved DEF Active, Proceed
  <2>2. DeployTypeOK'
    BY <1>3, <2>1, Moved DEF Active, Proceed, DeployTypeOK, Installing
  <2>3. Numbered' /\ OriginReady' /\ ServiceWhole' /\ HostAt'
    BY <2>1
       DEF Numbered, OriginReady, ServiceWhole, HostAt, Stored, Sending, Preparing, Installing, Stopped
  <2>4. BackupAt' /\ WritesKept'
    BY <2>1 DEF BackupAt, WritesKept, Stored, Preparing, Installing, Copied, Rollback
  <2> QED
    BY <2>2, <2>3, <2>4
<1>4. CASE Healthy
  <2>1. At("health") /\ job'.step = "done" /\ job'.by = job.by
        /\ UNCHANGED <<origin, host, database, wal, backup, service, accepted, reverted>>
    BY <1>4, Moved DEF Healthy, Proceed
  <2>2. Whole(host) /\ host.binary.by <= job.by
    BY <2>1, HostNumbers, GoodTyped DEF HostAt, Installing, Whole
  <2>3. DeployTypeOK'
    BY <1>4, <2>1, Moved DEF Healthy, Proceed, DeployTypeOK
  <2> QED
    BY <2>1, <2>2, <2>3, EndedKeeps
<1>5. CASE Unhealthy
  <2>1. At("health") /\ job'.step = "undo" /\ job'.by = job.by
        /\ UNCHANGED <<origin, host, database, wal, backup, service, accepted, reverted>>
    BY <1>5, Moved DEF Unhealthy
  <2>2. DeployTypeOK'
    BY <1>5, <2>1, Moved DEF Unhealthy, DeployTypeOK, Rollback
  <2> QED
    BY <2>1, <2>2, UndoingKeeps DEF Installing, Stored
<1> QED
  BY <1>1, <1>2, <1>3, <1>4, <1>5

\* A command fails.
LEMMA FailKeeps ==
    ASSUME DeployInv, Fail
    PROVE  DeployInv'
<1> USE FollowingSteps DEF DeployInv, At
<1>1. /\ job.step \in (Sending \cup Preparing \cup Installing) \ {"health"}
      /\ UNCHANGED <<origin, host, backup, accepted, reverted>>
  BY DEF Fail, Sending, Preparing, Installing, Rollback
<1>2. CASE job.step \in RollbackReady
  <2>1. Goto("undo") /\ UNCHANGED <<database, wal, service>>
    BY <1>2 DEF Fail
  <2>2. DeployTypeOK'
    BY <1>1, <2>1, Moved DEF DeployTypeOK, Rollback
  <2>3. job.step \in {"binary"} \cup Installing
    BY <1>2 DEF RollbackReady, Installing
  <2> QED
    BY <1>1, <2>1, <2>2, <2>3, Moved, UndoingKeeps DEF Stored
<1>3. CASE job.step \notin RollbackReady
  <2>1. /\ job'.step = "failed" /\ job'.by = job.by
        /\ \/ job.step \in ServiceStopped /\ StartService
           \/ job.step \notin ServiceStopped /\ UNCHANGED <<database, wal, service>>
    BY <1>3, Moved DEF Fail
  <2>2. Whole(host) /\ host.binary.by <= job.by
    BY <1>1, <1>3, HostNumbers DEF HostAt, RollbackReady, Installing
  <2>3. DeployTypeOK'
    BY <1>1, <1>3, <2>1, <2>2, Moved, Starting DEF Fail, DeployTypeOK
  <2>4. CASE UNCHANGED <<database, wal, service>>
    BY <1>1, <2>1, <2>2, <2>3, <2>4, EndedKeeps
  <2>5. CASE StartService
    <3>1. service' = {host.binary.by} /\ Stored' = Stored \cup {<<"schema", host.binary.by>>}
      BY <2>2, <2>5, Starting DEF Stored
    <3>2. Numbered' /\ OriginReady' /\ HostAt' /\ BackupAt'
      BY <1>1, <2>1, <2>2
         DEF Numbered, OriginReady, HostAt, BackupAt, Sending, Preparing, Installing, Rollback
    <3>3. ServiceWhole' /\ WritesKept'
      BY <1>1, <2>1, <2>2, <3>1
         DEF ServiceWhole, WritesKept, Stopped, Copied, Installing, Rollback
    <3> QED
      BY <2>3, <3>2, <3>3
  <2> QED
    BY <2>1, <2>4, <2>5
<1> QED
  BY <1>2, <1>3

\* rollback.sh stops what runs, and puts the files back one by one.
LEMMA RollbackKeeps ==
    ASSUME DeployInv,
           Undo \/ RestoreBinary \/ RestoreDatabase \/ RestoreEnv \/ RestoreManifest
             \/ RestoreMesh
    PROVE  DeployInv'
<1> USE FollowingSteps DEF DeployInv, At
<1>1. job.step \in Rollback \ {"restart"} /\ job'.by = job.by
      /\ job'.step = Following[job.step]
      /\ job' \in [by : Versions, step : DOMAIN Following \cup {"done", "failed", "broken"}]
      /\ UNCHANGED <<origin, backup, accepted>>
  BY Moved DEF Undo, RestoreBinary, RestoreDatabase, RestoreEnv, RestoreManifest, RestoreMesh,
     Proceed, Rollback
<1>2. PICK b \in backup : backup = {b} /\ Whole(b.host) /\ b.host.binary.by < job.by
                         /\ b.host \in Host /\ b.database \subseteq Change
  BY <1>1 DEF BackupAt, DeployTypeOK
<1>3. job'.step \in Rollback \ {"undo"}
  BY <1>1 DEF Rollback
<1>4. Numbered' /\ OriginReady' /\ HostAt'
  BY <1>1, <1>3
     DEF Numbered, OriginReady, HostAt, Sending, Preparing, Installing, Rollback
<1>5. CASE Undo
  <2>1. service' = {} /\ Stored' = Stored /\ reverted' = reverted \cup {job.by}
        /\ job'.step = "unbinary" /\ UNCHANGED host
    BY <1>1, <1>5, Stopping DEF Undo, Stored
  <2>2. DeployTypeOK'
    BY <1>1, <1>5, HostNumbers, Stopping DEF Undo, DeployTypeOK
  <2>3. ServiceWhole'
    BY <2>1 DEF ServiceWhole
  <2>4. BackupAt'
    BY <1>1, <1>2, <2>1 DEF BackupAt, Preparing, Installing, Rollback
  <2>5. WritesKept'
    BY <1>1, <1>5, <2>1 DEF Undo, WritesKept, Copied, Rollback
  <2> QED
    BY <1>4, <2>2, <2>3, <2>4, <2>5
<1>6. CASE RestoreDatabase
  <2>1. At("undatabase") /\ job'.step = "unenv" /\ database' = b.database
        /\ UNCHANGED <<host, wal, service, reverted>>
    BY <1>1, <1>2, <1>6 DEF RestoreDatabase
  <2>2. DeployTypeOK'
    BY <1>1, <1>2, <2>1 DEF DeployTypeOK
  <2>3. ServiceWhole'
    BY <2>1 DEF ServiceWhole, Stopped
  <2>4. BackupAt'
    BY <1>1, <1>2, <2>1 DEF BackupAt, Preparing, Installing, Rollback
  <2>5. WritesKept'
    <3>1. job.by \in reverted
      BY <2>1 DEF WritesKept, Rollback
    <3> QED
      BY <1>1, <1>2, <2>1, <3>1 DEF WritesKept, Stored, Copied, Rollback
  <2> QED
    BY <1>4, <2>2, <2>3, <2>4, <2>5
<1>7. CASE RestoreBinary \/ RestoreEnv \/ RestoreManifest \/ RestoreMesh
  <2>1. UNCHANGED <<database, wal, service, reverted>> /\ job.step \in Stopped
    BY <1>7 DEF RestoreBinary, RestoreEnv, RestoreManifest, RestoreMesh, Stopped
  <2>2. DeployTypeOK'
    BY <1>1, <1>2, <1>7, <2>1
       DEF RestoreBinary, RestoreEnv, RestoreManifest, RestoreMesh, DeployTypeOK, Host
  <2>3. ServiceWhole'
    BY <1>3, <2>1 DEF ServiceWhole
  <2>4. BackupAt'
    <3>1. CASE RestoreBinary
      BY <1>1, <1>2, <3>1
         DEF RestoreBinary, BackupAt, DeployTypeOK, Host, Preparing, Installing, Rollback
    <3>2. CASE RestoreEnv
      BY <1>1, <1>2, <3>2
         DEF RestoreEnv, BackupAt, DeployTypeOK, Host, Preparing, Installing, Rollback
    <3>3. CASE RestoreManifest
      BY <1>1, <1>2, <3>3
         DEF RestoreManifest, BackupAt, DeployTypeOK, Host, Preparing, Installing, Rollback
    <3>4. CASE RestoreMesh
      BY <1>1, <1>2, <3>4
         DEF RestoreMesh, BackupAt, DeployTypeOK, Host, Preparing, Installing, Rollback
    <3> QED
      BY <1>7, <3>1, <3>2, <3>3, <3>4
  <2>5. WritesKept'
    BY <1>1, <1>3, <2>1 DEF WritesKept, Stored, Copied, Rollback, Stopped
  <2> QED
    BY <1>4, <2>2, <2>3, <2>4, <2>5
<1> QED
  BY <1>5, <1>6, <1>7

\* The old version starts again, or a command of rollback.sh fails.
LEMMA RolledBackKeeps ==
    ASSUME DeployInv, Restart \/ RollbackFails
    PROVE  DeployInv'
<1> USE FollowingSteps DEF DeployInv, At
<1>1. CASE Restart
  <2>1. At("restart") /\ job'.step = "failed" /\ job'.by = job.by
        /\ UNCHANGED <<origin, host, backup, accepted, reverted>>
    BY <1>1, Moved DEF Restart, Proceed
  <2>2. Whole(host) /\ host.binary.by <= job.by
    <3>1. PICK b \in backup : backup = {b} /\ Whole(b.host) /\ b.host.binary.by < job.by
      BY <2>1 DEF BackupAt, Rollback
    <3>2. host.binary = b.host.binary /\ host.env = b.host.env
          /\ host.manifest = b.host.manifest /\ host.mesh = b.host.mesh
      BY <2>1 DEF BackupAt, Rollback
    <3> QED
      BY <3>1, <3>2, HostNumbers DEF Whole
  <2>3. service' = {host.binary.by} /\ Stored' = Stored \cup {<<"schema", host.binary.by>>}
        /\ DeployTypeOK'
    BY <1>1, <2>1, <2>2, Starting, Moved DEF Restart, Proceed, DeployTypeOK, Stored
  <2>4. Numbered' /\ OriginReady' /\ HostAt' /\ BackupAt'
    BY <2>1, <2>2
       DEF Numbered, OriginReady, HostAt, BackupAt, Sending, Preparing, Installing, Rollback
  <2>5. ServiceWhole' /\ WritesKept'
    BY <2>1, <2>2, <2>3 DEF ServiceWhole, WritesKept, Stopped, Copied, Installing, Rollback
  <2> QED
    BY <2>3, <2>4, <2>5
<1>2. CASE RollbackFails
  <2>1. job'.step = "broken" /\ job'.by = job.by
        /\ UNCHANGED <<origin, host, database, wal, backup, service, accepted, reverted>>
    BY <1>2, Moved DEF RollbackFails
  <2>2. DeployTypeOK'
    BY <1>2, <2>1, Moved DEF RollbackFails, DeployTypeOK
  <2>3. Numbered' /\ OriginReady' /\ HostAt' /\ BackupAt'
    BY <2>1
       DEF Numbered, OriginReady, HostAt, BackupAt, Sending, Preparing, Installing, Rollback
  <2>4. ServiceWhole' /\ WritesKept'
    BY <2>1 DEF ServiceWhole, WritesKept, Stored, Stopped, Copied, Installing, Rollback
  <2> QED
    BY <2>2, <2>3, <2>4
<1> QED
  BY <1>1, <1>2

\* The service accepts writes, moves its log into the database, and dies.
LEMMA RunningKeeps ==
    ASSUME DeployInv, Accept \/ Checkpoint \/ Die
    PROVE  DeployInv'
<1> USE DEF DeployInv, At
<1>1. UNCHANGED <<origin, host, backup, job, reverted>> /\ service # {}
      /\ (service' = service \/ service' = {})
  BY DEF Accept, Checkpoint, Die
<1>2. service = {host.binary.by}
  BY <1>1 DEF ServiceWhole
<1>3. /\ Stored \subseteq Stored'
      /\ \A w \in accepted' : w \in accepted \/ (w = host.binary.by /\ <<"write", w>> \in Stored')
      /\ DeployTypeOK'
  <2>1. CASE Accept
    <3>1. accepted' = accepted \cup {host.binary.by}
          /\ wal' = wal \cup {<<"write", host.binary.by>>} /\ UNCHANGED <<database, service>>
      BY <1>2, <2>1 DEF Accept
    <3>2. <<"write", host.binary.by>> \in Change
      BY HostNumbers DEF Change
    <3> QED
      BY <1>1, <3>1, <3>2, HostNumbers DEF Stored, DeployTypeOK
  <2>2. CASE Checkpoint \/ Die
    BY <2>2 DEF Checkpoint, Die, Stored, DeployTypeOK
  <2> QED
    BY <2>1, <2>2
<1>4. Numbered' /\ OriginReady' /\ HostAt' /\ BackupAt'
  BY <1>1 DEF Numbered, OriginReady, HostAt, BackupAt
<1>5. ServiceWhole'
  BY <1>1, <1>3 DEF ServiceWhole
<1>6. job.step \in Copied => host.binary.by = job.by
  <2>1. job.step \in Copied => job.step \in {"active", "health", "undo"}
    BY <1>1 DEF ServiceWhole, Copied, Installing, Rollback, Stopped
  <2>2. job.step \in {"active", "health"} => host.binary.by = job.by
    BY HostNumbers, GoodTyped DEF HostAt, Installing
  <2> QED
    BY <1>1, <2>1, <2>2 DEF ServiceWhole
<1>7. WritesKept'
  BY <1>1, <1>3, <1>6 DEF WritesKept
<1> QED
  BY <1>3, <1>4, <1>5, <1>7

LEMMA DeployInvNext == DeployInv /\ [DeployNext]_deployVars => DeployInv'
<1> SUFFICES ASSUME DeployInv, [DeployNext]_deployVars
             PROVE  DeployInv'
  OBVIOUS
<1>1. CASE DeployNext
  BY <1>1, SendingKeeps, PreparingKeeps, ReplacingKeeps, StartingKeeps, FailKeeps,
     RollbackKeeps, RolledBackKeeps, RunningKeeps DEF DeployNext, JobStep
<1>2. CASE UNCHANGED deployVars
  BY <1>2 DEF deployVars, DeployInv, DeployTypeOK, Numbered, OriginReady, ServiceWhole, HostAt,
              BackupAt, WritesKept, Stored, At
<1> QED
  BY <1>1, <1>2

LEMMA DeployInvAlways == DeploySpec => []DeployInv
BY DeployInvInit, DeployInvNext, PTL DEF DeploySpec

-----------------------------------------------------------------------------
(* Whatever command of an installation or of a rollback fails, and whoever  *)
(* dies, a service that runs has the manifest, the settings, the mesh        *)
(* credential and the database of its own version.                          *)
THEOREM RunsStayWhole == DeploySpec => []RunsWhole
<1>1. DeployInv => RunsWhole
  <2> SUFFICES ASSUME DeployInv, NEW v \in service
               PROVE  /\ host.binary.by = v /\ host.env = v
                      /\ {m.commit : m \in host.manifest} = {v} \ {0}
                      /\ IF v \in WithToken THEN host.mesh = {v} ELSE host.mesh \subseteq 1..v-1
                      /\ <<"schema", v>> \in Stored
    BY DEF RunsWhole
  <2>1. host.binary.by = v /\ Whole(host) /\ <<"schema", v>> \in Stored
    BY DEF DeployInv, ServiceWhole
  <2>2. {m.commit : m \in ManifestOf(v)} = {v} \ {0}
    <3>1. CASE v = 0
      <4>1. ManifestOf(v) = {}
        BY <3>1 DEF ManifestOf
      <4> QED
        BY <3>1, <4>1
    <3>2. CASE v # 0
      <4> DEFINE m == [commit |-> v, liboqs |-> Pinned[v], artifact |-> Good(v)]
      <4>1. ManifestOf(v) = {m} /\ m.commit = v
        BY <3>2 DEF ManifestOf
      <4>2. {n.commit : n \in {m}} = {m.commit}
        OBVIOUS
      <4> HIDE DEF m
      <4> QED
        BY <3>2, <4>1, <4>2
    <3> QED
      BY <3>1, <3>2
  <2> QED
    BY <2>1, <2>2 DEF Whole, MeshFits
<1> QED
  BY <1>1, DeployInvAlways, PTL

(* What runs was built from the source that its revision pins.              *)
THEOREM BuildsArePinned == DeploySpec => []BuiltFromPinned
<1>1. DeployInv => BuiltFromPinned
  BY DEF DeployInv, ServiceWhole, Whole, BuiltFromPinned, ManifestOf, Good
<1> QED
  BY <1>1, DeployInvAlways, PTL

(* No deployment loses a write that was accepted by a version which was not *)
(* rolled back, whoever dies.                                               *)
THEOREM WritesSurvive == DeploySpec => []AcceptedKept
<1>1. DeployInv => AcceptedKept
  BY DEF DeployInv, WritesKept, AcceptedKept
<1> QED
  BY <1>1, DeployInvAlways, PTL

-----------------------------------------------------------------------------
(* What is left of a version that was rolled back.  The invariant follows   *)
(* its changes: none is in the database or in the backup, and while files    *)
(* are put back the log is empty.                                           *)
Forward == Sending \cup Preparing \cup Installing \cup {"undo"}

RevertedBefore ==
    /\ \A v \in reverted : v <= job.by
    /\ job.step \in Forward => job.by \notin reverted

HostClean ==
    job.step \in {"done", "failed"} \cup Forward \/ service # {} =>
       /\ \A change \in Stored : change[2] \notin reverted /\ change[2] <= job.by
       /\ \A v \in reverted : v \notin host.mesh
       /\ host.binary.by \notin reverted

ChangesOld ==
    job.step \in Sending \cup Preparing => \A change \in Stored : change[2] # job.by

BackupClean ==
    /\ job.step \in Copied =>
         \A b \in backup : \A change \in b.database :
            change[2] \notin reverted /\ change[2] # job.by /\ change[2] <= job.by
    /\ job.step \in Installing \cup Rollback =>
         \A b \in backup : b.host.binary.by \notin reverted
                           /\ \A v \in reverted : v \notin b.host.mesh

LogEmpty ==
    /\ job.step \in {"settings", "binary", "manifest", "mesh", "env", "ratio", "start"}
         => wal = {}
    /\ job.step \in Rollback \ {"undo"} => wal = {}
    /\ job.step \in {"active", "health"} => service # {}
    /\ At("undo") /\ service = {} => wal = {}

DatabaseBack ==
    job.step \in {"unenv", "unmanifest", "unmesh", "restart"} =>
       \A b \in backup : database = b.database

RevertedInv ==
    /\ RevertedBefore /\ HostClean /\ ChangesOld /\ BackupClean /\ LogEmpty /\ DatabaseBack

LEMMA RevertedInvInit == DeployInit => RevertedInv
BY DEF DeployInit, RevertedInv, RevertedBefore, HostClean, ChangesOld, BackupClean, LogEmpty,
       DatabaseBack, Forward, Sending, Preparing, Installing, Rollback, Copied, At, Stored

LEMMA StoredTyped ==
    ASSUME DeployTypeOK
    PROVE  /\ \A change \in Stored : change[2] \in Nat
           /\ reverted \subseteq Nat
           /\ \A b \in backup : \A change \in b.database : change[2] \in Nat
BY VersionsNat DEF DeployTypeOK, Stored, Change

\* The mesh credential of a version is never that of a later one.
LEMMA MeshOlder ==
    ASSUME NEW h, Whole(h), h.binary.by \in Nat, NEW v \in Nat, h.binary.by < v
    PROVE  v \notin h.mesh
<1>1. CASE h.binary.by \in WithToken
  BY <1>1 DEF Whole, MeshFits
<1>2. CASE h.binary.by \notin WithToken
  BY <1>2 DEF Whole, MeshFits
<1> QED
  BY <1>1, <1>2

\* A job moves on or back, and touches no file.
LEMMA MovingCleans ==
    ASSUME DeployInv, RevertedInv,
           UNCHANGED <<host, database, wal, service, reverted>>, job'.by = job.by,
           \/ /\ job.step \in Sending /\ job'.step \in Sending \cup {"keep", "failed"}
              /\ UNCHANGED backup
           \/ job.step = "keep" /\ job'.step = "stop"
           \/ /\ job.step \in {"keep", "stop", "copy", "settings"} /\ job'.step = "failed"
              /\ UNCHANGED backup
           \/ /\ job.step = "settings" /\ job'.step = "binary" /\ UNCHANGED backup
           \/ /\ job.step \in {"active", "health"} /\ service # {} /\ UNCHANGED backup
              /\ job'.step \in {"health", "done"}
           \/ /\ job.step \in {"binary"} \cup Installing /\ job'.step = "undo"
              /\ UNCHANGED backup
           \/ /\ job.step \in Rollback /\ job'.step = "broken" /\ UNCHANGED backup
    PROVE  RevertedInv'
<1> USE DEF RevertedInv, At, Sending, Preparing, Installing, Rollback, Copied
<1>1. RevertedBefore' /\ HostClean'
  BY DEF RevertedBefore, HostClean, Stored, Forward
<1>2. ChangesOld' /\ DatabaseBack'
  BY DEF ChangesOld, DatabaseBack, Stored
<1>3. BackupClean'
  <2>1. CASE job.step = "binary"
    <3>1. PICK b \in backup : backup = {b} /\ b.host = host
      BY <2>1 DEF DeployInv, BackupAt
    <3> QED
      BY <2>1, <3>1 DEF BackupClean, HostClean, Forward
  <2>2. CASE job.step # "binary"
    BY <2>2 DEF BackupClean
  <2> QED
    BY <2>1, <2>2
<1>4. LogEmpty'
  BY DEF LogEmpty, DeployInv, ServiceWhole, Stopped
<1> QED
  BY <1>1, <1>2, <1>3, <1>4

LEMMA BeginCleans ==
    ASSUME DeployInv, RevertedInv, Begin
    PROVE  RevertedInv'
<1>1. /\ job.step \in {"done", "failed"} /\ job'.by = job.by + 1 /\ job'.step = "pin"
      /\ backup' = {} /\ UNCHANGED <<host, database, wal, service, reverted>>
  BY DEF Begin
<1>2. job.by \in Nat /\ \A v \in reverted : v \in Nat
  BY HostNumbers, StoredTyped DEF DeployInv
<1>3. \A change \in Stored : change[2] \in Nat /\ change[2] \notin reverted /\ change[2] <= job.by
  BY <1>1, StoredTyped DEF DeployInv, RevertedInv, HostClean
<1>4. RevertedBefore'
  BY <1>1, <1>2 DEF RevertedInv, RevertedBefore
<1>5. HostClean' /\ ChangesOld'
  BY <1>1, <1>2, <1>3 DEF RevertedInv, HostClean, ChangesOld, Stored
<1>6. BackupClean' /\ LogEmpty' /\ DatabaseBack'
  BY <1>1 DEF BackupClean, LogEmpty, DatabaseBack, Copied, Installing, Rollback, At
<1> QED
  BY <1>4, <1>5, <1>6 DEF RevertedInv

LEMMA PreparingCleans ==
    ASSUME DeployInv, RevertedInv, StopOld \/ CopyDatabase
    PROVE  RevertedInv'
<1> USE FollowingSteps DEF DeployInv, RevertedInv, At
<1>1. job'.by = job.by /\ Stored' = Stored /\ UNCHANGED <<host, reverted>>
      /\ job.step \in {"stop", "copy"} /\ job'.step \in {"copy", "settings"}
  BY Moved, Stopping DEF StopOld, CopyDatabase, Proceed, Stored
<1>2. RevertedBefore' /\ HostClean' /\ ChangesOld' /\ DatabaseBack'
  BY <1>1 DEF RevertedBefore, HostClean, ChangesOld, DatabaseBack, Forward, Preparing
<1>3. CASE StopOld
  <2>1. job'.step = "copy"
    BY <1>3, Moved DEF StopOld, Proceed
  <2>2. BackupClean' /\ LogEmpty'
    BY <2>1 DEF BackupClean, LogEmpty, Copied, Installing, Rollback
  <2> QED
    BY <1>2, <2>2
<1>4. CASE CopyDatabase
  <2>1. job'.step = "settings" /\ wal' = {}
    BY <1>4, Moved DEF CopyDatabase, Proceed
  <2>2. PICK b \in backup : backup = {b} /\ b.host = host
    BY <1>4 DEF CopyDatabase, BackupAt, Preparing
  <2>3. \A c \in backup' : c.database = Stored
    BY <1>4, <2>2 DEF CopyDatabase, DeployTypeOK, Stored
  <2>4. BackupClean'
    BY <1>1, <2>1, <2>3 DEF BackupClean, HostClean, ChangesOld, Forward, Preparing, Installing, Rollback
  <2>5. LogEmpty'
    BY <2>1 DEF LogEmpty, Rollback
  <2> QED
    BY <1>2, <2>4, <2>5
<1> QED
  BY <1>3, <1>4

LEMMA ReplacingCleans ==
    ASSUME DeployInv, RevertedInv, ReplaceBinary \/ ReplaceManifest \/ ReplaceMesh \/ ReplaceEnv
    PROVE  RevertedInv'
<1> USE FollowingSteps DEF DeployInv, RevertedInv, At
<1>1. /\ job'.by = job.by /\ UNCHANGED <<database, wal, backup, service, reverted>>
      /\ job.step \in {"binary", "manifest", "mesh", "env"}
      /\ job'.step \in {"manifest", "mesh", "env", "ratio"}
  BY Moved DEF ReplaceBinary, ReplaceManifest, ReplaceMesh, ReplaceEnv, Proceed
<1>2. host'.binary.by \in {host.binary.by, job.by}
      /\ \A v \in host'.mesh : v \in host.mesh \/ v = job.by
  <2>1. CASE ReplaceBinary
    <3>1. origin.binary = {Good(job.by)}
      BY <2>1 DEF ReplaceBinary, OriginReady, Preparing
    <3> QED
      BY <2>1, <3>1, GoodTyped, HostNumbers DEF ReplaceBinary, DeployTypeOK, Host
  <2>2. CASE ReplaceManifest \/ ReplaceMesh \/ ReplaceEnv
    BY <2>2 DEF ReplaceManifest, ReplaceMesh, ReplaceEnv, DeployTypeOK, Host
  <2> QED
    BY <2>1, <2>2
<1>3. job.by \notin reverted
  BY <1>1 DEF RevertedBefore, Forward, Preparing, Installing
<1>4. RevertedBefore' /\ HostClean'
  BY <1>1, <1>2, <1>3 DEF RevertedBefore, HostClean, Stored, Forward, Preparing, Installing
<1>5. ChangesOld' /\ DatabaseBack'
  BY <1>1 DEF ChangesOld, DatabaseBack, Sending, Preparing
<1>6. BackupClean'
  <2>1. CASE job.step = "binary"
    <3>1. PICK b \in backup : backup = {b} /\ b.host = host
      BY <2>1 DEF BackupAt, Preparing
    <3> QED
      BY <1>1, <2>1, <3>1
         DEF BackupClean, HostClean, Forward, Preparing, Copied, Installing, Rollback
  <2>2. CASE job.step # "binary"
    BY <1>1, <2>2 DEF BackupClean, Copied, Installing, Rollback
  <2> QED
    BY <2>1, <2>2
<1>7. LogEmpty'
  BY <1>1 DEF LogEmpty, Rollback
<1> QED
  BY <1>4, <1>5, <1>6, <1>7

\* A version whose process does not die migrates the database.
LEMMA StartingCleans ==
    ASSUME MayDie \subseteq {0}, DeployInv, RevertedInv, ApplyRatio \/ Start
    PROVE  RevertedInv'
<1> USE FollowingSteps DEF DeployInv, RevertedInv, At
<1>1. /\ job.step \in {"ratio", "start"} /\ job.by # 0
      /\ UNCHANGED <<host, backup, reverted>>
  BY DEF ApplyRatio, Start, Numbered, Installing
<1>2. host.binary.by = job.by /\ job.by \in Nat /\ wal = {}
  BY <1>1, HostNumbers, GoodTyped DEF HostAt, LogEmpty, Installing
<1>3. /\ job'.by = job.by
      /\ Stored' = Stored \/ Stored' = Stored \cup {<<"schema", job.by>>}
      /\ \/ job.step = "ratio" /\ job'.step = "start" /\ wal' = {} /\ UNCHANGED service
         \/ job.step = "start" /\ job'.step = "active" /\ service' # {}
  <2>1. CASE ApplyRatio
    <3>1. job.by \notin MayDie
      BY <1>1
    <3>2. /\ database' = database \/ database' = database \cup {<<"schema", job.by>>}
          /\ UNCHANGED wal /\ Proceed
      BY <2>1, <3>1 DEF ApplyRatio
    <3> QED
      BY <1>2, <2>1, <3>2, Moved DEF ApplyRatio, Proceed, Stored
  <2>2. CASE Start
    BY <1>2, <2>2, Moved DEF Start, StartService, Proceed, Stored
  <2> QED
    BY <2>1, <2>2
<1>4. job.by \notin reverted
  BY <1>1 DEF RevertedBefore, Forward, Installing
<1>5. RevertedBefore' /\ HostClean'
  BY <1>1, <1>2, <1>3, <1>4 DEF RevertedBefore, HostClean, Forward, Installing
<1>6. ChangesOld' /\ DatabaseBack' /\ LogEmpty'
  BY <1>1, <1>3 DEF ChangesOld, DatabaseBack, LogEmpty, Sending, Preparing, Rollback
<1>7. BackupClean'
  BY <1>1, <1>3 DEF BackupClean, Copied, Installing, Rollback
<1> QED
  BY <1>5, <1>6, <1>7

\* install.sh starts the version that it stopped.
LEMMA StartingAgainCleans ==
    ASSUME DeployInv, RevertedInv, Fail, job.step \in ServiceStopped
    PROVE  RevertedInv'
<1> USE FollowingSteps DEF DeployInv, RevertedInv, At
<1>1. /\ job.step \in {"copy", "settings"} /\ job'.step = "failed" /\ job'.by = job.by
      /\ StartService /\ UNCHANGED <<host, backup, reverted>>
  BY Moved DEF Fail, ServiceStopped, RollbackReady
<1>2. /\ Whole(host) /\ host.binary.by <= job.by
      /\ Stored' = Stored \cup {<<"schema", host.binary.by>>}
  BY <1>1, HostNumbers, Starting DEF HostAt, Preparing, Stored
<1>3. RevertedBefore' /\ HostClean'
  BY <1>1, <1>2 DEF RevertedBefore, HostClean, Forward, Preparing
<1>4. job'.step = "failed" /\ UNCHANGED <<backup, reverted>>
  BY <1>1
<1>5. ChangesOld' /\ DatabaseBack'
  BY <1>4 DEF ChangesOld, DatabaseBack, Sending, Preparing, Rollback
<1>6. LogEmpty'
  BY <1>4 DEF LogEmpty, Rollback
<1>7. BackupClean'
  BY <1>4 DEF BackupClean, Copied, Installing, Rollback
<1> QED
  BY <1>3, <1>5, <1>6, <1>7

LEMMA RollbackCleans ==
    ASSUME DeployInv, RevertedInv,
           Undo \/ RestoreBinary \/ RestoreDatabase \/ RestoreEnv \/ RestoreManifest
             \/ RestoreMesh
    PROVE  RevertedInv'
<1> USE FollowingSteps DEF DeployInv, RevertedInv, At
<1>1. /\ job.step \in Rollback \ {"restart"} /\ job'.step = Following[job.step]
      /\ job'.by = job.by /\ UNCHANGED backup
  BY Moved DEF Undo, RestoreBinary, RestoreDatabase, RestoreEnv, RestoreManifest, RestoreMesh,
     Proceed, Rollback
<1>2. PICK b \in backup : backup = {b} /\ Whole(b.host) /\ b.host.binary.by < job.by
                         /\ b.host.binary.by \in Nat /\ job.by \in Nat
  <2>1. BackupAt
    OBVIOUS
  <2>2. PICK b \in backup : backup = {b} /\ Whole(b.host) /\ b.host.binary.by < job.by
    BY <1>1, <2>1 DEF BackupAt
  <2>3. b.host \in Host
    BY <2>2 DEF DeployTypeOK
  <2>4. b.host.binary.by \in Nat
    BY <2>3, VersionsNat DEF Host, Binary
  <2>5. job.by \in Nat
    BY HostNumbers
  <2> QED
    BY <2>2, <2>4, <2>5
<1>3. job'.step \in Rollback \ {"undo"}
  BY <1>1 DEF Rollback
<1>4. service' = {} /\ wal' = {}
  <2>1. CASE Undo
    BY <2>1 DEF Undo, StopService, LogEmpty
  <2>2. CASE ~Undo
    BY <1>1, <2>2
       DEF RestoreBinary, RestoreDatabase, RestoreEnv, RestoreManifest, RestoreMesh, LogEmpty,
           ServiceWhole, Stopped, Rollback
  <2> QED
    BY <2>1, <2>2
<1>5. reverted' \subseteq reverted \cup {job.by}
  BY DEF Undo, RestoreBinary, RestoreDatabase, RestoreEnv, RestoreManifest, RestoreMesh
<1>6. RevertedBefore'
  BY <1>1, <1>2, <1>3, <1>5
     DEF RevertedBefore, Forward, Sending, Preparing, Installing, Rollback
<1>7. HostClean' /\ ChangesOld' /\ LogEmpty'
  BY <1>3, <1>4
     DEF HostClean, ChangesOld, LogEmpty, Forward, Sending, Preparing, Installing, Rollback
<1>8. BackupClean'
  <2>1. job.by \notin b.host.mesh
    BY <1>2, MeshOlder
  <2> QED
    BY <1>1, <1>2, <1>3, <1>5, <2>1 DEF BackupClean, Copied, Rollback
<1>9. DatabaseBack'
  <2>1. CASE RestoreDatabase
    BY <1>2, <2>1 DEF RestoreDatabase, DatabaseBack
  <2>2. CASE Undo \/ RestoreBinary
    BY <1>1, <2>2 DEF Undo, RestoreBinary, DatabaseBack
  <2>3. CASE RestoreEnv \/ RestoreManifest \/ RestoreMesh
    BY <1>1, <2>3 DEF RestoreEnv, RestoreManifest, RestoreMesh, DatabaseBack
  <2> QED
    BY <2>1, <2>2, <2>3
<1> QED
  BY <1>6, <1>7, <1>8, <1>9

LEMMA RestartCleans ==
    ASSUME DeployInv, RevertedInv, Restart
    PROVE  RevertedInv'
<1> USE FollowingSteps DEF DeployInv, RevertedInv, At
<1>1. /\ At("restart") /\ job'.step = "failed" /\ job'.by = job.by
      /\ StartService /\ UNCHANGED <<host, backup, reverted>>
  BY Moved DEF Restart, Proceed
<1>2. PICK b \in backup : b.host.binary.by < job.by
  BY <1>1 DEF BackupAt, Rollback
<1>3. /\ host.binary = b.host.binary /\ host.mesh = b.host.mesh /\ database = b.database
      /\ wal = {}
  BY <1>1, <1>2 DEF BackupAt, DatabaseBack, LogEmpty, Rollback
<1>4. Stored' = b.database \cup {<<"schema", host.binary.by>>}
  BY <1>1, <1>3 DEF StartService, Stored
<1>5. /\ host.binary.by \notin reverted /\ \A v \in reverted : v \notin host.mesh
      /\ \A change \in b.database : change[2] \notin reverted /\ change[2] <= job.by
  BY <1>1, <1>2, <1>3 DEF BackupClean, Copied, Rollback
<1>6. RevertedBefore'
  BY <1>1 DEF RevertedBefore, Forward, Sending, Preparing, Installing
<1>7. HostClean'
  BY <1>1, <1>2, <1>3, <1>4, <1>5, HostNumbers DEF HostClean
<1>8. ChangesOld' /\ DatabaseBack'
  BY <1>1 DEF ChangesOld, DatabaseBack, Sending, Preparing, Rollback
<1>9. LogEmpty'
  BY <1>1 DEF LogEmpty, Rollback
<1>10. BackupClean'
  BY <1>1 DEF BackupClean, Copied, Installing, Rollback
<1> QED
  BY <1>6, <1>7, <1>8, <1>9, <1>10

LEMMA RunningCleans ==
    ASSUME MayDie \subseteq {0}, DeployInv, RevertedInv, Accept \/ Checkpoint \/ Die
    PROVE  RevertedInv'
<1> USE DEF DeployInv, RevertedInv, At
<1>1. UNCHANGED <<host, backup, job, reverted>> /\ service = {host.binary.by} /\ service # {}
  BY DEF Accept, Checkpoint, Die, ServiceWhole
<1>2. job.step \in {"active", "health", "undo"} => host.binary.by = job.by /\ job.by # 0
  BY <1>1, FollowingSteps, GoodTyped, HostNumbers
     DEF HostAt, ServiceWhole, Numbered, Installing, Rollback
<1>3. job.step \notin Stopped
  BY <1>1 DEF ServiceWhole
<1>4. \A change \in Stored' : change \in Stored \/ change = <<"write", host.binary.by>>
  BY <1>1 DEF Accept, Checkpoint, Die, Stored
<1>5. job.step \in {"active", "health", "undo"} => service' # {}
  BY <1>1, <1>2 DEF Accept, Checkpoint, Die
<1>6. host.binary.by \notin reverted /\ host.binary.by <= job.by
  <2>1. host.binary.by \notin reverted
    BY <1>1 DEF HostClean
  <2>2. <<"schema", host.binary.by>> \in Stored
    BY <1>1 DEF ServiceWhole
  <2> QED
    BY <1>1, <2>1, <2>2 DEF HostClean
<1>7. RevertedBefore' /\ BackupClean'
  BY <1>1 DEF RevertedBefore, BackupClean
<1>8. HostClean'
  BY <1>1, <1>4, <1>6 DEF HostClean
<1>9. ChangesOld'
  BY <1>1, <1>4, HostNumbers DEF ChangesOld, HostAt
<1>10. LogEmpty' /\ DatabaseBack'
  BY <1>1, <1>3, <1>5 DEF LogEmpty, DatabaseBack, Stopped, Rollback
<1> QED
  BY <1>7, <1>8, <1>9, <1>10

LEMMA RevertedInvNext ==
    ASSUME MayDie \subseteq {0}, DeployInv, RevertedInv, [DeployNext]_deployVars
    PROVE  RevertedInv'
<1> USE FollowingSteps DEF DeployInv
<1>1. CASE Pin \/ Send \/ Identify \/ Build \/ Record \/ Verify
  BY <1>1, Moved, MovingCleans
     DEF Pin, Send, Identify, Build, Record, Verify, Proceed, At, Sending
<1>2. CASE Keep \/ CopySettings
  <2>1. CASE Keep
    BY <2>1, Moved, MovingCleans DEF Keep, Proceed, At
  <2>2. CASE CopySettings
    <3>1. PICK b \in backup : backup = {b} /\ b.host = host
      BY <2>2 DEF CopySettings, BackupAt, Preparing, At
    <3>2. \A c \in backup : [c EXCEPT !.host.env = host.env, !.host.mesh = host.mesh] = c
      BY ZenonT(60), <3>1 DEF DeployTypeOK, Host
    <3>3. backup' = backup
      BY <2>2, <3>1, <3>2 DEF CopySettings
    <3> QED
      BY <2>2, <3>3, Moved, MovingCleans DEF CopySettings, Proceed, At
  <2> QED
    BY <1>2, <2>1, <2>2
<1>3. CASE Active \/ Healthy \/ Unhealthy
  BY <1>3, Moved, MovingCleans DEF Active, Healthy, Unhealthy, Proceed, At, Installing
<1>4. CASE Fail
  <2>1. CASE job.step \in RollbackReady
    BY <1>4, <2>1, Moved, MovingCleans DEF Fail, RollbackReady, Installing
  <2>2. CASE job.step \in ServiceStopped
    BY <1>4, <2>2, StartingAgainCleans
  <2>3. CASE job.step \notin RollbackReady \cup ServiceStopped
    BY <1>4, <2>3, Moved, MovingCleans
       DEF Fail, RollbackReady, ServiceStopped, Sending, Preparing, Installing, Rollback
  <2> QED
    BY <2>1, <2>2, <2>3
<1>5. CASE RollbackFails
  BY <1>5, Moved, MovingCleans DEF RollbackFails
<1>6. CASE UNCHANGED deployVars
  BY <1>6 DEF deployVars, RevertedInv, RevertedBefore, HostClean, ChangesOld, BackupClean,
              LogEmpty, DatabaseBack, Stored, At
<1>7. CASE \/ Begin \/ StopOld \/ CopyDatabase
           \/ ReplaceBinary \/ ReplaceManifest \/ ReplaceMesh \/ ReplaceEnv
           \/ ApplyRatio \/ Start \/ Restart \/ Accept \/ Checkpoint \/ Die
  BY <1>7, BeginCleans, PreparingCleans, ReplacingCleans, StartingCleans, RestartCleans,
     RunningCleans
<1>8. CASE Undo \/ RestoreBinary \/ RestoreDatabase \/ RestoreEnv \/ RestoreManifest
             \/ RestoreMesh
  BY <1>8, RollbackCleans
<1> QED
  BY <1>1, <1>2, <1>3, <1>4, <1>5, <1>6, <1>7, <1>8 DEF DeployNext, JobStep

(* Where only what runs before the first deployment may die with its log,   *)
(* nothing of a version that was rolled back is left while a service runs.  *)
THEOREM RollbacksRestore ==
    ASSUME MayDie \subseteq {0}
    PROVE  DeploySpec => []RollbackRestores
<1>1. RevertedInv => RollbackRestores
  BY DEF RevertedInv, HostClean, RollbackRestores
<1>2. DeployInv /\ RevertedInv /\ [DeployNext]_deployVars => RevertedInv'
  BY RevertedInvNext
<1> QED
  BY <1>1, <1>2, RevertedInvInit, DeployInvAlways, PTL DEF DeploySpec
=============================================================================
