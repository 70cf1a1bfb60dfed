----------------------------- MODULE Snapshots -----------------------------
(***************************************************************************)
(* Snapshots: CreateSnapshot with its failure path, RestoreSnapshot with   *)
(* the fetch of an exported bundle, what DeleteSandbox removes, the pass   *)
(* that closes incomplete snapshots, and daemon crashes.                   *)
(*                                                                         *)
(* A snapshot is a row and the files of its directory under SnapshotRoot;  *)
(* an export adds a bundle elsewhere.  The content of a workspace is named *)
(* by the snapshot it was restored from.  Of a sandbox this module keeps   *)
(* one status for row and guest: stops and starts are single steps here    *)
(* and are modelled in SandboxLifecycle.                                   *)
(***************************************************************************)
EXTENDS Naturals, FiniteSets

CONSTANTS
    Sandboxes,
    Snaps,          \* snapshot ids
    Requests,       \* HTTP requests, each issued at most once
    Nodes,          \* node configurations: the backend, whether snapshots are
                    \*   exported, and the faults: "fs" a host file operation
                    \*   fails, "disk" making a disk fails, "cancel" clients hang
                    \*   up, which fails store calls and commands, "damage" stored
                    \*   archives rot
    MaxHeavy,       \* tenant limit on heavy operations, 0 disables
    MaxCrashes

NodeConfigs ==
    [backend : {"qemu", "docker", "kata"}, export : BOOLEAN,
     faults : SUBSET {"fs", "disk", "cancel", "damage"}]

ASSUME SnapshotsAssumption ==
    /\ Sandboxes # {} /\ Snaps # {}
    /\ Nodes \subseteq NodeConfigs
    /\ MaxCrashes \in Nat

VARIABLES
    cfg,            \* the configuration of the node
    sb,             \* status of each sandbox
    ws,             \* content of each workspace
    base,           \* the QEMU base image file exists
    row,            \* snapshot rows
    files,          \* the directory of each snapshot below each sandbox
    bundle,         \* the exported bundles
    req,
    rec,            \* the reconcile loop
    crashes

vars == <<cfg, sb, ws, base, row, files, bundle, req, rec, crashes>>

Ops == {"create", "restore", "delete", "deleteKeeping"}

Final == {"idle", "ok", "err", "lost"}

Pcs == Final \cup
       {"get", "admit", "insert", "inspect", "archive", "image", "tar", "seal",
        "export", "ready", "refresh", "fail", "failwrite",
        "rget", "radmit", "ensure", "fetch", "rstop", "rruntime", "rmkfs", "rextract",
        "rpersist", "rfinish", "destroy", "purge", "dpersist"}

(* A row as its handler holds it: image and tar are the artifacts it       *)
(* names, loc is set when it names an exported bundle.                     *)
Rows == [status : {"none", "creating", "ready", "error"}, src : Sandboxes,
         image : {"none", "path", "ref"}, tar : BOOLEAN, loc : BOOLEAN]

AnySandbox == CHOOSE s \in Sandboxes : TRUE

EmptyRow(st, s) == [status |-> st, src |-> s, image |-> "none", tar |-> FALSE, loc |-> FALSE]

InFlight(r) == req[r].pc \notin Final

Busy(s) == \E r \in Requests : InFlight(r) /\ req[r].sb = s

Goto(r, pc) == req' = [req EXCEPT ![r].pc = pc]

GotoWith(r, pc, copy) == req' = [req EXCEPT ![r].pc = pc, ![r].row = copy]

Copy(r) == req[r].row

(* The handler returns and its copies are gone.                            *)
Return(r, result) ==
    req' = [req EXCEPT ![r].pc = result, ![r].row = EmptyRow("none", AnySandbox),
                       ![r].st = "stopped"]

Fails(fault) == fault \in cfg.faults

(* A store call or a command fails: the client hung up.                    *)
StoreFails == Fails("cancel")

-----------------------------------------------------------------------------
(* Arrival.  Clients do not overlap snapshots, restores and deletions of   *)
(* one sandbox.                                                            *)

Issue(r) ==
    /\ req[r].pc = "idle"
    /\ ~rec.boot
    /\ \E op \in Ops, s \in Sandboxes, n \in Snaps :
         /\ ~Busy(s)
         /\ CASE op = "create" -> /\ row[n].status = "none"
                                  /\ \A q \in Requests : req[q].pc = "idle" \/ req[q].snap # n
              [] op = "restore" -> row[n].status # "none"
              [] OTHER -> sb[s] # "deleted" /\ n = CHOOSE m \in Snaps : TRUE
         /\ req' = [req EXCEPT ![r] =
                      [op |-> op, sb |-> s, snap |-> n, st |-> "stopped",
                       pc |-> CASE op = "create" -> "get" [] op = "restore" -> "rget"
                                [] OTHER -> "destroy",
                       row |-> EmptyRow("none", AnySandbox)]]
    /\ UNCHANGED <<cfg, sb, ws, base, row, files, bundle, rec, crashes>>

(* Starting and stopping a sandbox, also while a snapshot of it is taken.  *)
(* An overlay whose base image is gone does not boot.                      *)
PowerSandbox(s) ==
    /\ ~rec.boot
    /\ \A r \in Requests : InFlight(r) /\ req[r].sb = s => req[r].op = "create"
    /\ \/ sb[s] = "stopped" /\ (cfg.backend = "qemu" => base) /\ sb' = [sb EXCEPT ![s] = "running"]
       \/ sb[s] = "running" /\ sb' = [sb EXCEPT ![s] = "stopped"]
    /\ UNCHANGED <<cfg, ws, base, row, files, bundle, req, rec, crashes>>

-----------------------------------------------------------------------------
(* CreateSnapshot.                                                         *)

Creating == {n \in Snaps : row[n].status = "creating"}

(* enforceAdmission with a heavy operation, without the admission lock.    *)
HeavyOK == MaxHeavy = 0 \/ Cardinality(Creating) < MaxHeavy

GetSandbox(r) ==
    /\ req[r].pc \in {"get", "radmit"}
    /\ \/ req[r].pc = "get" /\ req' = [req EXCEPT ![r].pc = "admit", ![r].st = sb[req[r].sb]]
       \/ /\ req[r].pc = "radmit" /\ HeavyOK
          /\ req' = [req EXCEPT ![r].pc = "ensure", ![r].st = sb[req[r].sb]]
       \/ ((req[r].pc = "radmit" /\ ~HeavyOK) \/ StoreFails) /\ Return(r, "err")
    /\ UNCHANGED <<cfg, sb, ws, base, row, files, bundle, rec, crashes>>

AdmitSnapshot(r) ==
    /\ req[r].pc = "admit"
    /\ IF HeavyOK /\ (cfg.backend = "qemu" => req[r].st = "stopped")
       THEN Goto(r, "insert") ELSE Return(r, "err")
    /\ UNCHANGED <<cfg, sb, ws, base, row, files, bundle, rec, crashes>>

InsertSnapshot(r) ==
    LET new == EmptyRow("creating", req[r].sb)
    IN  /\ req[r].pc = "insert"
        /\ \/ row' = [row EXCEPT ![req[r].snap] = new] /\ GotoWith(r, "inspect", new)
           \/ StoreFails /\ UNCHANGED row /\ Return(r, "err")
        /\ UNCHANGED <<cfg, sb, ws, base, files, bundle, rec, crashes>>

(* runtime.CreateSnapshot looks at the guest (QEMU) or commits it ...      *)
Snapshotable(s) ==
    /\ sb[s] # "deleted"
    /\ cfg.backend = "qemu" => sb[s] = "stopped"

RuntimeInspect(r) ==
    /\ req[r].pc = "inspect"
    /\ \/ Snapshotable(req[r].sb) /\ Goto(r, "archive")
       \/ (~Snapshotable(req[r].sb) \/ Fails("fs") \/ StoreFails) /\ Goto(r, "fail")
    /\ UNCHANGED <<cfg, sb, ws, base, row, files, bundle, rec, crashes>>

(* ... and then archives the workspace, as it is by now: a guest that was  *)
(* started since it was seen stopped is archived while it writes.          *)
RuntimeArchive(r) ==
    /\ req[r].pc = "archive"
    /\ \/ sb[req[r].sb] # "deleted" /\ Goto(r, "image")
       \/ (sb[req[r].sb] = "deleted" \/ Fails("fs") \/ StoreFails) /\ Goto(r, "fail")
    /\ UNCHANGED <<cfg, sb, ws, base, row, files, bundle, rec, crashes>>

SetDir(s, n, content) == files' = [files EXCEPT ![s][n] = content]

(* The directory is made and the image artifact put into it.  QEMU names   *)
(* its base image, a file, which is copied and then removed; Docker names  *)
(* an image of its own; the image of a Kata sandbox is taken for a file    *)
(* when its name has a slash, and is then not found.                       *)
CopyImage(r) ==
    /\ req[r].pc = "image"
    /\ SetDir(req[r].sb, req[r].snap, "notar")
    /\ \/ /\ cfg.backend = "qemu" /\ base
          /\ base' = FALSE
          /\ GotoWith(r, "tar", [Copy(r) EXCEPT !.image = "path"])
       \/ /\ cfg.backend # "qemu"
          /\ GotoWith(r, "tar", [Copy(r) EXCEPT !.image = "ref"]) /\ UNCHANGED base
       \/ /\ (cfg.backend = "qemu" /\ ~base) \/ cfg.backend = "kata" \/ Fails("fs")
          /\ Goto(r, "fail") /\ UNCHANGED base
    /\ UNCHANGED <<cfg, sb, ws, row, bundle, rec, crashes>>

(* The workspace archive is copied: it is incomplete until it is sealed.   *)
CopyTar(r) ==
    /\ req[r].pc = "tar"
    /\ SetDir(req[r].sb, req[r].snap, "partial")
    /\ Goto(r, "seal")
    /\ UNCHANGED <<cfg, sb, ws, base, row, bundle, rec, crashes>>

(* The copy is complete and its checksum taken.                            *)
SealTar(r) ==
    /\ req[r].pc = "seal"
    /\ \/ /\ SetDir(req[r].sb, req[r].snap, "full")
          /\ GotoWith(r, "export", [Copy(r) EXCEPT !.tar = TRUE, !.status = "ready"])
       \/ Fails("fs") /\ Goto(r, "fail") /\ UNCHANGED files
    /\ UNCHANGED <<cfg, sb, ws, base, row, bundle, rec, crashes>>

exportSnapshotBundle(r) ==
    /\ req[r].pc = "export"
    /\ \/ ~cfg.export /\ Goto(r, "ready") /\ UNCHANGED bundle
       \/ /\ cfg.export /\ files[req[r].sb][req[r].snap] = "full"
          /\ bundle' = bundle \cup {req[r].snap}
          /\ GotoWith(r, "ready", [Copy(r) EXCEPT !.loc = TRUE])
       \/ /\ cfg.export /\ (files[req[r].sb][req[r].snap] # "full" \/ Fails("fs"))
          /\ Goto(r, "fail") /\ UNCHANGED bundle
    /\ UNCHANGED <<cfg, sb, ws, base, row, files, rec, crashes>>

PersistReady(r) ==
    /\ req[r].pc = "ready"
    /\ \/ row' = [row EXCEPT ![req[r].snap] = Copy(r)] /\ Goto(r, "refresh")
       \/ StoreFails /\ UNCHANGED row /\ Goto(r, "fail")
    /\ UNCHANGED <<cfg, sb, ws, base, files, bundle, rec, crashes>>

(* refreshStorage measures the directories and stores the result; only     *)
(* when it succeeds is the client told that the snapshot is ready.         *)
CreateRefresh(r) ==
    /\ req[r].pc = "refresh"
    /\ \/ Return(r, "ok")
       \/ (StoreFails \/ Fails("fs")) /\ Goto(r, "fail")
    /\ UNCHANGED <<cfg, sb, ws, base, row, files, bundle, rec, crashes>>

(* failSnapshot removes the directory ...                                  *)
FailSnapshot(r) ==
    /\ req[r].pc = "fail"
    /\ SetDir(req[r].sb, req[r].snap, "none")
    /\ GotoWith(r, "failwrite", [Copy(r) EXCEPT !.status = "error"])
    /\ UNCHANGED <<cfg, sb, ws, base, row, bundle, rec, crashes>>

(* Wrong: the row is left as it was.                                       *)
FailWithoutWrite(r) ==
    /\ req[r].pc = "failwrite"
    /\ Return(r, "err")
    /\ UNCHANGED <<cfg, sb, ws, base, row, files, bundle, rec, crashes>>

(* ... and persists the row as failed; an error of this write is dropped.  *)
FailWrite(r) ==
    /\ req[r].pc = "failwrite"
    /\ \/ row' = [row EXCEPT ![req[r].snap] = Copy(r)]
       \/ StoreFails /\ UNCHANGED row
    /\ Return(r, "err")
    /\ UNCHANGED <<cfg, sb, ws, base, files, bundle, rec, crashes>>

-----------------------------------------------------------------------------
(* RestoreSnapshot.                                                        *)

(* The row is read whatever its status is; the target and the limit on     *)
(* heavy operations follow in GetSandbox.                                  *)
GetSnapshot(r) ==
    /\ req[r].pc = "rget"
    /\ \/ GotoWith(r, "radmit", row[req[r].snap])
       \/ StoreFails /\ Return(r, "err")
    /\ UNCHANGED <<cfg, sb, ws, base, row, files, bundle, rec, crashes>>

Dir(s, n) == files[s][n]

(* Every artifact the row names as a file is there.                        *)
HaveLocal(copy, n) ==
    /\ copy.image = "path" => Dir(copy.src, n) # "none"
    /\ copy.tar => Dir(copy.src, n) \in {"partial", "full"}

(* ensureSnapshotArtifacts: local files must match the checksum; without   *)
(* local files and without an export the restore goes on all the same.     *)
ensureSnapshotArtifacts(r) ==
    LET copy == Copy(r)
        n    == req[r].snap
    IN  /\ req[r].pc = "ensure"
        /\ CASE HaveLocal(copy, n) ->
                  /\ IF copy.tar => Dir(copy.src, n) = "full"
                     THEN Goto(r, "rstop") ELSE Return(r, "err")
                  /\ UNCHANGED files
             [] ~HaveLocal(copy, n) /\ ~copy.loc -> Goto(r, "rstop") /\ UNCHANGED files
             [] OTHER -> Goto(r, "fetch") /\ SetDir(req[r].sb, n, "partial")
        /\ UNCHANGED <<cfg, sb, ws, base, row, bundle, rec, crashes>>

(* The bundle is fetched into the directory of the target and extracted;   *)
(* the copy of the row is rebound to it.                                   *)
FetchBundle(r) ==
    /\ req[r].pc = "fetch"
    /\ \/ /\ req[r].snap \in bundle
          /\ SetDir(req[r].sb, req[r].snap, "full")
          /\ GotoWith(r, "rstop", [Copy(r) EXCEPT !.src = req[r].sb])
       \/ (req[r].snap \notin bundle \/ Fails("fs")) /\ Return(r, "err") /\ UNCHANGED files
    /\ UNCHANGED <<cfg, sb, ws, base, row, bundle, rec, crashes>>

(* A target that ran when it was read is stopped.                          *)
StopTarget(r) ==
    /\ req[r].pc = "rstop"
    /\ \/ /\ sb' = IF req[r].st = "running" THEN [sb EXCEPT ![req[r].sb] = "stopped"] ELSE sb
          /\ Goto(r, "rruntime")
       \/ req[r].st = "running" /\ StoreFails /\ Return(r, "err") /\ UNCHANGED sb
    /\ UNCHANGED <<cfg, ws, base, row, files, bundle, rec, crashes>>

SetWorkspace(s, content) == ws' = [ws EXCEPT ![s] = content]

(* Wrong: the old disk is removed before the archive is extracted.         *)
QemuRestoreWipesFirst(r) ==
    LET archive == Dir(Copy(r).src, req[r].snap)
    IN  /\ SetWorkspace(req[r].sb, "empty")
        /\ IF Copy(r).tar => archive = "full" THEN Goto(r, "rmkfs") ELSE Return(r, "err")

(* QEMU: the image is looked at, the root disk made from it and the        *)
(* archive extracted next to the old workspace disk, so that all of them   *)
(* may fail without harm; then the old disk is removed ...                 *)
QemuRestore(r) ==
    LET archive == Dir(Copy(r).src, req[r].snap)
        image   == IF Copy(r).image = "none" THEN base ELSE archive # "none"
        usable  == image /\ (Copy(r).tar => archive = "full")
    IN  \/ usable /\ SetWorkspace(req[r].sb, "empty") /\ Goto(r, "rmkfs")
        \/ /\ ~usable \/ Fails("fs") \/ Fails("disk") \/ StoreFails
           /\ Return(r, "err") /\ UNCHANGED ws

(* Docker and Kata clear the workspace, Kata only for an archive, ...      *)
ClearWorkspace(r) ==
    \/ /\ cfg.backend = "kata" => Copy(r).tar
       /\ SetWorkspace(req[r].sb, "empty") /\ Goto(r, "rextract")
    \/ /\ (cfg.backend = "kata" /\ ~Copy(r).tar) \/ Fails("fs") \/ StoreFails
       /\ Return(r, "err") /\ UNCHANGED ws

RuntimeRestore(r) ==
    /\ req[r].pc = "rruntime"
    /\ IF cfg.backend = "qemu" THEN QemuRestore(r) ELSE ClearWorkspace(r)
    /\ UNCHANGED <<cfg, sb, base, row, files, bundle, rec, crashes>>

(* ... and a new one made from what was extracted, empty when the row      *)
(* names no archive.  qemu-img and mkfs may fail or be killed with the     *)
(* request; the old disk is gone by then.                                  *)
createWorkspaceDisk(r) ==
    /\ req[r].pc = "rmkfs"
    /\ \/ /\ SetWorkspace(req[r].sb, IF Copy(r).tar THEN req[r].snap ELSE "empty")
          /\ Goto(r, "rpersist")
       \/ (Fails("disk") \/ StoreFails) /\ Return(r, "err") /\ UNCHANGED ws
    /\ UNCHANGED <<cfg, sb, base, row, files, bundle, rec, crashes>>

(* Wrong: an archive that is not there is not missed.                      *)
ExtractIfPresent(r) ==
    LET archive == Dir(Copy(r).src, req[r].snap)
    IN  /\ req[r].pc = "rextract"
        /\ IF archive = "full" THEN SetWorkspace(req[r].sb, req[r].snap) ELSE UNCHANGED ws
        /\ Goto(r, "rpersist")
        /\ UNCHANGED <<cfg, sb, base, row, files, bundle, rec, crashes>>

(* ... and extract the archive into it; Docker then creates the container  *)
(* from the image the row names.                                           *)
ExtractWorkspace(r) ==
    LET archive == Dir(Copy(r).src, req[r].snap)
    IN  /\ req[r].pc = "rextract"
        /\ \/ /\ Copy(r).tar => archive = "full"
              /\ IF Copy(r).tar THEN SetWorkspace(req[r].sb, req[r].snap) ELSE UNCHANGED ws
              /\ \/ (cfg.backend = "docker" => Copy(r).image # "none") /\ Goto(r, "rpersist")
                 \/ /\ cfg.backend = "docker" /\ (Copy(r).image = "none" \/ StoreFails)
                    /\ Return(r, "err")
           \/ (Copy(r).tar /\ (archive # "full" \/ Fails("fs"))) /\ Return(r, "err") /\ UNCHANGED ws
        /\ UNCHANGED <<cfg, sb, base, row, files, bundle, rec, crashes>>

(* The row of the target is written as stopped, whatever it was.           *)
RestorePersist(r) ==
    /\ req[r].pc = "rpersist"
    /\ \/ sb' = [sb EXCEPT ![req[r].sb] = "stopped"] /\ Goto(r, "rfinish")
       \/ StoreFails /\ Return(r, "err") /\ UNCHANGED sb
    /\ UNCHANGED <<cfg, ws, base, row, files, bundle, rec, crashes>>

(* UpdateRuntimeState, refreshStorage and the revocation of tunnels.       *)
RestoreFinish(r) ==
    /\ req[r].pc = "rfinish"
    /\ Return(r, "ok") \/ (StoreFails /\ Return(r, "err"))
    /\ UNCHANGED <<cfg, sb, ws, base, row, files, bundle, rec, crashes>>

-----------------------------------------------------------------------------
(* DeleteSandbox: guest and workspace go first, then the directory with    *)
(* the snapshots unless they are preserved; their rows stay.               *)

DeleteDestroy(r) ==
    /\ req[r].pc = "destroy"
    /\ sb' = [sb EXCEPT ![req[r].sb] = "stopped"]
    /\ SetWorkspace(req[r].sb, "empty")
    /\ Goto(r, IF req[r].op = "delete" THEN "purge" ELSE "dpersist")
    /\ UNCHANGED <<cfg, base, row, files, bundle, rec, crashes>>

DeletePurge(r) ==
    /\ req[r].pc = "purge"
    /\ files' = [files EXCEPT ![req[r].sb] = [n \in Snaps |-> "none"]]
    /\ Goto(r, "dpersist")
    /\ UNCHANGED <<cfg, sb, ws, base, row, bundle, rec, crashes>>

DeletePersist(r) ==
    /\ req[r].pc = "dpersist"
    /\ \/ sb' = [sb EXCEPT ![req[r].sb] = "deleted"] /\ Return(r, "ok")
       \/ StoreFails /\ Return(r, "err") /\ UNCHANGED sb
    /\ UNCHANGED <<cfg, ws, base, row, files, bundle, rec, crashes>>

-----------------------------------------------------------------------------
(* reconcileIncompleteSnapshots, at start-up and whenever the ticker of    *)
(* the reconcile loop fires.                                               *)

(* Wrong: snapshots whose files are all there are left to their handler.   *)
ListUnsealed ==
    /\ rec.pc = "idle"
    /\ rec' = [rec EXCEPT !.pc = "close",
                          !.todo = {n \in Creating : Dir(row[n].src, n) # "full"}]
    /\ UNCHANGED <<cfg, sb, ws, base, row, files, bundle, req, crashes>>

ListCreating ==
    /\ rec.pc = "idle"
    /\ rec' = [rec EXCEPT !.pc = "close", !.todo = Creating]
    /\ UNCHANGED <<cfg, sb, ws, base, row, files, bundle, req, crashes>>

(* The row as it was listed, named no artifact, is written back as failed. *)
CloseIncomplete ==
    /\ rec.pc = "close"
    /\ \E n \in rec.todo :
         /\ row' = [row EXCEPT ![n] = EmptyRow("error", @.src)]
         /\ rec' = [rec EXCEPT !.todo = @ \ {n}]
    /\ UNCHANGED <<cfg, sb, ws, base, files, bundle, req, crashes>>

ReconcileDone ==
    /\ rec.pc = "close" /\ rec.todo = {}
    /\ rec' = [rec EXCEPT !.pc = "idle", !.boot = FALSE]
    /\ UNCHANGED <<cfg, sb, ws, base, row, files, bundle, req, crashes>>

-----------------------------------------------------------------------------
(* The environment.                                                        *)

(* An archive below SnapshotRoot is lost or no longer what it was.         *)
Damage(s, n) ==
    /\ Fails("damage")
    /\ files[s][n] = "full"
    /\ ~Busy(s)
    /\ \E content \in {"none", "partial"} : SetDir(s, n, content)
    /\ UNCHANGED <<cfg, sb, ws, base, row, bundle, req, rec, crashes>>

(* The daemon dies and restarts, perhaps with another export setting.      *)
Crash ==
    /\ crashes < MaxCrashes
    /\ crashes' = crashes + 1
    /\ \E e \in BOOLEAN : cfg' = [cfg EXCEPT !.export = e]
    /\ req' = [r \in Requests |->
                  IF InFlight(r)
                  THEN [req[r] EXCEPT !.pc = "lost", !.st = "stopped",
                                      !.row = EmptyRow("none", AnySandbox)]
                  ELSE req[r]]
    /\ rec' = [pc |-> "idle", boot |-> TRUE, todo |-> {}]
    /\ UNCHANGED <<sb, ws, base, row, files, bundle>>

-----------------------------------------------------------------------------
Init ==
    /\ cfg \in Nodes
    /\ sb \in [Sandboxes -> {"stopped", "running"}]
    /\ ws = [s \in Sandboxes |-> "own"]
    /\ base = TRUE
    /\ row = [n \in Snaps |-> EmptyRow("none", AnySandbox)]
    /\ files = [s \in Sandboxes |-> [n \in Snaps |-> "none"]]
    /\ bundle = {}
    /\ req = [r \in Requests |-> [op |-> "create", sb |-> AnySandbox,
                                  snap |-> CHOOSE n \in Snaps : TRUE, pc |-> "idle",
                                  st |-> "stopped", row |-> EmptyRow("none", AnySandbox)]]
    /\ rec = [pc |-> "idle", boot |-> FALSE, todo |-> {}]
    /\ crashes = 0

RequestStep(r) ==
    \/ GetSandbox(r) \/ AdmitSnapshot(r) \/ InsertSnapshot(r) \/ RuntimeInspect(r)
    \/ RuntimeArchive(r) \/ CopyImage(r) \/ CopyTar(r) \/ SealTar(r)
    \/ exportSnapshotBundle(r) \/ PersistReady(r) \/ CreateRefresh(r)
    \/ FailSnapshot(r) \/ FailWrite(r)
    \/ GetSnapshot(r) \/ ensureSnapshotArtifacts(r) \/ FetchBundle(r) \/ StopTarget(r)
    \/ RuntimeRestore(r) \/ createWorkspaceDisk(r) \/ ExtractWorkspace(r) \/ RestorePersist(r) \/ RestoreFinish(r)
    \/ DeleteDestroy(r) \/ DeletePurge(r) \/ DeletePersist(r)

ReconcileStep == ListCreating \/ CloseIncomplete \/ ReconcileDone

Next ==
    \/ \E r \in Requests : Issue(r) \/ RequestStep(r)
    \/ ReconcileStep
    \/ \E s \in Sandboxes : PowerSandbox(s)
    \/ \E s \in Sandboxes, n \in Snaps : Damage(s, n)
    \/ Crash

Spec == Init /\ [][Next]_vars

(* Handlers that can run do, and the ticker fires.                         *)
FairSpec ==
    /\ Spec
    /\ \A r \in Requests : WF_vars(RequestStep(r))
    /\ WF_vars(ReconcileStep)

-----------------------------------------------------------------------------
(* Properties.                                                             *)

TypeOK ==
    /\ cfg \in NodeConfigs
    /\ sb \in [Sandboxes -> {"stopped", "running", "deleted"}]
    /\ ws \in [Sandboxes -> {"own", "empty"} \cup Snaps]
    /\ base \in BOOLEAN
    /\ row \in [Snaps -> Rows]
    /\ files \in [Sandboxes -> [Snaps -> {"none", "notar", "partial", "full"}]]
    /\ bundle \in SUBSET Snaps
    /\ req \in [Requests -> [op : Ops, sb : Sandboxes, snap : Snaps, pc : Pcs,
                             st : {"stopped", "running", "deleted"}, row : Rows]]
    /\ rec \in [pc : {"idle", "close"}, boot : BOOLEAN, todo : SUBSET Snaps]
    /\ crashes \in 0..MaxCrashes

(* The directory of the snapshot is removed with its sandbox.              *)
Purged(n) ==
    \E r \in Requests : req[r].op = "delete" /\ req[r].sb = row[n].src /\ req[r].pc # "idle"

(* The create that took the snapshot removed its files and has not written *)
(* the row as failed yet, could not since the client hung up, or died.     *)
Abandoned(n) ==
    \E r \in Requests :
        /\ req[r].op = "create" /\ req[r].snap = n
        /\ req[r].pc \in {"failwrite", "lost"} \/ (req[r].pc = "err" /\ StoreFails)

(* A row that says ready can be restored.  One that names an export has    *)
(* its bundle, whatever happens to sandbox, files and requests; one that   *)
(* does not has its archive below the sandbox, unless the sandbox was      *)
(* deleted with its snapshots, stored archives rot, or the create was      *)
(* abandoned after it had written the row as ready: refreshStorage failed, *)
(* failSnapshot removed the files, and the client or the daemon was gone   *)
(* before the row could be written as failed.                              *)
ReadyHasData ==
    \A n \in Snaps : row[n].status = "ready" =>
        IF row[n].loc THEN n \in bundle
        ELSE Dir(row[n].src, n) = "full" \/ Purged(n) \/ Abandoned(n) \/ Fails("damage")

(* A restore from a ready row that answers ok has put the snapshot into    *)
(* the workspace, with every backend: archives may rot and the sandbox the *)
(* snapshot was taken of may be deleted at any time after the files were   *)
(* checked.                                                                *)
RestoredIsSnapshot ==
    [][\A r \in Requests :
         /\ req[r].op = "restore" /\ req[r].row.status = "ready"
         /\ InFlight(r) /\ req'[r].pc = "ok"
         => ws'[req[r].sb] = req[r].snap]_vars

(* Stored data that are missing or damaged never cost a QEMU sandbox its   *)
(* workspace: a restore from a ready row fails with the workspace as it    *)
(* was until the old disk is removed, and that is only done with the whole *)
(* snapshot at hand.  (From there until the new disk is made, failing      *)
(* tools, a client that hangs up and a crash do cost it.)                  *)
QemuRestoreStagesFirst ==
    [][\A r \in Requests :
         /\ cfg.backend = "qemu" /\ req[r].op = "restore" /\ InFlight(r)
         /\ req[r].row.status = "ready" /\ ws'[req[r].sb] # ws[req[r].sb]
         => \/ /\ req[r].pc = "rruntime" /\ req'[r].pc = "rmkfs"
               /\ Dir(req[r].row.src, req[r].snap) = "full"
            \/ req[r].pc = "rmkfs" /\ ws'[req[r].sb] = req[r].snap]_vars

(* Incomplete snapshots do not accumulate: a row left in creating by a     *)
(* crash or a lost write is closed by a later pass.                        *)
IncompleteIsClosed ==
    \A n \in Snaps : row[n].status = "creating" ~> row[n].status # "creating"

(* README: a QEMU snapshot stores a reference to the base image, which     *)
(* stays where restores and other sandboxes find it.                       *)
BaseImageStays == base

=============================================================================
