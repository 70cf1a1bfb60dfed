----------------------------- MODULE Workspace -----------------------------
(***************************************************************************)
(* The workspace of one sandbox: the requests of the HTTP API that read,   *)
(* write, delete, import and export its files (internal/api/router.go,     *)
(* internal/service/service.go), the registry that hands them to a         *)
(* backend, the guest that changes the same files meanwhile, and the       *)
(* record of the storage in use, which every writing request and the       *)
(* reconcile loop measure and store.                                       *)
(*                                                                         *)
(* Only the QEMU backend has file operations: for Docker and Kata the      *)
(* registry answers that they are not supported, and the service packs an  *)
(* export itself from the directory on the host.  A request also writes    *)
(* its copy of the sandbox row back (touchSandboxActivity), which is an    *)
(* operation of module SandboxLifecycle.                                   *)
(***************************************************************************)
EXTENDS Archives

CONSTANTS
    Requests,   \* the requests served at once
    Loads,      \* what the requests ask for and how often the guest interferes
    Backends,   \* the backends an instance looks at
    WsFaults,   \* what may fail: "guest", "host", "stream"
    GuestMax,   \* the transfer limit of a session with the guest
    MaxSize     \* the size of the largest file of an instance

ASSUME WorkspaceAssumption ==
    /\ MaxBytes \in Nat /\ MaxFiles \in Nat /\ MaxRatio \in Nat
    /\ GuestMax \in Nat /\ MaxSize \in Nat

VARIABLES
    backend, \* the backend of the sandbox
    files,   \* the files of the workspace
    disk,    \* the bytes the host has allocated for them
    usage,   \* the storage in use, as the store has it
    stale,   \* the store's value is older than the refresh interval
    tick,    \* the reconcile loop's refresh: its position and measurement
    moves,   \* how often the guest may still change a file
    job, pc, ans, \* of each request: what it asks for, where it is, its answer
    ext,     \* of each request: its unpacking
    walk,    \* of each request: its walk
    own,     \* of each request: the paths it has changed
    took,    \* of each request: entries unpacked, then bytes read or measured
    temps    \* the temporary files: request and kind

wsVars == <<files, disk, moves>>
useVars == <<usage, stale, tick>>
reqVars == <<job, pc, ans, ext, walk, own, took, temps>>
vars == <<backend, wsVars, useVars, reqVars>>

Ops == {"read", "write", "delete", "mkdir", "import", "export"}

Steps == {"new", "read", "stream", "open", "data", "change", "upload", "extract", "apply",
          "measure", "store", "export", "send", "done"}

Fault(f) == f \in WsFaults

(* What the QEMU backend sends to or takes from the guest at once.         *)
effectiveWorkspaceFileTransferMaxBytes == Min({MaxBytes, GuestMax})

(* The disk image keeps the blocks of files that shrink or go.             *)
Fill(tree) ==
    /\ files' = tree
    /\ disk' = IF Total(tree) > disk THEN Total(tree) ELSE disk

Goto(r, step) == pc' = [pc EXCEPT ![r] = step]

(* The handler returns; the deferred calls remove the temporary files of   *)
(* the given kinds.                                                        *)
Finish(r, answer, removed) ==
    /\ Goto(r, "done")
    /\ ans' = [ans EXCEPT ![r] = answer]
    /\ temps' = temps \ ({r} \X removed)

Changed(r, ps) == own' = [own EXCEPT ![r] = @ \cup ps]

----------------------------------------------------------------------------
(* The router and the first checks of the service: a body over the upload  *)
(* limit, a form that cannot be decoded, a path that leaves the workspace, *)
(* and a file over the transfer limit are refused.                         *)

Refusal(j) ==
    IF j.body = "large" /\ j.op \in {"write", "export"} THEN "large"
    ELSE IF j.body = "bad" /\ j.op \in {"write", "export"} THEN "bad"
    ELSE IF j.op = "write" /\ j.size > MaxBytes THEN "large"
    ELSE IF j.path = Outside \/ Outside \in ToSet(j.paths) THEN "bad"
    ELSE "none"

(* The registry finds the operation in the QEMU backend only.              *)
Supported(j) == j.op \in {"import", "export"} \/ backend = "qemu"

FirstStep(op) ==
    IF op = "read" THEN "read" ELSE IF op = "write" THEN "open"
    ELSE IF op \in {"delete", "mkdir"} THEN "change"
    ELSE IF op = "import" THEN "upload" ELSE "export"

Accept(r) ==
    /\ pc[r] = "new"
    /\ LET j == job[r]
       IN  IF Refusal(j) # "none" THEN Finish(r, Refusal(j), {})
           ELSE IF ~Supported(j) THEN Finish(r, "err", {})
           ELSE Goto(r, FirstStep(j.op)) /\ UNCHANGED <<ans, temps>>
    /\ walk' = [walk EXCEPT ![r] = Walk(normalizeWorkspaceExportPaths(job[r].paths))]
    /\ UNCHANGED <<backend, wsVars, useVars, job, ext, own, took>>

----------------------------------------------------------------------------
(* Files.                                                                  *)

(* The limit of the backend: none for a file that is read as text.         *)
ReadLimit(r) == IF job[r].raw THEN effectiveWorkspaceFileTransferMaxBytes ELSE MaxSize

(* The guest opens the file and says how large it is now.                  *)
OpenRead(r) ==
    /\ pc[r] = "read"
    /\ LET f == files[job[r].path]
       IN  \/ /\ f.kind = "file" /\ f.size <= ReadLimit(r)
              /\ took' = [took EXCEPT ![r] = f.size]
              /\ Goto(r, "stream") /\ UNCHANGED <<ans, temps>>
           \/ f.kind = "file" /\ f.size > ReadLimit(r) /\ Finish(r, "large", {}) /\ UNCHANGED took
           \/ (f.kind # "file" \/ Fault("guest")) /\ Finish(r, "err", {}) /\ UNCHANGED took
    /\ UNCHANGED <<backend, wsVars, useVars, job, ext, walk, own>>

(* The bytes a stream of the file brings: all of it as it is now, or as it *)
(* was when opened if it has gone since; a stream that is lost looks like  *)
(* the end of the file.                                                    *)
Streamed(r) ==
    LET f == files[job[r].path]
        all == {took[r]} \cup (IF f.kind = "file" THEN {f.size} ELSE {})
    IN  IF Fault("stream") THEN 0..Max(all) ELSE all

(* The backend counts the bytes as they arrive, the service when it has    *)
(* them all.                                                               *)
ReadFile(r) ==
    /\ pc[r] = "stream"
    /\ \/ \E n \in Streamed(r) :
            IF n > ReadLimit(r) \/ n > MaxBytes THEN Finish(r, "large", {}) /\ UNCHANGED took
            ELSE took' = [took EXCEPT ![r] = n] /\ Finish(r, "ok", {})
       \/ Fault("guest") /\ Finish(r, "err", {}) /\ UNCHANGED took
    /\ UNCHANGED <<backend, wsVars, useVars, job, ext, walk, own>>

(* Writing opens the file, which empties it, and then sends the bytes; two *)
(* requests that write one file overlay each other.  (A file removed and   *)
(* made anew in between is taken for the same file.)  A file over the      *)
(* guest's limit is not opened.                                            *)
OpenFile(r) ==
    /\ pc[r] = "open"
    /\ LET p == job[r].path
           fits == job[r].size <= effectiveWorkspaceFileTransferMaxBytes
       IN  \/ /\ fits /\ CanWrite(files, p)
              /\ Fill(Write(files, p, 0))
              /\ Changed(r, {p})
              /\ Goto(r, "data") /\ UNCHANGED <<ans, temps>>
           \/ ~fits /\ Finish(r, "large", {}) /\ UNCHANGED <<files, disk, own>>
           \/ /\ (fits /\ ~CanWrite(files, p)) \/ Fault("guest")
              /\ Finish(r, "err", {})
              /\ UNCHANGED <<files, disk, own>>
    /\ UNCHANGED <<backend, moves, useVars, job, ext, walk, took>>

WriteFileBytes(r) ==
    /\ pc[r] = "data"
    /\ LET f == files[job[r].path]
           n == job[r].size
       IN  \/ /\ IF f.kind = "file" /\ f.size < n THEN Fill(Write(files, job[r].path, n))
                 ELSE UNCHANGED <<files, disk>>
              /\ Goto(r, "measure") /\ UNCHANGED <<ans, temps>>
           \/ /\ Fault("guest")
              /\ Finish(r, "err", {})
              /\ UNCHANGED <<files, disk>>
    /\ UNCHANGED <<backend, moves, useVars, job, ext, walk, own, took>>

DeleteFile(r) ==
    /\ pc[r] = "change" /\ job[r].op = "delete"
    /\ \/ /\ Fill(RemoveAll(files, job[r].path))
          /\ Changed(r, {job[r].path})
          /\ Goto(r, "measure") /\ UNCHANGED <<ans, temps>>
       \/ /\ Fault("guest")
          /\ Finish(r, "err", {})
          /\ UNCHANGED <<files, disk, own>>
    /\ UNCHANGED <<backend, moves, useVars, job, ext, walk, took>>

Mkdir(r) ==
    /\ pc[r] = "change" /\ job[r].op = "mkdir"
    /\ \/ /\ CanMkdir(files, job[r].path)
          /\ Fill(MkdirAll(files, job[r].path))
          /\ Changed(r, {job[r].path})
          /\ Goto(r, "measure") /\ UNCHANGED <<ans, temps>>
       \/ /\ ~CanMkdir(files, job[r].path) \/ Fault("guest")
          /\ Finish(r, "err", {})
          /\ UNCHANGED <<files, disk, own>>
    /\ UNCHANGED <<backend, moves, useVars, job, ext, walk, took>>

----------------------------------------------------------------------------
(* Import: the upload goes to a temporary file, is unpacked into a staging *)
(* directory, and what is there is then sent to the backend one by one.    *)

(* The copy ends early when the body is over the limit or the client goes. *)
Upload(r) ==
    /\ pc[r] = "upload"
    /\ \/ /\ job[r].body = "ok"
          /\ temps' = temps \cup ({r} \X {"upload", "staging"})
          /\ Goto(r, "extract") /\ UNCHANGED ans
       \/ job[r].body = "large" /\ Finish(r, "large", {"upload"})
       \/ job[r].body = "bad" /\ Finish(r, "bad", {"upload"})
       \/ Fault("host") /\ Finish(r, "err", {"upload"})
    /\ UNCHANGED <<backend, wsVars, useVars, job, ext, walk, own, took>>

(* Wrong: the archive is unpacked where it belongs.                        *)
ExtractInPlace(r) ==
    /\ pc[r] = "extract"
    /\ LET i == took[r] + 1
       IN  IF i > Len(job[r].entries)
           THEN /\ Goto(r, "measure")
                /\ UNCHANGED <<files, disk, ans, ext, walk, own, took, temps>>
           ELSE LET x == ExtractTarGz(ext[r], job[r].entries[i], job[r].size)
                IN  /\ ext' = [ext EXCEPT ![r] = x]
                    /\ took' = [took EXCEPT ![r] = i]
                    /\ Fill([p \in Paths |-> IF p \in Present(x.tree) THEN x.tree[p] ELSE files[p]])
                    /\ Changed(r, Present(x.tree))
                    /\ IF x.res = "go" THEN UNCHANGED <<pc, ans, temps>>
                       ELSE Finish(r, x.res, {"upload", "staging"})
                    /\ UNCHANGED walk
    /\ UNCHANGED <<backend, moves, useVars, job>>

(* One entry of the upload, or the end of it; took counts the entries.     *)
Extract(r) ==
    /\ pc[r] = "extract"
    /\ LET i == took[r] + 1
       IN  IF i > Len(job[r].entries)
           THEN /\ Goto(r, "apply")
                /\ walk' = [walk EXCEPT ![r].todo = ReadDir(ext[r].tree, Root)]
                /\ UNCHANGED <<ans, ext, took, temps>>
           ELSE LET x == ExtractTarGz(ext[r], job[r].entries[i], job[r].size)
                IN  /\ ext' = [ext EXCEPT ![r] = x]
                    /\ took' = [took EXCEPT ![r] = i]
                    /\ IF x.res = "go" THEN UNCHANGED <<pc, ans, temps>>
                       ELSE Finish(r, x.res, {"upload", "staging"})
                    /\ UNCHANGED walk
    /\ UNCHANGED <<backend, wsVars, useVars, job, own>>

(* The staged path p can be made in the guest.  The backend looks at the   *)
(* size of each file before it opens it there.                             *)
TooLarge(r, p) == backend = "qemu" /\ ext[r].tree[p].size > effectiveWorkspaceFileTransferMaxBytes

Applicable(r, p) ==
    /\ backend = "qemu" /\ ~TooLarge(r, p)
    /\ IF ext[r].tree[p].kind = "dir" THEN CanMkdir(files, p) ELSE CanWrite(files, p)

Applied(r, p) ==
    IF ext[r].tree[p].kind = "dir" THEN MkdirAll(files, p)
    ELSE Write(files, p, ext[r].tree[p].size)

Pop(r, p) ==
    walk' = [walk EXCEPT ![r].todo =
               (IF ext[r].tree[p].kind = "dir" THEN ReadDir(ext[r].tree, p) ELSE <<>>) \o Tail(@)]

(* Wrong: an entry that cannot be made is passed over.                     *)
ApplyWhatFits(r) ==
    /\ pc[r] = "apply" /\ walk[r].todo # <<>>
    /\ LET p == Head(walk[r].todo)
       IN  /\ IF Applicable(r, p) THEN Fill(Applied(r, p)) /\ Changed(r, {p})
              ELSE UNCHANGED <<files, disk, own>>
           /\ Pop(r, p)
    /\ UNCHANGED <<backend, moves, useVars, job, pc, ans, ext, took, temps>>

(* The first entry that fails ends the import; those before it stay, and   *)
(* its own file may be left empty.  A file over the guest's limit fails in *)
(* its turn, as too large.                                                 *)
applyWorkspaceArchiveTree(r) ==
    /\ pc[r] = "apply" /\ walk[r].todo # <<>>
    /\ LET p == Head(walk[r].todo)
       IN  \/ /\ Applicable(r, p)
              /\ Fill(Applied(r, p))
              /\ Changed(r, {p})
              /\ Pop(r, p) /\ UNCHANGED <<pc, ans, temps>>
           \/ /\ TooLarge(r, p)
              /\ Finish(r, "large", {"upload", "staging"})
              /\ UNCHANGED <<files, disk, own, walk>>
           \/ /\ (~Applicable(r, p) /\ ~TooLarge(r, p)) \/ Fault("guest")
              /\ Finish(r, "err", {"upload", "staging"})
              /\ UNCHANGED <<files, disk, own, walk>>
           \/ /\ Applicable(r, p) /\ ext[r].tree[p].kind = "file" /\ Fault("guest")
              /\ Fill(Write(files, p, 0))
              /\ Changed(r, {p})
              /\ Finish(r, "err", {"upload", "staging"})
              /\ UNCHANGED walk
    /\ UNCHANGED <<backend, moves, useVars, job, ext, took>>

ImportWorkspaceArchive(r) ==
    /\ pc[r] = "apply" /\ walk[r].todo = <<>>
    /\ Goto(r, "measure")
    /\ UNCHANGED <<backend, wsVars, useVars, job, ans, ext, walk, own, took, temps>>

----------------------------------------------------------------------------
(* Export.  An error that the loops return does not reach the variable the *)
(* deferred clean-up looks at, so the temporary archive stays.             *)

(* The archive is made; opening the guest's stream may fail, which does    *)
(* remove it.                                                              *)
OpenArchive(r) ==
    /\ pc[r] = "export" /\ <<r, "export">> \notin temps
    /\ \/ temps' = temps \cup {<<r, "export">>} /\ UNCHANGED <<pc, ans>>
       \/ (Fault("host") \/ (Fault("guest") /\ backend = "qemu")) /\ Finish(r, "err", {"export"})
    /\ UNCHANGED <<backend, wsVars, useVars, job, ext, walk, own, took>>

Counted(r) == IF backend = "qemu" THEN files[walk[r].src].size ELSE Last(walk[r].arch).size

NameOf(w, p) == IF backend = "qemu" THEN GuestName(w, p) ELSE HostName(w, p)

Packed(r) ==
    LET w == walk[r]
    IN  IF w.src # Root THEN CopyData(w, files, Counted(r))
        ELSE IF w.todo # <<>> THEN Visit(w, files, NameOf(w, Head(w.todo)))
        ELSE Resolve(w, files)

(* There is something left to pack.                                        *)
Unpacking(w) == w.src # Root \/ w.todo # <<>> \/ w.paths # <<>>

(* A write to the archive that fails ends the walk.                        *)
Pack(r) ==
    /\ pc[r] = "export" /\ <<r, "export">> \in temps
    /\ Unpacking(walk[r])
    /\ \/ /\ walk' = [walk EXCEPT ![r] = Packed(r)]
          /\ IF Packed(r).res = "go" THEN UNCHANGED <<pc, ans, temps>>
             ELSE Finish(r, Packed(r).res, {})
       \/ Fault("host") /\ Finish(r, "err", {}) /\ UNCHANGED walk
    /\ UNCHANGED <<backend, wsVars, useVars, job, ext, own, took>>

(* The end of the walk; a guest's stream that is lost looks the same.      *)
AtEnd(r) ==
    /\ pc[r] = "export" /\ <<r, "export">> \in temps
    /\ ~Unpacking(walk[r]) \/ (backend = "qemu" /\ Fault("stream"))

(* The rest of the archive is in the writers' buffers and may not reach    *)
(* the disk.                                                               *)
Flushed(w) == {w} \cup IF Fault("host") THEN {[w EXCEPT !.cut = TRUE]} ELSE {}

(* Wrong: the QEMU backend drops the error of closing the archive too.     *)
CloseUnchecked(r) ==
    /\ AtEnd(r)
    /\ \E w \in Flushed(walk[r]) :
         walk' = [walk EXCEPT ![r] = w] /\ Goto(r, "send") /\ UNCHANGED <<ans, temps>>
    /\ UNCHANGED <<backend, wsVars, useVars, job, ext, own, took>>

(* The QEMU backend fails when the last entry lacks bytes or what is left  *)
(* cannot be written; the service's own walk defers the Close of its       *)
(* writers and drops their errors.  Either fails when the file itself does *)
(* not close.                                                              *)
CloseArchive(r) ==
    /\ AtEnd(r)
    /\ \/ \E w \in Flushed(walk[r]) :
            /\ walk' = [walk EXCEPT ![r] = w]
            /\ IF backend = "qemu" /\ (~Padded(w) \/ w.cut) THEN Finish(r, "err", {})
               ELSE Goto(r, "send") /\ UNCHANGED <<ans, temps>>
       \/ Fault("host") /\ Finish(r, "err", {}) /\ UNCHANGED walk
    /\ UNCHANGED <<backend, wsVars, useVars, job, ext, own, took>>

(* The router sends the archive and removes it.                            *)
handleWorkspaceExport(r) ==
    /\ pc[r] = "send"
    /\ Finish(r, "ok", {"export"})
    /\ UNCHANGED <<backend, wsVars, useVars, job, ext, walk, own, took>>

----------------------------------------------------------------------------
(* The storage in use.                                                     *)

(* refreshStorage measures, then stores; a request whose refresh fails     *)
(* reports an error although its change is made.                           *)
MeasureStorage(r) ==
    /\ pc[r] = "measure"
    /\ \/ /\ took' = [took EXCEPT ![r] = disk]
          /\ Goto(r, "store") /\ UNCHANGED <<ans, temps>>
       \/ Fault("host") /\ Finish(r, "err", {"upload", "staging"}) /\ UNCHANGED took
    /\ UNCHANGED <<backend, wsVars, useVars, job, ext, walk, own>>

UpdateStorageUsage(r) ==
    /\ pc[r] = "store"
    /\ \/ usage' = took[r] /\ stale' = FALSE /\ Finish(r, "ok", {"upload", "staging"})
       \/ /\ Fault("host")
          /\ Finish(r, "err", {"upload", "staging"})
          /\ UNCHANGED <<usage, stale>>
    /\ UNCHANGED <<backend, wsVars, tick, job, ext, walk, own, took>>

(* The refresh interval passes.                                            *)
Expire ==
    /\ ~stale
    /\ stale' = TRUE
    /\ UNCHANGED <<backend, wsVars, usage, tick, reqVars>>

(* Wrong: the test of the age is the other way around.                     *)
RefreshIfFresh ==
    /\ tick.pc = "idle" /\ backend = "qemu"
    /\ ~stale
    /\ tick' = [pc |-> "store", size |-> disk]
    /\ UNCHANGED <<backend, wsVars, usage, stale, reqVars>>

(* A pass of the reconcile loop refreshes a value that is too old.  (A     *)
(* pass that fails changes nothing and is followed by another.)            *)
refreshStorageIfStale ==
    /\ tick.pc = "idle" /\ backend = "qemu"
    /\ stale
    /\ tick' = [pc |-> "store", size |-> disk]
    /\ UNCHANGED <<backend, wsVars, usage, stale, reqVars>>

TickStores ==
    /\ tick.pc = "store"
    /\ usage' = tick.size /\ stale' = FALSE
    /\ tick' = [pc |-> "idle", size |-> 0]
    /\ UNCHANGED <<backend, wsVars, reqVars>>

----------------------------------------------------------------------------

(* A process in the sandbox makes, rewrites or removes a file.             *)
GuestChanges ==
    /\ moves > 0
    /\ moves' = moves - 1
    /\ \E p \in Paths :
         \/ \E n \in 0..MaxSize : CanWrite(files, p) /\ Fill(Write(files, p, n))
         \/ Fill(RemoveAll(files, p))
    /\ UNCHANGED <<backend, useVars, reqVars>>

Init ==
    /\ backend \in Backends
    /\ files \in {[Empty EXCEPT ![p] = File(1)] : p \in {q \in Paths : Parent[q] = Root}}
    /\ disk = 1 /\ usage = 1 /\ stale = FALSE
    /\ tick = [pc |-> "idle", size |-> 0]
    /\ \E load \in Loads : job = load.jobs /\ moves = load.moves
    /\ pc = [r \in Requests |-> "new"]
    /\ ans = [r \in Requests |-> "none"]
    /\ ext = [r \in Requests |-> Unpacked]
    /\ walk = [r \in Requests |-> Walk(<<>>)]
    /\ own = [r \in Requests |-> {}]
    /\ took = [r \in Requests |-> 0]
    /\ temps = {}

Serve(r) ==
    \/ Accept(r) \/ OpenRead(r) \/ ReadFile(r) \/ OpenFile(r) \/ WriteFileBytes(r)
    \/ DeleteFile(r) \/ Mkdir(r)
    \/ Upload(r) \/ Extract(r) \/ applyWorkspaceArchiveTree(r) \/ ImportWorkspaceArchive(r)
    \/ OpenArchive(r) \/ Pack(r) \/ CloseArchive(r) \/ handleWorkspaceExport(r)
    \/ MeasureStorage(r) \/ UpdateStorageUsage(r)

Refresh == refreshStorageIfStale \/ TickStores

Next == (\E r \in Requests : Serve(r)) \/ Expire \/ Refresh \/ GuestChanges

Spec == Init /\ [][Next]_vars

(* The handlers return, time passes, and the reconcile loop runs on.       *)
FairSpec ==
    /\ Spec
    /\ \A r \in Requests : WF_vars(Serve(r))
    /\ WF_vars(Expire) /\ WF_vars(Refresh)

----------------------------------------------------------------------------
(* Properties.                                                             *)

Done(r, op, answer) == pc[r] = "done" /\ job[r].op = op /\ ans[r] = answer

TypeOK ==
    /\ backend \in Backends
    /\ \A p \in Paths : /\ files[p].kind \in {"none", "dir", "file"}
                        /\ files[p].size \in 0..MaxSize
                        /\ (Parent[p] # Root /\ files[p].kind # "none")
                             => files[Parent[p]].kind = "dir"
    /\ disk \in Nat /\ usage \in Nat /\ stale \in BOOLEAN
    /\ \A r \in Requests : /\ pc[r] \in Steps
                           /\ (ans[r] = "none") = (pc[r] # "done")
                           /\ ans[r] \in {"none", "ok", "err", "bad", "large"}
    /\ temps \subseteq Requests \X {"upload", "staging", "export"}

(* A request that was refused for its form or its size has changed nothing *)
(* in the workspace: an import looks at the whole archive before the first *)
(* file is sent to the guest (ImportWorkspaceArchive).  The exception is   *)
(* an import within the service's limit that has a file over the guest's:  *)
(* the backend refuses that file in its turn, after those before it.       *)
RefusedChangesNothing ==
    \A r \in Requests : ans[r] \in {"bad", "large"} =>
        \/ own[r] = {}
        \/ ans[r] = "large" /\ job[r].op = "import" /\ \E p \in Paths : TooLarge(r, p)

(* An import that is reported done has made every file and directory of    *)
(* the archive, whatever failed on the way.                                *)
ImportIsWhole ==
    \A r \in Requests : Done(r, "import", "ok") => own[r] = Present(ext[r].tree)

(* No more than the transfer limit leaves the workspace in one answer, is  *)
(* packed into an archive or is unpacked into a staging directory, also    *)
(* when the guest changes the files while they are read.  A file read as   *)
(* bytes also keeps to the guest's limit (ensureWorkspaceTransferSize,     *)
(* agentReadWorkspaceFileBytesWithLimit, ExtractTarGz).                    *)
TransfersAreLimited ==
    \A r \in Requests :
        /\ Done(r, "read", "ok") =>
             took[r] <= IF job[r].raw THEN effectiveWorkspaceFileTransferMaxBytes ELSE MaxBytes
        /\ Done(r, "export", "ok") =>
             MapThenSumSet(LAMBDA i : walk[r].arch[i].got, DOMAIN walk[r].arch) <= MaxBytes
        /\ Total(ext[r].tree) <= MaxBytes

(* The archive of an export of a QEMU guest that is reported done can be   *)
(* unpacked: every entry has the bytes its header promises, although the   *)
(* files may change, grow and go during the walk, no name is there twice,  *)
(* although the requested paths may overlap, and its end is on the disk,   *)
(* although writing may fail (qemu.ExportWorkspaceArchive).                *)
ArchiveIsWellFormed ==
    \A r \in Requests : Done(r, "export", "ok") /\ backend = "qemu" =>
        /\ \A i \in DOMAIN walk[r].arch : walk[r].arch[i].got = walk[r].arch[i].size
        /\ IsInjective([i \in DOMAIN walk[r].arch |-> walk[r].arch[i].name])
        /\ ~walk[r].cut

(* The archive holds each of the paths that were asked for.                *)
HasRequested(r) ==
    ToSet(job[r].paths) \ {Root} \subseteq {walk[r].arch[i].name : i \in DOMAIN walk[r].arch}

(* An export of a workspace on the host that is reported done has all the  *)
(* paths that were asked for, although they may overlap, change and go     *)
(* during the walk (writeWorkspaceTarGz).  It may have lost its end when   *)
(* the host could not write what was buffered: that error is dropped.      *)
HostExportIsComplete ==
    \A r \in Requests : Done(r, "export", "ok") /\ backend # "qemu" =>
        HasRequested(r) \/ walk[r].cut

(* The archive of a workspace on the host that is reported done is on the  *)
(* disk to its end.  writeWorkspaceTarGz defers the Close of its gzip and  *)
(* tar writers, whose errors are lost.                                     *)
HostArchiveIsWhole ==
    \A r \in Requests : Done(r, "export", "ok") /\ backend # "qemu" => ~walk[r].cut

(* An export of a QEMU guest has at least as many entries as paths were    *)
(* asked for.  The guest agent names a requested file by its last element  *)
(* and passes over a second file of that name.                             *)
GuestExportIsComplete ==
    \A r \in Requests : Done(r, "export", "ok") /\ backend = "qemu" =>
        Cardinality(ToSet(job[r].paths) \ {Root}) <= Len(walk[r].arch)

(* The stored usage ends up as what the disk really takes, although        *)
(* measurements of overlapping requests may be stored in the wrong order   *)
(* and requests that fail half-way store none.                             *)
UsageConverges == backend = "qemu" => <>[](usage = disk)

=============================================================================
