# Verification of or3-sandbox

TLA+ models of or3-sandbox, checked with TLC on small instances and, where
marked, proved with TLAPS for every value of the constants. Paths are relative
to `src/`.

## The system

`sandboxd` is a single-node daemon. An HTTP router calls a service layer; the
service keeps rows in SQLite and drives a runtime backend (QEMU, Docker, Kata)
that owns the guests. A QEMU guest runs an agent the daemon talks to over one
virtio-serial port. Each HTTP request is a goroutine. A reconcile pass runs once
before the daemon serves and then on a ticker, concurrently with requests.

What makes it hard:

- a handler reads a row, calls the backend for seconds, and writes the *whole*
  row back, whatever the row has become (`Store.UpdateSandboxState`);
- only the reservation steps are serialised, by `admissionMu`;
- nearly every store call uses the request's context, so a client that hangs up
  makes the remaining writes fail;
- rows, guests and files survive a crash; handlers and the lock do not;
- reconcile lists, inspects and then writes without looking again;
- all calls into a QEMU guest share one connection, one read loop and one
  deadline, while the guest may be slow, silent or gone;
- a backend call is several host commands, each of which may fail or be killed
  after it took effect.

`PROJECT.json` lists every part of the system, every run, the source lines each
definition stands for, and every hazard with its line.

## Modules

| Part | Modules | Proofs |
| --- | --- | --- |
| sandbox lifecycle, admission, reconcile of sandboxes | `SandboxLifecycle`, over `QemuBackend` | `SandboxLifecycleProofs` |
| executions, reconcile of executions | `Executions`, implementing `SlotPool` | `ExecutionsProofs`, `SlotPoolProofs` |
| tunnels, signed links, proxy | `Tunnels`, implementing `SlotPool` | `TunnelsProofs` |
| snapshots, restore, reconcile of snapshots | `Snapshots` | `SnapshotsProofs` |
| QEMU runtime: pid file, marker, disks, process | `QemuProcess`, compared with `QemuBackend` | `QemuProcessProofs` |
| agent client, wire protocol, guest agent | `AgentSession` | |
| Docker and Kata runtimes, exec and terminal handles | `ContainerEngine`, `ExecHandles`, `Containers` | `ContainersProofs` |
| files, import, export, storage accounting | `Archives`, `Workspace` | |

`MC*` modules give the constants their values for TLC.

### State and actions

**`QemuBackend`** gives, for each backend call, the set of pairs (guest
afterwards, reported status) it may produce on a guest that is `none`,
`stopped`, `running`, `suspended` or `leaked` (alive, but with its pid file
removed). `Faults` names the host calls that may fail. It is what the service
relies on.

**`QemuProcess`** is the same backend step by step: `pidfile`, `marker`, `made`
(the disks) and `proc` (the QEMU processes) are the host, `call[c]` is a call
under way. A call is split wherever the code goes to the host again, so that the
guest may exit and the daemon may crash in between. `OutcomesAreContract` says
that each call ends with a pair `QemuBackend` allows for the guest it started
from, which is why `SandboxLifecycle` may take a backend call as one step. A
removal of the sandbox's directory may fail half-way, with any part of it gone;
the event `abandoned` says that a `Destroy` went on to it although its `Stop` had
failed.

**`SandboxLifecycle`**. `row` is the persisted status, `guest` the guest,
`req[r]` a request with its program counter and the status it will write, `rec`
the reconcile loop. Each store or backend call of a handler is one action. The
steps that start, stop, suspend, resume, create and delete share (write the
result, write the error, finish) are one action each, parameterised by the
operation. `Finish` collects the calls after the status write
(`UpdateRuntimeState`, `refreshStorage`, revoking tunnels, the last read), which
change no status but may fail. A denied policy or a failed read is a refusal.
`Serial` restricts clients to calls that do not overlap on one sandbox and start
from the documented status. It is an assumption about clients: the
counterexamples below show what happens without it. The ticker is on in every
run. Four history variables, which no step reads, name the rows that the
properties must set apart: `revived` (written after their delete), `unreserved`
(consuming capacity without a reservation), and `overlap` and `raced` (a request
was in flight on the sandbox between a pass's look and its write).

**`Executions`**. `row` is the execution record, `pc` the handler. A handler
checks the quota and inserts under `admissionMu`, launches, waits and records.
`orphaned` is status `canceled` written by reconcile. **`SlotPool`** is the
abstract promise: owners acquire at most `Limit` slots, and a slot once released
is spent. `Executions` implements it with held = running and spent = terminal.

**`Tunnels`**. `tun` is the tunnel row, `pc` the handler that creates it,
`ender[w]` a revocation by request or by stop, suspend, restore or delete (halt
the guest, list the tunnels, revoke each with its capabilities), `link` a signed
link, `proxy[p]` a request through a tunnel, which reads the tunnel, the
capability and the sandbox and consumes the capability in separate steps. A
request may name the link's capability or leave it out: a signature alone is
accepted for as long as it is valid, any number of times, and so is the cookie
it is exchanged for. Tunnels implement `SlotPool` with held = active.

**`Snapshots`**. `row` and `files` are the snapshot rows and directories,
`bundle` the exported copies, `ws` what each workspace holds. `CreateSnapshot` runs from the admission check through the
backend call, the copy, the seal, the ready write and the export, with
`failSnapshot` reachable from each; `RestoreSnapshot` fetches a bundle when the
files are missing and hands the row it read to the backend's restore. QEMU
unpacks the archive beside the disk (`QemuRestore`), removes the disk and makes
the new one (`createWorkspaceDisk`); Docker and Kata empty the workspace and
extract into it (`ClearWorkspace`, `ExtractWorkspace`). Stored archives may rot
at any time (`Damage`). Of a sandbox it keeps one status for row and guest.

**`AgentSession`**. `sess`, `table` and `loop` are the daemon's sessions, the
runtime's table of them and the read loops; `call[c]` and `strm[c]` a call and
its stream (registration, early events, channel); `guest[c]`, `toGuest`,
`toHost` and `port` the guest's handler and the wire. All kinds of call are
there: exec, file read and write, archive, terminal, bridge, ping and path
requests. Every message sent puts the deadline of the connection off for reads
too (`sess.fresh`), also the keystrokes and resizes of a terminal or the bytes of
a bridge (`HandleWrite`).

**`ContainerEngine`** has the lifecycle calls of Docker and Kata, one action per
`docker` or `ctr` command, over `box`, `net`, `dirs` and `capped`. A `ctr`
command may fail without having reached containerd, with an error text that
`isNotFoundErr` takes for a missing container.
**`ExecHandles`** adds commands run through a client program (`docker exec`,
`ctr task exec`, `ssh`), with preview buffers, timeout and cancellation; output
is copied to a stream of the caller that may stall or break, a result is drawn up
and published in two steps;
**`Containers`** adds terminals and bridges and composes the three.

**`Archives`** has one step of each packing and unpacking loop over trees of
files; **`Workspace`** the requests that use them (`job`, `pc`, `ext`, `walk`),
the guest that changes the same files (`files`, `disk`), the temporary files on
the host (`temps`) and the stored storage usage (`usage`, `stale`). The guest's
session has a transfer limit of its own (`GuestMax`); a read opens the file and
streams it in two steps; `walk.cut` says that the end of an archive was not
written.

## Runs

| Run | Shows |
| --- | --- |
| `lifecycle_serial` | with serial clients, ticker, cancellations, backend failures and a crash: `NodeCapacity`, `DeletedHasNoGuest`, `SettledRowsAreTrue` |
| `lifecycle_recovery` | with every fault, ticker and a crash: no row stays transitional, and every row becomes true |
| `lifecycle_locks` | with requests that overlap on one sandbox, ticker and cancellations: `SandboxQuota`, and every request returns, so `admissionMu` is always released |
| `exec_tick` | the exec quota, the refinement of `SlotPool`, and that running records are closed eventually, with ticker and crash |
| `snapshots` | a ready row has its data, a restore that answers ok has put the snapshot into the workspace, missing or damaged data never cost a QEMU sandbox its disk, no row stays `creating` |
| `tunnels` | the quota (as a refinement of `SlotPool`), revocation is final for every later request, a successful stop or delete closed what was open, a used one-time capability is spent |
| `agent_session` | replies reach their own request, streams are whole or known to be broken, an exec result is the guest's, a reported write is complete, no session is orphaned, and nobody waits for ever on a silent guest, unless a client, a terminal's reader or a stream of writes holds the session up |
| `qemu_process` | every outcome is one the lifecycle reckons with, and the pid file names the live guest until a `Destroy` gives it up |
| `containers` | what a call reports was true during the call, what it removes is gone, network and disk quota are in place, a killed command is reported as such, every wait ends |
| `workspace` | refused requests change nothing, imports are whole, transfers within the limit, archives readable, the stored usage converges |

Two runs end in a counterexample, on a disagreement between the code and its own
description; `PROJECT.json` quotes both sides:

| Run | What happens |
| --- | --- |
| `exec_live_canceled` | a tick closes the record of a live command |
| `snapshot_base_image` | the first snapshot of a QEMU sandbox removes the shared base image |

### Further disagreements

These configurations also end in a counterexample. They are kept beside the runs
and are run by hand (`tlc -config X.cfg M`):

| Configuration | Module | What happens |
| --- | --- | --- |
| `deleted_revived` | `MCSandboxLifecycle` | a reconcile pass with an old listing overwrites `deleted` (`internal/model/model.go:51`) |
| `deleted_leaks` | `MCSandboxLifecycle` | a delete retried after a failed stop drops the second stop's error and forgets a live guest (`internal/runtime/qemu/runtime.go:451`) |
| `running_quota` | `MCSandboxLifecycle` | overlapping starts exceed `MaxRunning`: `starting` is not counted (`docs/configuration.md:216`) |
| `tenant_starts` | `MCSandboxLifecycle` | creates without start exceed the limit on concurrent creates (`internal/config/config.go:153`) |
| `suspend_stopped` | `MCSandboxLifecycle` | suspending a stopped sandbox leaves the row `suspended` (`docs/runtimes.md:254`) |
| `touch_after_stop` | `MCSandboxLifecycle` | a request that outlives a stop writes `running` back (`internal/model/model.go:41`) |
| `stop_exited` | `QemuProcess` | a stop whose guest exits between two looks goes on with pid 0 (`planning/qemu-simplification/design.md:229` calls exited VMs recoverable) |
| `agent_attach` | `MCAgentSession` | `registerPTY` sends early events into a full channel before anyone reads it (`internal/runtime/qemu/runtime_test.go:405`) |
| `kata_create` | `MCContainers` | `ctr run --detach` starts the task although create reports `stopped` |
| `kata_destroy` | `MCContainers` | `Destroy` answers ok while the container is there: `ctr` did not reach containerd, and the error read like a missing container |
| `bridge_open` | `MCContainers` | opening a bridge waits a second time for an exit already received |
| `export_paths` | `MCWorkspace` | two requested files with one base name become one archive entry (`docs/api-reference.md:456`) |
| `export_close` | `MCWorkspace` | the service's own walk drops the errors of closing the archive, so an export that ends on a full disk is served cut short |

Three facts the models record without a property. Docker and Kata implement
neither file operations nor storage measurement, so for them every step that
refreshes the stored usage fails after its main effect
(`internal/runtime/registry/registry.go:255`), while `docs/usage.md:120`
promises the same flow as for QEMU. A failed export leaves its temporary archive
(`internal/runtime/qemu/archive.go:29`). A tick may close the row of a snapshot
that is still being taken, and the client is told `ready` of a row that says
`error`.

### Bounds

Two requests suffice for every race of two handlers, and the reconcile loop is a
further actor. Two sandboxes with a node limit of one, or with a quota of one,
let each limit be met and refused. `lifecycle_recovery` has one sandbox and one
request because rows recover independently of each other. One crash lets a
second run of the daemon meet what the first left. Three executions of two
tenants with a quota of one show contention and independence.

`snapshots` has two sandboxes (source and target), one snapshot and two
requests, for each backend with and without export. `tunnels` has two tunnels
with room for one, a link and two proxied requests, so that the second request
meets a consumed capability. `agent_session` runs nine pairs of calls that cover
each kind of stream against another and against a plain request; one early event
is kept where the code keeps 64, so that the buffer overflows. `qemu_process`
has one call at a time, three processes ever and two crashes. `containers`
starts from each state a call can meet (new, created by an older version,
running with an exec, a bridge and a terminal, of a runtime that is not
registered). `workspace` has a file at the top, a directory and a file in it with
the same base name, a limit of two for the service and of one for the guest's
session, and sizes up to three.

Requests are issued once, so instances come to rest: those runs do not check for
deadlock. Liveness properties say instead what must not wait. `lifecycle_serial`
uses the symmetry of requests; it checks no liveness.

### Fairness

A goroutine that can run runs: weak fairness of each request, call and read
loop, and of the loop that reconciles (left out of `lifecycle_locks`: requests
return whether or not passes do). Strong fairness of listing and of the
write to each row in `SandboxLifecycle` says the store does not fail the same
call in every pass. Deadlines pass (`AgentSession`, `ExecHandles`), and the
storage interval does (`Workspace`). Nothing is assumed of guests, of clients,
of the streams a command's output is written to (`AtCaller`), of readers of
terminals and bridges, or of exec handlers, since a command without a timeout may
run for ever. `Held` names what these can hold up, and `WaitsEnd` excepts it.

## Proofs

`SlotPoolProofs`: `PoolWithinLimit`, by induction on steps; acquiring adds one
slot to an owner below the limit.

`ExecutionsProofs`, from the assumptions that `Execs` is finite and the bounds
are natural numbers:

- `TypeCorrect`: `TypeOK` always holds.
- `ExecutionsImplementSlotPool`: the refinement. It needs the inductive
  invariant `IInv`: besides types, that only a handler at its insert holds the
  lock (`LockInv`), that it still has room for its record (`RoomInv`: nobody
  else can insert, and every other write only frees slots), and that a handler
  before its insert has no record, and one that will write holds a terminal
  result (`RecordInv`). Without `RoomInv` the insert is not an `Acquire`.
- `ExecQuotaHolds`: the quota, from the refinement and `PoolWithinLimit`.

`TunnelsProofs`, for any number of tunnels, links, requests and crashes, from
finite `Tunnels` and natural bounds:

- `RevokedStaysShutHolds`: a request that arrives after its tunnel was revoked
  gets neither page nor connection. `ShutInv` follows the request: whichever
  step it is at, a row it has seen active was active when it arrived.
- `EndRevokesTunnelsHolds`: a stop or delete answered with success has closed
  what was open when it began. `SweepInv` says that every such tunnel is down or
  still on the list of the sweep; it rests on `RowInv` (a row only ages).
- `UsedCapabilityIsSpentHolds`: a capability whose use was answered gives no page
  to a later request that names it. `UseInv` says that such an answer follows the
  spending of the capability, and that a request which knew of it finds it spent;
  `LinkStep` that capabilities only age. It is inductive with `TypeOK` alone, and
  assumes that no link is named like a session.
- `TunnelsImplementSlotPool`: as for executions, with `LockInv` and `RoomInv`,
  assuming the quota can be read (the code skips the check otherwise).

`SandboxLifecycleProofs`, for any number of sandboxes, tenants, requests and
crashes, with the ticker, from finite `Sandboxes` and bounds that are natural
numbers. The argument is in four layers, each inductive given the ones before:

- `ControlInv` (with `TypeCorrect`) assumes nothing. It says who holds the lock
  (`LockInv`), which rows a pass works on (`PassInv`), and of each handler what it
  knows of its operation (`Knows`). What it knows of the row as well is
  conditional on `Known`: clients are serial and no pass overlapped the handler,
  since either may overwrite the row under it.
- `CountInv` gives `SandboxQuotaHolds` and `NodeCapacityHolds`, for every
  interleaving and fault. The quota alone is not inductive: `RoomInv` says that
  the count a handler compared under the lock still has room at the insert,
  because nobody else can insert and every other write only frees room, revives a
  deleted row or adopts one. Those rows are set apart by `revived` and
  `unreserved`; `deleted_revived` shows one.
- `HostInv` gives `DeletedHasNoGuestHolds`, with every fault and the ticker but
  with `Serial`: a delete past its `Destroy`, and a rollback that will write
  `deleted`, have left nothing on the host but a process that could not be killed
  (`deleted_leaks`).
- `TruthInv` gives `SettledRowsAreTrueHolds`, with `Serial` and `Reliable`: a row
  says the truth about its guest unless its create is being rolled back, a
  handler is at work, the first pass has not reached it or the last pass over it
  was `raced`, and a handler or a pass that will write a status holds a true one.
  `Reliable` excludes a store that fails, guests that exit by themselves and
  processes that cannot be killed, since each makes a row wrong until the next
  pass; backend failures, failed probes, cancellations and crashes are covered.
  That wrong rows do not stay is `RowsBecomeTrue`, which is model-checked.

`SnapshotsProofs`, for any number of sandboxes, snapshots,
requests and crashes, every backend and every fault, from nonempty `Sandboxes`
and `Snaps` and configurations of the declared shape: `TypeCorrect`,
`ReadyHasDataHolds`, `RestoredIsSnapshotHolds` and `QemuRestoreStagesFirstHolds`.
The invariant `SnapInv` adds what handlers rely on (`Holds`): the directory of a
create is whole from its seal to its ready write, its row is not ready before
that, and a copy of a row that a restore
has held for a while names an export or an archive that is still there. A ready
row also has a create that wrote it (`Creator`); snapshot ids being new, no other
create works on its row or removes its directory. `RestoredInv` and `ExtractInv`
follow a restore through the backend: what it has put into the workspace by each
step. `ReadyHasData` makes three exceptions for a row without an export (its
sandbox was deleted, archives rot, its create was abandoned between the ready
write and the write that marks it failed); none for a row with one.

`QemuProcessProofs`: `ProcessIsTrackedHolds`, for one call at a time and any
faults, processes and crashes, until a `Destroy` has removed the directory of a
guest its `Stop` could not end. The invariant says of the call under way that the
pid it holds is still the pid file's, that what it is about to forget is dead,
and that it makes disks only for a sandbox without a process. On top of it,
`OutcomesAreContractHolds`: every call of the QEMU runtime is one of the
transitions of `QemuBackend`, the contract the lifecycle and snapshot modules are
built on. `CallsSee` says for each stage of a call what it knows of the guest and
of the suspended marker: its first look sees the guest it began with, a later one
the guest it brought up, and what it is about to kill is one of the two. It also
needs that a sandbox without disks has no pid file
(`NoStrayFile`). It is assumed that launches, file operations and probes may fail
(the contract lists those failures only then); processes may or may not be found
and killed.

`ContainersProofs`, for every row, backend and fault and any number of calls,
commands and connections, from `EngineAssumption` alone (the declared shapes of
the constants): `TypeCorrect` and the six safety properties of `Containers`.
`ContainersInv` is three invariants side by side, since calls, commands and
connections leave each other's state alone, but for the commands that die with
their container:

- `EngineInv` gives `DestroyedIsGoneHolds`, `ContainerIsConfinedHolds` and
  `AnswersWereTrueHolds`. `Steps` says what a call has done by each of its
  commands (the network is there when the container is made, the container is
  gone when the network is removed, the quota was left out only for an engine
  that refused it), `Looks` that a call in progress has seen the container as
  it is, so that an exit between two commands is seen too. Two exceptions are
  Kata's: a `Destroy` whose last `ctr` command did not reach containerd
  (`kata_destroy`), and the answers of `Create` and `Stop`, which return `stopped`
  without looking (`kata_create`).
- `ExecInv` gives `KillIsReportedHolds` and `SucceededIsDeliveredHolds`. `Agree`
  says that the cause of a cancellation is stored before anything is hit, that a
  result after a hit is that cause (`Honest`; Kata kills clients without storing
  one, and its result may then be `failed`), and that a client which ends well ended after
  its command; `Previewed` that the preview is the beginning of the output unless
  a write was lost, which the result then shows.
- `ConnInv` gives `ConnectionsEndHolds`: a program whose `Wait` has returned is
  gone, whoever of the opener, the closer and the reaper waited for it.

Only model-checked, and why:

- Liveness (`NoRowStaysTransitional`, `RowsBecomeTrue`, `RequestsFinish`, `SlotsAreReturned`,
  `IncompleteIsClosed`, `WaitsEnd`, `WaitEnds`, `UsageConverges`): the prover
  handles neither fairness nor `ENABLED`.
- `StreamsAreWhole`, `WriteIsWhole`, `ImportIsWhole`, `TransfersAreLimited`,
  `HostExportIsComplete`: they say what a loop over a sequence or a tree has
  computed, which needs induction over data.
- The remaining properties of `AgentSession` and `Workspace`: no proof has been
  written.

Each module states its type invariant `TypeOK`; it is proved for `Executions`,
`Tunnels`, `SandboxLifecycle`, `Snapshots` and `Containers` and holds on the instances of the
other runs.

## Not modelled

- Authentication, policy, presets, configuration and image metadata: pure
  predicates or parsing of one request; a refusal is one of the refusals of a
  handler's entry checks.
- CPU, memory, disk and free-space limits: sums checked at the same place and
  under the same lock as the counts that are modelled.
- Two calls of the QEMU runtime on one sandbox interleaving inside the backend:
  the service does not exclude them, but nothing is promised for them, and
  `ProcessIsTracked` fails when a lookup removes the pid file a concurrent start
  has just written.
- Two restores into one sandbox at once, for the same reason.
- The byte framing of agent messages, tar and gzip formats, HTTP and websocket
  copying, command lines, guest set-up, `sandboxctl`, logging, metrics and audit
  rows: data and I/O that no decision of the modelled parts reads.
- TTY session rows: written once when opened and once when closed.
- The rate limiter: a token bucket of a library.
