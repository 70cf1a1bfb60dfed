----------------------------- MODULE ExecHandles -----------------------------
(***************************************************************************)
(* Commands run in a sandbox through a client program: docker exec, ctr    *)
(* task exec, and ssh for a QEMU guest without an agent.  An exec has four *)
(* parts that move on their own:                                           *)
(*   grp     the command in the guest, a process group of its own whose id *)
(*           a wrapper script writes to a pid file (not for Kata)          *)
(*   client  the client program on the host                                *)
(*   once    the cancellation, which runs at most once: it signals the     *)
(*           group through the pid file and then kills the client          *)
(*   end     the result the waiting goroutine draws up when the client has *)
(*           ended and its output is copied; res is what it publishes      *)
(* and an output stream, copied from a pipe to the caller and to a bounded *)
(* preview; a caller who is connected and does not read stalls the copy.   *)
(***************************************************************************)
EXTENDS ContainerEngine

CONSTANTS
    Execs,         \* the exec requests
    PreviewLimit,  \* bytes of output kept
    MaxOutput      \* bytes a command writes at most

VARIABLE exec

Idle ==
    [st |-> "idle", timeout |-> FALSE, ctx |-> FALSE,
     grp |-> "none", code |-> "ok", pidfile |-> "no", client |-> "none",
     watch |-> FALSE, once |-> "free", kind |-> "", hit |-> FALSE,
     out |-> 0, pipe |-> 0, buf |-> 0, truncated |-> FALSE, sink |-> "ok", lost |-> FALSE,
     end |-> "none", res |-> "none"]

(* The backends whose wrapper script records the group.                    *)
Tracks == backend \in {"docker", "qemu"}

Set(e, r) == exec' = [exec EXCEPT ![e] = r]

----------------------------------------------------------------------------
(* Starting.                                                               *)

(* A detached command is started by a client that returns at once.         *)
ExecDetached(e) ==
    /\ exec[e].st = "idle"
    /\ backend # "none"
    /\ \/ /\ box = "running"
          /\ Set(e, [exec[e] EXCEPT !.st = "done", !.grp = "up", !.res = "detached"])
       \/ /\ box # "running" \/ "cli" \in EngineFaults
          /\ Set(e, [exec[e] EXCEPT !.st = "done", !.res = "error"])

(* The client is started, and the goroutines of the handle with it.        *)
StartClient(e, timeout) ==
    /\ exec[e].st = "idle"
    /\ \/ Set(e, [exec[e] EXCEPT !.st = "wait", !.client = "up", !.timeout = timeout,
                                 !.watch = TRUE])
       \/ /\ "cli" \in EngineFaults
          /\ Set(e, [exec[e] EXCEPT !.st = "done", !.res = "error"])

DockerExec(e, timeout) == backend = "docker" /\ StartClient(e, timeout)

KataExec(e, timeout) == backend = "kata" /\ StartClient(e, timeout)

(* The ssh script exports the environment; an invalid name is refused      *)
(* before anything is started.                                             *)
SshExec(e, timeout) ==
    /\ backend = "qemu"
    /\ \/ StartClient(e, timeout)
       \/ /\ exec[e].st = "idle"
          /\ Set(e, [exec[e] EXCEPT !.st = "done", !.res = "error"])

----------------------------------------------------------------------------
(* The guest and the client.  Nothing moves in a paused container.         *)

(* The wrapper script starts the command, then records its group.          *)
GuestStarts(e) ==
    /\ exec[e].client # "none" /\ exec[e].grp = "none"
    /\ box = "running"
    /\ Set(e, [exec[e] EXCEPT !.grp = "up"])

GuestRecordsPid(e) ==
    /\ Tracks
    /\ exec[e].client # "none"
    /\ exec[e].grp # "none" /\ exec[e].pidfile = "no"
    /\ box = "running"
    /\ Set(e, [exec[e] EXCEPT !.pidfile = "yes"])

GuestExits(e) ==
    /\ exec[e].grp = "up"
    /\ box = "running"
    /\ \E code \in {"ok", "fail"} : Set(e, [exec[e] EXCEPT !.grp = "gone", !.code = code])

(* The client ends with the exit code of the script, or because the guest  *)
(* is not there.                                                           *)
ClientExits(e) ==
    /\ exec[e].client = "up"
    /\ \/ /\ exec[e].grp = "gone" /\ (Tracks => exec[e].pidfile # "no")
          /\ Set(e, [exec[e] EXCEPT !.client = exec[e].code])
       \/ /\ \/ exec[e].grp = "none" /\ box # "running"
             \/ exec[e].grp = "gone" /\ box # "running"
          /\ Set(e, [exec[e] EXCEPT !.client = "fail"])

(* The client loses its connection, or nobody reads its output any more.   *)
ClientFails(e) ==
    /\ exec[e].client = "up"
    /\ "cli" \in EngineFaults \/ exec[e].lost
    /\ Set(e, [exec[e] EXCEPT !.client = "fail"])

----------------------------------------------------------------------------
(* Output.                                                                 *)

Least(m, n) == IF m < n THEN m ELSE n

Keep(r, n) ==
    LET room == PreviewLimit - r.buf
    IN  [r EXCEPT !.buf = @ + Least(n, room), !.truncated = @ \/ n > room]

(* previewWriter.Write of n bytes for Docker and ssh: the caller gets them *)
(* first, which may take for ever, and nothing is kept when that fails.    *)
previewWrite(r, n) ==
    IF r.sink = "broken" THEN [r EXCEPT !.lost = TRUE] ELSE Keep(r, n)

(* For Kata: the bytes are kept first.                                     *)
KataPreviewWrite(r, n) == [Keep(r, n) EXCEPT !.lost = (r.sink = "broken")]

(* The command writes and the client passes it on.                         *)
GuestWrites(e) ==
    /\ exec[e].grp = "up" /\ exec[e].client = "up" /\ box = "running"
    /\ \E n \in 1..(MaxOutput - exec[e].out) :
          Set(e, [exec[e] EXCEPT !.out = @ + n, !.pipe = IF exec[e].lost THEN @ ELSE @ + n])

(* The goroutine of cmd that copies the output.  It ends with the first    *)
(* failed write.                                                           *)
CopyOutput(e) ==
    /\ exec[e].pipe > 0 /\ exec[e].sink # "stalled"
    /\ LET r == [exec[e] EXCEPT !.pipe = 0]
       IN  Set(e, IF Tracks THEN previewWrite(r, exec[e].pipe) ELSE KataPreviewWrite(r, exec[e].pipe))

(* The caller of a streaming request stops reading, goes on, or is gone,   *)
(* which shows when there is something to copy.                            *)
SinkChanges(e) ==
    /\ exec[e].pipe > 0 /\ exec[e].sink # "broken"
    /\ \E sink \in {"ok", "stalled", "broken"} \ {exec[e].sink} :
          Set(e, [exec[e] EXCEPT !.sink = sink])

----------------------------------------------------------------------------
(* Cancellation.                                                           *)

CtxCanceled(e) ==
    /\ exec[e].st = "wait" /\ ~exec[e].ctx
    /\ Set(e, [exec[e] EXCEPT !.ctx = TRUE])

(* Wrong: the cause is not stored before the kill.                         *)
CancelUnmarked(r, kind) ==
    IF r.once = "free" THEN [r EXCEPT !.once = "signal"] ELSE r

(* cancelOnce: a second cancellation does nothing.                         *)
cancel(r, kind) ==
    IF r.once = "free" THEN [r EXCEPT !.once = "signal", !.kind = kind] ELSE r

(* The handle kills the client.                                            *)
KillClient(r) ==
    [r EXCEPT !.client = IF @ = "up" THEN "killed" ELSE @,
              !.hit = @ \/ r.client = "up"]

(* The timer fired, or the request's context is done.                      *)
Due(e, kind) == IF kind = "timed_out" THEN exec[e].timeout ELSE exec[e].ctx

(* The watching goroutine takes what is due first.                         *)
Watch(e, kind) ==
    /\ Tracks
    /\ exec[e].watch /\ Due(e, kind)
    /\ Set(e, cancel([exec[e] EXCEPT !.watch = FALSE], kind))

(* For Kata the waiting goroutine does so itself; it kills the client and  *)
(* will report its choice when the client has ended.                       *)
KataSelect(e, kind) ==
    /\ backend = "kata"
    /\ exec[e].st = "wait" /\ exec[e].watch /\ Due(e, kind)
    /\ Set(e, [KillClient(exec[e]) EXCEPT !.watch = FALSE, !.kind = kind])

(* Tracked handles leave the watching goroutine behind when they are done. *)
WatchEnds(e) ==
    /\ exec[e].watch /\ Tracks /\ exec[e].res # "none"
    /\ Set(e, [exec[e] EXCEPT !.watch = FALSE])

(* The Kata client also runs under the request's context, which kills it   *)
(* on its own.                                                             *)
CommandContext(e) ==
    /\ backend = "kata"
    /\ exec[e].ctx /\ exec[e].client = "up"
    /\ Set(e, KillClient(exec[e]))

Cancel(e) ==
    /\ Tracks
    /\ exec[e].st \in {"wait", "publish"} /\ exec[e].once = "free"
    /\ Set(e, cancel(exec[e], "canceled"))

(* Cancel of a Kata handle kills the client and stores no cause.           *)
KataCancel(e) ==
    /\ backend = "kata"
    /\ exec[e].st = "wait" /\ exec[e].client = "up"
    /\ Set(e, KillClient(exec[e]))

(* killProcessGroup: TERM to the recorded group, which may ignore it; no   *)
(* pid file, nothing to signal.                                            *)
Terminate(e) ==
    /\ exec[e].once = "signal"
    /\ \/ /\ box = "running" /\ exec[e].pidfile = "yes"
          /\ \E grp \in {exec[e].grp, "gone"} :
                Set(e, [exec[e] EXCEPT !.once = "kill", !.grp = grp,
                                       !.hit = @ \/ (exec[e].grp = "up" /\ exec[e].st = "wait"),
                                       !.code = IF exec[e].grp = grp THEN @ ELSE "fail"])
       \/ /\ box # "running" \/ exec[e].pidfile # "yes" \/ "cli" \in EngineFaults
          /\ Set(e, [exec[e] EXCEPT !.once = "client"])

(* A second later KILL, and the pid file is removed.  The script is cut    *)
(* off when its five seconds are over.                                     *)
KillGroup(e) ==
    /\ exec[e].once = "kill"
    /\ \/ /\ box = "running"
          /\ Set(e, [exec[e] EXCEPT !.once = "client", !.grp = "gone", !.pidfile = "removed",
                                    !.code = IF exec[e].grp = "up" THEN "fail" ELSE @])
       \/ /\ box # "running" \/ "cli" \in EngineFaults
          /\ Set(e, [exec[e] EXCEPT !.once = "client"])

(* Wrong: the client is trusted to end with the command.                   *)
CancelLeavesClient(e) ==
    /\ exec[e].once = "client"
    /\ Set(e, [exec[e] EXCEPT !.once = "done"])

CancelEnds(e) ==
    /\ exec[e].once = "client"
    /\ Set(e, [KillClient(exec[e]) EXCEPT !.once = "done"])

----------------------------------------------------------------------------
(* The result.                                                             *)

(* Wrong: an error of the output copy is taken for success.                *)
StatusOfExit(r) ==
    IF r.kind # "" THEN r.kind
    ELSE IF r.client # "ok" THEN "failed" ELSE "succeeded"

(* cmd.Wait reports an exit code, or else the error of the output copy.  A *)
(* cancellation overrides both; Kata knows only the ones it chose itself.  *)
Status(r) ==
    IF r.kind # "" THEN r.kind
    ELSE IF r.client # "ok" \/ r.lost THEN "failed" ELSE "succeeded"

(* cmd.Wait returns when the client has ended and its output is copied.    *)
(* Then the cause, if there is one by now, is read (its two words are      *)
(* taken to be stored at once) ...                                         *)
WaitReturns(e) ==
    /\ exec[e].st = "wait"
    /\ exec[e].client \notin {"none", "up"}
    /\ exec[e].pipe = 0
    /\ Set(e, [exec[e] EXCEPT !.st = "publish", !.end = Status(exec[e]),
                              !.watch = @ /\ Tracks])

(* ... and the result is sent.                                             *)
Publish(e) ==
    /\ exec[e].st = "publish"
    /\ Set(e, [exec[e] EXCEPT !.st = "done", !.res = exec[e].end])

----------------------------------------------------------------------------

(* What an engine step does to the commands: they die with the container.  *)
GroupsFollow ==
    exec' = [e \in Execs |->
               IF exec[e].grp = "up" /\ box' \notin {"running", "paused"}
               THEN [exec[e] EXCEPT !.grp = "gone", !.code = "fail"] ELSE exec[e]]

ExecInit == exec = [e \in Execs |-> Idle]

Moves(e) ==
    \/ ClientExits(e) \/ CopyOutput(e) \/ WatchEnds(e)
    \/ \E kind \in {"timed_out", "canceled"} : Watch(e, kind) \/ KataSelect(e, kind)
    \/ CommandContext(e) \/ Terminate(e) \/ KillGroup(e) \/ CancelEnds(e) \/ WaitReturns(e)
    \/ Publish(e)

ExecNext(e) ==
    \/ ExecDetached(e)
    \/ \E timeout \in BOOLEAN :
          DockerExec(e, timeout) \/ KataExec(e, timeout) \/ SshExec(e, timeout)
    \/ GuestStarts(e) \/ GuestRecordsPid(e) \/ GuestExits(e) \/ ClientFails(e)
    \/ GuestWrites(e) \/ SinkChanges(e) \/ CtxCanceled(e) \/ Cancel(e) \/ KataCancel(e)
    \/ Moves(e)

=============================================================================
