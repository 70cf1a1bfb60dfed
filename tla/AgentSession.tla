---------------------------- MODULE AgentSession ----------------------------
(***************************************************************************)
(* The control channel between the daemon and one QEMU guest: the sessions *)
(* the runtime keeps per sandbox (agent_client.go), the calls that share   *)
(* them, and the guest agent at the other end of the virtio port           *)
(* (cmd/or3-guest-agent).  A call is one exec, file read, file write,      *)
(* archive export, terminal, port bridge, ping or path request; it opens a *)
(* stream in the guest with a request, and the stream's events come back   *)
(* on the session's one read loop, mixed with those of other calls.        *)
(*                                                                         *)
(* Request ids never repeat (a process-wide counter): an id is the call    *)
(* with the number of its request.  A stream is named by its call, and its *)
(* data events are numbered 1..Events; Eof ends it, Fail ends it with an  *)
(* error.                                                                  *)
(***************************************************************************)
EXTENDS Naturals, Sequences

CONSTANTS
    Calls,
    Mixes,          \* the assignments of kinds to calls that are explored
    Unstable,       \* those of them in which the machine may exit
    Limit,          \* maxBufferedAgent...Events, also the channels' capacity
    Events,         \* data events of a whole stream
    PortCap,        \* messages the port holds before the guest has to wait
    MaxSessions,    \* sessions ever opened
    MaxPid          \* incarnations of the virtual machine

Kinds == {"none", "ping", "path", "exec", "read", "write", "archive", "pty", "bridge"}

ChanKinds == {"exec", "read", "archive"}     \* streams read from a channel

PipeKinds == {"pty", "bridge"}               \* streams copied into a pipe

StreamKinds == ChanKinds \cup PipeKinds

Eof == Events + 1

Fail == Events + 2

Terminal == {Eof, Fail}

Sessions == 1..MaxSessions

ASSUME BoundsAssumption ==
    /\ {Limit, Events, PortCap, MaxSessions, MaxPid} \subseteq Nat \ {0}
    /\ \A mix \in Mixes : mix \in [Calls -> Kinds]

VARIABLES
    kind,           \* the kind of each call
    call,           \* the goroutine of each call
    strm,           \* the host's end of each call's stream
    sess,           \* the sessions opened so far
    table,          \* the session registered for the sandbox, 0 for none
    loop,           \* what the read loop of each session is doing
    port,           \* the session connected to the virtio port, 0 for none
    toGuest, toHost,\* the bytes in the port, as messages
    guest,          \* the guest's end of each call's stream
    pid,            \* the machine's process, 0 while there is none
    boots,
    panicked        \* the daemon died on a send to a closed channel

vars == <<kind, call, strm, sess, table, loop, port, toGuest, toHost, guest, pid, boots, panicked>>

NoMsg == [t |-> "none", c |-> 0, n |-> 0, ok |-> FALSE]

Reply(c, n, ok) == [t |-> "reply", c |-> c, n |-> n, ok |-> ok]

Event(c, n) == [t |-> "event", c |-> c, n |-> n, ok |-> TRUE]

Ask(op, c, n) == [op |-> op, c |-> c, n |-> n]

Open(s) == s # 0 /\ sess[s].st = "open"

Goto(c, to) == call' = [call EXCEPT ![c] = [@ EXCEPT !.pc = to, !.reply = NoMsg]]

Return(c, res) ==
    call' = [call EXCEPT ![c] = [@ EXCEPT !.pc = "done",
                                          !.res = IF call[c].phase = "unregister" THEN @ ELSE res,
                                          !.phase = "open", !.reply = NoMsg, !.pid = 0, !.via = 0]]

-----------------------------------------------------------------------------
(* Closing sessions.                                                       *)

(* agentSession.close: the tables are taken away, waiting requests see     *)
(* their channel closed, and every registered stream is closed.  A read    *)
(* loop that already holds the channel of a stream still sends on it.      *)
HungUp(S) ==
    /\ sess' = [s \in Sessions |-> IF s \in S /\ Open(s)
                                   THEN [sess[s] EXCEPT !.st = "closed", !.pending = {}, !.out = <<>>, !.fresh = FALSE]
                                   ELSE sess[s]]
    /\ strm' = [c \in Calls |-> IF call[c].on \in S
                                THEN [strm[c] EXCEPT !.reg = IF @ = "yes" THEN "closed" ELSE @,
                                                     !.buf = <<>>]
                                ELSE strm[c]]
    /\ loop' = loop
    /\ port' = IF port \in S THEN 0 ELSE port
    /\ toHost' = IF port \in S THEN <<>> ELSE toHost

NothingClosed == UNCHANGED <<sess, strm, loop, port, toHost>>

(* invalidate: stop, destroy, restore, an inspection that finds no process *)
(* and a failed ping drop whatever session is registered.                  *)
Invalidate ==
    /\ table # 0
    /\ HungUp({table})
    /\ table' = 0
    /\ UNCHANGED <<kind, call, toGuest, guest, pid, boots, panicked>>

-----------------------------------------------------------------------------
(* ensureAgentSession.                                                     *)

Begin(c) ==
    /\ call[c].pc = "idle" /\ kind[c] # "none"
    /\ Goto(c, "ensure")
    /\ UNCHANGED <<kind, strm, sess, table, loop, port, toGuest, toHost, guest, pid, boots, panicked>>

(* liveSandboxPID, before the table is locked.                             *)
ReadPid(c) ==
    /\ call[c].pc = "ensure"
    /\ IF pid = 0 THEN Return(c, "err")
       ELSE call' = [call EXCEPT ![c] = [@ EXCEPT !.pc = "table", !.pid = pid]]
    /\ UNCHANGED <<kind, strm, sess, table, loop, port, toGuest, toHost, guest, pid, boots, panicked>>

(* With a session in hand the call sends its request; the export's         *)
(* deferred call only looks for its stream in it.                          *)
Ensured(c, s) ==
    call' = [call EXCEPT ![c] = IF @.phase = "unregister" THEN [@ EXCEPT !.pc = "unregister", !.via = s]
                                ELSE [@ EXCEPT !.pc = "send", !.on = s]]

(* A registered session of this process that is still open is used again;  *)
(* any other one is dropped.                                               *)
CheckTable(c) ==
    /\ call[c].pc = "table"
    /\ IF Open(table) /\ sess[table].pid = call[c].pid
       THEN Ensured(c, table) /\ NothingClosed /\ table' = table
       ELSE Goto(c, "dial") /\ HungUp({table}) /\ table' = 0
    /\ UNCHANGED <<kind, toGuest, guest, pid, boots, panicked>>

(* openAgentSession: dialling waits for the socket and gives up with the   *)
(* caller's deadline.  The machine serves one connection at a time.        *)
Dial(c) ==
    /\ call[c].pc = "dial"
    /\ \/ Return(c, "err") /\ UNCHANGED sess
       \/ \E s \in Sessions :
            /\ pid # 0 /\ sess[s].st = "none" /\ \A r \in 1..(s - 1) : sess[r].st # "none"
            /\ sess' = [sess EXCEPT ![s] = [@ EXCEPT !.st = "open", !.pid = call[c].pid, !.vm = pid]]
            /\ call' = [call EXCEPT ![c] = [@ EXCEPT !.pc = "install", !.via = s]]
    /\ UNCHANGED <<kind, strm, table, loop, port, toGuest, toHost, guest, pid, boots, panicked>>

(* Wrong: the new session is registered whatever the table holds by now.   *)
InstallAlways(c) ==
    /\ call[c].pc = "install"
    /\ table' = call[c].via /\ Ensured(c, call[c].via) /\ NothingClosed
    /\ UNCHANGED <<kind, toGuest, guest, pid, boots, panicked>>

(* The new session is registered unless another call was faster; then it   *)
(* is closed again and the other one is used, or the search starts over.   *)
Install(c) ==
    /\ call[c].pc = "install"
    /\ IF ~Open(table)
       THEN table' = call[c].via /\ Ensured(c, call[c].via) /\ NothingClosed
       ELSE /\ table' = table
            /\ HungUp({call[c].via})
            /\ IF sess[table].pid = call[c].pid THEN Ensured(c, table) ELSE Goto(c, "ensure")
    /\ UNCHANGED <<kind, toGuest, guest, pid, boots, panicked>>

-----------------------------------------------------------------------------
(* roundTrip and send.                                                     *)

(* The message goes out, or waits in the socket of a connection the        *)
(* machine has not accepted yet.                                           *)
Written(s, m, pending) ==
    IF port = s
    THEN toGuest' = Append(toGuest, m) /\ sess' = [sess EXCEPT ![s] = [@ EXCEPT !.pending = pending]]
    ELSE toGuest' = toGuest
         /\ sess' = [sess EXCEPT ![s] = [@ EXCEPT !.pending = pending, !.out = Append(@, m)]]

(* The request of the current phase: "open", or "close" of a file.         *)
Send(c) ==
    /\ call[c].pc = "send"
    /\ LET s == call[c].on
           n == call[c].n + 1
       IN  IF Open(s)
           THEN /\ Written(s, Ask(call[c].phase, c, n), sess[s].pending \cup {<<c, n>>})
                /\ call' = [call EXCEPT ![c] = [@ EXCEPT !.pc = "await", !.n = n, !.reply = NoMsg]]
           ELSE call' = [call EXCEPT ![c] = [@ EXCEPT !.pc = "failed"]] /\ UNCHANGED <<sess, toGuest>>
    /\ UNCHANGED <<kind, strm, table, loop, port, toHost, guest, pid, boots, panicked>>

(* The answer arrived.  A read may find the file larger than the limit and *)
(* return without taking the stream it just opened.                        *)
Answered(c) ==
    /\ call[c].pc = "await" /\ call[c].reply # NoMsg
    /\ LET k == kind[c] IN
       IF ~call[c].reply.ok THEN Goto(c, "failed")
       ELSE IF call[c].phase = "close" THEN Return(c, "ok")
       ELSE \/ k \in {"ping", "path"} /\ Return(c, "ok")
            \/ k \in StreamKinds /\ Goto(c, "register")
            \/ k = "read" /\ Return(c, "err")
            \/ k = "write" /\ Goto(c, "put")
    /\ UNCHANGED <<kind, strm, sess, table, loop, port, toGuest, toHost, guest, pid, boots, panicked>>

(* The deadline of the caller passed: the request is forgotten.            *)
Expired(c) ==
    /\ call[c].pc = "await"
    /\ sess' = [sess EXCEPT ![call[c].on] = [@ EXCEPT !.pending = @ \ {<<c, call[c].n>>}]]
    /\ Goto(c, "failed")
    /\ UNCHANGED <<kind, strm, table, loop, port, toGuest, toHost, guest, pid, boots, panicked>>

(* closeCh, or the closed response channel.                                *)
Dropped(c) ==
    /\ call[c].pc = "await" /\ ~Open(call[c].on)
    /\ Goto(c, "failed")
    /\ UNCHANGED <<kind, strm, sess, table, loop, port, toGuest, toHost, guest, pid, boots, panicked>>

(* A failed ping invalidates the session registered by now.  A read that   *)
(* has its data tolerates a failed close.                                  *)
Failed(c) ==
    /\ call[c].pc = "failed"
    /\ Return(c, IF kind[c] = "read" /\ call[c].phase = "close" THEN "ok" ELSE "err")
    /\ IF kind[c] = "ping"
       THEN table' = 0 /\ HungUp({table})
       ELSE table' = table /\ NothingClosed
    /\ UNCHANGED <<kind, toGuest, guest, pid, boots, panicked>>

(* agentWriteWorkspaceFileBytes sends the chunks without waiting, then     *)
(* closes the file with a request.                                         *)
Put(c) ==
    /\ call[c].pc = "put"
    /\ IF ~Open(call[c].on) THEN Return(c, "err") /\ UNCHANGED <<sess, toGuest, strm>>
       ELSE /\ Written(call[c].on, Ask("data", c, strm[c].got + 1), sess[call[c].on].pending)
            /\ strm' = [strm EXCEPT ![c] = [@ EXCEPT !.got = @ + 1]]
            /\ call' = IF strm[c].got + 1 = Events
                       THEN [call EXCEPT ![c] = [@ EXCEPT !.pc = "send", !.phase = "close"]] ELSE call
    /\ UNCHANGED <<kind, table, loop, port, toHost, guest, pid, boots, panicked>>

-----------------------------------------------------------------------------
(* The read loop of a session.                                             *)

(* Wrong: a reply is given to any request of the same kind.                *)
deliverPendingByOp(s, m) ==
    \E r \in sess[s].pending :
        /\ kind[r[1]] = kind[m.c] /\ r[2] = m.n
        /\ sess' = [sess EXCEPT ![s] = [@ EXCEPT !.pending = @ \ {r}]]
        /\ call' = [call EXCEPT ![r[1]] = IF kind[m.c] = "exec" /\ m.n = 2
                                          THEN [@ EXCEPT !.canc = "done"] ELSE [@ EXCEPT !.reply = m]]

(* A reply goes to the request with its id.  The second request of an exec *)
(* is its cancellation, made by another goroutine than the one that waits. *)
deliverPending(s, m) ==
    /\ <<m.c, m.n>> \in sess[s].pending
    /\ sess' = [sess EXCEPT ![s] = [@ EXCEPT !.pending = @ \ {<<m.c, m.n>>}]]
    /\ call' = [call EXCEPT ![m.c] = IF kind[m.c] = "exec" /\ m.n = 2
                                     THEN [@ EXCEPT !.canc = "done"] ELSE [@ EXCEPT !.reply = m]]

(* The stream of a message is registered in this session.                  *)
Registered(s, c) == call[c].on = s /\ strm[c].reg = "yes"

(* The message reaches no stream: an event nobody registered for yet is    *)
(* kept, dropped when Limit events are; an event of a stream this session  *)
(* does not know is kept for nobody.                                       *)
buffered(s, m) ==
    strm' = IF call[m.c].on # s \/ strm[m.c].reg # "no" THEN strm
            ELSE [strm EXCEPT ![m.c] = IF Len(@.buf) < Limit THEN [@ EXCEPT !.buf = Append(@, m.n)]
                                       ELSE [@ EXCEPT !.lost = TRUE]]

(* A reply nobody waits for ends the session, as does an event of an       *)
(* unregistered bridge.  The reply that opens an archive is an event.      *)
Unexpected(s, m) ==
    IF m.t = "reply" THEN <<m.c, m.n>> \notin sess[s].pending /\ kind[m.c] # "archive"
    ELSE kind[m.c] = "bridge" /\ ~Registered(s, m.c)

readLoop(s) ==
    /\ Open(s) /\ port = s /\ toHost # <<>> /\ loop[s] = NoMsg
    /\ LET m == Head(toHost) IN
       \/ /\ m.t = "reply" /\ deliverPending(s, m)
          /\ toHost' = Tail(toHost) /\ UNCHANGED <<strm, loop, port>>
       \/ /\ m.t = "event" /\ Registered(s, m.c)
          /\ loop' = [loop EXCEPT ![s] = m] /\ toHost' = Tail(toHost)
          /\ UNCHANGED <<call, strm, sess, port>>
       \/ /\ m.t = "event" /\ ~Registered(s, m.c) /\ kind[m.c] # "bridge"
          /\ buffered(s, m) /\ toHost' = Tail(toHost) /\ UNCHANGED <<call, sess, loop, port>>
       \/ /\ m.t = "reply" /\ <<m.c, m.n>> \notin sess[s].pending /\ kind[m.c] = "archive"
          /\ toHost' = Tail(toHost) /\ UNCHANGED <<call, strm, sess, loop, port>>
       \/ Unexpected(s, m) /\ HungUp({s}) /\ UNCHANGED call
    /\ UNCHANGED <<kind, table, toGuest, guest, pid, boots, panicked>>

(* The loop holds the channel of a stream and sends on it, waiting while   *)
(* it is full; the terminal event closes it.  Sending on a channel that    *)
(* was closed in between panics.                                           *)
SendEvent(s) ==
    /\ loop[s].t = "event" /\ kind[loop[s].c] \in ChanKinds
    /\ LET c == loop[s].c IN
       \/ strm[c].reg = "closed" /\ panicked' = TRUE /\ UNCHANGED <<strm, loop>>
       \/ /\ strm[c].reg = "yes" /\ Len(strm[c].chan) < Limit
          /\ strm' = [strm EXCEPT ![c] = [@ EXCEPT !.chan = Append(@, loop[s].n),
                                                   !.reg = IF loop[s].n \in Terminal THEN "closed" ELSE @]]
          /\ loop' = [loop EXCEPT ![s] = NoMsg]
          /\ UNCHANGED panicked
    /\ UNCHANGED <<kind, call, sess, table, port, toGuest, toHost, guest, pid, boots>>

(* Data for a pipe waits for the reader (see PipeRead); the end of the     *)
(* stream closes it, and a closed pipe takes nothing.                      *)
WritePipe(s) ==
    /\ loop[s].t = "event" /\ kind[loop[s].c] \in PipeKinds
    /\ strm[loop[s].c].reg = "closed" \/ loop[s].n \in Terminal
    /\ strm' = [strm EXCEPT ![loop[s].c] = [@ EXCEPT !.reg = "closed"]]
    /\ loop' = [loop EXCEPT ![s] = NoMsg]
    /\ UNCHANGED <<kind, call, sess, table, port, toGuest, toHost, guest, pid, boots, panicked>>

(* Wrong: only writes have a deadline.                                     *)
WriteDeadline(s) == FALSE /\ UNCHANGED vars

(* Every write sets the deadline of the whole connection, reads included:  *)
(* when nothing is written until then the next read fails, whether or not  *)
(* there are bytes to read, and ends the session.  Calls write a few       *)
(* messages each, so the deadline may pass any time after one of them; the *)
(* users of terminals and bridges put it off for as long as they write.    *)
ReadDeadline(s) ==
    /\ Open(s) /\ loop[s] = NoMsg /\ ~sess[s].fresh
    /\ \E c \in Calls : call[c].on = s /\ call[c].n > 0
    /\ HungUp({s})
    /\ UNCHANGED <<kind, call, table, toGuest, guest, pid, boots, panicked>>

(* The deadline that a user's write set comes closer.                      *)
TimePasses(s) ==
    /\ sess[s].fresh
    /\ sess' = [sess EXCEPT ![s] = [@ EXCEPT !.fresh = FALSE]]
    /\ UNCHANGED <<kind, call, strm, table, loop, port, toGuest, toHost, guest, pid, boots, panicked>>

(* The machine is gone, and with it the socket.                            *)
ReadBroken(s) ==
    /\ Open(s) /\ loop[s] = NoMsg /\ sess[s].vm # pid
    /\ HungUp({s})
    /\ UNCHANGED <<kind, call, table, toGuest, guest, pid, boots, panicked>>

-----------------------------------------------------------------------------
(* The calls' ends of their streams.                                       *)

(* Wrong: events that came early are not handed on.                        *)
RegisterAnew(c) ==
    /\ call[c].pc = "register"
    /\ IF ~Open(call[c].on) THEN Return(c, "err") /\ UNCHANGED strm
       ELSE /\ strm' = [strm EXCEPT ![c] = [@ EXCEPT !.buf = <<>>, !.reg = "yes"]]
            /\ Goto(c, "stream")
    /\ UNCHANGED <<kind, sess, table, loop, port, toGuest, toHost, guest, pid, boots, panicked>>

(* registerExec, registerFile, registerArchive: the events that came early *)
(* go into the new channel.  registerPTY copies them into the pipe, before *)
(* its caller has a handle to read from.  Bridges keep no early events.    *)
Register(c) ==
    /\ call[c].pc = "register"
    /\ IF ~Open(call[c].on) THEN Return(c, "err") /\ UNCHANGED strm
       ELSE LET early == strm[c].buf IN
            IF kind[c] = "pty"
            THEN /\ strm' = [strm EXCEPT ![c] = [@ EXCEPT !.reg = "yes"]]
                 /\ Goto(c, IF early = <<>> THEN "stream" ELSE "drain")
            ELSE /\ strm' = [strm EXCEPT ![c] =
                               [@ EXCEPT !.chan = early, !.buf = <<>>,
                                         !.reg = IF \E i \in DOMAIN early : early[i] \in Terminal THEN "closed" ELSE "yes"]]
                 /\ Goto(c, "stream")
    /\ UNCHANGED <<kind, sess, table, loop, port, toGuest, toHost, guest, pid, boots, panicked>>

(* Nobody reads the pipe yet: only the end of the stream goes through, or  *)
(* the end of the session.                                                 *)
Drain(c) ==
    /\ call[c].pc = "drain"
    /\ strm[c].reg = "yes" => Head(strm[c].buf) \in Terminal
    /\ strm' = [strm EXCEPT ![c] = [@ EXCEPT !.reg = "closed", !.buf = <<>>]]
    /\ Goto(c, "stream")
    /\ UNCHANGED <<kind, sess, table, loop, port, toGuest, toHost, guest, pid, boots, panicked>>

(* What a stream has seen once it got event n.                             *)
Got(r, n) ==
    IF n \in Terminal THEN [r EXCEPT !.ended = TRUE]
    ELSE [r EXCEPT !.got = @ + 1, !.whole = @ /\ n = r.got + 1]

(* The next event in the channel of an exec is output, which its goroutine *)
(* writes to the caller's stream: that may block for as long as the caller *)
(* does not read.                                                          *)
AtCaller(c) ==
    /\ call[c].pc = "stream" /\ kind[c] = "exec" /\ strm[c].chan # <<>>
    /\ Head(strm[c].chan) \notin Terminal

(* The next event of a channel.  The terminal one ends the call with the   *)
(* guest's result; a file is then closed, an export's stream unregistered. *)
Receive(c) ==
    /\ call[c].pc = "stream" /\ kind[c] \in ChanKinds /\ strm[c].chan # <<>>
    /\ LET n == Head(strm[c].chan) IN
       /\ strm' = [strm EXCEPT ![c] = [Got(@, n) EXCEPT !.chan = Tail(@)]]
       /\ IF n \notin Terminal THEN UNCHANGED call
          ELSE CASE kind[c] = "exec" -> Return(c, "ok")
                 [] kind[c] = "read" /\ n = Fail -> Return(c, "err")
                 [] kind[c] = "read" /\ n = Eof ->
                      call' = [call EXCEPT ![c] = [@ EXCEPT !.pc = "send", !.phase = "close"]]
                 [] kind[c] = "archive" ->
                      call' = [call EXCEPT ![c] = [@ EXCEPT !.pc = "ensure", !.phase = "unregister",
                                                            !.res = IF n = Eof THEN "ok" ELSE "err"]]
    /\ UNCHANGED <<kind, sess, table, loop, port, toGuest, toHost, guest, pid, boots, panicked>>

(* Wrong: the end of the channel is taken for the end of the command.      *)
StreamEndedOk(c) ==
    /\ call[c].pc = "stream" /\ kind[c] \in ChanKinds
    /\ strm[c].chan = <<>> /\ strm[c].reg = "closed"
    /\ \/ kind[c] = "exec" /\ Return(c, "ok")
       \/ kind[c] = "read" /\ call' = [call EXCEPT ![c] = [@ EXCEPT !.pc = "send", !.phase = "close"]]
       \/ kind[c] = "archive" /\ \E res \in {"ok", "err"} :
            call' = [call EXCEPT ![c] = [@ EXCEPT !.pc = "ensure", !.phase = "unregister", !.res = res]]
    /\ UNCHANGED <<kind, strm, sess, table, loop, port, toGuest, toHost, guest, pid, boots, panicked>>

(* The channel was closed without a terminal event.  An exec fails; a read *)
(* goes on with what it has, and so does an export unless it is inside a   *)
(* file.                                                                   *)
StreamEnded(c) ==
    /\ call[c].pc = "stream" /\ kind[c] \in ChanKinds
    /\ strm[c].chan = <<>> /\ strm[c].reg = "closed"
    /\ \/ kind[c] = "exec" /\ Return(c, "err")
       \/ kind[c] = "read" /\ call' = [call EXCEPT ![c] = [@ EXCEPT !.pc = "send", !.phase = "close"]]
       \/ kind[c] = "archive" /\ \E res \in {"ok", "err"} :
            call' = [call EXCEPT ![c] = [@ EXCEPT !.pc = "ensure", !.phase = "unregister", !.res = res]]
    /\ UNCHANGED <<kind, strm, sess, table, loop, port, toGuest, toHost, guest, pid, boots, panicked>>

(* A chunk breaks the transfer limit, or cannot be used: a read drops its  *)
(* stream at once, an export asks for a session first.                     *)
GiveUp(c) ==
    /\ call[c].pc = "stream" /\ kind[c] \in {"read", "archive"} /\ strm[c].chan # <<>>
    /\ IF kind[c] = "read"
       THEN /\ Return(c, "err")
            /\ strm' = [strm EXCEPT ![c] = [@ EXCEPT !.reg = "closed", !.chan = <<>>]]
       ELSE /\ call' = [call EXCEPT ![c] = [@ EXCEPT !.pc = "ensure", !.phase = "unregister", !.res = "err"]]
            /\ strm' = [strm EXCEPT ![c] = [@ EXCEPT !.chan = Tail(@)]]
    /\ UNCHANGED <<kind, sess, table, loop, port, toGuest, toHost, guest, pid, boots, panicked>>

(* The export unregisters its stream in the session it finds by now.       *)
Unregister(c) ==
    /\ call[c].pc = "unregister"
    /\ Return(c, call[c].res)
    /\ strm' = IF call[c].via = call[c].on /\ strm[c].reg = "yes"
               THEN [strm EXCEPT ![c] = [@ EXCEPT !.reg = "closed"]] ELSE strm
    /\ UNCHANGED <<kind, sess, table, loop, port, toGuest, toHost, guest, pid, boots, panicked>>

(* A reader of a terminal or bridge takes what the read loop is writing.   *)
PipeRead(c) ==
    /\ call[c].pc = "stream" /\ kind[c] \in PipeKinds /\ strm[c].reg = "yes"
    /\ LET s == call[c].on IN
       /\ loop[s].t = "event" /\ loop[s].c = c /\ loop[s].n \notin Terminal
       /\ strm' = [strm EXCEPT ![c] = Got(@, loop[s].n)]
       /\ loop' = [loop EXCEPT ![s] = NoMsg]
    /\ UNCHANGED <<kind, call, sess, table, port, toGuest, toHost, guest, pid, boots, panicked>>

(* A write to a terminal or bridge, or a resize: the guest takes it        *)
(* without an answer, and the connection has a new deadline.               *)
HandleWrite(c) ==
    /\ call[c].pc = "stream" /\ kind[c] \in PipeKinds /\ Open(call[c].on)
    /\ sess' = [sess EXCEPT ![call[c].on] = [@ EXCEPT !.fresh = TRUE]]
    /\ UNCHANGED <<kind, call, strm, table, loop, port, toGuest, toHost, guest, pid, boots, panicked>>

(* Close of a handle unregisters it and tells the guest.                   *)
HandleClose(c) ==
    /\ call[c].pc = "stream" /\ kind[c] \in PipeKinds
    /\ Return(c, "ok")
    /\ strm' = [strm EXCEPT ![c] = [@ EXCEPT !.reg = "closed"]]
    /\ IF Open(call[c].on) THEN Written(call[c].on, Ask("end", c, 0), sess[call[c].on].pending)
       ELSE UNCHANGED <<sess, toGuest>>
    /\ UNCHANGED <<kind, table, loop, port, toHost, guest, pid, boots, panicked>>

(* agentExecHandle.Cancel: one more request, without a deadline.           *)
Cancel(c) ==
    /\ call[c].pc = "stream" /\ kind[c] = "exec" /\ call[c].canc = "no" /\ Open(call[c].on)
    /\ Written(call[c].on, Ask("cancel", c, 2), sess[call[c].on].pending \cup {<<c, 2>>})
    /\ call' = [call EXCEPT ![c] = [@ EXCEPT !.canc = "await"]]
    /\ UNCHANGED <<kind, strm, table, loop, port, toHost, guest, pid, boots, panicked>>

CancelDropped(c) ==
    /\ call[c].canc = "await" /\ ~Open(call[c].on)
    /\ call' = [call EXCEPT ![c] = [@ EXCEPT !.canc = "done"]]
    /\ UNCHANGED <<kind, strm, sess, table, loop, port, toGuest, toHost, guest, pid, boots, panicked>>

-----------------------------------------------------------------------------
(* The machine and the guest agent.                                        *)

(* QEMU accepts the next connection once the last one is closed; what was  *)
(* written to it so far goes to the guest.                                 *)
Accept(s) ==
    /\ port = 0 /\ Open(s) /\ sess[s].vm = pid
    /\ \A r \in 1..(s - 1) : ~Open(r)
    /\ port' = s
    /\ toGuest' = toGuest \o sess[s].out
    /\ sess' = [sess EXCEPT ![s] = [@ EXCEPT !.out = <<>>]]
    /\ UNCHANGED <<kind, call, strm, table, loop, toHost, guest, pid, boots, panicked>>

(* The agent writes into the port; without a connection the bytes are      *)
(* lost, and a full port makes the writer wait.                            *)
Room == port # 0 => Len(toHost) < PortCap

Emit(m) == toHost' = IF port = 0 THEN toHost ELSE Append(toHost, m)

(* Wrong: the recorded error of a file is not reported by its close.       *)
CloseFileOk(c, n) ==
    /\ guest' = [guest EXCEPT ![c] = [@ EXCEPT !.st = "done"]]
    /\ Emit(Reply(c, n, TRUE))

(* handleFileClose: a file the agent no longer knows counts as closed.     *)
handleFileClose(c, n) ==
    /\ guest' = [guest EXCEPT ![c] = [@ EXCEPT !.st = "done"]]
    /\ Emit(Reply(c, n, guest[c].st = "run" => ~guest[c].bad))

(* A request is refused (profile, path, command, port), or answered; what  *)
(* it opened runs on after the answer.                                     *)
Opened(c, n, st) ==
    \/ Emit(Reply(c, n, FALSE)) /\ UNCHANGED guest
    \/ Emit(Reply(c, n, TRUE)) /\ guest' = [guest EXCEPT ![c] = [@ EXCEPT !.st = st]]

handlePath(c, n) == kind[c] \in {"ping", "path"} /\ Opened(c, n, "done")

handleFileOpen(c, n) == kind[c] \in {"read", "write"} /\ Opened(c, n, "run")

handleExecStart(c, n) == kind[c] = "exec" /\ Opened(c, n, "run")

handlePTYOpen(c, n) == kind[c] = "pty" /\ Opened(c, n, "run")

handleTCPBridgeOpen(c, n) == kind[c] = "bridge" /\ Opened(c, n, "run")

handleArchiveStream(c, n) == kind[c] = "archive" /\ Opened(c, n, "run")

(* A chunk is written, or its error is kept for the close.                 *)
handleFileData(c) ==
    /\ toHost' = toHost
    /\ \/ (guest[c].st # "run" \/ guest[c].bad) /\ UNCHANGED guest
       \/ /\ guest[c].st = "run" /\ ~guest[c].bad
          /\ \/ guest' = [guest EXCEPT ![c] = [@ EXCEPT !.n = @ + 1]]
             \/ guest' = [guest EXCEPT ![c] = [@ EXCEPT !.bad = TRUE]]

(* The process is killed; an unknown one is an error.                      *)
handleExecCancel(c, n) ==
    /\ Emit(Reply(c, n, guest[c].st \in {"run", "killed"}))
    /\ guest' = IF guest[c].st = "run" THEN [guest EXCEPT ![c] = [@ EXCEPT !.st = "killed"]] ELSE guest

(* A terminal is killed.                                                   *)
handlePTYClose(c) ==
    /\ kind[c] = "pty"
    /\ toHost' = toHost
    /\ guest' = IF guest[c].st = "run" THEN [guest EXCEPT ![c] = [@ EXCEPT !.st = "killed"]] ELSE guest

(* The end of a bridge's input closes its sending side only.               *)
handleTCPBridgeData(c) == kind[c] = "bridge" /\ UNCHANGED <<toHost, guest>>

(* serveSession takes the next message.                                    *)
serveSession ==
    /\ pid # 0 /\ toGuest # <<>> /\ Room
    /\ LET m == Head(toGuest) IN
       \/ m.op = "open" /\ \/ handlePath(m.c, m.n) \/ handleFileOpen(m.c, m.n)
                           \/ handleExecStart(m.c, m.n) \/ handleArchiveStream(m.c, m.n)
                           \/ handlePTYOpen(m.c, m.n) \/ handleTCPBridgeOpen(m.c, m.n)
       \/ m.op = "data" /\ handleFileData(m.c)
       \/ m.op = "close" /\ handleFileClose(m.c, m.n)
       \/ m.op = "cancel" /\ handleExecCancel(m.c, m.n)
       \/ m.op = "end" /\ (handlePTYClose(m.c) \/ handleTCPBridgeData(m.c))
    /\ toGuest' = Tail(toGuest)
    /\ UNCHANGED <<kind, call, strm, sess, table, loop, port, pid, boots, panicked>>

(* The goroutines of the streams.  The next event goes out, or the last.   *)
NextEvent(c) ==
    /\ guest[c].st = "run" /\ guest[c].n < Events
    /\ guest' = [guest EXCEPT ![c] = [@ EXCEPT !.n = @ + 1]]
    /\ Emit(Event(c, guest[c].n + 1))

LastEvent(c, n, st) ==
    /\ guest' = [guest EXCEPT ![c] = [@ EXCEPT !.st = st]]
    /\ Emit(Event(c, n))

streamFileRead(c) ==
    /\ kind[c] = "read" /\ guest[c].st = "run"
    /\ \/ NextEvent(c)
       \/ guest[c].n < Events /\ LastEvent(c, Fail, "done")
       \/ guest[c].n = Events /\ LastEvent(c, Eof, "done")

(* A command ends when it will, also killed.                               *)
streamExec(c) ==
    /\ kind[c] = "exec" /\ guest[c].st \in {"run", "killed"}
    /\ NextEvent(c) \/ LastEvent(c, Eof, "done")

(* A failed export is ended twice.                                         *)
streamArchive(c) ==
    /\ kind[c] = "archive" /\ guest[c].st \in {"run", "again"}
    /\ \/ NextEvent(c)
       \/ guest[c].st = "run" /\ guest[c].n < Events /\ LastEvent(c, Fail, "again")
       \/ (guest[c].st = "again" \/ guest[c].n = Events) /\ LastEvent(c, Eof, "done")

copyPTY(c) ==
    /\ kind[c] = "pty" /\ guest[c].st \in {"run", "killed"}
    /\ NextEvent(c) \/ LastEvent(c, Eof, "done")

(* A bridge whose connection fails is not ended.                           *)
copyBridge(c) ==
    /\ kind[c] = "bridge" /\ guest[c].st = "run"
    /\ \/ NextEvent(c)
       \/ LastEvent(c, Eof, "done")
       \/ guest' = [guest EXCEPT ![c] = [@ EXCEPT !.st = "done"]] /\ toHost' = toHost

stream(c) ==
    /\ Room
    /\ streamFileRead(c) \/ streamExec(c) \/ streamArchive(c) \/ copyPTY(c) \/ copyBridge(c)
    /\ UNCHANGED <<kind, call, strm, sess, table, loop, port, toGuest, pid, boots, panicked>>

(* serveSession reads the end of the file: commands and terminals are      *)
(* killed, open files forgotten, other streams run on.                     *)
GuestEOF ==
    /\ pid # 0 /\ port = 0 /\ toGuest = <<>>
    /\ guest' = [c \in Calls |->
                   IF guest[c].st # "run" THEN guest[c]
                   ELSE CASE kind[c] \in {"exec", "pty"} -> [guest[c] EXCEPT !.st = "killed"]
                          [] kind[c] = "write" -> [guest[c] EXCEPT !.st = "done"]
                          [] OTHER -> guest[c]]
    /\ guest' # guest
    /\ UNCHANGED <<kind, call, strm, sess, table, loop, port, toGuest, toHost, pid, boots, panicked>>

VMExit ==
    /\ pid # 0 /\ kind \in Unstable
    /\ pid' = 0 /\ port' = 0 /\ toGuest' = <<>> /\ toHost' = <<>>
    /\ guest' = [c \in Calls |-> IF guest[c].st = "none" THEN guest[c] ELSE [guest[c] EXCEPT !.st = "done"]]
    /\ UNCHANGED <<kind, call, strm, sess, table, loop, boots, panicked>>

VMBoot ==
    /\ pid = 0 /\ boots < MaxPid
    /\ boots' = boots + 1 /\ pid' = boots + 1
    /\ UNCHANGED <<kind, call, strm, sess, table, loop, port, toGuest, toHost, guest, panicked>>

-----------------------------------------------------------------------------
Init ==
    /\ kind \in Mixes
    /\ call = [c \in Calls |-> [pc |-> "idle", on |-> 0, via |-> 0, pid |-> 0, n |-> 0, phase |-> "open",
                                reply |-> NoMsg, canc |-> "no", res |-> "none"]]
    /\ strm = [c \in Calls |-> [reg |-> "no", buf |-> <<>>, chan |-> <<>>, got |-> 0, whole |-> TRUE,
                                lost |-> FALSE, ended |-> FALSE]]
    /\ sess = [s \in Sessions |-> [st |-> "none", pid |-> 0, vm |-> 0, pending |-> {}, out |-> <<>>, fresh |-> FALSE]]
    /\ table = 0
    /\ loop = [s \in Sessions |-> NoMsg]
    /\ port = 0 /\ toGuest = <<>> /\ toHost = <<>>
    /\ guest = [c \in Calls |-> [st |-> "none", n |-> 0, bad |-> FALSE]]
    /\ pid = 1 /\ boots = 1
    /\ panicked = FALSE

(* The steps of a call's goroutines.                                       *)
CallStep(c) ==
    \/ ReadPid(c) \/ CheckTable(c) \/ Dial(c) \/ Install(c)
    \/ Send(c) \/ Answered(c) \/ Dropped(c) \/ Failed(c) \/ Put(c)
    \/ Register(c) \/ Drain(c) \/ Receive(c) \/ StreamEnded(c) \/ Unregister(c)

LoopStep(s) ==
    readLoop(s) \/ SendEvent(s) \/ WritePipe(s) \/ ReadDeadline(s) \/ ReadBroken(s) \/ TimePasses(s)

(* What users, timeouts and faults add.                                    *)
Outside ==
    \/ \E c \in Calls : \/ Begin(c) \/ Expired(c) \/ GiveUp(c) \/ PipeRead(c) \/ HandleWrite(c) \/ HandleClose(c)
                        \/ Cancel(c) \/ CancelDropped(c)
    \/ Invalidate \/ VMExit \/ VMBoot

GuestStep == serveSession \/ GuestEOF \/ \E c \in Calls : stream(c)

Next ==
    /\ ~panicked
    /\ \/ \E c \in Calls : CallStep(c)
       \/ \E s \in Sessions : LoopStep(s) \/ Accept(s)
       \/ GuestStep \/ Outside

Spec == Init /\ [][Next]_vars

(* Goroutines are scheduled and deadlines pass.  Nothing is asked of the   *)
(* guest, of callers, of the readers of terminals and bridges, or of the   *)
(* clients that the output of an exec is written to.                       *)
FairSpec ==
    /\ Spec
    /\ \A c \in Calls : WF_vars(~panicked /\ ~AtCaller(c) /\ CallStep(c))
    /\ \A s \in Sessions : WF_vars(~panicked /\ LoopStep(s))

-----------------------------------------------------------------------------
TypeOK ==
    /\ kind \in Mixes
    /\ \A c \in Calls :
         /\ call[c].pc \in {"idle", "ensure", "table", "dial", "install", "send", "await", "failed", "put",
                            "register", "drain", "stream", "unregister", "done"}
         /\ call[c].on \in Sessions \cup {0} /\ call[c].n \in 0..2
         /\ strm[c].reg \in {"no", "yes", "closed"}
         /\ Len(strm[c].buf) <= Limit /\ Len(strm[c].chan) <= Limit
         /\ strm[c].got \in 0..Events /\ guest[c].n \in 0..Events
    /\ \A s \in Sessions : sess[s].st \in {"none", "open", "closed"} /\ sess[s].pending \subseteq Calls \X {1, 2}
    /\ table \in Sessions \cup {0} /\ port \in Sessions \cup {0}
    /\ Len(toHost) <= PortCap /\ pid \in 0..MaxPid

(* However many calls share a session, and whatever was answered too late  *)
(* or on a connection that was replaced, a call only ever takes the answer *)
(* to its own latest request (deliverPending; the ids of roundTrip).       *)
RepliesMatch ==
    \A c \in Calls : call[c].reply # NoMsg => call[c].reply.c = c /\ call[c].reply.n = call[c].n

(* A stream that reaches its terminal event handed every event the guest   *)
(* sent to its reader, in order, whether they came before or after the     *)
(* stream was registered; the exception is an overflow of the early        *)
(* events, of which 64 are kept (bufferExecLocked and its kin).            *)
StreamsAreWhole ==
    \A c \in Calls :
        kind[c] \in ChanKinds /\ strm[c].ended /\ ~strm[c].lost => strm[c].whole /\ strm[c].got = guest[c].n

(* An exec that returns a result returns the guest's: a session lost in    *)
(* the middle of a command is never taken for its end (agentExec).         *)
ExecResultIsGuests ==
    \A c \in Calls : kind[c] = "exec" /\ call[c].res = "ok" => strm[c].ended /\ guest[c].st = "done"

(* A write reported as done is in the guest completely: chunks are sent    *)
(* without an answer, so the close has to carry any error of theirs, and a *)
(* close on another connection must not be answered for it                 *)
(* (agentWriteWorkspaceFileBytes, handleFileData, handleFileClose).        *)
WriteIsWhole ==
    \A c \in Calls : kind[c] = "write" /\ call[c].res = "ok" => guest[c].n = Events /\ ~guest[c].bad

(* No connection to the guest is orphaned: the machine serves one at a     *)
(* time, so an open session nobody can find would shut all later ones out. *)
(* Every open session is registered, or in the hands of the call that      *)
(* opened it (ensureAgentSession).                                         *)
OpenSessionIsKnown ==
    \A s \in Sessions :
        Open(s) => s = table \/ \E c \in Calls : call[c].pc = "install" /\ call[c].via = s

(* The call waits for something that only the session can bring it; the    *)
(* reader of a closed pipe sees its end.                                   *)
Waiting(c) ==
    \/ call[c].pc \in {"await", "register", "drain"}
    \/ call[c].pc = "stream" /\ (kind[c] \in PipeKinds => strm[c].reg = "yes")

(* Somebody outside keeps a goroutine of the session from its end: the     *)
(* read loop waits for the reader of a terminal or bridge, an exec writes  *)
(* output its caller does not take (and with its channel full the loop     *)
(* waits for that), or a user's write just put the deadline off.           *)
Held ==
    \/ \E s \in Sessions : loop[s].t = "event" /\ kind[loop[s].c] \in PipeKinds
    \/ \E c \in Calls : AtCaller(c)
    \/ \E s \in Sessions : sess[s].fresh

(* Nobody waits forever for a guest that stays silent, also without a      *)
(* deadline of their own: the deadline each write sets on the connection   *)
(* ends the read loop, whose close wakes every request and every stream    *)
(* (applyAgentConnDeadline, close, the select in roundTrip).  What keeps   *)
(* the session from that is outside: a terminal or bridge nobody reads, a  *)
(* client that does not take the output of its exec, or users who go on    *)
(* writing to a terminal or bridge.  A wait without end meets one of these *)
(* again and again.                                                        *)
WaitsEnd ==
    \A c \in Calls : Waiting(c) ~> (~Waiting(c) \/ Held \/ panicked)

(* Attaching a terminal returns, also when the guest's output is faster    *)
(* than the registration: the events kept for it reach the reader          *)
(* (registerPTY).                                                          *)
AttachReturns ==
    \A c \in Calls : call[c].pc = "register" ~> (call[c].pc \notin {"register", "drain"} \/ panicked)

=============================================================================
