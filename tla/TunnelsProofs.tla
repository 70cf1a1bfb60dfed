--------------------------- MODULE TunnelsProofs ---------------------------
(***************************************************************************)
(* Tunnel rows implement a slot pool, a revoked tunnel stays shut, and a   *)
(* request that ends a sandbox has revoked its tunnels when it is answered *)
(* with success, for any number of tunnels, sandboxes and requests.        *)
(***************************************************************************)
EXTENDS Tunnels, FiniteSetTheorems, TLAPS

(* Only the handler between the quota check and the insert holds the lock. *)
LockInv ==
    /\ admissionMu = {t \in Tunnels : pc[t] = "insert"}
    /\ \A t, u \in admissionMu : t = u

(* The quota check is still true when the row is inserted.                 *)
RoomInv ==
    QuotaReadable => \A t \in Tunnels :
        pc[t] = "insert" => Cardinality(LiveOf(Owner[t])) < MaxTunnels

(* A tunnel has no row before its insert, and only rows are swept.         *)
RowInv ==
    /\ \A t \in Tunnels : pc[t] \in {"idle", "lock", "insert"} => tun[t] = "absent"
    /\ \A w \in Enders : \A t \in ender[w].todo \cup ender[w].before : tun[t] # "absent"

(* A sweep still has before it, or finds when it lists, every tunnel that  *)
(* was open when its request began and is open now.                        *)
SweepInv ==
    \A w \in Enders :
        /\ ~Ended(w) => \A t \in ender[w].before : SandboxOf[t] = ender[w].sb
        /\ ender[w].pc \in {"mark", "caps"}
           => \A t \in ender[w].before : tun[t] = "live" => t \in ender[w].todo
        /\ ender[w].pc = "caps" => tun[ender[w].cur] # "live" /\ ender[w].cur \in ender[w].todo
        /\ ender[w].pc \in {"erase", "answer", "ok"}
           => \A t \in ender[w].before : tun[t] # "live"

(* A late request finds its tunnel revoked when it reads it.               *)
ShutInv ==
    \A p \in Proxies : proxy[p].late =>
        /\ proxy[p].pc \in {"tunnel", "refused"}
        /\ proxy[p].pc = "tunnel" => tun[proxy[p].tun] = "revoked"

IInv == TypeOK /\ LockInv /\ RoomInv /\ RowInv /\ SweepInv /\ ShutInv

USE TunnelsAssumption, QuotaAssumption, CrashesAssumption

(* The tunnel an idle record names is a tunnel.                            *)
LEMMA AnyTunnelType == AnyTunnel \in Tunnels
  BY Zenon DEF AnyTunnel

(* The records of requests, and what the handlers make of them.            *)
LEMMA EnderTypes ==
    /\ NoEnder \in EnderRecs
    /\ \A r \in EnderRecs : \A to \in {"halt", "erase", "answer"} : [r EXCEPT !.pc = to] \in EnderRecs
    /\ \A r \in EnderRecs : \A to \in {"ok", "err", "lost"}, S \in SUBSET Tunnels :
          [NoEnder EXCEPT !.pc = to, !.before = S] \in EnderRecs
    /\ [NoEnder EXCEPT !.pc = "lost"] \in EnderRecs
    /\ \A r \in EnderRecs : r.next \in {"halt", "erase", "answer"} /\ r.before \in SUBSET Tunnels
                            /\ r.todo \in SUBSET Tunnels
    /\ \A r \in EnderRecs : \A n \in {"erase", "answer"} :
          [r EXCEPT !.pc = "list", !.next = n] \in EnderRecs
    /\ \A r \in EnderRecs : \A S \in SUBSET Tunnels :
          [r EXCEPT !.pc = "mark", !.todo = S] \in EnderRecs
    /\ \A r \in EnderRecs : \A t \in Tunnels : [r EXCEPT !.pc = "caps", !.cur = t] \in EnderRecs
    /\ \A r \in EnderRecs : \A t \in Tunnels :
          [r EXCEPT !.pc = "mark", !.todo = r.todo \ {t}, !.cur = AnyTunnel] \in EnderRecs
    /\ \A r \in EnderRecs : r.cur \in Tunnels
  BY AnyTunnelType, Zenon DEF NoEnder, EnderRecs

(* The records a proxied request goes through.                             *)
LEMMA ProxyTypes ==
    /\ NoProxy \in ProxyRecs
    /\ \A r \in ProxyRecs : \A to \in {"sandbox", "consume", "open", "proxied"} :
          [r EXCEPT !.pc = to] \in ProxyRecs
    /\ \A r \in ProxyRecs : \A to \in Over :
          [NoProxy EXCEPT !.pc = to, !.late = r.late, !.used = r.used, !.via = r.via] \in ProxyRecs
    /\ \A to \in Over : [NoProxy EXCEPT !.pc = to] \in ProxyRecs
  BY AnyTunnelType, Zenon DEF NoProxy, ProxyRecs, Over

(* A step of a proxied request keeps its record well formed.               *)
LEMMA ProxyToType ==
    ASSUME proxy \in [Proxies -> ProxyRecs], NEW p \in Proxies,
           NEW to \in {"sandbox", "consume", "open", "proxied"} \cup Over, ProxyTo(p, to)
    PROVE  proxy' \in [Proxies -> ProxyRecs]
  BY ProxyTypes, Zenon DEF ProxyTo, Over

(* A request that revokes keeps its record well formed.                    *)
LEMMA EnderStepType ==
    ASSUME TypeOK, NEW w \in Enders, BeginRevoke(w) \/ BeginEnd(w) \/ EnderStep(w)
    PROVE  ender' \in [Enders -> EnderRecs]
<1> USE AnyTunnelType DEF TypeOK
<1>1. CASE BeginRevoke(w)
  BY <1>1 DEF BeginRevoke, EnderRecs
<1>2. CASE BeginEnd(w)
  BY <1>2 DEF BeginEnd, LiveAt, EnderRecs
<1>3. CASE Halt(w)
  BY <1>3, EnderTypes, Zenon DEF Halt
<1>4. CASE ListTunnels(w)
  <2>1. CASE Fail(w)
    BY <2>1, EnderTypes, Zenon DEF Fail, EndWith
  <2>2. ASSUME ender' = [ender EXCEPT ![w] = [@ EXCEPT !.pc = "mark", !.todo = LiveAt(ender[w].sb)]]
        PROVE  ender' \in [Enders -> EnderRecs]
    <3>1. [ender[w] EXCEPT !.pc = "mark", !.todo = LiveAt(ender[w].sb)] \in EnderRecs
      BY EnderTypes, Zenon DEF LiveAt
    <3> QED
      BY <2>2, <3>1, Zenon
  <2> QED
    BY <1>4, <2>1, <2>2, Zenon DEF ListTunnels
<1>5. CASE MarkRevoked(w)
  <2>1. CASE Fail(w)
    BY <2>1, EnderTypes, Zenon DEF Fail, EndWith
  <2>2. ASSUME NEW t \in ender[w].todo,
               ender' = [ender EXCEPT ![w] = [@ EXCEPT !.pc = "caps", !.cur = t]]
        PROVE  ender' \in [Enders -> EnderRecs]
    <3>1. [ender[w] EXCEPT !.pc = "caps", !.cur = t] \in EnderRecs
      BY EnderTypes, Zenon
    <3> QED
      BY <2>2, <3>1, Zenon
  <2> QED
    BY <1>5, <2>1, <2>2, Zenon DEF MarkRevoked
<1>6. CASE RevokeCapabilities(w)
  <2>1. CASE Fail(w)
    BY <2>1, EnderTypes, Zenon DEF Fail, EndWith
  <2>2. ASSUME ender' = [ender EXCEPT ![w] =
                            [@ EXCEPT !.pc = "mark", !.todo = ender[w].todo \ {ender[w].cur},
                                      !.cur = AnyTunnel]]
        PROVE  ender' \in [Enders -> EnderRecs]
    <3>1. [ender[w] EXCEPT !.pc = "mark", !.todo = ender[w].todo \ {ender[w].cur},
                           !.cur = AnyTunnel] \in EnderRecs
      BY EnderTypes, Zenon
    <3> QED
      BY <2>2, <3>1, Zenon
  <2> QED
    BY <1>6, <2>1, <2>2, Zenon DEF RevokeCapabilities
<1>7. CASE SweepDone(w)
  BY <1>7, EnderTypes, Zenon DEF SweepDone, EnderTo
<1>8. CASE Erase(w) \/ Answer(w)
  <2>1. CASE Fail(w)
    BY <2>1, EnderTypes, Zenon DEF Fail, EndWith
  <2>2. CASE EndWith(w, "ok", ender[w].before)
    BY <2>2, EnderTypes, Zenon DEF EndWith
  <2> QED
    BY <1>8, <2>1, <2>2, Zenon DEF Erase, Answer
<1> QED
  BY <1>1, <1>2, <1>3, <1>4, <1>5, <1>6, <1>7, <1>8, Zenon DEF EnderStep

(* Every step keeps the state well typed.                                  *)
LEMMA TypeStep == TypeOK /\ [Next]_vars => TypeOK'
<1> SUFFICES ASSUME TypeOK, [Next]_vars PROVE TypeOK'
  OBVIOUS
<1> USE DEF TypeOK
<1>1. CASE UNCHANGED vars
  BY <1>1, Zenon DEF vars
<1>2. ASSUME NEW t \in Tunnels, CreateStep(t) PROVE TypeOK'
  BY <1>2, Zenon DEF CreateStep, BeginCreate, CheckRoom, InsertTunnel, Goto
<1>3. ASSUME NEW w \in Enders, BeginRevoke(w) \/ BeginEnd(w) \/ EnderStep(w) PROVE TypeOK'
  <2>1. ender' \in [Enders -> EnderRecs]
    BY <1>3, EnderStepType, Zenon
  <2>2. tun' \in [Tunnels -> {"absent", "live", "revoked"}]
    BY <1>3, Zenon DEF BeginRevoke, BeginEnd, EnderStep, Halt, ListTunnels, MarkRevoked,
       RevokeCapabilities, SweepDone, Erase, Answer, EnderRecs
  <2>3. sb' \in [Sandboxes -> {"running", "stopped", "deleted"}]
    BY <1>3, Zenon DEF BeginRevoke, BeginEnd, EnderStep, Halt, ListTunnels, MarkRevoked,
       RevokeCapabilities, SweepDone, Erase, Answer
  <2>4. link' \in [Links -> LinkRecs]
    <3>1. CASE RevokeCapabilities(w)
      BY <3>1 DEF RevokeCapabilities, LinkRecs
    <3> QED
      BY <1>3, <3>1, Zenon DEF BeginRevoke, BeginEnd, EnderStep, Halt, ListTunnels, MarkRevoked,
         SweepDone, Erase, Answer
  <2>5. proxy' \in [Proxies -> ProxyRecs]
    <3>1. CASE Halt(w)
      BY <3>1, ProxyTypes, Zenon DEF Halt, Over
    <3> QED
      BY <1>3, <3>1, Zenon DEF BeginRevoke, BeginEnd, EnderStep, ListTunnels, MarkRevoked,
         RevokeCapabilities, SweepDone, Erase, Answer
  <2>6. UNCHANGED <<pc, admissionMu, crashes>>
    BY <1>3, Zenon DEF BeginRevoke, BeginEnd, EnderStep, Halt, ListTunnels, MarkRevoked,
       RevokeCapabilities, SweepDone, Erase, Answer
  <2> QED
    BY <2>1, <2>2, <2>3, <2>4, <2>5, <2>6, Zenon
<1>4. ASSUME NEW s \in Sandboxes, StartSandbox(s) PROVE TypeOK'
  BY <1>4, Zenon DEF StartSandbox
<1>5. ASSUME NEW l \in Links, BeginLink(l) \/ InsertCapability(l) PROVE TypeOK'
  <2>1. link' \in [Links -> LinkRecs]
    <3>1. CASE InsertCapability(l)
      BY <3>1 DEF InsertCapability, LinkRecs
    <3>3. ASSUME NEW t \in Tunnels, NEW to \in {"done", "insert"}
          PROVE  [link[l] EXCEPT !.pc = to, !.tun = t] \in LinkRecs
      BY ZenonT(40) DEF LinkRecs
    <3>4. [link[l] EXCEPT !.pc = "done"] \in LinkRecs
      BY DEF LinkRecs
    <3>5. CASE BeginLink(l)
      BY <3>3, <3>4, <3>5, Zenon DEF BeginLink
    <3> QED
      BY <1>5, <3>1, <3>5, Zenon
  <2> QED
    BY <1>5, <2>1, Zenon DEF BeginLink, InsertCapability
<1>6. ASSUME NEW p \in Proxies, BeginProxy(p) \/ ReadSandbox(p) PROVE TypeOK'
  <2>1. proxy' \in [Proxies -> ProxyRecs]
    <3>1. CASE ReadSandbox(p)
      <4>1. ASSUME NEW r \in ProxyRecs, NEW st \in {"running", "stopped", "deleted"}
            PROVE  [r EXCEPT !.pc = "auth", !.st = st] \in ProxyRecs
        BY Zenon DEF ProxyRecs
      <4>2. sb[SandboxOf[proxy[p].tun]] \in {"running", "stopped", "deleted"}
        BY Zenon DEF ProxyRecs
      <4> QED
        BY <3>1, <4>1, <4>2, Zenon DEF ReadSandbox
    <3>2. CASE BeginProxy(p)
      <4>1. ASSUME NEW t \in Tunnels, NEW v \in Links \cup {"session"}, NEW a \in BOOLEAN,
                   NEW b \in BOOLEAN
            PROVE  [pc |-> "tunnel", tun |-> t, via |-> v, st |-> "stopped", late |-> a, used |-> b]
                     \in ProxyRecs
        BY Zenon DEF ProxyRecs
      <4>2. \A l \in Links : link[l].tun \in Tunnels
        BY Zenon DEF LinkRecs
      <4>3. ASSUME NEW t \in Tunnels,
                   proxy' = [proxy EXCEPT ![p] =
                               [pc |-> "tunnel", tun |-> t, via |-> "session", st |-> "stopped",
                                late |-> tun[t] = "revoked", used |-> FALSE]]
            PROVE  proxy' \in [Proxies -> ProxyRecs]
        BY <4>1, <4>3, Zenon
      <4>4. ASSUME NEW l \in Links, NEW b \in BOOLEAN,
                   proxy' = [proxy EXCEPT ![p] =
                               [pc |-> "tunnel", tun |-> link[l].tun, via |-> l, st |-> "stopped",
                                late |-> tun[link[l].tun] = "revoked", used |-> b]]
            PROVE  proxy' \in [Proxies -> ProxyRecs]
        BY <4>1, <4>2, <4>4, Zenon
      <4> QED
        BY <3>2, <4>3, <4>4, Zenon DEF BeginProxy
    <3> QED
      BY <1>6, <3>1, <3>2, Zenon
  <2> QED
    BY <1>6, <2>1, Zenon DEF BeginProxy, ReadSandbox
<1>7. ASSUME NEW p \in Proxies,
             ReadTunnel(p) \/ Authorize(p) \/ Consume(p) \/ OpenConn(p) \/ CloseConn(p)
      PROVE  TypeOK'
  <2>1. \E to \in {"sandbox", "consume", "open", "proxied"} \cup Over : ProxyTo(p, to)
    BY <1>7, Zenon DEF ReadTunnel, Authorize, Consume, OpenConn, CloseConn, Over
  <2>2. proxy' \in [Proxies -> ProxyRecs]
    BY <2>1, ProxyToType, Zenon
  <2>3. link' \in [Links -> LinkRecs]
    <3>1. CASE Consume(p)
      BY <3>1 DEF Consume, LinkRecs
    <3> QED
      BY <1>7, <3>1, Zenon DEF ReadTunnel, Authorize, OpenConn, CloseConn
  <2>4. UNCHANGED <<tun, pc, admissionMu, sb, ender, crashes>>
    BY <1>7, Zenon DEF ReadTunnel, Authorize, Consume, OpenConn, CloseConn
  <2> QED
    BY <2>2, <2>3, <2>4, Zenon
<1>8. CASE Crash
  <2>1. ender' \in [Enders -> EnderRecs]
    BY <1>8, EnderTypes, Zenon DEF Crash
  <2>2. link' \in [Links -> LinkRecs]
    <3>1. ASSUME NEW o \in LinkRecs PROVE [o EXCEPT !.pc = "done"] \in LinkRecs
      BY Zenon DEF LinkRecs
    <3>2. link' = [l \in Links |-> IF link[l].pc = "idle" THEN link[l]
                                   ELSE [link[l] EXCEPT !.pc = "done"]]
      BY <1>8, Zenon DEF Crash
    <3>3. link \in [Links -> LinkRecs]
      OBVIOUS
    <3>4. ASSUME NEW l \in Links
          PROVE  (IF link[l].pc = "idle" THEN link[l] ELSE [link[l] EXCEPT !.pc = "done"]) \in LinkRecs
      <4>1. link[l] \in LinkRecs
        BY <3>3, Zenon
      <4> QED
        BY <3>1, <4>1, Zenon
    <3> QED
      BY <3>2, <3>4, Zenon
  <2>3. proxy' \in [Proxies -> ProxyRecs]
    BY <1>8, ProxyTypes, Zenon DEF Crash, Over
  <2> QED
    BY <1>8, <2>1, <2>2, <2>3 DEF Crash
<1> QED
  BY <1>1, <1>2, <1>3, <1>4, <1>5, <1>6, <1>7, <1>8, Zenon DEF Next, ProxyStep

-----------------------------------------------------------------------------
(* Which steps write rows.                                                 *)

(* A row is written by an insert and by a sweep only.                      *)
LEMMA RowWriters ==
    ASSUME [Next]_vars
    PROVE  \/ \E t \in Tunnels : InsertTunnel(t)
           \/ \E w \in Enders : MarkRevoked(w)
           \/ tun' = tun
  BY Zenon DEF Next, vars, CreateStep, BeginCreate, CheckRoom, BeginRevoke, BeginEnd, EnderStep, Halt,
     ListTunnels, RevokeCapabilities, SweepDone, Erase, Answer, StartSandbox, BeginLink,
     InsertCapability, BeginProxy, ProxyStep, ReadTunnel, ReadSandbox, Authorize, Consume,
     OpenConn, CloseConn, Crash

(* A create handler is moved by its own steps and by a crash only.         *)
LEMMA HandlerMovers ==
    ASSUME [Next]_vars
    PROVE  \/ \E t \in Tunnels : CreateStep(t)
           \/ Crash
           \/ UNCHANGED <<pc, admissionMu>>
  BY Zenon DEF Next, vars, BeginRevoke, BeginEnd, EnderStep, Halt, MarkRevoked,
     ListTunnels, RevokeCapabilities, SweepDone, Erase, Answer, StartSandbox, BeginLink,
     InsertCapability, BeginProxy, ProxyStep, ReadTunnel, ReadSandbox, Authorize, Consume,
     OpenConn, CloseConn

(* A row that exists stays, and only an insert makes a tunnel live.        *)
LEMMA RowsOnlyAge ==
    ASSUME IInv, [Next]_vars
    PROVE  /\ \A t \in Tunnels : tun[t] # "absent" => tun'[t] # "absent"
           /\ \A t \in Tunnels : tun[t] = "revoked" => tun'[t] = "revoked"
           /\ \A t \in Tunnels : tun'[t] = "live" => tun[t] = "live" \/ InsertTunnel(t)
<1> USE DEF IInv, TypeOK, RowInv
<1>1. ASSUME NEW t \in Tunnels, InsertTunnel(t)
      PROVE  /\ tun[t] = "absent"
             /\ \A u \in Tunnels : u # t => tun'[u] = tun[u]
  BY <1>1, Zenon DEF InsertTunnel
<1>2. ASSUME NEW w \in Enders, MarkRevoked(w)
      PROVE  \A u \in Tunnels : tun'[u] = tun[u] \/ tun'[u] = "revoked"
  BY <1>2, Zenon DEF MarkRevoked
<1> QED
  BY <1>1, <1>2, RowWriters

(* Every step keeps the lock exclusive.                                    *)
LEMMA LockStep == IInv /\ [Next]_vars => LockInv'
<1> SUFFICES ASSUME IInv, [Next]_vars PROVE LockInv'
  OBVIOUS
<1> USE DEF IInv, TypeOK, LockInv, Goto
<1>1. ASSUME NEW t \in Tunnels, BeginCreate(t) PROVE LockInv'
  BY <1>1, Zenon DEF BeginCreate
<1>2. ASSUME NEW t \in Tunnels, CheckRoom(t) PROVE LockInv'
  BY <1>2 DEF CheckRoom
<1>3. ASSUME NEW t \in Tunnels, InsertTunnel(t) PROVE LockInv'
  BY <1>3, Zenon DEF InsertTunnel
<1>4. CASE Crash
  BY <1>4, Zenon DEF Crash
<1>5. CASE UNCHANGED <<pc, admissionMu>>
  BY <1>5, Zenon
<1> QED
  BY <1>1, <1>2, <1>3, <1>4, <1>5, HandlerMovers, Zenon DEF CreateStep

(* A request that is over has nothing left to sweep.                       *)
LEMMA EndEffect ==
    ASSUME TypeOK, NEW v \in Enders, NEW result, NEW S, EndWith(v, result, S)
    PROVE  /\ ender'[v].todo = {} /\ ender'[v].before = S /\ ender'[v].pc = result
           /\ \A w \in Enders : w # v => ender'[w] = ender[w]
  BY Zenon DEF EndWith, NoEnder, TypeOK

(* A request that fails answers with an error and promises nothing.        *)
LEMMA FailEffect ==
    ASSUME TypeOK, NEW v \in Enders, Fail(v)
    PROVE  /\ ender'[v].todo = {} /\ ender'[v].before = {} /\ ender'[v].pc = "err"
           /\ \A w \in Enders : w # v => ender'[w] = ender[w]
  BY EndEffect, Zenon DEF Fail

(* The other steps of a sweep, field by field.                             *)
LEMMA SweepEffect ==
    ASSUME TypeOK, NEW v \in Enders
    PROVE  /\ Halt(v) =>
                /\ ender'[v].before = ender[v].before /\ ender'[v].sb = ender[v].sb
                /\ ender'[v].todo = ender[v].todo /\ ender'[v].pc = "list"
                /\ \A w \in Enders : w # v => ender'[w] = ender[w]
           /\ ListTunnels(v) /\ ~Fail(v) =>
                /\ ender'[v].before = ender[v].before /\ ender'[v].sb = ender[v].sb
                /\ ender'[v].todo = LiveAt(ender[v].sb) /\ ender'[v].pc = "mark"
                /\ \A w \in Enders : w # v => ender'[w] = ender[w]
           /\ MarkRevoked(v) /\ ~Fail(v) =>
                /\ ender'[v].before = ender[v].before /\ ender'[v].sb = ender[v].sb
                /\ ender'[v].todo = ender[v].todo /\ ender'[v].pc = "caps"
                /\ ender'[v].cur \in ender[v].todo
                /\ tun' = [tun EXCEPT ![ender'[v].cur] = "revoked"]
                /\ \A w \in Enders : w # v => ender'[w] = ender[w]
           /\ RevokeCapabilities(v) /\ ~Fail(v) =>
                /\ ender'[v].before = ender[v].before /\ ender'[v].sb = ender[v].sb
                /\ ender'[v].todo = ender[v].todo \ {ender[v].cur} /\ ender'[v].pc = "mark"
                /\ \A w \in Enders : w # v => ender'[w] = ender[w]
           /\ SweepDone(v) =>
                /\ ender'[v].before = ender[v].before /\ ender'[v].sb = ender[v].sb
                /\ ender'[v].todo = {} /\ ender'[v].pc = ender[v].next
                /\ \A w \in Enders : w # v => ender'[w] = ender[w]
<1> USE DEF TypeOK, EnderRecs
<1>1. ASSUME Halt(v)
      PROVE  /\ ender'[v].before = ender[v].before /\ ender'[v].sb = ender[v].sb
             /\ ender'[v].todo = ender[v].todo /\ ender'[v].pc = "list"
             /\ \A w \in Enders : w # v => ender'[w] = ender[w]
  BY <1>1, Zenon DEF Halt
<1>2. ASSUME ListTunnels(v), ~Fail(v)
      PROVE  /\ ender'[v].before = ender[v].before /\ ender'[v].sb = ender[v].sb
             /\ ender'[v].todo = LiveAt(ender[v].sb) /\ ender'[v].pc = "mark"
             /\ \A w \in Enders : w # v => ender'[w] = ender[w]
  BY <1>2, ZenonT(40) DEF ListTunnels
<1>3. ASSUME MarkRevoked(v), ~Fail(v)
      PROVE  /\ ender'[v].before = ender[v].before /\ ender'[v].sb = ender[v].sb
             /\ ender'[v].todo = ender[v].todo /\ ender'[v].pc = "caps"
             /\ ender'[v].cur \in ender[v].todo
             /\ tun' = [tun EXCEPT ![ender'[v].cur] = "revoked"]
             /\ \A w \in Enders : w # v => ender'[w] = ender[w]
  <2>1. PICK t \in ender[v].todo :
           /\ tun' = [tun EXCEPT ![t] = "revoked"]
           /\ ender' = [ender EXCEPT ![v] = [@ EXCEPT !.pc = "caps", !.cur = t]]
    BY <1>3, Zenon DEF MarkRevoked
  <2>2. ender'[v].cur = t
    BY <2>1
  <2>3. /\ ender'[v].before = ender[v].before /\ ender'[v].sb = ender[v].sb
        /\ ender'[v].todo = ender[v].todo /\ ender'[v].pc = "caps"
        /\ \A w \in Enders : w # v => ender'[w] = ender[w]
    BY <2>1
  <2> QED
    BY <2>1, <2>2, <2>3, Zenon
<1>4. ASSUME RevokeCapabilities(v), ~Fail(v)
      PROVE  /\ ender'[v].before = ender[v].before /\ ender'[v].sb = ender[v].sb
             /\ ender'[v].todo = ender[v].todo \ {ender[v].cur} /\ ender'[v].pc = "mark"
             /\ \A w \in Enders : w # v => ender'[w] = ender[w]
  BY <1>4, ZenonT(40) DEF RevokeCapabilities
<1>5. ASSUME SweepDone(v)
      PROVE  /\ ender'[v].before = ender[v].before /\ ender'[v].sb = ender[v].sb
             /\ ender'[v].todo = {} /\ ender'[v].pc = ender[v].next
             /\ \A w \in Enders : w # v => ender'[w] = ender[w]
  BY <1>5, Zenon DEF SweepDone, EnderTo
<1> QED
  BY <1>1, <1>2, <1>3, <1>4, <1>5, Zenon

(* The steps that change the record of a revoking request.                 *)
LEMMA EnderMovers ==
    ASSUME [Next]_vars
    PROVE  \/ \E v \in Enders : BeginRevoke(v) \/ BeginEnd(v) \/ EnderStep(v)
           \/ Crash
           \/ ender' = ender
  BY Zenon DEF Next, vars, CreateStep, BeginCreate, CheckRoom, InsertTunnel, StartSandbox, BeginLink,
     InsertCapability, BeginProxy, ProxyStep, ReadTunnel, ReadSandbox, Authorize, Consume,
     OpenConn, CloseConn

(* The records a sweep works on exist.                                     *)
LEMMA RowStep == IInv /\ [Next]_vars => RowInv'
<1> SUFFICES ASSUME IInv, [Next]_vars PROVE RowInv'
  OBVIOUS
<1>1. \A t \in Tunnels : pc'[t] \in {"idle", "lock", "insert"} => tun'[t] = "absent"
  <2> SUFFICES ASSUME NEW t \in Tunnels, pc'[t] \in {"idle", "lock", "insert"}
               PROVE  tun'[t] = "absent"
    OBVIOUS
  <2> USE DEF IInv, TypeOK, RowInv
  <2>1. pc[t] \in {"idle", "lock", "insert"}
    BY HandlerMovers, Zenon DEF CreateStep, BeginCreate, CheckRoom, InsertTunnel, Goto, Crash
  <2>2. tun[t] = "absent"
    BY <2>1, Zenon
  <2>3. ~InsertTunnel(t)
    BY Zenon DEF InsertTunnel, Goto
  <2>4. ASSUME NEW w \in Enders, MarkRevoked(w) PROVE tun'[t] = "absent"
    BY <2>2, <2>4 DEF MarkRevoked
  <2>5. ASSUME NEW u \in Tunnels, InsertTunnel(u) PROVE tun'[t] = "absent"
    BY <2>2, <2>3, <2>5, Zenon DEF InsertTunnel
  <2> QED
    BY <2>2, <2>4, <2>5, RowWriters, Zenon
<1>2. ASSUME NEW w \in Enders, NEW t \in ender'[w].todo \cup ender'[w].before
      PROVE  tun'[t] # "absent"
  <2>1. TypeOK'
    BY TypeStep, Zenon DEF IInv
  <2>2. t \in Tunnels
    BY <2>1, Zenon DEF TypeOK, EnderRecs
  <2>3. t \in ender[w].todo \cup ender[w].before \/ tun[t] # "absent"
    <3> USE DEF IInv, TypeOK
    <3>1. CASE ender' = ender
      BY <3>1, Zenon
    <3>2. ASSUME NEW v \in Enders, BeginRevoke(v)
          PROVE  t \in ender[w].todo \cup ender[w].before \/ tun[t] # "absent"
      BY <3>2 DEF BeginRevoke
    <3>3. ASSUME NEW v \in Enders, BeginEnd(v)
          PROVE  t \in ender[w].todo \cup ender[w].before \/ tun[t] # "absent"
      BY <3>3 DEF BeginEnd, LiveAt
    <3>4. ASSUME NEW v \in Enders, EnderStep(v)
          PROVE  t \in ender[w].todo \cup ender[w].before \/ tun[t] # "absent"
      BY <3>4, SweepEffect, FailEffect, EndEffect DEF EnderStep, Erase, Answer, LiveAt
    <3>5. CASE Crash
      BY <3>5, Zenon DEF Crash, NoEnder, EnderRecs
    <3> QED
      BY <3>1, <3>2, <3>3, <3>4, <3>5, EnderMovers, Zenon
  <2>4. tun[t] # "absent"
    BY <2>3, Zenon DEF IInv, RowInv
  <2> QED
    BY <2>2, <2>4, RowsOnlyAge, Zenon
<1> QED
  BY <1>1, <1>2, Zenon DEF RowInv

-----------------------------------------------------------------------------
(* The quota.                                                              *)

(* The tunnels a tenant has open can be counted.                           *)
LEMMA LiveFinite ==
    \A o : IsFiniteSet(LiveOf(o)) /\ Cardinality(LiveOf(o)) \in Nat
<1>1. \A o : LiveOf(o) \subseteq Tunnels
  BY Zenon DEF LiveOf
<1> QED
  BY <1>1, FS_Subset, FS_CardinalityType, Zenon

(* Every step leaves room for the tunnel whose quota check has passed.     *)
LEMMA RoomStep == IInv /\ [Next]_vars => RoomInv'
<1> SUFFICES ASSUME IInv, [Next]_vars, QuotaReadable, NEW t \in Tunnels, pc'[t] = "insert"
             PROVE  Cardinality(LiveOf(Owner[t])') < MaxTunnels
  BY Zenon DEF RoomInv, LiveOf
<1>1. ASSUME NEW u \in Tunnels, InsertTunnel(u) PROVE FALSE
  <2>1. pc[t] = "insert" /\ t # u
    BY <1>1, Zenon DEF InsertTunnel, Goto, IInv, TypeOK
  <2> QED
    BY <1>1, <2>1, Zenon DEF InsertTunnel, IInv, LockInv
<1>2. LiveOf(Owner[t])' \subseteq LiveOf(Owner[t])
  BY <1>1, RowsOnlyAge, Zenon DEF LiveOf
<1>3. Cardinality(LiveOf(Owner[t])') <= Cardinality(LiveOf(Owner[t]))
  BY <1>2, LiveFinite, FS_Subset, Zenon
<1>4. Cardinality(LiveOf(Owner[t])) < MaxTunnels
  <2>1. CASE pc[t] = "insert"
    BY <2>1, Zenon DEF IInv, RoomInv
  <2>2. CASE pc[t] # "insert"
    <3>1. CheckRoom(t)
      BY <2>2, HandlerMovers, Zenon DEF IInv, TypeOK, CreateStep, BeginCreate, CheckRoom, InsertTunnel,
         Goto, Crash
    <3> QED
      BY <3>1, <2>2, Zenon DEF CheckRoom, Goto, IInv, TypeOK
  <2> QED
    BY <2>1, <2>2, Zenon
<1>5. Cardinality(LiveOf(Owner[t])') \in Nat
  <2>1. LiveOf(Owner[t])' \subseteq Tunnels
    BY Zenon DEF LiveOf
  <2> QED
    BY <2>1, FS_Subset, FS_CardinalityType, Zenon
<1> QED
  BY <1>3, <1>4, <1>5, LiveFinite

-----------------------------------------------------------------------------
(* Sweeps.                                                                 *)

(* What the sweep invariant says of one request.                           *)
SweepOf(w) ==
    /\ ~Ended(w) => \A t \in ender[w].before : SandboxOf[t] = ender[w].sb
    /\ ender[w].pc \in {"mark", "caps"}
       => \A t \in ender[w].before : tun[t] = "live" => t \in ender[w].todo
    /\ ender[w].pc = "caps" => tun[ender[w].cur] # "live" /\ ender[w].cur \in ender[w].todo
    /\ ender[w].pc \in {"erase", "answer", "ok"}
       => \A t \in ender[w].before : tun[t] # "live"

(* Tunnels a request covers, or is at, do not become live.                 *)
LEMMA CoveredStaysDown ==
    ASSUME IInv, [Next]_vars, NEW w \in Enders
    PROVE  /\ \A t \in ender[w].before \cup ender[w].todo : t \in Tunnels
           /\ \A t \in ender[w].before \cup ender[w].todo : tun'[t] = "live" => tun[t] = "live"
<1>1. \A t \in ender[w].before \cup ender[w].todo : t \in Tunnels /\ tun[t] # "absent"
  BY Zenon DEF IInv, TypeOK, EnderRecs, RowInv
<1>2. \A t \in Tunnels : InsertTunnel(t) => tun[t] = "absent"
  BY Zenon DEF IInv, RowInv, InsertTunnel
<1> QED
  BY <1>1, <1>2, RowsOnlyAge, Zenon

(* A request that does not move keeps what is known of its sweep.          *)
LEMMA SweepIdle ==
    ASSUME IInv, [Next]_vars, NEW w \in Enders, ender'[w] = ender[w]
    PROVE  SweepOf(w)'
<1>1. SweepOf(w)
  BY Zenon DEF IInv, SweepInv, SweepOf
<1> QED
  BY <1>1, CoveredStaysDown, Zenon DEF SweepOf, Ended

(* Every step keeps the sweeps on track.                                   *)
LEMMA SweepStep == IInv /\ [Next]_vars => SweepInv'
<1> SUFFICES ASSUME IInv, [Next]_vars, NEW w \in Enders PROVE SweepOf(w)'
  BY Zenon DEF SweepInv, SweepOf
<1>0. SweepOf(w) /\ TypeOK
  BY Zenon DEF IInv, SweepInv, SweepOf
<1>1. CASE ender'[w] = ender[w]
  BY <1>1, SweepIdle, Zenon
<1>2. CASE BeginRevoke(w)
  BY <1>0, <1>2 DEF BeginRevoke, SweepOf, Ended, TypeOK
<1>3. CASE BeginEnd(w)
  BY <1>0, <1>3 DEF BeginEnd, SweepOf, Ended, TypeOK, LiveAt
<1>4. CASE Fail(w)
  BY <1>4, <1>0, FailEffect, Zenon DEF SweepOf, Ended
<1>5. CASE Halt(w)
  BY <1>5, <1>0, SweepEffect, Zenon DEF SweepOf, Ended, Halt
<1>6. CASE ListTunnels(w) /\ ~Fail(w)
  <2>1. /\ ender'[w].before = ender[w].before /\ ender'[w].sb = ender[w].sb
        /\ ender'[w].todo = LiveAt(ender[w].sb) /\ ender'[w].pc = "mark"
    BY <1>6, <1>0, SweepEffect, Zenon
  <2>2. \A t \in ender[w].before : SandboxOf[t] = ender[w].sb
    BY <1>6, <1>0, Zenon DEF SweepOf, Ended, ListTunnels
  <2>3. \A t \in ender[w].before : tun'[t] = "live" => t \in LiveAt(ender[w].sb)
    BY <2>2, CoveredStaysDown, Zenon DEF LiveAt
  <2> QED
    BY <2>1, <2>2, <2>3, Zenon DEF SweepOf, Ended
<1>7. CASE MarkRevoked(w) /\ ~Fail(w)
  <2>1. ender'[w].cur \in Tunnels /\ tun'[ender'[w].cur] = "revoked"
    BY <1>7, <1>0, SweepEffect, CoveredStaysDown DEF TypeOK
  <2> QED
    BY <1>7, <1>0, <2>1, SweepEffect, CoveredStaysDown, Zenon DEF SweepOf, Ended, MarkRevoked
<1>8. CASE RevokeCapabilities(w) /\ ~Fail(w)
  <2>1. /\ ender'[w].before = ender[w].before /\ ender'[w].sb = ender[w].sb
        /\ ender'[w].todo = ender[w].todo \ {ender[w].cur} /\ ender'[w].pc = "mark"
    BY <1>8, <1>0, SweepEffect, Zenon
  <2>2. /\ \A t \in ender[w].before : SandboxOf[t] = ender[w].sb
        /\ \A t \in ender[w].before : tun[t] = "live" => t \in ender[w].todo
        /\ tun[ender[w].cur] # "live"
    BY <1>8, <1>0, Zenon DEF SweepOf, Ended, RevokeCapabilities
  <2>3. \A t \in ender[w].before : tun'[t] = "live" => t \in ender[w].todo \ {ender[w].cur}
    BY <2>2, CoveredStaysDown, Zenon
  <2> QED
    BY <2>1, <2>2, <2>3, Zenon DEF SweepOf, Ended
<1>9. CASE SweepDone(w)
  <2>1. ender[w].next \in {"halt", "erase", "answer"}
    BY <1>0, Zenon DEF TypeOK, EnderRecs
  <2> QED
    BY <1>9, <1>0, <2>1, SweepEffect, CoveredStaysDown, Zenon DEF SweepOf, Ended, SweepDone
<1>10. CASE (Erase(w) \/ Answer(w)) /\ ~Fail(w)
  <2>1. EndWith(w, "ok", ender[w].before) /\ ender[w].pc \in {"erase", "answer"}
    BY <1>10, Zenon DEF Erase, Answer
  <2> QED
    BY <2>1, <1>0, EndEffect, CoveredStaysDown DEF SweepOf, Ended
<1>11. CASE Crash
  <2>1. CASE ~Ended(w)
    BY <1>11, <2>1, Zenon DEF Crash, SweepOf, Ended, NoEnder
  <2>2. CASE Ended(w)
    BY <1>1, <1>11, <2>2, Zenon DEF Crash
  <2> QED
    BY <2>1, <2>2, Zenon
<1>12. ASSUME NEW v \in Enders, v # w, BeginRevoke(v) \/ BeginEnd(v) \/ EnderStep(v)
       PROVE  ender'[w] = ender[w]
  <2>1. CASE BeginRevoke(v) \/ BeginEnd(v)
    BY <1>0, <1>12, <2>1, Zenon DEF BeginRevoke, BeginEnd, TypeOK
  <2>2. CASE EnderStep(v)
    BY <1>0, <1>12, <2>2, SweepEffect, FailEffect, EndEffect, ZenonT(40) DEF EnderStep, Erase, Answer
  <2> QED
    BY <1>12, <2>1, <2>2, Zenon
<1> QED
  BY <1>1, <1>2, <1>3, <1>4, <1>5, <1>6, <1>7, <1>8, <1>9, <1>10, <1>11, <1>12, EnderMovers, Zenon
     DEF EnderStep

-----------------------------------------------------------------------------
(* Late requests.                                                          *)

(* The steps that change the record of a proxied request.                  *)
LEMMA ProxyMovers ==
    ASSUME [Next]_vars
    PROVE  \/ \E q \in Proxies : BeginProxy(q) \/ ProxyStep(q)
           \/ \E w \in Enders : Halt(w)
           \/ Crash
           \/ proxy' = proxy
  BY Zenon DEF Next, vars, CreateStep, BeginCreate, CheckRoom, InsertTunnel, BeginRevoke, BeginEnd,
     EnderStep, ListTunnels, MarkRevoked, RevokeCapabilities, SweepDone, Erase, Answer,
     StartSandbox, BeginLink, InsertCapability

(* Every step keeps late requests out.                                     *)
LEMMA ShutStep == IInv /\ [Next]_vars => ShutInv'
<1> SUFFICES ASSUME IInv, [Next]_vars, NEW p \in Proxies, proxy'[p].late
             PROVE  /\ proxy'[p].pc \in {"tunnel", "refused"}
                    /\ proxy'[p].pc = "tunnel" => tun'[proxy'[p].tun] = "revoked"
  BY Zenon DEF ShutInv
<1>0. /\ TypeOK
      /\ proxy[p].late => proxy[p].pc \in {"tunnel", "refused"}
      /\ proxy[p].late /\ proxy[p].pc = "tunnel" => tun[proxy[p].tun] = "revoked"
  BY Zenon DEF IInv, ShutInv
<1>1. CASE proxy'[p] = proxy[p]
  <2>1. proxy[p].tun \in Tunnels
    BY <1>0, Zenon DEF TypeOK, ProxyRecs
  <2> QED
    BY <1>0, <1>1, <2>1, RowsOnlyAge, Zenon
<1>2. CASE BeginProxy(p)
  <2>1. /\ proxy'[p].pc = "tunnel"
        /\ proxy'[p].late => tun[proxy'[p].tun] = "revoked"
        /\ tun' = tun
    <3>0. proxy \in [Proxies -> ProxyRecs]
      BY <1>0, Zenon DEF TypeOK
    <3>1. tun' = tun
      BY <1>2, Zenon DEF BeginProxy
    <3>2. ASSUME NEW t \in Tunnels,
                 proxy' = [proxy EXCEPT ![p] =
                             [pc |-> "tunnel", tun |-> t, via |-> "session", st |-> "stopped",
                              late |-> tun[t] = "revoked", used |-> FALSE]]
          PROVE  proxy'[p].pc = "tunnel" /\ (proxy'[p].late => tun[proxy'[p].tun] = "revoked")
      BY <3>0, <3>2, Zenon
    <3>4. CASE \E t \in Tunnels : proxy' = [proxy EXCEPT ![p] =
                             [pc |-> "tunnel", tun |-> t, via |-> "session", st |-> "stopped",
                              late |-> tun[t] = "revoked", used |-> FALSE]]
      BY <3>1, <3>2, <3>4, Zenon
    <3>5. CASE \E l \in Links :
            /\ link[l].cap # "none"
            /\ proxy' = [proxy EXCEPT ![p] =
                           [pc |-> "tunnel", tun |-> link[l].tun, via |-> l, st |-> "stopped",
                            late |-> tun[link[l].tun] = "revoked",
                            used |-> \E q \in Proxies : proxy[q].pc = "page" /\ proxy[q].via = l]]
      <4>1. PICK l \in Links :
              proxy' = [proxy EXCEPT ![p] =
                          [pc |-> "tunnel", tun |-> link[l].tun, via |-> l, st |-> "stopped",
                           late |-> tun[link[l].tun] = "revoked",
                           used |-> \E q \in Proxies : proxy[q].pc = "page" /\ proxy[q].via = l]]
        BY <3>5, Zenon
      <4>2. /\ proxy'[p].pc = "tunnel"
            /\ proxy'[p].tun = link[l].tun
            /\ proxy'[p].late = (tun[link[l].tun] = "revoked")
        BY <3>0, <4>1, Zenon
      <4> QED
        BY <3>1, <4>2, Zenon
    <3> QED
      BY <1>2, <3>4, <3>5, Zenon DEF BeginProxy
  <2> QED
    BY <2>1, Zenon
<1>3. ASSUME NEW to \in {"sandbox", "consume", "open", "proxied"} \cup Over, ProxyTo(p, to),
             proxy[p].late => to = "refused"
      PROVE  proxy'[p].pc = "refused"
  <2>1. proxy[p] \in ProxyRecs
    BY <1>0, Zenon DEF TypeOK
  <2>2. proxy'[p].late = proxy[p].late
    <3>1. CASE to \in Over
      BY <1>0, <1>3, <3>1, Zenon DEF ProxyTo, TypeOK, NoProxy
    <3>2. CASE to \notin Over
      BY <1>0, <1>3, <3>2, <2>1, Zenon DEF ProxyTo, TypeOK, ProxyRecs
    <3> QED
      BY <3>1, <3>2, Zenon
  <2>3. to = "refused"
    BY <1>3, <2>2, Zenon
  <2> QED
    BY <1>0, <1>3, <2>3, Zenon DEF ProxyTo, TypeOK, NoProxy, Over
<1>4. CASE ReadTunnel(p)
  BY <1>0, <1>3, <1>4, Zenon DEF ReadTunnel, Over
<1>5. CASE ReadSandbox(p)
  <2>1. ~proxy[p].late
    BY <1>0, <1>5, Zenon DEF ReadSandbox
  <2>2. proxy'[p].late = proxy[p].late
    BY <1>0, <1>5 DEF ReadSandbox, TypeOK, ProxyRecs
  <2> QED
    BY <2>1, <2>2, Zenon
<1>6. CASE Authorize(p) \/ Consume(p) \/ OpenConn(p) \/ CloseConn(p)
  <2>1. ~proxy[p].late
    BY <1>0, <1>6, Zenon DEF Authorize, Consume, OpenConn, CloseConn
  <2>2. \E to \in {"sandbox", "consume", "open", "proxied"} \cup Over : ProxyTo(p, to)
    BY <1>6, Zenon DEF Authorize, Consume, OpenConn, CloseConn, Over
  <2> QED
    BY <1>3, <2>1, <2>2, Zenon
<1>7. ASSUME NEW w \in Enders, Halt(w), proxy'[p] # proxy[p] PROVE FALSE
  <2>1. ~proxy'[p].late
    BY <1>7, Zenon DEF Halt, NoProxy
  <2> QED
    BY <2>1, Zenon
<1>8. ASSUME Crash, proxy'[p] # proxy[p] PROVE FALSE
  <2>1. ~proxy'[p].late
    BY <1>8, Zenon DEF Crash, NoProxy
  <2> QED
    BY <2>1, Zenon
<1>9. ASSUME NEW q \in Proxies, q # p, BeginProxy(q) \/ ProxyStep(q) PROVE proxy'[p] = proxy[p]
  BY <1>0, <1>9, ZenonT(40) DEF BeginProxy, ProxyStep, ReadTunnel, ReadSandbox, Authorize, Consume, OpenConn,
     CloseConn, ProxyTo, TypeOK
<1> QED
  BY <1>1, <1>2, <1>4, <1>5, <1>6, <1>7, <1>8, <1>9, ProxyMovers, Zenon DEF ProxyStep

-----------------------------------------------------------------------------
(* The inductive invariant holds in every reachable state.                 *)
THEOREM Invariance == Spec => []IInv
<1>1. Init => IInv
  <2> SUFFICES ASSUME Init PROVE IInv
    OBVIOUS
  <2>1. TypeOK
    <3>1. ender \in [Enders -> EnderRecs] /\ proxy \in [Proxies -> ProxyRecs]
      BY EnderTypes, ProxyTypes, Zenon DEF Init
    <3>2. link \in [Links -> LinkRecs]
      BY AnyTunnelType, Zenon DEF Init, LinkRecs
    <3>3. crashes \in 0..MaxCrashes
      BY CrashesAssumption DEF Init
    <3> QED
      BY <3>1, <3>2, <3>3, Zenon DEF Init, TypeOK
  <2>2. LockInv /\ RoomInv
    BY Zenon DEF Init, LockInv, RoomInv
  <2>3. RowInv /\ SweepInv
    BY Zenon DEF Init, RowInv, SweepInv, NoEnder, Ended
  <2>4. ShutInv
    BY Zenon DEF Init, ShutInv, NoProxy
  <2> QED
    BY <2>1, <2>2, <2>3, <2>4, Zenon DEF IInv
<1>2. IInv /\ [Next]_vars => IInv'
  BY TypeStep, LockStep, RoomStep, RowStep, SweepStep, ShutStep, Zenon DEF IInv
<1> QED
  BY <1>1, <1>2, PTL DEF Spec

(* A request that arrives after its tunnel was revoked gets neither a page *)
(* nor a connection, for any number of links, sweeps and crashes.          *)
THEOREM RevokedStaysShutHolds == Spec => []RevokedStaysShut
<1>1. IInv => RevokedStaysShut
  BY Zenon DEF IInv, ShutInv, RevokedStaysShut
<1> QED
  BY <1>1, Invariance, PTL

(* A stop, suspend, restore, delete or revocation answered with success    *)
(* has revoked every tunnel it covers that was open when it began.         *)
THEOREM EndRevokesTunnelsHolds == Spec => []EndRevokesTunnels
<1>1. IInv => EndRevokesTunnels
  BY Zenon DEF IInv, SweepInv, EndRevokesTunnels
<1> QED
  BY <1>1, Invariance, PTL

-----------------------------------------------------------------------------
(* One-time links.                                                         *)

(* A capability exists once its handler has inserted it.                   *)
LinkInv == \A l \in Links : link[l].pc \in {"idle", "insert"} => link[l].cap = "none"

(* What is known of a proxied request with the record o when the           *)
(* capabilities are those of k: the capability it names exists, a page was *)
(* served only after it was spent, and one that was used on arrival is     *)
(* spent.                                                                  *)
Uses(o, k) ==
    /\ o.via \in Links => k[o.via].cap # "none"
    /\ o.pc = "consume" => o.via \in Links
    /\ o.pc = "page" /\ o.via \in Links => k[o.via].cap # "live"
    /\ o.used => /\ o.via \in Links /\ k[o.via].cap \in {"consumed", "revoked"}
                 /\ o.pc \in {"tunnel", "sandbox", "auth", "refused"}

UseInv == LinkInv /\ \A p \in Proxies : Uses(proxy[p], link)

(* Capabilities only age: nothing that was consumed or revoked is good     *)
(* again.                                                                  *)
CapsAge ==
    \A l \in Links :
        /\ link[l].cap = "live" => link'[l].cap \in {"live", "consumed", "revoked"}
        /\ link[l].cap \in {"consumed", "revoked"} => link'[l].cap = link[l].cap

(* The steps that change a link.                                           *)
LEMMA LinkMovers ==
    ASSUME [Next]_vars
    PROVE  \/ \E l \in Links : BeginLink(l) \/ InsertCapability(l)
           \/ \E w \in Enders : RevokeCapabilities(w)
           \/ \E p \in Proxies : Consume(p)
           \/ Crash
           \/ link' = link
  BY Zenon DEF Next, vars, CreateStep, BeginCreate, CheckRoom, InsertTunnel, BeginRevoke, BeginEnd,
     EnderStep, Halt, ListTunnels, MarkRevoked, SweepDone, Erase, Answer, StartSandbox, BeginProxy,
     ProxyStep, ReadTunnel, ReadSandbox, Authorize, OpenConn, CloseConn

(* Every step ages capabilities, and inserts one at most once.             *)
LEMMA LinkStep ==
    ASSUME TypeOK, UseInv, [Next]_vars
    PROVE  LinkInv' /\ CapsAge
<1> link \in [Links -> LinkRecs] /\ LinkInv
  BY Zenon DEF TypeOK, UseInv
<1>1. ASSUME NEW l \in Links, BeginLink(l) \/ InsertCapability(l) PROVE LinkInv' /\ CapsAge
  <2>1. link[l].cap = "none"
    BY <1>1, Zenon DEF LinkInv, BeginLink, InsertCapability
  <2>2. \A k \in Links : k # l => link'[k] = link[k]
    BY <1>1, Zenon DEF BeginLink, InsertCapability
  <2>3. link'[l].pc \in {"idle", "insert"} => link'[l].cap = "none"
    <3>1. CASE InsertCapability(l)
      BY <3>1 DEF InsertCapability, LinkRecs
    <3>2. CASE BeginLink(l)
      <4>1. PICK t \in Tunnels :
              \/ link' = [link EXCEPT ![l] = [@ EXCEPT !.pc = "done"]]
              \/ link' = [link EXCEPT ![l] = [@ EXCEPT !.pc = "insert", !.tun = t]]
        BY <3>2, Zenon DEF BeginLink, TypeOK
      <4> QED
        BY <2>1, <4>1, Zenon DEF LinkRecs
    <3> QED
      BY <1>1, <3>1, <3>2, Zenon
  <2> QED
    BY <2>1, <2>2, <2>3, Zenon DEF LinkInv, CapsAge
<1>2. ASSUME NEW w \in Enders, RevokeCapabilities(w) PROVE LinkInv' /\ CapsAge
  <2>1. \A l \in Links : link'[l].pc = link[l].pc
                         /\ (link'[l].cap = link[l].cap
                              \/ (link[l].cap = "live" /\ link'[l].cap = "revoked"))
    BY <1>2 DEF RevokeCapabilities, LinkRecs
  <2> QED
    BY <2>1, Zenon DEF LinkInv, CapsAge
<1>3. ASSUME NEW p \in Proxies, Consume(p) PROVE LinkInv' /\ CapsAge
  <2>1. \A l \in Links : link'[l].pc = link[l].pc
                         /\ (link'[l].cap = link[l].cap
                              \/ (link[l].cap = "live" /\ link'[l].cap = "consumed"))
    BY <1>3 DEF Consume, LinkRecs
  <2> QED
    BY <2>1, Zenon DEF LinkInv, CapsAge
<1>4. CASE Crash
  <2>1. \A l \in Links : /\ link'[l].cap = link[l].cap
                         /\ link'[l].pc \in {"idle", "insert"} => link[l].pc \in {"idle", "insert"}
    BY <1>4, Zenon DEF Crash, LinkRecs
  <2> QED
    BY <2>1, Zenon DEF LinkInv, CapsAge
<1>5. CASE link' = link
  BY <1>5, Zenon DEF LinkInv, CapsAge
<1> QED
  BY <1>1, <1>2, <1>3, <1>4, <1>5, LinkMovers, Zenon

(* A request that does not move still knows what it knew,                  *)
LEMMA UsesStay ==
    ASSUME TypeOK, CapsAge, NEW o \in ProxyRecs, Uses(o, link), TypeOK'
    PROVE  Uses(o, link')
<1>1. o.via \in Links => link[o.via].cap \in {"none", "live", "consumed", "revoked"}
  BY Zenon DEF TypeOK, LinkRecs
<1> QED
  BY <1>1, Zenon DEF CapsAge, Uses

(* and one that goes on has the link it came with.                         *)
LEMMA UsesGo ==
    ASSUME TypeOK, NEW p \in Proxies,
           NEW to \in {"sandbox", "consume", "open", "proxied"} \cup Over, ProxyTo(p, to)
    PROVE  /\ proxy'[p].pc = to /\ proxy'[p].via = proxy[p].via /\ proxy'[p].used = proxy[p].used
           /\ \A q \in Proxies : q # p => proxy'[q] = proxy[q]
<1> proxy \in [Proxies -> ProxyRecs] /\ proxy[p] \in ProxyRecs
  BY Zenon DEF TypeOK
<1>1. CASE to \in Over
  BY <1>1, Zenon DEF ProxyTo, NoProxy
<1>2. CASE to \notin Over
  BY <1>2, Zenon DEF ProxyTo, ProxyRecs
<1> QED
  BY <1>1, <1>2, Zenon

(* A request arrives with no link, or with one whose use it notes.         *)
LEMMA UsesBegin ==
    ASSUME TypeOK, UseInv, NEW p \in Proxies, BeginProxy(p)
    PROVE  Uses(proxy'[p], link) /\ \A q \in Proxies : q # p => proxy'[q] = proxy[q]
<1> proxy \in [Proxies -> ProxyRecs] /\ link \in [Links -> LinkRecs]
  BY Zenon DEF TypeOK
<1>1. CASE \E t \in Tunnels :
             proxy' = [proxy EXCEPT ![p] = [pc |-> "tunnel", tun |-> t, via |-> "session", st |-> "stopped",
                                            late |-> tun[t] = "revoked", used |-> FALSE]]
  BY <1>1, LinksAssumption DEF Uses
<1>2. CASE \E l \in Links :
        /\ link[l].cap # "none"
        /\ proxy' = [proxy EXCEPT ![p] =
                       [pc |-> "tunnel", tun |-> link[l].tun, via |-> l, st |-> "stopped",
                        late |-> tun[link[l].tun] = "revoked",
                        used |-> \E q \in Proxies : proxy[q].pc = "page" /\ proxy[q].via = l]]
  <2>1. PICK l \in Links :
          /\ link[l].cap # "none"
          /\ proxy' = [proxy EXCEPT ![p] =
                         [pc |-> "tunnel", tun |-> link[l].tun, via |-> l, st |-> "stopped",
                          late |-> tun[link[l].tun] = "revoked",
                          used |-> \E q \in Proxies : proxy[q].pc = "page" /\ proxy[q].via = l]]
    BY <1>2, Zenon
  <2>2. /\ proxy'[p].pc = "tunnel" /\ proxy'[p].via = l
        /\ proxy'[p].used = (\E q \in Proxies : proxy[q].pc = "page" /\ proxy[q].via = l)
        /\ \A q \in Proxies : q # p => proxy'[q] = proxy[q]
    BY <2>1, Zenon
  <2>3. (\E q \in Proxies : proxy[q].pc = "page" /\ proxy[q].via = l) => link[l].cap # "live"
    BY Zenon DEF UseInv, Uses
  <2>4. proxy'[p].used => link[l].cap \notin {"none", "live"}
    BY <2>1, <2>2, <2>3, Zenon
  <2>5. link[l].cap \in {"none", "live", "consumed", "revoked"}
    BY Zenon DEF LinkRecs
  <2> QED
    BY <2>1, <2>2, <2>4, <2>5, Zenon DEF Uses
<1> QED
  BY <1>1, <1>2, Zenon DEF BeginProxy

(* Every step keeps what is known of the uses of links.                    *)
LEMMA UseStep == TypeOK /\ UseInv /\ [Next]_vars => UseInv'
<1> SUFFICES ASSUME TypeOK, UseInv, [Next]_vars PROVE UseInv'
  OBVIOUS
<1> TypeOK' /\ LinkInv' /\ CapsAge
  BY TypeStep, LinkStep, Zenon
<1> proxy \in [Proxies -> ProxyRecs] /\ link \in [Links -> LinkRecs]
  BY Zenon DEF TypeOK
<1> SUFFICES ASSUME NEW p \in Proxies PROVE Uses(proxy'[p], link')
  BY Zenon DEF UseInv
<1> Uses(proxy[p], link) /\ proxy[p] \in ProxyRecs /\ proxy'[p] \in ProxyRecs
  BY Zenon DEF UseInv, TypeOK
<1>1. CASE proxy'[p] = proxy[p]
  BY <1>1, UsesStay, Zenon
<1>2. ASSUME NEW q \in Proxies, BeginProxy(q) PROVE Uses(proxy'[p], link')
  BY <1>1, <1>2, UsesBegin, UsesStay, Zenon
<1>3. ASSUME NEW q \in Proxies, ReadSandbox(q), proxy'[p] # proxy[p] PROVE Uses(proxy'[p], link')
  <2>1. /\ proxy[p].pc = "sandbox" /\ proxy'[p].pc = "auth" /\ link' = link
        /\ proxy'[p].via = proxy[p].via /\ proxy'[p].used = proxy[p].used
    BY <1>3 DEF ReadSandbox, ProxyRecs
  <2> QED
    BY <2>1, Zenon DEF Uses
<1>4. ASSUME ReadTunnel(p) \/ OpenConn(p) \/ CloseConn(p) PROVE Uses(proxy'[p], link')
  <2>1. PICK to \in {"sandbox", "proxied", "closed", "refused"} :
          /\ ProxyTo(p, to) /\ link' = link
          /\ to \in {"sandbox", "refused"} \/ proxy[p].pc \in {"open", "proxied"}
    BY <1>4, Zenon DEF ReadTunnel, OpenConn, CloseConn
  <2>2. to \in {"sandbox", "refused"} \/ ~proxy[p].used
    BY <2>1, Zenon DEF Uses
  <2>3. proxy'[p].pc = to /\ proxy'[p].via = proxy[p].via /\ proxy'[p].used = proxy[p].used
    BY <2>1, UsesGo, Zenon DEF Over
  <2> QED
    BY <2>1, <2>2, <2>3, Zenon DEF Uses
<1>5. CASE Authorize(p)
  <2>1. PICK to \in {"open", "refused", "page", "consume"} :
          /\ ProxyTo(p, to) /\ link' = link
          /\ to \in {"open", "page"} => proxy[p].via = "session"
          /\ to = "consume" => proxy[p].via \in Links /\ link[proxy[p].via].cap = "live"
    <3>1. CASE /\ proxy[p].via = "session"
               /\ \E to \in {"open", "page", "refused"} : ProxyTo(p, to)
      BY <1>5, <3>1, LinksAssumption, Zenon DEF Authorize
    <3>2. ASSUME NEW l \in Links, proxy[p].via = l,
                 ProxyTo(p, IF link[l].cap = "live" THEN "consume" ELSE "refused")
          PROVE  \/ ProxyTo(p, "consume") /\ link[proxy[p].via].cap = "live"
                 \/ ProxyTo(p, "refused")
      BY <3>2, Zenon
    <3> QED
      BY <1>5, <3>1, <3>2, Zenon DEF Authorize
  <2>2. proxy'[p].pc = to /\ proxy'[p].via = proxy[p].via /\ proxy'[p].used = proxy[p].used
    BY <2>1, UsesGo, Zenon DEF Over
  <2> QED
    BY <2>1, <2>2, LinksAssumption, Zenon DEF Uses
<1>6. CASE Consume(p)
  <2>1. PICK to \in {"page", "refused"} : ProxyTo(p, to)
    BY <1>6, Zenon DEF Consume
  <2>2. proxy'[p].pc = to /\ proxy'[p].via = proxy[p].via /\ proxy'[p].used = proxy[p].used
    BY <2>1, UsesGo, Zenon DEF Over
  <2>3. proxy[p].pc = "consume" /\ ~proxy[p].used /\ proxy[p].via \in Links
    BY <1>6, Zenon DEF Consume, Uses
  <2>4. to = "page" => link'[proxy[p].via].cap # "live"
    <3>1. CASE ProxyTo(p, "refused")
      BY <2>2, <3>1, UsesGo DEF Over
    <3>2. CASE link' = [link EXCEPT ![proxy[p].via].cap = IF @ = "live" THEN "consumed" ELSE @]
      BY <2>3, <3>2, Zenon DEF LinkRecs
    <3> QED
      BY <1>6, <3>1, <3>2, Zenon DEF Consume
  <2>5. link'[proxy[p].via].cap # "none"
    <3>1. link[proxy[p].via].cap \in {"none", "live", "consumed", "revoked"}
      BY <2>3, Zenon DEF LinkRecs
    <3> QED
      BY <2>3, <3>1, Zenon DEF Uses, CapsAge
  <2> QED
    BY <2>2, <2>3, <2>4, <2>5, Zenon DEF Uses
<1>7. ASSUME \E to \in {"closed", "refused"} : proxy'[p] = [NoProxy EXCEPT !.pc = to]
      PROVE  Uses(proxy'[p], link')
  <2>1. proxy'[p].via = "session" /\ ~proxy'[p].used /\ proxy'[p].pc \in {"closed", "refused"}
    BY <1>7, Zenon DEF NoProxy
  <2> QED
    BY <2>1, LinksAssumption, Zenon DEF Uses
<1>8. ASSUME NEW w \in Enders, Halt(w), proxy'[p] # proxy[p] PROVE proxy'[p] = [NoProxy EXCEPT !.pc = "closed"]
  BY <1>8, Zenon DEF Halt
<1>9. ASSUME Crash, proxy'[p] # proxy[p] PROVE proxy'[p] = [NoProxy EXCEPT !.pc = "refused"]
  BY <1>9, Zenon DEF Crash
<1>10. ASSUME NEW q \in Proxies, q # p, ProxyStep(q) PROVE proxy'[p] = proxy[p]
  BY <1>10, ZenonT(40) DEF ProxyStep, ReadTunnel, ReadSandbox, Authorize, Consume, OpenConn,
     CloseConn, ProxyTo
<1> QED
  BY <1>1, <1>2, <1>3, <1>4, <1>5, <1>6, <1>7, <1>8, <1>9, <1>10, ProxyMovers, Zenon DEF ProxyStep

(* A capability whose use was answered gives no second page to a later     *)
(* request that names it: the page is served after the capability was      *)
(* consumed, or found revoked, and capabilities only age.                  *)
THEOREM UsedCapabilityIsSpentHolds == Spec => []UsedCapabilityIsSpent
<1>1. Init => UseInv
  BY LinksAssumption DEF Init, UseInv, LinkInv, Uses, NoProxy
<1>2. TypeOK /\ UseInv /\ [Next]_vars => UseInv'
  BY UseStep, Zenon
<1>3. UseInv => UsedCapabilityIsSpent
  BY Zenon DEF UseInv, Uses, UsedCapabilityIsSpent
<1>4. Spec => []TypeOK
  <2>1. IInv => TypeOK
    BY Zenon DEF IInv
  <2> QED
    BY <2>1, Invariance, PTL
<1> QED
  BY <1>1, <1>2, <1>3, <1>4, PTL DEF Spec

-----------------------------------------------------------------------------
(* Refinement.                                                             *)

Held == {t \in Tunnels : tun[t] = "live"}

Spent == {t \in Tunnels : tun[t] = "revoked"}

(* The abstract pool counts as this module does.                           *)
LEMMA SameCount == \A S : Pool!Cardinality(S) = Cardinality(S)
  BY Zenon DEF Pool!Cardinality, Cardinality

(* An insert takes a slot or changes no row.                               *)
LEMMA InsertAcquires ==
    ASSUME QuotaReadable, IInv, NEW t \in Tunnels, InsertTunnel(t)
    PROVE  Pool!Acquire(t) \/ tun' = tun
<1>1. CASE tun' = [tun EXCEPT ![t] = "live"]
  <2>1. tun[t] = "absent"
    BY Zenon DEF IInv, RowInv, InsertTunnel
  <2>2. t \notin Held \cup Spent
    BY <2>1, Zenon DEF Held, Spent
  <2>3. Pool!HeldBy(Owner[t]) = LiveOf(Owner[t])
    BY Zenon DEF Pool!HeldBy, LiveOf
  <2>4. Held' = Held \cup {t}
    BY <1>1, Zenon DEF Held, IInv, TypeOK
  <2>5. Spent' = Spent
    BY <1>1, <2>1, Zenon DEF Spent, IInv, TypeOK
  <2>6. Cardinality(LiveOf(Owner[t])) < MaxTunnels
    BY Zenon DEF IInv, RoomInv, InsertTunnel
  <2> QED
    BY <2>2, <2>3, <2>4, <2>5, <2>6, SameCount, Zenon DEF Pool!Acquire, Held, Spent
<1> QED
  BY <1>1, Zenon DEF InsertTunnel

(* A sweep gives a slot back, or changes no row.                           *)
LEMMA MarkReleases ==
    ASSUME IInv, NEW w \in Enders, MarkRevoked(w)
    PROVE  (\E t \in Tunnels : Pool!Release(t)) \/ tun' = tun
<1>1. ASSUME NEW t \in ender[w].todo, tun' = [tun EXCEPT ![t] = "revoked"]
      PROVE  (\E u \in Tunnels : Pool!Release(u)) \/ tun' = tun
  <2>1. t \in Tunnels /\ tun[t] \in {"live", "revoked"}
    BY DEF IInv, TypeOK, EnderRecs, RowInv
  <2>2. CASE tun[t] = "revoked"
    BY <1>1, <2>1, <2>2, Zenon DEF IInv, TypeOK
  <2>3. CASE tun[t] = "live"
    <3>1. Held' = Held \ {t}
      BY <1>1, <2>1, Zenon DEF Held, IInv, TypeOK
    <3>2. Spent' = Spent \cup {t}
      BY <1>1, <2>1, Zenon DEF Spent, IInv, TypeOK
    <3>3. Pool!Release(t)
      BY <2>1, <2>3, <3>1, <3>2, Zenon DEF Pool!Release, Held, Spent
    <3> QED
      BY <2>1, <3>3, Zenon
  <2> QED
    BY <2>1, <2>2, <2>3, Zenon
<1> QED
  BY <1>1, Zenon DEF MarkRevoked

(* Tunnel rows implement a slot pool: a tenant opens a tunnel only under   *)
(* its quota, and a revoked tunnel never comes back.  It rests on the      *)
(* quota being readable: reserveTunnelCreate skips the check otherwise.    *)
THEOREM TunnelsImplementSlotPool ==
    ASSUME QuotaReadable
    PROVE  Spec => ImplementsSlotPool
<1>1. Init => Pool!Init
  BY Zenon DEF Init, Pool!Init
<1>2. IInv /\ [Next]_vars => [Pool!Next]_(Pool!poolVars)
  <2> SUFFICES ASSUME IInv, [Next]_vars PROVE Pool!Next \/ tun' = tun
    BY Zenon DEF Pool!poolVars
  <2>1. ASSUME NEW t \in Tunnels, InsertTunnel(t) PROVE Pool!Next \/ tun' = tun
    BY <2>1, InsertAcquires, Zenon DEF Pool!Next
  <2>2. ASSUME NEW w \in Enders, MarkRevoked(w) PROVE Pool!Next \/ tun' = tun
    BY <2>2, MarkReleases, Zenon DEF Pool!Next
  <2> QED
    BY <2>1, <2>2, RowWriters, Zenon
<1> QED
  BY <1>1, <1>2, Invariance, PTL DEF Spec, Pool!Spec, ImplementsSlotPool

=============================================================================
