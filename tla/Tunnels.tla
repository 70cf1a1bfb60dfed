------------------------------ MODULE Tunnels ------------------------------
(***************************************************************************)
(* Tunnels: creation under the tenant quota, revocation by a request and   *)
(* by the end of a sandbox (stop, suspend, restore, delete), signed links  *)
(* with their one-time capabilities, and the proxy requests that use them. *)
(*                                                                         *)
(* Each t in Tunnels is one create request and the row it inserts, each l  *)
(* in Links one signed-url request for a one-time link and the capability  *)
(* it makes.  What a bearer token, a tunnel token, a cookie or a signed    *)
(* link that names no capability permits is decided without state: a proxy *)
(* request that carries one is let through or refused here.                *)
(***************************************************************************)
EXTENDS Naturals, FiniteSets

CONSTANTS
    Tunnels,
    Sandboxes,
    SandboxOf,      \* the sandbox of each tunnel
    Owner,          \* the tenant of each tunnel
    MaxTunnels,     \* quota of a tenant
    QuotaReadable,  \* the quota can be read; otherwise it is not enforced
    Enders,         \* requests that revoke: a tunnel, or all of a sandbox
    Links,
    Proxies,
    MaxCrashes

ASSUME TunnelsAssumption ==
    IsFiniteSet(Tunnels) /\ Tunnels # {} /\ SandboxOf \in [Tunnels -> Sandboxes]
ASSUME QuotaAssumption == MaxTunnels \in Nat /\ QuotaReadable \in BOOLEAN
ASSUME CrashesAssumption == MaxCrashes \in Nat
ASSUME LinksAssumption == "session" \notin Links

VARIABLES
    tun,            \* status of each tunnel row
    pc,             \* where each create handler is
    admissionMu,    \* the handlers inside the admission lock
    sb,             \* status of each sandbox
    ender,          \* the requests that revoke
    link,           \* signed-url requests with the capability they made
    proxy,
    crashes

vars == <<tun, pc, admissionMu, sb, ender, link, proxy, crashes>>

AnyTunnel == CHOOSE t \in Tunnels : TRUE

NoProxy == [pc |-> "idle", tun |-> AnyTunnel, via |-> "session", st |-> "stopped",
            late |-> FALSE, used |-> FALSE]

LiveOf(t) == {u \in Tunnels : tun[u] = "live" /\ Owner[u] = t}

LiveAt(s) == {t \in Tunnels : tun[t] = "live" /\ SandboxOf[t] = s}

Goto(t, to) == pc' = [pc EXCEPT ![t] = to]

-----------------------------------------------------------------------------
(* CreateTunnel.                                                           *)

(* The sandbox must allow tunnels and the request must be valid; a sandbox *)
(* that is not running may get a tunnel all the same.                      *)
BeginCreate(t) ==
    /\ pc[t] = "idle"
    /\ Goto(t, "lock") \/ Goto(t, "done")
    /\ UNCHANGED <<tun, admissionMu, sb, ender, link, proxy, crashes>>

(* Wrong: the tunnel about to be inserted is forgotten.                    *)
CheckRoomOffByOne(t) ==
    /\ pc[t] = "lock"
    /\ admissionMu = {}
    /\ \/ /\ QuotaReadable => Cardinality(LiveOf(Owner[t])) <= MaxTunnels
          /\ Goto(t, "insert")
          /\ admissionMu' = {t}
       \/ Goto(t, "done") /\ UNCHANGED admissionMu
    /\ UNCHANGED <<tun, sb, ender, link, proxy, crashes>>

(* reserveTunnelCreate: lock, compare the usage with the quota, apply the  *)
(* tenant's policy.                                                        *)
CheckRoom(t) ==
    /\ pc[t] = "lock"
    /\ admissionMu = {}
    /\ \/ /\ QuotaReadable => Cardinality(LiveOf(Owner[t])) < MaxTunnels
          /\ Goto(t, "insert")
          /\ admissionMu' = {t}
       \/ Goto(t, "done") /\ UNCHANGED admissionMu
    /\ UNCHANGED <<tun, sb, ender, link, proxy, crashes>>

(* The row is inserted, or the store fails, and the lock is released.      *)
InsertTunnel(t) ==
    /\ pc[t] = "insert"
    /\ tun' = [tun EXCEPT ![t] = "live"] \/ UNCHANGED tun
    /\ Goto(t, "done")
    /\ admissionMu' = admissionMu \ {t}
    /\ UNCHANGED <<sb, ender, link, proxy, crashes>>

-----------------------------------------------------------------------------
(* Revocation.  next is what follows the sweep over the tunnels in todo,   *)
(* cur the tunnel it is at.                                                *)

Ended(w) == ender[w].pc \in {"idle", "ok", "err", "lost"}

EnderTo(w, to) == ender' = [ender EXCEPT ![w].pc = to]

NoEnder == [pc |-> "idle", sb |-> SandboxOf[AnyTunnel], next |-> "answer", todo |-> {},
            cur |-> AnyTunnel, before |-> {}]

EndWith(w, result, revoked) ==
    ender' = [ender EXCEPT ![w] = [NoEnder EXCEPT !.pc = result, !.before = revoked]]

Fail(w) == EndWith(w, "err", {})

(* RevokeTunnel of one tunnel.                                             *)
BeginRevoke(w) ==
    /\ ender[w].pc = "idle"
    /\ \E t \in Tunnels :
         /\ tun[t] # "absent"
         /\ ender' = [ender EXCEPT ![w] =
                        [pc |-> "mark", sb |-> SandboxOf[t], next |-> "answer", todo |-> {t},
                         cur |-> t, before |-> {t}]]
    /\ UNCHANGED <<tun, pc, admissionMu, sb, link, proxy, crashes>>

(* Stop, suspend and restore end the guest first; delete revokes first,    *)
(* and then stops a sandbox it saw running, which revokes again.           *)
BeginEnd(w) ==
    /\ ender[w].pc = "idle"
    /\ \E s \in Sandboxes :
         /\ sb[s] # "deleted"
         /\ \E start \in {<<"halt", "answer">>,
                          <<"list", IF sb[s] = "running" THEN "halt" ELSE "erase">>} :
              ender' = [ender EXCEPT ![w] =
                          [pc |-> start[1], sb |-> s, next |-> start[2], todo |-> {},
                           cur |-> AnyTunnel, before |-> LiveAt(s)]]
    /\ UNCHANGED <<tun, pc, admissionMu, sb, link, proxy, crashes>>

(* The guest ends and the connections into it break.                       *)
Halt(w) ==
    /\ ender[w].pc = "halt"
    /\ sb' = [sb EXCEPT ![ender[w].sb] = "stopped"]
    /\ proxy' = [p \in Proxies |->
                    IF proxy[p].pc = "proxied" /\ SandboxOf[proxy[p].tun] = ender[w].sb
                    THEN [NoProxy EXCEPT !.pc = "closed"] ELSE proxy[p]]
    /\ ender' = [ender EXCEPT ![w] =
                    [@ EXCEPT !.pc = "list",
                              !.next = IF ender[w].next = "halt" THEN "erase" ELSE "answer"]]
    /\ UNCHANGED <<tun, pc, admissionMu, link, crashes>>

(* revokeActiveTunnels lists the tunnels of the sandbox ...                *)
ListTunnels(w) ==
    /\ ender[w].pc = "list"
    /\ \/ ender' = [ender EXCEPT ![w] = [@ EXCEPT !.pc = "mark", !.todo = LiveAt(ender[w].sb)]]
       \/ Fail(w)
    /\ UNCHANGED <<tun, pc, admissionMu, sb, link, proxy, crashes>>

(* Wrong: a tunnel that cannot be revoked is passed over.                  *)
MarkOrSkip(w) ==
    /\ ender[w].pc = "mark"
    /\ \E t \in ender[w].todo :
         \/ /\ tun' = [tun EXCEPT ![t] = "revoked"]
            /\ ender' = [ender EXCEPT ![w] = [@ EXCEPT !.pc = "caps", !.cur = t]]
         \/ ender' = [ender EXCEPT ![w].todo = @ \ {t}] /\ UNCHANGED tun
    /\ UNCHANGED <<pc, admissionMu, sb, link, proxy, crashes>>

(* ... and revokes each, ...                                               *)
MarkRevoked(w) ==
    /\ ender[w].pc = "mark"
    /\ \E t \in ender[w].todo :
         \/ /\ tun' = [tun EXCEPT ![t] = "revoked"]
            /\ ender' = [ender EXCEPT ![w] = [@ EXCEPT !.pc = "caps", !.cur = t]]
         \/ Fail(w) /\ UNCHANGED tun
    /\ UNCHANGED <<pc, admissionMu, sb, link, proxy, crashes>>

(* ... then the capabilities of the tunnel just revoked; a store error     *)
(* ends the sweep.                                                         *)
RevokeCapabilities(w) ==
    /\ ender[w].pc = "caps"
    /\ \/ /\ link' = [l \in Links |->
                         IF link[l].tun = ender[w].cur /\ link[l].cap = "live"
                         THEN [link[l] EXCEPT !.cap = "revoked"] ELSE link[l]]
          /\ ender' = [ender EXCEPT ![w] =
                        [@ EXCEPT !.pc = "mark", !.todo = ender[w].todo \ {ender[w].cur},
                                  !.cur = AnyTunnel]]
       \/ Fail(w) /\ UNCHANGED link
    /\ UNCHANGED <<tun, pc, admissionMu, sb, proxy, crashes>>

SweepDone(w) ==
    /\ ender[w].pc = "mark" /\ ender[w].todo = {}
    /\ EnderTo(w, ender[w].next)
    /\ UNCHANGED <<tun, pc, admissionMu, sb, link, proxy, crashes>>

(* The row becomes deleted, or the removal of the guest fails.             *)
Erase(w) ==
    /\ ender[w].pc = "erase"
    /\ \/ sb' = [sb EXCEPT ![ender[w].sb] = "deleted"] /\ EndWith(w, "ok", ender[w].before)
       \/ Fail(w) /\ UNCHANGED sb
    /\ UNCHANGED <<tun, pc, admissionMu, link, proxy, crashes>>

Answer(w) ==
    /\ ender[w].pc = "answer"
    /\ EndWith(w, "ok", ender[w].before)
    /\ UNCHANGED <<tun, pc, admissionMu, sb, link, proxy, crashes>>

StartSandbox(s) ==
    /\ sb[s] = "stopped"
    /\ sb' = [sb EXCEPT ![s] = "running"]
    /\ UNCHANGED <<tun, pc, admissionMu, ender, link, proxy, crashes>>

-----------------------------------------------------------------------------
(* handleTunnelSignedURL: a tunnel that is not revoked is read; a one-time *)
(* link gets a capability, whatever became of the tunnel in the meantime.  *)
(* A link that is not one-time leaves no row.                              *)

BeginLink(l) ==
    /\ link[l].pc = "idle"
    /\ \E t \in Tunnels :
         /\ tun[t] # "absent"
         /\ link' = [link EXCEPT ![l] = IF tun[t] = "revoked" THEN [@ EXCEPT !.pc = "done"]
                                        ELSE [@ EXCEPT !.pc = "insert", !.tun = t]]
    /\ UNCHANGED <<tun, pc, admissionMu, sb, ender, proxy, crashes>>

InsertCapability(l) ==
    /\ link[l].pc = "insert"
    /\ \/ link' = [link EXCEPT ![l].pc = "done", ![l].cap = "live"]
       \/ link' = [link EXCEPT ![l].pc = "done"]
    /\ UNCHANGED <<tun, pc, admissionMu, sb, ender, proxy, crashes>>

-----------------------------------------------------------------------------
(* handleTunnelProxy.  via is the link whose capability the request names, *)
(* or "session" when it names none.  late and used note, for the           *)
(* properties, that on arrival the tunnel was revoked and the capability   *)
(* used.                                                                   *)

Over == {"page", "closed", "refused"}

(* The request goes on, or is over and keeps only what was noted of it.    *)
ProxyTo(p, to) ==
    proxy' = [proxy EXCEPT ![p] =
                IF to \in Over THEN [NoProxy EXCEPT !.pc = to, !.late = proxy[p].late,
                                                     !.used = proxy[p].used, !.via = proxy[p].via]
                ELSE [@ EXCEPT !.pc = to]]

BeginProxy(p) ==
    /\ proxy[p].pc = "idle"
    /\ \/ \E t \in Tunnels :
            /\ tun[t] # "absent"
            /\ proxy' = [proxy EXCEPT ![p] =
                           [pc |-> "tunnel", tun |-> t, via |-> "session", st |-> "stopped",
                            late |-> tun[t] = "revoked", used |-> FALSE]]
       \/ \E l \in Links :
            /\ link[l].cap # "none"
            /\ proxy' = [proxy EXCEPT ![p] =
                           [pc |-> "tunnel", tun |-> link[l].tun, via |-> l, st |-> "stopped",
                            late |-> tun[link[l].tun] = "revoked",
                            used |-> \E q \in Proxies : proxy[q].pc = "page" /\ proxy[q].via = l]]
    /\ UNCHANGED <<tun, pc, admissionMu, sb, ender, link, crashes>>

(* Wrong: a link is taken as proof that the tunnel is good.                *)
ReadTunnelUnlessLink(p) ==
    /\ proxy[p].pc = "tunnel"
    /\ ProxyTo(p, IF proxy[p].via = "session" /\ tun[proxy[p].tun] = "revoked"
                  THEN "refused" ELSE "sandbox")
    /\ UNCHANGED <<tun, pc, admissionMu, sb, ender, link, crashes>>

(* GetTunnelForProxy reads the tunnel, refused when revoked, ...           *)
ReadTunnel(p) ==
    /\ proxy[p].pc = "tunnel"
    /\ ProxyTo(p, IF tun[proxy[p].tun] = "revoked" THEN "refused" ELSE "sandbox")
    /\ UNCHANGED <<tun, pc, admissionMu, sb, ender, link, crashes>>

(* ... and then its sandbox.                                               *)
ReadSandbox(p) ==
    /\ proxy[p].pc = "sandbox"
    /\ proxy' = [proxy EXCEPT ![p] = [@ EXCEPT !.pc = "auth", !.st = sb[SandboxOf[proxy[p].tun]]]]
    /\ UNCHANGED <<tun, pc, admissionMu, sb, ender, link, crashes>>

(* A token or a cookie is accepted or not, and so is a signed link that    *)
(* names no capability, which is exchanged for a cookie and the bootstrap  *)
(* page: a plain link, or a one-time link without it, for the signature    *)
(* covers the tunnel, the path and the expiry only.  A capability that is  *)
(* named must be found neither consumed nor revoked.                       *)
Authorize(p) ==
    /\ proxy[p].pc = "auth"
    /\ \/ /\ proxy[p].via = "session"
          /\ \E to \in {"open", "page", "refused"} : ProxyTo(p, to)
       \/ \E l \in Links :
            /\ proxy[p].via = l
            /\ ProxyTo(p, IF link[l].cap = "live" THEN "consume" ELSE "refused")
    /\ UNCHANGED <<tun, pc, admissionMu, sb, ender, link, crashes>>

(* Wrong: the page is served without consuming the capability.             *)
ServeUnconsumed(p) ==
    /\ proxy[p].pc = "consume"
    /\ ProxyTo(p, "page")
    /\ UNCHANGED <<tun, pc, admissionMu, sb, ender, link, crashes>>

(* ConsumeTunnelCapability updates the row if it is still good; that it    *)
(* was is not looked at.                                                   *)
Consume(p) ==
    /\ proxy[p].pc = "consume"
    /\ \/ /\ link' = [link EXCEPT ![proxy[p].via].cap = IF @ = "live" THEN "consumed" ELSE @]
          /\ ProxyTo(p, "page")
       \/ ProxyTo(p, "refused") /\ UNCHANGED link
    /\ UNCHANGED <<tun, pc, admissionMu, sb, ender, crashes>>

(* OpenSandboxLocalConn: the row must have said running and the guest must *)
(* answer.                                                                 *)
OpenConn(p) ==
    /\ proxy[p].pc = "open"
    /\ \/ /\ proxy[p].st = "running" /\ sb[SandboxOf[proxy[p].tun]] = "running"
          /\ ProxyTo(p, "proxied")
       \/ ProxyTo(p, "refused")
    /\ UNCHANGED <<tun, pc, admissionMu, sb, ender, link, crashes>>

(* The response is complete, or one side of the websocket closes.          *)
CloseConn(p) ==
    /\ proxy[p].pc = "proxied"
    /\ ProxyTo(p, "closed")
    /\ UNCHANGED <<tun, pc, admissionMu, sb, ender, link, crashes>>

(* The daemon dies: handlers, connections and the lock go, rows stay.      *)
Crash ==
    /\ crashes < MaxCrashes
    /\ crashes' = crashes + 1
    /\ pc' = [t \in Tunnels |-> IF pc[t] = "idle" THEN "idle" ELSE "done"]
    /\ admissionMu' = {}
    /\ ender' = [w \in Enders |-> IF Ended(w) THEN ender[w] ELSE [NoEnder EXCEPT !.pc = "lost"]]
    /\ link' = [l \in Links |-> IF link[l].pc = "idle" THEN link[l]
                                ELSE [link[l] EXCEPT !.pc = "done"]]
    /\ proxy' = [p \in Proxies |-> IF proxy[p].pc \in Over \cup {"idle"} THEN proxy[p]
                                   ELSE [NoProxy EXCEPT !.pc = "refused"]]
    /\ UNCHANGED <<tun, sb>>

-----------------------------------------------------------------------------
Init ==
    /\ tun = [t \in Tunnels |-> "absent"]
    /\ pc = [t \in Tunnels |-> "idle"]
    /\ admissionMu = {}
    /\ sb = [s \in Sandboxes |-> "running"]
    /\ ender = [w \in Enders |-> NoEnder]
    /\ link = [l \in Links |-> [pc |-> "idle", tun |-> AnyTunnel, cap |-> "none"]]
    /\ proxy = [p \in Proxies |-> NoProxy]
    /\ crashes = 0

CreateStep(t) == BeginCreate(t) \/ CheckRoom(t) \/ InsertTunnel(t)

EnderStep(w) ==
    \/ Halt(w) \/ ListTunnels(w) \/ MarkRevoked(w) \/ RevokeCapabilities(w)
    \/ SweepDone(w) \/ Erase(w) \/ Answer(w)

ProxyStep(p) ==
    ReadTunnel(p) \/ ReadSandbox(p) \/ Authorize(p) \/ Consume(p) \/ OpenConn(p) \/ CloseConn(p)

Next ==
    \/ \E t \in Tunnels : CreateStep(t)
    \/ \E w \in Enders : BeginRevoke(w) \/ BeginEnd(w) \/ EnderStep(w)
    \/ \E s \in Sandboxes : StartSandbox(s)
    \/ \E l \in Links : BeginLink(l) \/ InsertCapability(l)
    \/ \E p \in Proxies : BeginProxy(p) \/ ProxyStep(p)
    \/ Crash

Spec == Init /\ [][Next]_vars

-----------------------------------------------------------------------------
(* Properties.                                                             *)

EnderRecs ==
    [pc : {"idle", "halt", "list", "mark", "caps", "erase", "answer", "ok", "err", "lost"},
     sb : Sandboxes, next : {"halt", "erase", "answer"}, todo : SUBSET Tunnels, cur : Tunnels,
     before : SUBSET Tunnels]

LinkRecs ==
    [pc : {"idle", "insert", "done"}, tun : Tunnels,
     cap : {"none", "live", "consumed", "revoked"}]

ProxyRecs ==
    [pc : {"idle", "tunnel", "sandbox", "auth", "consume", "open", "page", "proxied", "closed",
           "refused"},
     tun : Tunnels, via : Links \cup {"session"}, st : {"running", "stopped", "deleted"},
     late : BOOLEAN, used : BOOLEAN]

TypeOK ==
    /\ tun \in [Tunnels -> {"absent", "live", "revoked"}]
    /\ pc \in [Tunnels -> {"idle", "lock", "insert", "done"}]
    /\ admissionMu \in SUBSET Tunnels
    /\ sb \in [Sandboxes -> {"running", "stopped", "deleted"}]
    /\ ender \in [Enders -> EnderRecs]
    /\ link \in [Links -> LinkRecs]
    /\ proxy \in [Proxies -> ProxyRecs]
    /\ crashes \in 0..MaxCrashes

(* Tunnel rows implement a slot pool: no tenant has more tunnels open than *)
(* its quota, and a revoked tunnel never comes back, though revocations,   *)
(* which take no lock, run while the usage is compared with the quota.     *)
Pool == INSTANCE SlotPool WITH
            Slots <- Tunnels,
            Limit <- MaxTunnels,
            held  <- {t \in Tunnels : tun[t] = "live"},
            spent <- {t \in Tunnels : tun[t] = "revoked"}

ImplementsSlotPool == Pool!Spec

(* A request that arrives after its tunnel was revoked gets neither the    *)
(* bootstrap page nor a connection, by whatever means it is authorized:    *)
(* capabilities may outlive the tunnel, when a link is signed while it is  *)
(* being revoked or when the sweep fails half-way.                         *)
RevokedStaysShut ==
    \A p \in Proxies : proxy[p].late => proxy[p].pc \in {"tunnel", "refused"}

(* A stop, suspend, restore, delete or revocation that is answered with    *)
(* success has revoked every tunnel it covers that was open when it began, *)
(* whatever else ran in between.                                           *)
EndRevokesTunnels ==
    \A w \in Enders : ender[w].pc = "ok"
                      => \A t \in ender[w].before : tun[t] # "live"

(* A capability whose use was answered with the page gives no second page  *)
(* to a later request that names it, though the tunnel's revocation, other *)
(* requests and a crash may come between the check and the update; only    *)
(* requests that overlap may both get one.                                 *)
UsedCapabilityIsSpent ==
    \A p \in Proxies : proxy[p].used => proxy[p].pc # "page"

=============================================================================
