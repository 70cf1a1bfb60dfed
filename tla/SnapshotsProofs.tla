-------------------------- MODULE SnapshotsProofs --------------------------
(***************************************************************************)
(* A ready snapshot has its data, a restore from one that answers ok has   *)
(* put it into the workspace, and a restore of a virtual machine keeps the *)
(* old disk until the whole snapshot is at hand, for any number of         *)
(* sandboxes, snapshots, requests and crashes, for every backend and with  *)
(* any faults.  The inductive invariant adds to what is said of ready rows *)
(* what the handlers rely on: that they are apart, what their copies of a  *)
(* row name, and what their directories hold at each step.  The steps that *)
(* change no directory of a stored snapshot come first, then those that    *)
(* change directories, rows and exports, those of the reconcile pass and   *)
(* the crash, and the theorems.                                            *)
(***************************************************************************)
EXTENDS Snapshots, TLAPS

(* Where CreateSnapshot is, from reading the sandbox to storing its row.   *)
CreatePcs ==
    {"get", "admit", "insert", "inspect", "archive", "image", "tar", "seal", "export",
     "ready", "refresh", "fail", "failwrite"}

(* Where RestoreSnapshot is.                                               *)
RestorePcs ==
    {"rget", "radmit", "ensure", "fetch", "rstop", "rruntime", "rmkfs", "rextract",
     "rpersist", "rfinish"}

(* Each handler is in its own code.                                        *)
PcInv ==
    \A r \in Requests :
        /\ req[r].pc \in CreatePcs => req[r].op = "create"
        /\ req[r].pc \in RestorePcs => req[r].op = "restore"
        /\ req[r].pc = "purge" => req[r].op = "delete"
        /\ req[r].pc \in {"destroy", "purge", "dpersist"} => req[r].op # "restore"

(* Requests in flight are about different sandboxes, and no two creates    *)
(* have the same snapshot: its id is new.                                  *)
Apart ==
    \A r, q \in Requests : r # q =>
        /\ InFlight(r) /\ InFlight(q) => req[r].sb # req[q].sb
        /\ /\ req[r].op = "create" /\ req[r].pc # "idle"
           /\ req[q].op = "create" /\ req[q].pc # "idle"
           => req[r].snap # req[q].snap

(* A create handler that has not stored a ready row yet.                   *)
Early == {"get", "admit", "insert", "inspect", "archive", "image", "tar", "seal", "export", "ready"}

(* The directory is whole and the ready row is about to be stored, or is.  *)
Kept == {"export", "ready", "refresh"}

(* What a handler of operation op on sandbox s relies on at pc, with the   *)
(* row it holds: w is the row of its snapshot, d its directory, and k the  *)
(* configuration.                                                          *)
Holds(op, s, pc, copy, w, d, k) ==
    /\ copy.status = "ready" => copy.tar
    /\ pc \in CreatePcs \ {"get", "admit", "insert"} => copy.src = s
    /\ pc \in Kept => copy.status = "ready" /\ d = "full"
    /\ pc = "failwrite" => copy.status = "error"
    /\ pc \in Early => w.status # "ready" /\ ~w.loc
    /\ op = "restore" /\ copy.loc /\ w.status = "ready" => w.loc
    /\ op = "create" /\ pc = "err" /\ "cancel" \notin k.faults => w.status # "ready"

(* A copy of the row that names an export names one that is there, and the *)
(* handler finds what it relies on.                                        *)
HandlerOK(r) ==
    /\ req[r].row.loc => req[r].snap \in bundle /\ req[r].pc # "idle"
    /\ Holds(req[r].op, req[r].sb, req[r].pc, req[r].row,
             row[req[r].snap], Dir(req[r].sb, req[r].snap), cfg)

(* Nobody restores an export of a snapshot that is not stored yet.         *)
EarlyInv ==
    \A r, q \in Requests :
        /\ req[r].pc \in Early /\ req[q].op = "restore" /\ req[q].pc # "idle"
        /\ req[q].snap = req[r].snap
        => ~req[q].row.loc

(* Past the write of the ready row.                                        *)
Settled == {"refresh", "fail", "failwrite", "ok", "err", "lost"}

(* Request r took snapshot n of the sandbox its row names, and wrote it as *)
(* ready.                                                                  *)
Creator(r, n) ==
    req[r].op = "create" /\ req[r].snap = n /\ req[r].sb = row[n].src /\ req[r].pc \in Settled

(* A row that names an export names one that is there; a ready row has an  *)
(* archive and a create that stored it.                                    *)
RowOK(n) ==
    /\ row[n].loc => n \in bundle /\ row[n].status # "none"
    /\ row[n].status = "ready" => row[n].tar /\ \E r \in Requests : Creator(r, n)

(* Rows, directories and exports against what the handlers rely on.        *)
DataInv ==
    /\ \A r \in Requests : HandlerOK(r)
    /\ EarlyInv
    /\ \A n \in Snaps : RowOK(n)
    /\ ReadyHasData

(* The inductive invariant.                                                *)
SnapInv == TypeOK /\ PcInv /\ Apart /\ DataInv

-----------------------------------------------------------------------------
(* Steps of handlers.                                                      *)

(* The statuses of a sandbox that matter to a snapshot.                    *)
SbStatus == {"stopped", "running", "deleted"}

(* The requests.                                                           *)
ReqRec == [op : Ops, sb : Sandboxes, snap : Snaps, pc : Pcs, st : SbStatus, row : Rows]

(* Request r is at pc with the status and the row it holds; its operation, *)
(* sandbox and snapshot are what they were.                                *)
Moved(r, pc, st, copy) ==
    req' = [req EXCEPT ![r] = [op |-> req[r].op, sb |-> req[r].sb, snap |-> req[r].snap,
                               pc |-> pc, st |-> st, row |-> copy]]

(* The types of everything but the requests.                               *)
RestOK ==
    /\ cfg \in NodeConfigs
    /\ sb \in [Sandboxes -> SbStatus]
    /\ ws \in [Sandboxes -> {"own", "empty"} \cup Snaps]
    /\ base \in BOOLEAN
    /\ row \in [Snaps -> Rows]
    /\ files \in [Sandboxes -> [Snaps -> {"none", "notar", "partial", "full"}]]
    /\ bundle \in SUBSET Snaps
    /\ rec \in [pc : {"idle", "close"}, boot : BOOLEAN, todo : SUBSET Snaps]
    /\ crashes \in 0..MaxCrashes

(* The types are those of the requests and those of the rest.              *)
LEMMA Typed ==
    /\ TypeOK <=> RestOK /\ req \in [Requests -> ReqRec]
    /\ TypeOK' <=> RestOK' /\ req' \in [Requests -> ReqRec]
BY Zenon DEF TypeOK, RestOK, ReqRec, SbStatus

(* What the current state says of a handler and of its sandbox.            *)
LEMMA RequestTypes ==
    ASSUME TypeOK, NEW r \in Requests
    PROVE  /\ req \in [Requests -> ReqRec]
           /\ req[r].sb \in Sandboxes /\ req[r].snap \in Snaps /\ req[r].op \in Ops
           /\ req[r].st \in SbStatus /\ req[r].row \in Rows /\ sb[req[r].sb] \in SbStatus
BY Zenon DEF TypeOK, ReqRec, SbStatus

(* There is a sandbox and a snapshot to name.                              *)
LEMMA Chosen == AnySandbox \in Sandboxes /\ (CHOOSE n \in Snaps : TRUE) \in Snaps
BY SnapshotsAssumption, Zenon DEF AnySandbox

(* The row a handler starts from and ends with.                            *)
LEMMA EmptyRowType ==
    ASSUME NEW s \in Sandboxes, NEW st \in {"none", "creating", "ready", "error"}
    PROVE  /\ EmptyRow(st, s) \in Rows
           /\ EmptyRow(st, s).status = st /\ EmptyRow(st, s).src = s
           /\ ~EmptyRow(st, s).loc /\ EmptyRow(st, s).image = "none" /\ ~EmptyRow(st, s).tar
BY Zenon DEF EmptyRow, Rows

(* What is known of the requests after such a step.                        *)
LEMMA MovedFacts ==
    ASSUME req \in [Requests -> ReqRec], NEW r \in Requests, NEW pc \in Pcs,
           NEW st \in SbStatus, NEW copy \in Rows, Moved(r, pc, st, copy)
    PROVE  /\ req' \in [Requests -> ReqRec]
           /\ \A q \in Requests : q # r => req'[q] = req[q]
           /\ \A q \in Requests : /\ req'[q].op = req[q].op
                                   /\ req'[q].sb = req[q].sb
                                   /\ req'[q].snap = req[q].snap
           /\ req'[r].pc = pc /\ req'[r].st = st /\ req'[r].row = copy
<1> DEFINE new == [op |-> req[r].op, sb |-> req[r].sb, snap |-> req[r].snap,
                   pc |-> pc, st |-> st, row |-> copy]
<1>1. req[r] \in ReqRec
  OBVIOUS
<1>2. new \in ReqRec /\ new.op = req[r].op /\ new.sb = req[r].sb /\ new.snap = req[r].snap
      /\ new.pc = pc /\ new.st = st /\ new.row = copy
  BY <1>1, Zenon DEF ReqRec
<1>3. req' = [req EXCEPT ![r] = new]
  BY Zenon DEF Moved
<1> HIDE DEF new
<1> QED
  BY <1>2, <1>3, Zenon

(* The three ways a handler writes its own state.                          *)
LEMMA GotoMoves ==
    ASSUME req \in [Requests -> ReqRec], NEW r \in Requests, NEW pc \in Pcs
    PROVE  /\ Goto(r, pc) => Moved(r, pc, req[r].st, req[r].row)
           /\ \A copy \in Rows : GotoWith(r, pc, copy) => Moved(r, pc, req[r].st, copy)
           /\ \A st \in SbStatus :
                 req' = [req EXCEPT ![r].pc = pc, ![r].st = st] => Moved(r, pc, st, req[r].row)
<1>1. PICK o \in ReqRec : o = req[r]
  OBVIOUS
<1>2. [o EXCEPT !.pc = pc] = [op |-> o.op, sb |-> o.sb, snap |-> o.snap, pc |-> pc, st |-> o.st, row |-> o.row]
  BY DEF ReqRec
<1>3. ASSUME NEW copy \in Rows, GotoWith(r, pc, copy) PROVE Moved(r, pc, req[r].st, copy)
  <2>1. [[o EXCEPT !.pc = pc] EXCEPT !.row = copy]
          = [op |-> o.op, sb |-> o.sb, snap |-> o.snap, pc |-> pc, st |-> o.st, row |-> copy]
    <3>1. [[op |-> o.op, sb |-> o.sb, snap |-> o.snap, pc |-> pc, st |-> o.st, row |-> o.row] EXCEPT !.row = copy]
            = [op |-> o.op, sb |-> o.sb, snap |-> o.snap, pc |-> pc, st |-> o.st, row |-> copy]
      OBVIOUS
    <3> QED
      BY <1>2, <3>1, Zenon
  <2>2. req' = [req EXCEPT ![r] = [[o EXCEPT !.pc = pc] EXCEPT !.row = copy]]
    BY <1>1, <1>3, Zenon DEF GotoWith
  <2> QED
    BY <1>1, <2>1, <2>2, Zenon DEF Moved
<1>4. ASSUME NEW st \in SbStatus, req' = [req EXCEPT ![r].pc = pc, ![r].st = st]
      PROVE  Moved(r, pc, st, req[r].row)
  <2>1. [[o EXCEPT !.pc = pc] EXCEPT !.st = st]
          = [op |-> o.op, sb |-> o.sb, snap |-> o.snap, pc |-> pc, st |-> st, row |-> o.row]
    <3>1. [[op |-> o.op, sb |-> o.sb, snap |-> o.snap, pc |-> pc, st |-> o.st, row |-> o.row] EXCEPT !.st = st]
            = [op |-> o.op, sb |-> o.sb, snap |-> o.snap, pc |-> pc, st |-> st, row |-> o.row]
      OBVIOUS
    <3> QED
      BY <1>2, <3>1, Zenon
  <2>2. req' = [req EXCEPT ![r] = [[o EXCEPT !.pc = pc] EXCEPT !.st = st]]
    BY <1>1, <1>4, Zenon
  <2> QED
    BY <1>1, <2>1, <2>2, Zenon DEF Moved
<1>5. Goto(r, pc) => Moved(r, pc, req[r].st, req[r].row)
  BY <1>1, <1>2, Zenon DEF Goto, Moved
<1> QED
  BY <1>3, <1>4, <1>5, Zenon

(* A handler that returns has dropped its copies.                          *)
LEMMA ReturnMoves ==
    ASSUME req \in [Requests -> ReqRec], NEW r \in Requests, NEW result, Return(r, result)
    PROVE  Moved(r, result, "stopped", EmptyRow("none", AnySandbox))
<1>0. PICK e : e = EmptyRow("none", AnySandbox)
  OBVIOUS
<1>1. PICK o \in ReqRec : o = req[r]
  OBVIOUS
<1>2. [o EXCEPT !.pc = result] = [op |-> o.op, sb |-> o.sb, snap |-> o.snap, pc |-> result, st |-> o.st, row |-> o.row]
  BY DEF ReqRec
<1>3. [[o EXCEPT !.pc = result] EXCEPT !.row = e]
        = [op |-> o.op, sb |-> o.sb, snap |-> o.snap, pc |-> result, st |-> o.st, row |-> e]
  <2>1. [[op |-> o.op, sb |-> o.sb, snap |-> o.snap, pc |-> result, st |-> o.st, row |-> o.row] EXCEPT !.row = e]
          = [op |-> o.op, sb |-> o.sb, snap |-> o.snap, pc |-> result, st |-> o.st, row |-> e]
    OBVIOUS
  <2> QED
    BY <1>2, <2>1, Zenon
<1>4. [[[o EXCEPT !.pc = result] EXCEPT !.row = e] EXCEPT !.st = "stopped"]
        = [op |-> o.op, sb |-> o.sb, snap |-> o.snap, pc |-> result, st |-> "stopped", row |-> e]
  <2>1. [[op |-> o.op, sb |-> o.sb, snap |-> o.snap, pc |-> result, st |-> o.st, row |-> e] EXCEPT !.st = "stopped"]
          = [op |-> o.op, sb |-> o.sb, snap |-> o.snap, pc |-> result, st |-> "stopped", row |-> e]
    OBVIOUS
  <2> QED
    BY <1>3, <2>1, Zenon
<1>5. req' = [req EXCEPT ![r] = [[[o EXCEPT !.pc = result] EXCEPT !.row = e] EXCEPT !.st = "stopped"]]
  BY <1>0, <1>1, Zenon DEF Return
<1> QED
  BY <1>0, <1>1, <1>4, <1>5, Zenon DEF Moved

(* The positions that follow those of a handler.                           *)
Follows(r, pc) ==
    /\ pc # "idle"
    /\ pc \in CreatePcs => req[r].pc \in CreatePcs
    /\ pc \in RestorePcs => req[r].pc \in RestorePcs
    /\ pc = "purge" => req[r].op = "delete"
    /\ pc \in {"destroy", "purge", "dpersist"} => req[r].pc \in {"destroy", "purge", "dpersist"}
    /\ pc \in Early => req[r].pc \in Early
    /\ req[r].pc \in Settled => pc \in Settled

(* A handler stays in its own code, and on its own sandbox and snapshot.   *)
LEMMA ControlStep ==
    ASSUME req \in [Requests -> ReqRec], PcInv, Apart, NEW r \in Requests, InFlight(r),
           NEW pc \in Pcs, NEW st \in SbStatus, NEW copy \in Rows,
           Moved(r, pc, st, copy), Follows(r, pc)
    PROVE  PcInv' /\ Apart'
<1>1. /\ \A q \in Requests : q # r => req'[q] = req[q]
      /\ \A q \in Requests : req'[q].op = req[q].op /\ req'[q].sb = req[q].sb /\ req'[q].snap = req[q].snap
      /\ req'[r].pc = pc
  BY MovedFacts, Zenon
<1>2. PcInv'
  BY <1>1, Zenon DEF PcInv, Follows
<1>3. \A q \in Requests : /\ InFlight(q)' => InFlight(q)
                          /\ req[q].pc = "idle" => req'[q].pc = "idle"
  BY <1>1, Zenon DEF InFlight, Final
<1>4. Apart'
  BY <1>1, <1>3 DEF Apart
<1> QED
  BY <1>2, <1>4, Zenon

-----------------------------------------------------------------------------
(* The data of a snapshot.                                                 *)

(* A step of request r leaves the directories of other sandboxes alone.    *)
DirsKept(r) == \A s \in Sandboxes, n \in Snaps : s = req[r].sb \/ files'[s][n] = files[s][n]

(* It harms no snapshot that must have its files.                          *)
ReadyKept(r) ==
    \A n \in Snaps :
        /\ row[n].status = "ready" /\ row[n].src = req[r].sb /\ ~row[n].loc
        /\ ~Purged(n)' /\ ~Abandoned(n)' /\ files[req[r].sb][n] = "full"
        => files'[req[r].sb][n] = "full"

(* The snapshot of the request was taken before.                           *)
Stored(r) == \A q \in Requests : req[q].pc \in Early => req[q].snap # req[r].snap

(* What the handler relies on after the step.                              *)
Relies(r, pc, copy) ==
    /\ copy.loc => req[r].snap \in bundle'
    /\ Holds(req[r].op, req[r].sb, pc, copy,
             row'[req[r].snap], files'[req[r].sb][req[r].snap], cfg')

(* What a handler relies on is safe when its own data are kept.            *)
LEMMA StillHolds ==
    ASSUME NEW op, NEW s, NEW pc, NEW copy, NEW w, NEW d, NEW k, NEW d2,
           Holds(op, s, pc, copy, w, d, k), pc \in Kept => d2 = d
    PROVE  Holds(op, s, pc, copy, w, d2, k)
BY Zenon DEF Holds

(* A step of one handler that leaves the rows alone.                       *)
LEMMA KeepsRows ==
    ASSUME SnapInv, NEW r \in Requests, InFlight(r),
           NEW pc \in Pcs, NEW st \in SbStatus, NEW copy \in Rows, Moved(r, pc, st, copy), Follows(r, pc),
           row' = row, cfg' = cfg, bundle \subseteq bundle', DirsKept(r), ReadyKept(r),
           req[r].pc = "failwrite" => pc = "err" /\ Fails("cancel"),
           req[r].op = "restore" /\ copy.loc => Stored(r),
           Relies(r, pc, copy), RestOK'
    PROVE  SnapInv'
<1>0. /\ pc \in Early => req[r].pc \in Early
      /\ pc # "idle" /\ req[r].pc # "idle"
      /\ req[r].pc \in Settled => pc \in Settled
  BY Zenon DEF Follows, InFlight, Final
<1>1. req \in [Requests -> ReqRec] /\ PcInv /\ Apart /\ DataInv
  BY Typed, Zenon DEF SnapInv
<1>2. /\ \A q \in Requests : q # r => req'[q] = req[q]
      /\ \A q \in Requests : req'[q].op = req[q].op /\ req'[q].sb = req[q].sb /\ req'[q].snap = req[q].snap
      /\ req'[r].pc = pc /\ req'[r].st = st /\ req'[r].row = copy
  BY <1>1, MovedFacts
<1>3. ASSUME NEW q \in Requests, q # r PROVE HandlerOK(q)'
  <2>1. HandlerOK(q) /\ req'[q] = req[q] /\ req[q].sb \in Sandboxes /\ req[q].snap \in Snaps
    BY <1>1, <1>2, <1>3, Zenon DEF DataInv, ReqRec
  <2>2. req[q].pc \in Kept => files'[req[q].sb][req[q].snap] = files[req[q].sb][req[q].snap]
    <3>1. req[q].pc \in Kept => req[q].sb # req[r].sb
      BY <1>1, <1>3, Zenon DEF Apart, InFlight, Kept, Final
    <3> QED
      BY <2>1, <3>1, Zenon DEF DirsKept
  <2>3. Holds(req[q].op, req[q].sb, req[q].pc, req[q].row,
              row[req[q].snap], files'[req[q].sb][req[q].snap], cfg)
    BY <2>1, <2>2, StillHolds DEF HandlerOK, Dir
  <2> QED
    BY <2>1, <2>3, Zenon DEF HandlerOK, Dir
<1>4. EarlyInv'
  BY <1>0, <1>1, <1>2 DEF DataInv, EarlyInv, Stored
<1>5. ASSUME NEW n \in Snaps PROVE RowOK(n)'
  <2>1. RowOK(n)
    BY <1>1, Zenon DEF DataInv
  <2>2. \A q \in Requests : Creator(q, n) => Creator(q, n)'
    BY <1>0, <1>2, Zenon DEF Creator
  <2> QED
    BY <2>1, <2>2, Zenon DEF RowOK
<1>6. ReadyHasData'
  <2>1. SUFFICES ASSUME NEW n \in Snaps, row[n].status = "ready", ~row[n].loc,
                        ~Purged(n)', ~Abandoned(n)', ~Fails("damage")
                 PROVE  Dir(row[n].src, n)' = "full"
    <3>1. \A n \in Snaps : row[n].loc => n \in bundle'
      BY <1>1, Zenon DEF DataInv, RowOK
    <3> QED
      BY <3>1, Zenon DEF ReadyHasData, Fails, Dir
  <2>2. ~Purged(n)
    BY <1>0, <1>2, <2>1, Zenon DEF Purged
  <2>3. ~Abandoned(n)
    <3>1. req[r].pc \notin {"lost", "err"}
      BY Zenon DEF InFlight, Final
    <3>2. req[r].pc = "failwrite" => pc = "err" /\ StoreFails'
      BY Zenon DEF StoreFails, Fails
    <3> QED
      BY <1>2, <2>1, <3>1, <3>2, Zenon DEF Abandoned, StoreFails, Fails
  <2>4. Dir(row[n].src, n) = "full"
    BY <1>1, <2>1, <2>2, <2>3, Zenon DEF DataInv, ReadyHasData
  <2>5. row[n].src \in Sandboxes
    BY Zenon DEF SnapInv, TypeOK, Rows
  <2>6. CASE row[n].src = req[r].sb
    BY <2>1, <2>4, <2>6, Zenon DEF Dir, ReadyKept
  <2>7. CASE row[n].src # req[r].sb
    BY <2>4, <2>5, <2>7, Zenon DEF Dir, DirsKept
  <2> QED
    BY <2>6, <2>7, Zenon
<1>8. PcInv' /\ Apart'
  BY <1>1, ControlStep, Zenon
<1>9. HandlerOK(r)'
  BY <1>0, <1>2, Zenon DEF HandlerOK, Relies, Dir
<1>10. DataInv'
  BY <1>9, <1>3, <1>4, <1>5, <1>6, Zenon DEF DataInv
<1>11. TypeOK'
  BY <1>1, MovedFacts, Typed, Zenon
<1> QED
  BY <1>8, <1>10, <1>11, Zenon DEF SnapInv

(* A step of a create handler that writes its row, as ready only once.     *)
LEMMA WritesRow ==
    ASSUME SnapInv, NEW r \in Requests, InFlight(r), req[r].op = "create",
           NEW pc \in Pcs, NEW st \in SbStatus, NEW copy \in Rows, Moved(r, pc, st, copy), Follows(r, pc),
           NEW new \in Rows, row' = [row EXCEPT ![req[r].snap] = new],
           UNCHANGED <<cfg, files, bundle>>,
           new.loc => req[r].snap \in bundle /\ new.status # "none",
           new.status = "ready" => req[r].pc = "ready" /\ pc = "refresh" /\ new = req[r].row,
           Relies(r, pc, copy), RestOK'
    PROVE  SnapInv'
<1>0. /\ pc \in Early => req[r].pc \in Early
      /\ pc # "idle" /\ req[r].pc # "idle"
      /\ req[r].pc \in Settled => pc \in Settled
  BY Zenon DEF Follows, InFlight, Final
<1>1. /\ req \in [Requests -> ReqRec] /\ row \in [Snaps -> Rows]
      /\ PcInv /\ Apart /\ DataInv
  BY Typed, Zenon DEF SnapInv, RestOK
<1>2. /\ \A q \in Requests : q # r => req'[q] = req[q]
      /\ \A q \in Requests : req'[q].op = req[q].op /\ req'[q].sb = req[q].sb /\ req'[q].snap = req[q].snap
      /\ req'[r].pc = pc /\ req'[r].st = st /\ req'[r].row = copy
  BY <1>1, MovedFacts
<1>n. PICK n \in Snaps : n = req[r].snap
  BY <1>1, Zenon DEF ReqRec
<1>3. row'[n] = new /\ \A m \in Snaps : m # n => row'[m] = row[m]
  BY <1>1, <1>n, Zenon
<1>4. new.status = "ready" =>
        /\ new.tar /\ new.src = req[r].sb /\ files[req[r].sb][n] = "full"
        /\ new.loc => n \in bundle
        /\ \A q \in Requests : req[q].op = "restore" /\ req[q].pc # "idle" /\ req[q].snap = n
              => ~req[q].row.loc
  <2>1. HandlerOK(r) /\ EarlyInv
    BY <1>1, Zenon DEF DataInv
  <2> QED
    BY <1>n, <2>1, Zenon DEF HandlerOK, Holds, Kept, CreatePcs, EarlyInv, Early, Dir
<1>5. ASSUME NEW q \in Requests, q # r PROVE HandlerOK(q)'
  <2>1. HandlerOK(q) /\ req'[q] = req[q] /\ req[q].snap \in Snaps
    BY <1>1, <1>2, <1>5, Zenon DEF DataInv, ReqRec
  <2>2. CASE req[q].snap # n
    <3>1. row'[req[q].snap] = row[req[q].snap]
      BY <1>3, <2>1, <2>2, Zenon
    <3> QED
      BY <2>1, <3>1, Zenon DEF HandlerOK, Dir
  <2>3. CASE req[q].snap = n
    <3>1. req[q].op = "create" => req[q].pc = "idle"
      BY <1>n, <1>0, <1>1, <1>5, <2>3, Zenon DEF Apart
    <3>2. req[q].pc \notin Early /\ (req[q].pc = "err" => req[q].op # "create")
      BY <1>1, <3>1, Zenon DEF PcInv, CreatePcs, Early
    <3>3. req[q].op = "restore" /\ req[q].row.loc => new.status # "ready"
      BY <1>4, <2>1, <2>3, Zenon DEF HandlerOK
    <3>4. Holds(req[q].op, req[q].sb, req[q].pc, req[q].row,
                new, files[req[q].sb][n], cfg)
      BY <2>1, <2>3, <3>2, <3>3, Zenon DEF HandlerOK, Holds, Dir
    <3> QED
      BY <1>3, <2>1, <2>3, <3>4, Zenon DEF HandlerOK, Dir
  <2> QED
    BY <2>2, <2>3, Zenon
<1>6. EarlyInv'
  BY <1>0, <1>1, <1>2 DEF DataInv, EarlyInv
<1>7. ASSUME NEW m \in Snaps PROVE RowOK(m)'
  <2>1. CASE m = n
    <3>1. new.status = "ready" => Creator(r, n)'
      BY <1>n, <1>2, <1>3, <1>4, Zenon DEF Creator, Settled
    <3> QED
      BY <1>n, <1>3, <1>4, <2>1, <3>1 DEF RowOK
  <2>2. CASE m # n
    <3>1. \A q \in Requests : Creator(q, m) => Creator(q, m)'
      BY <1>n, <1>2, <1>3, <2>2, Zenon DEF Creator
    <3>2. RowOK(m)
      BY <1>1, Zenon DEF DataInv
    <3> QED
      BY <1>3, <2>2, <3>1, <3>2, Zenon DEF RowOK
  <2> QED
    BY <2>1, <2>2, Zenon
<1>8. ReadyHasData'
  <2>1. SUFFICES ASSUME NEW m \in Snaps, row'[m].status = "ready"
                 PROVE  IF row'[m].loc THEN m \in bundle
                        ELSE \/ files[row'[m].src][m] = "full"
                             \/ Purged(m)' \/ Abandoned(m)' \/ Fails("damage")
    BY Zenon DEF ReadyHasData, Fails, Dir
  <2>2. CASE m = n
    BY <1>3, <1>4, <2>1, <2>2
  <2>3. CASE m # n
    <3>1. Purged(m) => Purged(m)'
      BY <1>0, <1>2, <1>3, <2>3, Zenon DEF Purged
    <3>2. Abandoned(m) => Abandoned(m)'
      BY <1>n, <1>2, <2>3, Zenon DEF Abandoned, StoreFails, Fails
    <3> QED
      BY <1>1, <1>3, <2>1, <2>3, <3>1, <3>2 DEF DataInv, ReadyHasData, Dir
  <2> QED
    BY <2>2, <2>3, Zenon
<1>10. PcInv' /\ Apart'
  BY <1>1, ControlStep, Zenon
<1>11. HandlerOK(r)'
  BY <1>0, <1>2, Zenon DEF HandlerOK, Relies, Dir
<1>12. DataInv'
  BY <1>11, <1>5, <1>6, <1>7, <1>8, Zenon DEF DataInv
<1>13. TypeOK'
  BY <1>1, MovedFacts, Typed, Zenon
<1> QED
  BY <1>10, <1>12, <1>13, Zenon DEF SnapInv

(* A handler that returns.                                                 *)
LEMMA Returns ==
    ASSUME SnapInv, NEW r \in Requests, InFlight(r), NEW result \in {"ok", "err"}, Return(r, result),
           UNCHANGED <<cfg, row, files, bundle>>, RestOK',
           req[r].pc = "failwrite" => result = "err" /\ Fails("cancel"),
           req[r].op = "create" /\ result = "err" => req[r].pc \in Early \/ Fails("cancel")
    PROVE  SnapInv'
<1>1. req \in [Requests -> ReqRec] /\ HandlerOK(r)
  BY Typed, Zenon DEF SnapInv, DataInv
<1>2. PICK empty \in Rows : ~empty.loc /\ empty.status = "none" /\ Moved(r, result, "stopped", empty)
  BY <1>1, Chosen, EmptyRowType, ReturnMoves, Zenon
<1>3. result \in Pcs /\ "stopped" \in SbStatus
  BY Zenon DEF Pcs, Final, SbStatus
<1>4. Relies(r, result, empty)
  BY <1>1, <1>2, Zenon DEF HandlerOK, Relies, Holds, CreatePcs, Kept, Early, Fails
<1>5. Follows(r, result)
  BY Zenon DEF Follows, CreatePcs, RestorePcs, Early, Settled
<1>6. DirsKept(r) /\ ReadyKept(r)
  BY Zenon DEF DirsKept, ReadyKept
<1> QED
  BY <1>2, <1>3, <1>4, <1>5, <1>6, KeepsRows, Zenon

(* The export a restore relies on was stored before.                       *)
LEMMA StoredBefore ==
    ASSUME SnapInv, NEW r \in Requests, req[r].op = "restore", req[r].pc # "idle", req[r].row.loc
    PROVE  Stored(r)
BY Zenon DEF SnapInv, DataInv, EarlyInv, Stored

(* A handler that goes on with the row it holds and has changed nothing of *)
(* the snapshots.                                                          *)
LEMMA Advances ==
    ASSUME SnapInv, NEW r \in Requests, InFlight(r), NEW pc \in Pcs \ Final, NEW st \in SbStatus,
           Moved(r, pc, st, req[r].row), Follows(r, pc),
           UNCHANGED <<cfg, row, files, bundle>>, RestOK',
           req[r].pc # "failwrite" /\ pc # "failwrite",
           pc \in CreatePcs \ {"get", "admit", "insert"} => req[r].pc \notin {"get", "admit", "insert"},
           pc \in Kept => req[r].pc \in Kept
    PROVE  SnapInv'
<1>1. req[r].row \in Rows /\ HandlerOK(r)
  BY RequestTypes, Zenon DEF SnapInv, DataInv
<1>2. pc \notin {"idle", "err"} /\ (pc \in CreatePcs => req[r].pc \in CreatePcs)
      /\ (pc \in Early => req[r].pc \in Early)
  BY Zenon DEF Follows, Final
<1>3. Relies(r, pc, req[r].row)
  BY <1>1, <1>2, Zenon DEF HandlerOK, Relies, Holds, Dir
<1>4. req[r].op = "restore" /\ req[r].row.loc => Stored(r)
  BY StoredBefore, Zenon DEF InFlight, Final
<1>5. DirsKept(r) /\ ReadyKept(r)
  BY Zenon DEF DirsKept, ReadyKept
<1> QED
  BY <1>1, <1>3, <1>4, <1>5, KeepsRows, Zenon

(* Such steps of CreateSnapshot ...                                        *)
LEMMA CreateGoes ==
    ASSUME SnapInv, NEW r \in Requests, NEW pc, Goto(r, pc),
           \/ req[r].pc = "admit" /\ pc = "insert"
           \/ req[r].pc = "inspect" /\ pc = "archive"
           \/ req[r].pc = "archive" /\ pc = "image"
           \/ req[r].pc = "export" /\ pc = "ready"
           \/ req[r].pc \in {"inspect", "archive", "seal", "export", "ready", "refresh"} /\ pc = "fail",
           UNCHANGED <<cfg, row, files, bundle>>, RestOK'
    PROVE  SnapInv'
<1>1. req \in [Requests -> ReqRec] /\ req[r].st \in SbStatus
  BY RequestTypes, Zenon DEF SnapInv
<1>2. InFlight(r) /\ pc \in Pcs \ Final /\ Follows(r, pc)
  BY Zenon DEF InFlight, Pcs, Final, Follows, CreatePcs, RestorePcs, Early, Settled
<1>3. Moved(r, pc, req[r].st, req[r].row)
  BY <1>1, <1>2, GotoMoves, Zenon
<1> QED
  BY <1>1, <1>2, <1>3, Advances, Zenon DEF CreatePcs, Kept

(* ... of RestoreSnapshot, and of DeleteSandbox.                           *)
LEMMA TargetGoes ==
    ASSUME SnapInv, NEW r \in Requests, NEW pc, Goto(r, pc),
           \/ req[r].pc = "ensure" /\ pc = "rstop"
           \/ req[r].pc = "rstop" /\ pc = "rruntime"
           \/ req[r].pc = "rruntime" /\ pc \in {"rmkfs", "rextract"}
           \/ req[r].pc \in {"rmkfs", "rextract"} /\ pc = "rpersist"
           \/ req[r].pc = "rpersist" /\ pc = "rfinish"
           \/ req[r].pc = "destroy" /\ req[r].op = "delete" /\ pc = "purge"
           \/ req[r].pc = "destroy" /\ pc = "dpersist",
           UNCHANGED <<cfg, row, files, bundle>>, RestOK'
    PROVE  SnapInv'
<1>1. req \in [Requests -> ReqRec] /\ req[r].st \in SbStatus
  BY RequestTypes, Zenon DEF SnapInv
<1>2. InFlight(r) /\ pc \in Pcs \ Final /\ Follows(r, pc)
  BY Zenon DEF InFlight, Pcs, Final, Follows, CreatePcs, RestorePcs, Early, Settled
<1>3. Moved(r, pc, req[r].st, req[r].row)
  BY <1>1, <1>2, GotoMoves, Zenon
<1>4. pc \notin CreatePcs /\ pc \notin Kept /\ pc # "failwrite" /\ req[r].pc # "failwrite"
  BY Zenon DEF CreatePcs, Kept
<1> QED
  BY <1>1, <1>2, <1>3, <1>4, Advances, Zenon

(* The target of a restore or of a deletion returns with an error.         *)
LEMMA TargetFails ==
    ASSUME SnapInv, NEW r \in Requests, Return(r, "err"), req[r].pc \in RestorePcs,
           UNCHANGED <<cfg, row, files, bundle>>, RestOK'
    PROVE  SnapInv'
<1>1. InFlight(r) /\ req[r].op = "restore" /\ req[r].pc # "failwrite"
  BY Zenon DEF SnapInv, PcInv, InFlight, Final, RestorePcs
<1> QED
  BY <1>1, Returns, Zenon

-----------------------------------------------------------------------------
(* The steps of the handlers.                                              *)

(* Reading the sandbox and admission.                                      *)
LEMMA AdmissionSteps ==
    ASSUME SnapInv, NEW r \in Requests, GetSandbox(r) \/ AdmitSnapshot(r)
    PROVE  SnapInv'
<1> UNCHANGED <<cfg, sb, ws, base, row, files, bundle, rec, crashes>>
  BY Zenon DEF GetSandbox, AdmitSnapshot
<1> RestOK'
  BY Typed, Zenon DEF SnapInv, RestOK
<1>1. req \in [Requests -> ReqRec] /\ sb[req[r].sb] \in SbStatus
  BY RequestTypes, Zenon DEF SnapInv
<1>2. ASSUME NEW p \in {"get", "radmit"}, req[r].pc = p, NEW pc, pc = IF p = "get" THEN "admit" ELSE "ensure",
             req' = [req EXCEPT ![r].pc = pc, ![r].st = sb[req[r].sb]]
      PROVE  SnapInv'
  <2>1. InFlight(r) /\ pc \in Pcs \ Final /\ Follows(r, pc)
    BY <1>2, Zenon DEF InFlight, Pcs, Final, Follows, CreatePcs, RestorePcs, Early, Settled
  <2>2. Moved(r, pc, sb[req[r].sb], req[r].row)
    BY <1>1, <1>2, <2>1, GotoMoves, Zenon
  <2> QED
    BY <1>1, <1>2, <2>1, <2>2, Advances, Zenon DEF CreatePcs, Kept
<1>3. ASSUME req[r].pc \in {"get", "radmit", "admit"}, Return(r, "err") PROVE SnapInv'
  BY <1>3, Returns, Zenon DEF SnapInv, PcInv, RestorePcs, Early, InFlight, Final
<1>4. ASSUME req[r].pc = "admit", Goto(r, "insert") PROVE SnapInv'
  BY <1>4, CreateGoes, Zenon
<1> QED
  BY <1>2, <1>3, <1>4, Zenon DEF GetSandbox, AdmitSnapshot

(* The part of a restore that changes the target only.                     *)
LEMMA RestoreSteps ==
    ASSUME SnapInv, NEW r \in Requests,
           \/ StopTarget(r) \/ RuntimeRestore(r) \/ createWorkspaceDisk(r) \/ ExtractWorkspace(r)
           \/ RestorePersist(r) \/ RestoreFinish(r)
    PROVE  SnapInv'
<1> UNCHANGED <<cfg, base, row, files, bundle, rec, crashes>>
  BY Zenon DEF StopTarget, RuntimeRestore, createWorkspaceDisk, ExtractWorkspace, RestorePersist, RestoreFinish
<1> RestOK'
  <2>1. sb \in [Sandboxes -> SbStatus] /\ ws \in [Sandboxes -> {"own", "empty"} \cup Snaps]
    BY Typed, Zenon DEF SnapInv, RestOK
  <2>2. sb' \in [Sandboxes -> SbStatus]
    BY <2>1, Zenon DEF SbStatus, StopTarget, RuntimeRestore, createWorkspaceDisk, ExtractWorkspace, RestorePersist, RestoreFinish
  <2>3. ws' \in [Sandboxes -> {"own", "empty"} \cup Snaps]
    <3>1. req[r].snap \in Snaps
      BY RequestTypes, Zenon DEF SnapInv
    <3>2. ws' = ws \/ \E c \in {"empty", req[r].snap} : SetWorkspace(req[r].sb, c)
      BY Zenon DEF StopTarget, RuntimeRestore, QemuRestore, ClearWorkspace, createWorkspaceDisk,
                   ExtractWorkspace, RestorePersist, RestoreFinish
    <3> QED
      BY <2>1, <3>1, <3>2, Zenon DEF SetWorkspace
  <2> QED
    BY <2>2, <2>3, Typed, Zenon DEF SnapInv, RestOK
<1>1. CASE req[r].pc \in RestorePcs /\ Return(r, "err")
  BY <1>1, TargetFails, Zenon
<1>2. CASE req[r].pc = "rfinish" /\ Return(r, "ok")
  BY <1>2, Returns, Zenon DEF InFlight, Final
<1>3. CASE StopTarget(r) \/ RestorePersist(r) \/ RestoreFinish(r)
  BY <1>1, <1>2, <1>3, TargetGoes, Zenon DEF StopTarget, RestorePersist, RestoreFinish, RestorePcs
<1>4. CASE RuntimeRestore(r)
  <2>1. req[r].pc = "rruntime" /\ (Goto(r, "rmkfs") \/ Goto(r, "rextract") \/ Return(r, "err"))
    BY <1>4, Zenon DEF RuntimeRestore, QemuRestore, ClearWorkspace
  <2> QED
    BY <1>1, <2>1, TargetGoes, Zenon DEF RestorePcs
<1>5. CASE createWorkspaceDisk(r) \/ ExtractWorkspace(r)
  <2>1. req[r].pc \in {"rmkfs", "rextract"} /\ (Goto(r, "rpersist") \/ Return(r, "err"))
    BY <1>5, Zenon DEF createWorkspaceDisk, ExtractWorkspace
  <2> QED
    BY <1>1, <2>1, TargetGoes, Zenon DEF RestorePcs
<1> QED
  BY <1>3, <1>4, <1>5, Zenon

(* The part of a deletion that leaves the snapshots alone.                 *)
LEMMA DeleteSteps ==
    ASSUME SnapInv, NEW r \in Requests, DeleteDestroy(r) \/ DeletePersist(r)
    PROVE  SnapInv'
<1> UNCHANGED <<cfg, base, row, files, bundle, rec, crashes>>
  BY Zenon DEF DeleteDestroy, DeletePersist
<1> RestOK'
  <2>1. sb' \in [Sandboxes -> SbStatus] /\ ws' \in [Sandboxes -> {"own", "empty"} \cup Snaps]
    BY Typed, Zenon DEF SnapInv, RestOK, SbStatus, DeleteDestroy, DeletePersist, SetWorkspace
  <2> QED
    BY <2>1, Typed, Zenon DEF SnapInv, RestOK
<1>1. CASE DeleteDestroy(r)
  BY <1>1, TargetGoes, Zenon DEF DeleteDestroy
<1>2. CASE DeletePersist(r)
  <2>1. InFlight(r) /\ req[r].pc # "failwrite" /\ (Return(r, "ok") \/ (Fails("cancel") /\ Return(r, "err")))
    BY <1>2, Zenon DEF DeletePersist, StoreFails, InFlight, Final
  <2> QED
    BY <2>1, Returns, Zenon
<1> QED
  BY <1>1, <1>2, Zenon

(* The directory of one snapshot below one sandbox changes.                *)
LEMMA DirFacts ==
    ASSUME RestOK, NEW s \in Sandboxes, NEW n \in Snaps,
           NEW c \in {"none", "notar", "partial", "full"}, SetDir(s, n, c)
    PROVE  /\ files' \in [Sandboxes -> [Snaps -> {"none", "notar", "partial", "full"}]]
           /\ files'[s][n] = c
           /\ \A z \in Sandboxes, m \in Snaps : z # s \/ m # n => files'[z][m] = files[z][m]
<1>1. files[s] \in [Snaps -> {"none", "notar", "partial", "full"}]
  BY Zenon DEF RestOK
<1>2. PICK d \in [Snaps -> {"none", "notar", "partial", "full"}] : d = [files[s] EXCEPT ![n] = c]
  BY <1>1, Zenon
<1>3. files' = [files EXCEPT ![s] = d]
  BY <1>2, Zenon DEF SetDir
<1>4. files'[s] = d /\ d[n] = c /\ \A m \in Snaps : m # n => d[m] = files[s][m]
  BY <1>1, <1>2, <1>3, Zenon DEF RestOK
<1> QED
  BY <1>3, <1>4, Zenon DEF RestOK

(* The changes a handler makes to the row it holds: in what invariants     *)
(* tell apart it is like the one it was.                                   *)
Alike(copy, w) == copy.status = w.status /\ copy.src = w.src /\ copy.tar = w.tar /\ copy.loc = w.loc

(* The copy after each of those assignments is a row.                      *)
LEMMA CopyFacts ==
    ASSUME NEW w \in Rows
    PROVE  /\ \A v \in {"path", "ref"} : [w EXCEPT !.image = v] \in Rows /\ Alike([w EXCEPT !.image = v], w)
           /\ LET c == [w EXCEPT !.tar = TRUE, !.status = "ready"]
              IN  c \in Rows /\ c.status = "ready" /\ c.src = w.src /\ c.tar /\ c.loc = w.loc
           /\ LET c == [w EXCEPT !.loc = TRUE]
              IN  c \in Rows /\ c.status = w.status /\ c.src = w.src /\ c.tar = w.tar
           /\ LET c == [w EXCEPT !.status = "error"]
              IN  c \in Rows /\ c.status = "error" /\ c.src = w.src /\ c.loc = w.loc
           /\ \A s \in Sandboxes :
                 LET c == [w EXCEPT !.src = s]
                 IN  c \in Rows /\ c.status = w.status /\ c.tar = w.tar /\ c.loc = w.loc
BY Zenon DEF Rows, Alike

(* The handler that makes one of them moves alone, with that copy.         *)
LEMMA CopyMoves ==
    ASSUME SnapInv, NEW r \in Requests, NEW pc \in Pcs
    PROVE  /\ \A v \in {"path", "ref"} : GotoWith(r, pc, [Copy(r) EXCEPT !.image = v]) =>
                 \E c \in Rows : Moved(r, pc, req[r].st, c) /\ Alike(c, Copy(r))
           /\ Goto(r, pc) => \E c \in Rows : Moved(r, pc, req[r].st, c) /\ Alike(c, Copy(r))
           /\ GotoWith(r, pc, [Copy(r) EXCEPT !.tar = TRUE, !.status = "ready"]) =>
                 \E c \in Rows : /\ Moved(r, pc, req[r].st, c)
                                 /\ c.status = "ready" /\ c.src = Copy(r).src /\ c.tar /\ c.loc = Copy(r).loc
           /\ GotoWith(r, pc, [Copy(r) EXCEPT !.loc = TRUE]) =>
                 \E c \in Rows : /\ Moved(r, pc, req[r].st, c)
                                 /\ c.status = Copy(r).status /\ c.src = Copy(r).src /\ c.tar = Copy(r).tar
           /\ GotoWith(r, pc, [Copy(r) EXCEPT !.status = "error"]) =>
                 \E c \in Rows : /\ Moved(r, pc, req[r].st, c)
                                 /\ c.status = "error" /\ c.src = Copy(r).src /\ c.loc = Copy(r).loc
           /\ GotoWith(r, pc, [Copy(r) EXCEPT !.src = req[r].sb]) =>
                 \E c \in Rows : /\ Moved(r, pc, req[r].st, c)
                                 /\ c.status = Copy(r).status /\ c.tar = Copy(r).tar /\ c.loc = Copy(r).loc
<1> req \in [Requests -> ReqRec] /\ Copy(r) \in Rows /\ req[r].sb \in Sandboxes
  BY RequestTypes, Zenon DEF SnapInv, Copy
<1>1. \A v \in {"path", "ref"} : GotoWith(r, pc, [Copy(r) EXCEPT !.image = v]) =>
         \E c \in Rows : Moved(r, pc, req[r].st, c) /\ Alike(c, Copy(r))
  BY GotoMoves, CopyFacts, Zenon
<1>2. Goto(r, pc) => \E c \in Rows : Moved(r, pc, req[r].st, c) /\ Alike(c, Copy(r))
  BY GotoMoves, Zenon DEF Copy, Alike
<1>3. GotoWith(r, pc, [Copy(r) EXCEPT !.tar = TRUE, !.status = "ready"]) =>
         \E c \in Rows : /\ Moved(r, pc, req[r].st, c)
                         /\ c.status = "ready" /\ c.src = Copy(r).src /\ c.tar /\ c.loc = Copy(r).loc
  BY GotoMoves, CopyFacts, Zenon
<1>4. GotoWith(r, pc, [Copy(r) EXCEPT !.loc = TRUE]) =>
         \E c \in Rows : /\ Moved(r, pc, req[r].st, c)
                         /\ c.status = Copy(r).status /\ c.src = Copy(r).src /\ c.tar = Copy(r).tar
  BY GotoMoves, CopyFacts, Zenon
<1>5. GotoWith(r, pc, [Copy(r) EXCEPT !.status = "error"]) =>
         \E c \in Rows : /\ Moved(r, pc, req[r].st, c)
                         /\ c.status = "error" /\ c.src = Copy(r).src /\ c.loc = Copy(r).loc
  BY GotoMoves, CopyFacts, Zenon
<1>6. ASSUME GotoWith(r, pc, [Copy(r) EXCEPT !.src = req[r].sb])
      PROVE  \E c \in Rows : /\ Moved(r, pc, req[r].st, c)
                             /\ c.status = Copy(r).status /\ c.tar = Copy(r).tar /\ c.loc = Copy(r).loc
  <2>1. /\ [Copy(r) EXCEPT !.src = req[r].sb] \in Rows
        /\ [Copy(r) EXCEPT !.src = req[r].sb].status = Copy(r).status
        /\ [Copy(r) EXCEPT !.src = req[r].sb].tar = Copy(r).tar
        /\ [Copy(r) EXCEPT !.src = req[r].sb].loc = Copy(r).loc
    BY CopyFacts, Zenon
  <2>2. Moved(r, pc, req[r].st, [Copy(r) EXCEPT !.src = req[r].sb])
    BY <1>6, <2>1, GotoMoves, Zenon
  <2> QED
    BY <2>1, <2>2, Zenon
<1> QED
  BY <1>1, <1>2, <1>3, <1>4, <1>5, <1>6, Zenon

----------------------------------------------------------------------------
(* Steps that change directories, rows and exports.                        *)

(* A step of one handler that changes its own directory.                   *)
LEMMA DirStep ==
    ASSUME SnapInv, NEW r \in Requests, InFlight(r),
           NEW pc \in Pcs, NEW copy \in Rows, Moved(r, pc, req[r].st, copy), Follows(r, pc),
           NEW c \in {"none", "notar", "partial", "full"}, SetDir(req[r].sb, req[r].snap, c),
           base' \in BOOLEAN, UNCHANGED <<cfg, sb, ws, row, bundle, rec, crashes>>,
           req[r].pc # "failwrite",
           row[req[r].snap].status = "ready" =>
              c = "full" \/ row[req[r].snap].loc \/ (req[r].op = "create" /\ pc = "failwrite"),
           req[r].op = "restore" /\ copy.loc => Stored(r), copy.loc => req[r].row.loc,
           Holds(req[r].op, req[r].sb, pc, copy, row[req[r].snap], c, cfg)
    PROVE  SnapInv'
<1>1. /\ RestOK /\ req \in [Requests -> ReqRec] /\ req[r].sb \in Sandboxes /\ req[r].snap \in Snaps
      /\ req[r].st \in SbStatus /\ HandlerOK(r)
  BY RequestTypes, Typed, Zenon DEF SnapInv, DataInv
<1>2. /\ files' \in [Sandboxes -> [Snaps -> {"none", "notar", "partial", "full"}]]
      /\ files'[req[r].sb][req[r].snap] = c
      /\ \A s \in Sandboxes, n \in Snaps : s # req[r].sb \/ n # req[r].snap => files'[s][n] = files[s][n]
  BY <1>1, DirFacts
<1>3. ReadyKept(r)
  <2>1. SUFFICES ASSUME NEW n \in Snaps, row[n].status = "ready", ~row[n].loc, ~Abandoned(n)',
                        files[req[r].sb][n] = "full"
                 PROVE  files'[req[r].sb][n] = "full"
    BY Zenon DEF ReadyKept
  <2>2. n = req[r].snap => ~(req[r].op = "create" /\ pc = "failwrite")
    BY <1>1, <2>1, MovedFacts DEF Abandoned
  <2> QED
    BY <1>1, <1>2, <2>1, <2>2, Zenon
<1>4. RestOK'
  BY <1>1, <1>2, Zenon DEF RestOK
<1>5. Relies(r, pc, copy)
  BY <1>1, <1>2, Zenon DEF Relies, HandlerOK
<1>6. DirsKept(r)
  BY <1>1, <1>2, Zenon DEF DirsKept
<1> QED
  BY <1>1, <1>3, <1>4, <1>5, <1>6, KeepsRows, Zenon

(* A step of a create handler that changes its directory.                  *)
LEMMA CreateDirStep ==
    ASSUME SnapInv, NEW r \in Requests, NEW pc \in Pcs,
           NEW copy \in Rows, Moved(r, pc, req[r].st, copy),
           NEW c \in {"none", "notar", "partial", "full"}, SetDir(req[r].sb, req[r].snap, c),
           base' \in BOOLEAN, UNCHANGED <<cfg, sb, ws, row, bundle, rec, crashes>>,
           \/ req[r].pc = "image" /\ pc = "tar"
           \/ req[r].pc = "tar" /\ pc = "seal"
           \/ req[r].pc = "seal" /\ pc = "export" /\ copy.status = "ready" /\ c = "full"
           \/ req[r].pc = "image" /\ pc = "fail"
           \/ req[r].pc = "fail" /\ pc = "failwrite" /\ copy.status = "error",
           copy.src = req[r].row.src, copy.loc = req[r].row.loc, copy.status = "ready" => copy.tar
    PROVE  SnapInv'
<1>1. HandlerOK(r) /\ req[r].op = "create"
  BY Zenon DEF SnapInv, DataInv, PcInv, CreatePcs
<1>2. InFlight(r) /\ Follows(r, pc) /\ req[r].pc # "failwrite"
  BY Zenon DEF InFlight, Final, Follows, CreatePcs, RestorePcs, Early, Settled
<1>3. Holds(req[r].op, req[r].sb, pc, copy, row[req[r].snap], c, cfg)
  BY <1>1, Zenon DEF HandlerOK, Holds, CreatePcs, Kept, Early
<1>4. pc = "failwrite" \/ row[req[r].snap].status # "ready"
  BY <1>1, Zenon DEF HandlerOK, Holds, Early
<1> QED
  BY <1>1, <1>2, <1>3, <1>4, DirStep, Zenon

(* The guest is looked at, and its workspace archived.                     *)
LEMMA InspectStep ==
    ASSUME SnapInv, NEW r \in Requests, RuntimeInspect(r) \/ RuntimeArchive(r)
    PROVE  SnapInv'
<1>1. UNCHANGED <<cfg, sb, ws, base, row, files, bundle, rec, crashes>>
  BY Zenon DEF RuntimeInspect, RuntimeArchive
<1>2. RestOK'
  BY <1>1, Typed, Zenon DEF SnapInv, RestOK
<1>3. \/ req[r].pc = "inspect" /\ Goto(r, "archive")
      \/ req[r].pc = "archive" /\ Goto(r, "image")
      \/ req[r].pc \in {"inspect", "archive"} /\ Goto(r, "fail")
  BY Zenon DEF RuntimeInspect, RuntimeArchive
<1> QED
  BY <1>1, <1>2, <1>3, CreateGoes, Zenon

(* The directory is made and the image put into it.                        *)
LEMMA ImageStep ==
    ASSUME SnapInv, NEW r \in Requests, CopyImage(r)
    PROVE  SnapInv'
<1> req[r].pc = "image" /\ SetDir(req[r].sb, req[r].snap, "notar")
    /\ UNCHANGED <<cfg, sb, ws, row, bundle, rec, crashes>>
  BY Zenon DEF CopyImage
<1>1. base' \in BOOLEAN
  BY Typed, Zenon DEF SnapInv, RestOK, CopyImage
<1>2. PICK pc \in {"tar", "fail"}, v \in {"path", "ref"} :
        Goto(r, pc) \/ GotoWith(r, pc, [Copy(r) EXCEPT !.image = v])
  BY Zenon DEF CopyImage
<1>3. pc \in Pcs
  BY Zenon DEF Pcs
<1>4. PICK copy \in Rows : Moved(r, pc, req[r].st, copy) /\ Alike(copy, Copy(r))
  BY <1>2, <1>3, CopyMoves, Zenon
<1>5. HandlerOK(r)
  BY Zenon DEF SnapInv, DataInv
<1>6. copy.src = req[r].row.src /\ copy.loc = req[r].row.loc /\ (copy.status = "ready" => copy.tar)
  BY <1>4, <1>5, Zenon DEF HandlerOK, Holds, Alike, Copy
<1> QED
  BY <1>1, <1>3, <1>4, <1>6, CreateDirStep, Zenon

(* The archive is copied into the directory ...                            *)
LEMMA TarStep ==
    ASSUME SnapInv, NEW r \in Requests, CopyTar(r)
    PROVE  SnapInv'
<1> req[r].pc = "tar" /\ SetDir(req[r].sb, req[r].snap, "partial")
    /\ UNCHANGED <<cfg, sb, ws, base, row, bundle, rec, crashes>>
  BY Zenon DEF CopyTar
<1>1. base' \in BOOLEAN /\ HandlerOK(r)
  BY Typed, Zenon DEF SnapInv, RestOK, DataInv
<1>2. "seal" \in Pcs
  BY Zenon DEF Pcs
<1>3. PICK copy \in Rows : Moved(r, "seal", req[r].st, copy) /\ Alike(copy, Copy(r))
  BY <1>2, CopyMoves, Zenon DEF CopyTar
<1>4. copy.src = req[r].row.src /\ copy.loc = req[r].row.loc /\ (copy.status = "ready" => copy.tar)
  BY <1>1, <1>3, Zenon DEF HandlerOK, Holds, Alike, Copy
<1> QED
  BY <1>1, <1>2, <1>3, <1>4, CreateDirStep, Zenon

(* ... and sealed.                                                         *)
LEMMA SealStep ==
    ASSUME SnapInv, NEW r \in Requests, SealTar(r)
    PROVE  SnapInv'
<1> req[r].pc = "seal" /\ UNCHANGED <<cfg, sb, ws, base, row, bundle, rec, crashes>>
  BY Zenon DEF SealTar
<1>1. CASE /\ SetDir(req[r].sb, req[r].snap, "full")
           /\ GotoWith(r, "export", [Copy(r) EXCEPT !.tar = TRUE, !.status = "ready"])
  <2>1. base' \in BOOLEAN
    BY Typed, Zenon DEF SnapInv, RestOK
  <2>2. "export" \in Pcs
    BY Zenon DEF Pcs
  <2>3. PICK copy \in Rows :
          /\ Moved(r, "export", req[r].st, copy)
          /\ copy.status = "ready" /\ copy.src = Copy(r).src /\ copy.tar /\ copy.loc = Copy(r).loc
    BY <1>1, <2>2, CopyMoves, Zenon
  <2> QED
    BY <1>1, <2>1, <2>2, <2>3, CreateDirStep, Zenon DEF Copy
<1>2. CASE Goto(r, "fail") /\ UNCHANGED files
  <2>1. RestOK'
    BY <1>2, Typed, Zenon DEF SnapInv, RestOK
  <2> QED
    BY <1>2, <2>1, CreateGoes, Zenon
<1> QED
  BY <1>1, <1>2, Zenon DEF SealTar

(* failSnapshot removes the directory.                                     *)
LEMMA FailStep ==
    ASSUME SnapInv, NEW r \in Requests, FailSnapshot(r)
    PROVE  SnapInv'
<1> req[r].pc = "fail" /\ SetDir(req[r].sb, req[r].snap, "none")
    /\ UNCHANGED <<cfg, sb, ws, base, row, bundle, rec, crashes>>
  BY Zenon DEF FailSnapshot
<1>1. base' \in BOOLEAN
  BY Typed, Zenon DEF SnapInv, RestOK
<1>2. "failwrite" \in Pcs
  BY Zenon DEF Pcs
<1>3. PICK copy \in Rows : /\ Moved(r, "failwrite", req[r].st, copy)
                           /\ copy.status = "error" /\ copy.src = Copy(r).src /\ copy.loc = Copy(r).loc
  BY <1>2, CopyMoves, Zenon DEF FailSnapshot
<1> QED
  BY <1>1, <1>2, <1>3, CreateDirStep, Zenon DEF Copy

(* The bundle is exported, if it is at all.                                *)
LEMMA ExportStep ==
    ASSUME SnapInv, NEW r \in Requests, exportSnapshotBundle(r)
    PROVE  SnapInv'
<1> /\ RestOK /\ req \in [Requests -> ReqRec] /\ req[r].st \in SbStatus /\ req[r].row \in Rows
    /\ sb[req[r].sb] \in SbStatus /\ req[r].sb \in Sandboxes /\ req[r].snap \in Snaps
  BY RequestTypes, Typed, Zenon DEF SnapInv
<1> req[r].pc = "export" /\ UNCHANGED <<cfg, sb, ws, base, row, files, rec, crashes>>
  BY Zenon DEF exportSnapshotBundle
<1>1. CASE /\ bundle' = bundle \cup {req[r].snap}
           /\ GotoWith(r, "ready", [Copy(r) EXCEPT !.loc = TRUE])
  <2>1. HandlerOK(r) /\ req[r].op = "create"
    BY Zenon DEF SnapInv, DataInv, PcInv, CreatePcs
  <2>2. RestOK'
    BY <1>1, Zenon DEF RestOK
  <2>3. InFlight(r) /\ "ready" \in Pcs /\ Follows(r, "ready")
    BY Zenon DEF InFlight, Pcs, Final, Follows, CreatePcs, RestorePcs, Early, Settled
  <2>4. PICK copy \in Rows :
          /\ Moved(r, "ready", req[r].st, copy)
          /\ copy.status = Copy(r).status /\ copy.src = Copy(r).src /\ copy.tar = Copy(r).tar
    BY <1>1, <2>3, CopyMoves, Zenon
  <2>5. Relies(r, "ready", copy)
    BY <1>1, <2>1, <2>4, Zenon DEF HandlerOK, Relies, Holds, Dir, Copy, CreatePcs, Kept, Early
  <2>6. DirsKept(r) /\ ReadyKept(r) /\ bundle \subseteq bundle'
    BY <1>1, Zenon DEF DirsKept, ReadyKept
  <2> QED
    BY <2>1, <2>2, <2>3, <2>4, <2>5, <2>6, KeepsRows, Zenon
<1>2. CASE (Goto(r, "ready") \/ Goto(r, "fail")) /\ UNCHANGED bundle
  <2>1. RestOK'
    BY <1>2, Zenon DEF RestOK
  <2> QED
    BY <1>2, <2>1, CreateGoes, Zenon
<1> QED
  BY <1>1, <1>2, Zenon DEF exportSnapshotBundle

(* The row is stored as ready.                                             *)
LEMMA PersistStep ==
    ASSUME SnapInv, NEW r \in Requests, PersistReady(r)
    PROVE  SnapInv'
<1> /\ RestOK /\ req \in [Requests -> ReqRec] /\ req[r].st \in SbStatus /\ req[r].row \in Rows
    /\ sb[req[r].sb] \in SbStatus /\ req[r].sb \in Sandboxes /\ req[r].snap \in Snaps
  BY RequestTypes, Typed, Zenon DEF SnapInv
<1> req[r].pc = "ready" /\ UNCHANGED <<cfg, sb, ws, base, files, bundle, rec, crashes>>
  BY Zenon DEF PersistReady
<1>1. CASE Goto(r, "refresh") /\ row' = [row EXCEPT ![req[r].snap] = req[r].row]
  <2>1. HandlerOK(r) /\ req[r].op = "create"
    BY Zenon DEF SnapInv, DataInv, PcInv, CreatePcs
  <2>2. RestOK' /\ row'[req[r].snap] = req[r].row
    BY <1>1, Zenon DEF RestOK
  <2>3. InFlight(r) /\ "refresh" \in Pcs /\ Follows(r, "refresh")
    BY Zenon DEF InFlight, Pcs, Final, Follows, CreatePcs, RestorePcs, Early, Settled
  <2>4. Moved(r, "refresh", req[r].st, req[r].row)
    BY <1>1, <2>3, GotoMoves, Zenon
  <2>5. (req[r].row.loc => req[r].snap \in bundle) /\ req[r].row.status = "ready"
    BY <2>1, Zenon DEF HandlerOK, Holds, Kept
  <2>6. Relies(r, "refresh", req[r].row)
    BY <2>1, <2>2, <2>5, Zenon DEF HandlerOK, Relies, Holds, Dir, CreatePcs, Kept, Early
  <2> QED
    BY <1>1, <2>1, <2>2, <2>3, <2>4, <2>5, <2>6, WritesRow, Zenon
<1>2. CASE Goto(r, "fail") /\ UNCHANGED row
  <2>1. RestOK'
    BY <1>2, Zenon DEF RestOK
  <2> QED
    BY <1>2, <2>1, CreateGoes, Zenon
<1> QED
  BY <1>1, <1>2, Zenon DEF PersistReady, Copy

(* The storage is measured, and the client answered.                       *)
LEMMA RefreshStep ==
    ASSUME SnapInv, NEW r \in Requests, CreateRefresh(r)
    PROVE  SnapInv'
<1> req[r].pc = "refresh" /\ UNCHANGED <<cfg, sb, ws, base, row, files, bundle, rec, crashes>>
  BY Zenon DEF CreateRefresh
<1> RestOK'
  BY Typed, Zenon DEF SnapInv, RestOK
<1>1. CASE Return(r, "ok")
  BY <1>1, Returns, Zenon DEF InFlight, Final
<1>2. CASE Goto(r, "fail")
  BY <1>2, CreateGoes, Zenon
<1> QED
  BY <1>1, <1>2, Zenon DEF CreateRefresh

(* The row is stored as failed, unless the client is gone.                 *)
LEMMA FailWriteStep ==
    ASSUME SnapInv, NEW r \in Requests, FailWrite(r)
    PROVE  SnapInv'
<1> /\ RestOK /\ req \in [Requests -> ReqRec] /\ req[r].st \in SbStatus /\ req[r].row \in Rows
    /\ sb[req[r].sb] \in SbStatus /\ req[r].sb \in Sandboxes /\ req[r].snap \in Snaps
  BY RequestTypes, Typed, Zenon DEF SnapInv
<1> /\ req[r].pc = "failwrite" /\ Return(r, "err")
    /\ UNCHANGED <<cfg, sb, ws, base, files, bundle, rec, crashes>>
  BY Zenon DEF FailWrite
<1>1. CASE StoreFails /\ UNCHANGED row
  <2>1. RestOK'
    BY <1>1, Zenon DEF RestOK
  <2> QED
    BY <1>1, <2>1, Returns, Zenon DEF InFlight, Final, StoreFails
<1>2. CASE row' = [row EXCEPT ![req[r].snap] = req[r].row]
  <2>1. HandlerOK(r) /\ req[r].op = "create"
    BY Zenon DEF SnapInv, DataInv, PcInv, CreatePcs
  <2>2. PICK empty \in Rows : ~empty.loc /\ empty.status = "none" /\ Moved(r, "err", "stopped", empty)
    BY Chosen, EmptyRowType, ReturnMoves, Zenon
  <2>3. RestOK' /\ row'[req[r].snap] = req[r].row
    BY <1>2, Zenon DEF RestOK
  <2>4. InFlight(r) /\ "err" \in Pcs /\ Follows(r, "err") /\ "stopped" \in SbStatus
    BY Zenon DEF InFlight, Pcs, Final, Follows, CreatePcs, RestorePcs, Early, Settled, SbStatus
  <2>5. (req[r].row.loc => req[r].snap \in bundle) /\ req[r].row.status = "error"
    BY <2>1, Zenon DEF HandlerOK, Holds
  <2>6. Relies(r, "err", empty)
    BY <2>2, <2>3, <2>5, Zenon DEF Relies, Holds, CreatePcs, Kept, Early
  <2> QED
    BY <1>2, <2>1, <2>2, <2>3, <2>4, <2>5, <2>6, WritesRow, Zenon
<1> QED
  BY <1>1, <1>2, Zenon DEF FailWrite, Copy

(* The row is inserted as creating.                                        *)
LEMMA InsertStep ==
    ASSUME SnapInv, NEW r \in Requests, InsertSnapshot(r)
    PROVE  SnapInv'
<1> /\ RestOK /\ req \in [Requests -> ReqRec] /\ req[r].st \in SbStatus /\ req[r].row \in Rows
    /\ sb[req[r].sb] \in SbStatus /\ req[r].sb \in Sandboxes /\ req[r].snap \in Snaps
  BY RequestTypes, Typed, Zenon DEF SnapInv
<1> req[r].pc = "insert" /\ UNCHANGED <<cfg, sb, ws, base, files, bundle, rec, crashes>>
  BY Zenon DEF InsertSnapshot
<1>1. CASE Return(r, "err") /\ UNCHANGED row
  <2>1. RestOK'
    BY <1>1, Zenon DEF RestOK
  <2> QED
    BY <1>1, <2>1, Returns, Zenon DEF InFlight, Final, Early
<1>2. CASE /\ GotoWith(r, "inspect", EmptyRow("creating", req[r].sb))
           /\ row' = [row EXCEPT ![req[r].snap] = EmptyRow("creating", req[r].sb)]
  <2>1. PICK new \in Rows : /\ ~new.loc /\ new.status = "creating" /\ new.src = req[r].sb
                           /\ GotoWith(r, "inspect", new) /\ row' = [row EXCEPT ![req[r].snap] = new]
    BY <1>2, EmptyRowType, Zenon
  <2>2. RestOK' /\ row'[req[r].snap] = new
    BY <2>1, Zenon DEF RestOK
  <2>3. InFlight(r) /\ "inspect" \in Pcs /\ Follows(r, "inspect")
    BY Zenon DEF InFlight, Pcs, Final, Follows, CreatePcs, RestorePcs, Early, Settled
  <2>4. Moved(r, "inspect", req[r].st, new)
    BY <2>1, <2>3, GotoMoves, Zenon
  <2>5. Relies(r, "inspect", new)
    BY <2>1, <2>2, Zenon DEF Relies, Holds, CreatePcs, Kept, Early
  <2>6. req[r].op = "create"
    BY Zenon DEF SnapInv, PcInv, CreatePcs
  <2> QED
    BY <2>1, <2>2, <2>3, <2>4, <2>5, <2>6, WritesRow, Zenon
<1> QED
  BY <1>1, <1>2, Zenon DEF InsertSnapshot

(* RestoreSnapshot reads the row.                                          *)
LEMMA GetStep ==
    ASSUME SnapInv, NEW r \in Requests, GetSnapshot(r)
    PROVE  SnapInv'
<1> /\ RestOK /\ req \in [Requests -> ReqRec] /\ req[r].st \in SbStatus /\ req[r].row \in Rows
    /\ sb[req[r].sb] \in SbStatus /\ req[r].sb \in Sandboxes /\ req[r].snap \in Snaps
  BY RequestTypes, Typed, Zenon DEF SnapInv
<1> req[r].pc = "rget" /\ UNCHANGED <<cfg, sb, ws, base, row, files, bundle, rec, crashes>>
  BY Zenon DEF GetSnapshot
<1> RestOK'
  BY Zenon DEF RestOK
<1>1. CASE GotoWith(r, "radmit", row[req[r].snap])
  <2>1. PICK copy \in Rows : copy = row[req[r].snap]
    BY Zenon DEF RestOK
  <2>2. InFlight(r) /\ "radmit" \in Pcs /\ Follows(r, "radmit")
    BY Zenon DEF InFlight, Pcs, Final, Follows, CreatePcs, RestorePcs, Early, Settled
  <2>3. Moved(r, "radmit", req[r].st, copy)
    BY <1>1, <2>1, <2>2, GotoMoves, Zenon
  <2>4. (copy.loc => req[r].snap \in bundle) /\ (copy.status = "ready" => copy.tar)
    BY <2>1, Zenon DEF SnapInv, DataInv, RowOK
  <2>5. Relies(r, "radmit", copy)
    BY <2>1, <2>4, Zenon DEF Relies, Holds, CreatePcs, Kept, Early
  <2>6. copy.loc => Stored(r)
    BY <2>1, Zenon DEF SnapInv, DataInv, HandlerOK, Holds, Stored
  <2>7. DirsKept(r) /\ ReadyKept(r)
    BY Zenon DEF DirsKept, ReadyKept
  <2> QED
    BY <2>2, <2>3, <2>5, <2>6, <2>7, KeepsRows, Zenon
<1>2. CASE Return(r, "err")
  BY <1>2, TargetFails, Zenon DEF RestorePcs
<1> QED
  BY <1>1, <1>2, Zenon DEF GetSnapshot

(* The artifacts are looked for; those of an export are fetched over what  *)
(* is left of them below the target.                                       *)
LEMMA EnsureStep ==
    ASSUME SnapInv, NEW r \in Requests, ensureSnapshotArtifacts(r)
    PROVE  SnapInv'
<1> /\ RestOK /\ req \in [Requests -> ReqRec] /\ req[r].st \in SbStatus /\ req[r].row \in Rows
    /\ sb[req[r].sb] \in SbStatus /\ req[r].sb \in Sandboxes /\ req[r].snap \in Snaps
  BY RequestTypes, Typed, Zenon DEF SnapInv
<1> req[r].pc = "ensure" /\ UNCHANGED <<cfg, sb, ws, base, row, bundle, rec, crashes>>
  BY Zenon DEF ensureSnapshotArtifacts
<1>1. CASE (Goto(r, "rstop") \/ Return(r, "err")) /\ UNCHANGED files
  <2>1. RestOK'
    BY <1>1, Zenon DEF RestOK
  <2> QED
    BY <1>1, <2>1, TargetGoes, TargetFails, Zenon DEF RestorePcs
<1>2. CASE Goto(r, "fetch") /\ req[r].row.loc /\ SetDir(req[r].sb, req[r].snap, "partial")
  <2>1. HandlerOK(r) /\ req[r].op = "restore" /\ base \in BOOLEAN
    BY Zenon DEF SnapInv, DataInv, PcInv, RestorePcs, RestOK
  <2>2. InFlight(r) /\ "fetch" \in Pcs /\ Follows(r, "fetch")
    BY Zenon DEF InFlight, Pcs, Final, Follows, CreatePcs, RestorePcs, Early, Settled
  <2>3. Moved(r, "fetch", req[r].st, req[r].row)
    BY <1>2, <2>2, GotoMoves, Zenon
  <2>4. Holds(req[r].op, req[r].sb, "fetch", req[r].row,
              row[req[r].snap], "partial", cfg)
    BY <2>1, Zenon DEF HandlerOK, Holds, CreatePcs, Kept, Early
  <2>5. (row[req[r].snap].status = "ready" => row[req[r].snap].loc) /\ Stored(r)
    BY <1>2, <2>1, StoredBefore, Zenon DEF HandlerOK, Holds
  <2> QED
    BY <1>2, <2>1, <2>2, <2>3, <2>4, <2>5, DirStep, Zenon
<1>3. req[r].row.loc \in BOOLEAN
  BY Zenon DEF Rows
<1> QED
  BY <1>1, <1>2, <1>3, Zenon DEF ensureSnapshotArtifacts, Copy

(* The bundle is fetched, and the handler goes on with it.                 *)
LEMMA FetchStep ==
    ASSUME SnapInv, NEW r \in Requests, FetchBundle(r)
    PROVE  SnapInv'
<1> /\ RestOK /\ req \in [Requests -> ReqRec] /\ req[r].st \in SbStatus /\ req[r].row \in Rows
    /\ sb[req[r].sb] \in SbStatus /\ req[r].sb \in Sandboxes /\ req[r].snap \in Snaps
  BY RequestTypes, Typed, Zenon DEF SnapInv
<1> req[r].pc = "fetch" /\ UNCHANGED <<cfg, sb, ws, base, row, bundle, rec, crashes>>
  BY Zenon DEF FetchBundle
<1>1. CASE /\ GotoWith(r, "rstop", [Copy(r) EXCEPT !.src = req[r].sb])
           /\ SetDir(req[r].sb, req[r].snap, "full")
  <2>1. HandlerOK(r) /\ req[r].op = "restore" /\ base \in BOOLEAN
    BY Zenon DEF SnapInv, DataInv, PcInv, RestorePcs, RestOK
  <2>2. InFlight(r) /\ "rstop" \in Pcs /\ Follows(r, "rstop")
    BY Zenon DEF InFlight, Pcs, Final, Follows, CreatePcs, RestorePcs, Early, Settled
  <2>3. PICK copy \in Rows :
          /\ Moved(r, "rstop", req[r].st, copy)
          /\ copy.status = Copy(r).status /\ copy.tar = Copy(r).tar /\ copy.loc = Copy(r).loc
    BY <1>1, <2>2, CopyMoves, Zenon
  <2>4. Holds(req[r].op, req[r].sb, "rstop", copy,
              row[req[r].snap], "full", cfg)
    BY <2>1, <2>3, Zenon DEF HandlerOK, Holds, Copy, CreatePcs, Kept, Early
  <2>5. copy.loc => Stored(r) /\ req[r].row.loc
    BY <2>1, <2>3, StoredBefore, Zenon DEF Copy
  <2> QED
    BY <1>1, <2>1, <2>2, <2>3, <2>4, <2>5, DirStep, Zenon
<1>2. CASE Return(r, "err") /\ UNCHANGED files
  <2>1. RestOK'
    BY <1>2, Zenon DEF RestOK
  <2> QED
    BY <1>2, <2>1, TargetFails, Zenon DEF RestorePcs
<1> QED
  BY <1>1, <1>2, Zenon DEF FetchBundle

(* The directory of the sandbox is removed, with its snapshots.            *)
LEMMA PurgeStep ==
    ASSUME SnapInv, NEW r \in Requests, DeletePurge(r)
    PROVE  SnapInv'
<1> /\ RestOK /\ req \in [Requests -> ReqRec] /\ req[r].st \in SbStatus /\ req[r].row \in Rows
    /\ sb[req[r].sb] \in SbStatus /\ req[r].sb \in Sandboxes /\ req[r].snap \in Snaps
  BY RequestTypes, Typed, Zenon DEF SnapInv
<1> /\ req[r].pc = "purge" /\ Goto(r, "dpersist")
    /\ UNCHANGED <<cfg, sb, ws, base, row, bundle, rec, crashes>>
    /\ files' = [files EXCEPT ![req[r].sb] = [n \in Snaps |-> "none"]]
  BY Zenon DEF DeletePurge
<1>1. HandlerOK(r) /\ req[r].op = "delete"
  BY Zenon DEF SnapInv, DataInv, PcInv
<1>2. RestOK'
  BY Zenon DEF RestOK
<1>3. InFlight(r) /\ "dpersist" \in Pcs /\ Follows(r, "dpersist")
  BY Zenon DEF InFlight, Pcs, Final, Follows, CreatePcs, RestorePcs, Early, Settled
<1>4. Moved(r, "dpersist", req[r].st, req[r].row)
  BY <1>3, GotoMoves, Zenon
<1>5. Relies(r, "dpersist", req[r].row)
  BY <1>1, Zenon DEF HandlerOK, Relies, Holds, CreatePcs, Kept, Early
<1>6. req'[r].op = req[r].op /\ req'[r].sb = req[r].sb /\ req'[r].pc = "dpersist"
  BY <1>3, <1>4, MovedFacts, Zenon
<1>7. \A n \in Snaps : row[n].src = req[r].sb => Purged(n)'
  BY <1>1, <1>6, Zenon DEF Purged
<1>8. ReadyKept(r)
  BY <1>7, Zenon DEF ReadyKept
<1>9. DirsKept(r)
  BY Zenon DEF RestOK, DirsKept
<1> QED
  BY <1>1, <1>2, <1>3, <1>4, <1>5, <1>8, <1>9, KeepsRows, Zenon

-----------------------------------------------------------------------------
(* Everything that is not a step of a handler.                             *)

(* A step that leaves requests and snapshots alone.                        *)
LEMMA Untouched ==
    ASSUME PcInv, Apart, DataInv, UNCHANGED <<cfg, row, files, bundle, req>>
    PROVE  PcInv' /\ Apart' /\ DataInv'
<1>1. PcInv' /\ Apart'
  BY Zenon DEF PcInv, Apart, InFlight
<1>2. /\ \A r \in Requests : HandlerOK(r)'
      /\ EarlyInv'
  BY Zenon DEF DataInv, HandlerOK, EarlyInv, Dir
<1>3. \A n \in Snaps : RowOK(n)'
  BY Zenon DEF DataInv, RowOK, Creator
<1>4. ReadyHasData'
  <2>1. ASSUME NEW n \in Snaps, Purged(n) PROVE Purged(n)'
    BY <2>1, Zenon DEF Purged
  <2>2. ASSUME NEW n \in Snaps, Abandoned(n) PROVE Abandoned(n)'
    BY <2>2, Zenon DEF Abandoned, StoreFails, Fails
  <2>3. Fails("damage") => Fails("damage")'
    BY Zenon DEF Fails
  <2> QED
    BY <2>1, <2>2, <2>3, Zenon DEF DataInv, ReadyHasData, Dir
<1> QED
  BY <1>1, <1>2, <1>3, <1>4, Zenon DEF DataInv

(* Sandboxes are started and stopped, the loop ticks, lists and rests.     *)
LEMMA IdleSteps ==
    ASSUME SnapInv,
           (\E s \in Sandboxes : PowerSandbox(s)) \/ ListCreating \/ ReconcileDone
    PROVE  SnapInv'
<1> UNCHANGED <<cfg, row, files, bundle, req>> /\ UNCHANGED <<ws, base, crashes>>
  BY Zenon DEF PowerSandbox, ListCreating, ReconcileDone
<1> RestOK /\ req \in [Requests -> ReqRec]
  BY Typed, Zenon DEF SnapInv
<1>3. sb' \in [Sandboxes -> SbStatus]
  <2>1. CASE \E s \in Sandboxes : PowerSandbox(s)
    BY <2>1 DEF RestOK, SbStatus, PowerSandbox
  <2>2. CASE ListCreating \/ ReconcileDone
    BY <2>2, Zenon DEF RestOK, ListCreating, ReconcileDone
  <2> QED
    BY <2>1, <2>2, Zenon
<1>4. rec' \in [pc : {"idle", "close"}, boot : BOOLEAN, todo : SUBSET Snaps]
  <2> rec \in [pc : {"idle", "close"}, boot : BOOLEAN, todo : SUBSET Snaps]
    BY Zenon DEF RestOK
  <2>1. CASE \E s \in Sandboxes : PowerSandbox(s)
    BY <2>1, Zenon DEF PowerSandbox
  <2>2. CASE ListCreating
    BY <2>2, Zenon DEF ListCreating, Creating
  <2>3. CASE ReconcileDone
    BY <2>3, Zenon DEF ReconcileDone
  <2> QED
    BY <2>1, <2>2, <2>3, Zenon
<1>5. RestOK' /\ req' \in [Requests -> ReqRec]
  BY <1>3, <1>4, Zenon DEF RestOK
<1> QED
  BY <1>5, Typed, Untouched, Zenon DEF SnapInv

(* A request arrives.                                                      *)
LEMMA IssueStep ==
    ASSUME SnapInv, NEW r \in Requests, Issue(r)
    PROVE  SnapInv'
<1> RestOK /\ req \in [Requests -> ReqRec]
  BY Typed, Zenon DEF SnapInv
<1> /\ req[r].pc = "idle"
      /\ UNCHANGED <<cfg, sb, ws, base, row, files, bundle, rec, crashes>>
  BY Zenon DEF Issue
<1>3. PICK op \in Ops, s \in Sandboxes, n \in Snaps, pc \in {"get", "rget", "destroy"} :
        /\ ~Busy(s)
        /\ op = "create" => /\ row[n].status = "none"
                            /\ \A q \in Requests : req[q].pc = "idle" \/ req[q].snap # n
        /\ (pc = "get" <=> op = "create") /\ (pc = "rget" <=> op = "restore")
        /\ req' = [req EXCEPT ![r] = [op |-> op, sb |-> s, snap |-> n, st |-> "stopped", pc |-> pc,
                                      row |-> EmptyRow("none", AnySandbox)]]
  <2>1. PICK op \in Ops, s \in Sandboxes, n \in Snaps :
          /\ ~Busy(s)
          /\ CASE op = "create" -> /\ row[n].status = "none"
                                   /\ \A q \in Requests : req[q].pc = "idle" \/ req[q].snap # n
               [] op = "restore" -> row[n].status # "none"
               [] OTHER -> sb[s] # "deleted" /\ n = CHOOSE m \in Snaps : TRUE
          /\ req' = [req EXCEPT ![r] =
                       [op |-> op, sb |-> s, snap |-> n, st |-> "stopped",
                        pc |-> CASE op = "create" -> "get" [] op = "restore" -> "rget"
                                 [] OTHER -> "destroy",
                        row |-> EmptyRow("none", AnySandbox)]]
    BY Zenon DEF Issue
  <2>2. op = "create" => /\ row[n].status = "none"
                         /\ \A q \in Requests : req[q].pc = "idle" \/ req[q].snap # n
    BY <2>1, Zenon
  <2>3. PICK pc \in {"get", "rget", "destroy"} :
          /\ pc = CASE op = "create" -> "get" [] op = "restore" -> "rget" [] OTHER -> "destroy"
          /\ (pc = "get" <=> op = "create") /\ (pc = "rget" <=> op = "restore")
    OBVIOUS
  <2> QED
    BY <2>1, <2>2, <2>3, Zenon
<1>4. PICK new \in ReqRec :
        /\ new.op = op /\ new.sb = s /\ new.snap = n /\ new.pc = pc
        /\ ~new.row.loc /\ new.row.status = "none"
        /\ req' = [req EXCEPT ![r] = new]
  <2>1. PICK e \in Rows : e = EmptyRow("none", AnySandbox) /\ ~e.loc /\ e.status = "none"
    BY Chosen, EmptyRowType
  <2>2. [op |-> op, sb |-> s, snap |-> n, st |-> "stopped", pc |-> pc, row |-> e] \in ReqRec
    BY Zenon DEF ReqRec, Pcs, SbStatus
  <2> QED
    BY <1>3, <2>1, <2>2, Zenon
<1> /\ req' \in [Requests -> ReqRec] /\ req'[r] = new
      /\ \A q \in Requests : q # r => req'[q] = req[q]
  BY <1>4, Zenon
<1>6. RestOK'
  BY Zenon DEF RestOK
<1>7. PcInv'
  BY <1>3, <1>4, Zenon DEF SnapInv, PcInv, CreatePcs, RestorePcs
<1>8. Apart'
  BY <1>3, <1>4 DEF SnapInv, Apart, InFlight, Busy
<1>9. \A q \in Requests : HandlerOK(q)'
  <2>1. op = "create" => row[n].status = "none" /\ ~row[n].loc
    BY <1>3, Zenon DEF SnapInv, DataInv, RowOK
  <2>2. HandlerOK(r)'
    BY <1>3, <1>4, <2>1, Zenon DEF HandlerOK, Holds, CreatePcs, Kept, Early
  <2>3. \A q \in Requests : q # r => HandlerOK(q)'
    BY DEF SnapInv, DataInv, HandlerOK, Holds, Dir
  <2> QED
    BY <2>2, <2>3, Zenon
<1>10. EarlyInv'
  BY <1>3, <1>4 DEF SnapInv, DataInv, EarlyInv, Early
<1>11. \A m \in Snaps : RowOK(m)'
  BY DEF SnapInv, DataInv, RowOK, Creator, Settled
<1>12. ReadyHasData'
  <2>1. \A m \in Snaps : (Purged(m) => Purged(m)') /\ (Abandoned(m) => Abandoned(m)')
    BY Zenon DEF Purged, Abandoned, StoreFails, Fails
  <2> QED
    BY <2>1, Zenon DEF SnapInv, DataInv, ReadyHasData, Fails, Dir
<1> QED
  BY <1>6, <1>7, <1>8, <1>9, <1>10, <1>11, <1>12, Typed, Zenon DEF SnapInv, DataInv

(* The reconcile loop closes an incomplete snapshot.                       *)
LEMMA CloseStep ==
    ASSUME SnapInv, CloseIncomplete
    PROVE  SnapInv'
<1> RestOK /\ req \in [Requests -> ReqRec]
  BY Typed, Zenon DEF SnapInv
<1>2. PICK n \in Snaps : /\ row' = [row EXCEPT ![n] = EmptyRow("error", row[n].src)]
                         /\ rec' = [rec EXCEPT !.todo = @ \ {n}]
  <2>1. rec.todo \in SUBSET Snaps
    BY Zenon DEF RestOK
  <2> QED
    BY <2>1, Zenon DEF CloseIncomplete
<1> UNCHANGED <<cfg, sb, ws, base, files, bundle, req, crashes>>
  BY Zenon DEF CloseIncomplete
<1>4. PICK new \in Rows : /\ row' = [row EXCEPT ![n] = new]
                          /\ ~new.loc /\ new.status = "error"
  <2>1. row[n].src \in Sandboxes
    BY Zenon DEF RestOK, Rows
  <2>2. /\ EmptyRow("error", row[n].src) \in Rows
        /\ ~EmptyRow("error", row[n].src).loc /\ EmptyRow("error", row[n].src).status = "error"
    BY <2>1, EmptyRowType, Zenon
  <2> QED
    BY <1>2, <2>2, Zenon
<1> row' \in [Snaps -> Rows] /\ row'[n] = new /\ \A m \in Snaps : m # n => row'[m] = row[m]
  BY <1>4, Zenon DEF RestOK
<1>6. RestOK'
  <2>1. rec' \in [pc : {"idle", "close"}, boot : BOOLEAN, todo : SUBSET Snaps]
    BY <1>2, Zenon DEF RestOK
  <2> QED
    BY <2>1, Zenon DEF RestOK
<1>7. PcInv' /\ Apart' /\ EarlyInv'
  BY Zenon DEF SnapInv, DataInv, PcInv, Apart, EarlyInv, InFlight
<1>8. ASSUME NEW r \in Requests PROVE HandlerOK(r)'
  <2>1. HandlerOK(r) /\ req[r].snap \in Snaps
    BY Zenon DEF SnapInv, DataInv, ReqRec
  <2> QED
    BY <1>4, <2>1 DEF HandlerOK, Holds, Dir
<1>9. \A m \in Snaps : RowOK(m)'
  BY <1>4 DEF SnapInv, DataInv, RowOK, Creator
<1>10. ReadyHasData'
  <2>1. \A m \in Snaps : m # n => (Purged(m) => Purged(m)') /\ (Abandoned(m) => Abandoned(m)')
    BY Zenon DEF Purged, Abandoned, StoreFails, Fails
  <2> QED
    BY <1>4, <2>1, Zenon DEF SnapInv, DataInv, ReadyHasData, Fails, Dir
<1> QED
  BY <1>6, <1>7, <1>8, <1>9, <1>10, Typed, Zenon DEF SnapInv, DataInv

(* A stored archive is damaged: no handler works on its directory.         *)
LEMMA DamageStep ==
    ASSUME SnapInv, NEW s \in Sandboxes, NEW n \in Snaps, Damage(s, n)
    PROVE  SnapInv'
<1> RestOK /\ req \in [Requests -> ReqRec]
  BY Typed, Zenon DEF SnapInv
<1> /\ Fails("damage") /\ ~Busy(s)
      /\ UNCHANGED <<cfg, sb, ws, base, row, bundle, req, rec, crashes>>
  BY Zenon DEF Damage
<1> /\ files' \in [Sandboxes -> [Snaps -> {"none", "notar", "partial", "full"}]]
      /\ \A z \in Sandboxes, m \in Snaps : z # s => files'[z][m] = files[z][m]
  <2>1. PICK c \in {"none", "partial"} : SetDir(s, n, c)
    BY Zenon DEF Damage
  <2> QED
    BY <2>1, DirFacts
<1>4. RestOK' /\ req' \in [Requests -> ReqRec]
  BY Zenon DEF RestOK
<1>5. PcInv' /\ Apart' /\ EarlyInv'
  BY Zenon DEF SnapInv, DataInv, PcInv, Apart, EarlyInv, InFlight
<1>6. ASSUME NEW r \in Requests PROVE HandlerOK(r)'
  <2>1. HandlerOK(r) /\ req[r].snap \in Snaps /\ req[r].sb \in Sandboxes
    BY Zenon DEF SnapInv, DataInv, ReqRec
  <2>2. req[r].pc \in Kept => files'[req[r].sb][req[r].snap] = files[req[r].sb][req[r].snap]
    BY <2>1, Zenon DEF Busy, InFlight, Kept, Final
  <2>3. Holds(req[r].op, req[r].sb, req[r].pc, req[r].row,
              row[req[r].snap], files'[req[r].sb][req[r].snap], cfg)
    BY <2>1, <2>2, StillHolds, Zenon DEF HandlerOK, Dir
  <2> QED
    BY <2>1, <2>3, Zenon DEF HandlerOK, Dir
<1>7. \A m \in Snaps : RowOK(m)'
  BY Zenon DEF SnapInv, DataInv, RowOK, Creator
<1>8. ReadyHasData'
  BY Zenon DEF SnapInv, DataInv, ReadyHasData, Fails
<1> QED
  BY <1>4, <1>5, <1>6, <1>7, <1>8, Typed, Zenon DEF SnapInv, DataInv

(* A restart may enable or disable exports: no handler relies on them.     *)
LEMMA SameNode ==
    ASSUME NEW op, NEW s, NEW pc, NEW copy, NEW w, NEW d, NEW k, NEW l,
           l.faults = k.faults, Holds(op, s, pc, copy, w, d, k)
    PROVE  Holds(op, s, pc, copy, w, d, l)
BY Zenon DEF Holds

(* The daemon dies: every handler is lost, the snapshots stay.             *)
LEMMA CrashStep ==
    ASSUME SnapInv, Crash
    PROVE  SnapInv'
<1> RestOK /\ req \in [Requests -> ReqRec]
  BY Typed, Zenon DEF SnapInv
<1>2. /\ UNCHANGED <<sb, ws, base, row, files, bundle>>
      /\ crashes' \in 0..MaxCrashes
      /\ rec' \in [pc : {"idle", "close"}, boot : BOOLEAN, todo : SUBSET Snaps]
  <2>1. /\ crashes < MaxCrashes /\ crashes' = crashes + 1
        /\ rec' = [pc |-> "idle", boot |-> TRUE, todo |-> {}]
        /\ UNCHANGED <<sb, ws, base, row, files, bundle>>
    BY Zenon DEF Crash
  <2> QED
    BY <2>1, SnapshotsAssumption DEF RestOK
<1>3. cfg' \in NodeConfigs /\ cfg'.backend = cfg.backend /\ cfg'.faults = cfg.faults
  <2>1. PICK x \in BOOLEAN : cfg' = [cfg EXCEPT !.export = x]
    BY Zenon DEF Crash
  <2>2. cfg \in NodeConfigs
    BY Zenon DEF RestOK
  <2> QED
    BY <2>1, <2>2, Zenon DEF NodeConfigs
<1>4. PICK e \in Rows : e = EmptyRow("none", AnySandbox) /\ ~e.loc /\ e.status = "none"
  BY Chosen, EmptyRowType
<1>5. ASSUME NEW r \in Requests
      PROVE  /\ req'[r] \in ReqRec
             /\ req'[r].op = req[r].op /\ req'[r].sb = req[r].sb /\ req'[r].snap = req[r].snap
             /\ InFlight(r) => req'[r].pc = "lost" /\ req'[r].row = e
             /\ ~InFlight(r) => req'[r] = req[r]
  <2>1. PICK o \in ReqRec : o = req[r]
    OBVIOUS
  <2>2. req'[r] = IF InFlight(r) THEN [o EXCEPT !.pc = "lost", !.st = "stopped", !.row = e] ELSE o
    BY <1>4, <2>1, Zenon DEF Crash
  <2>3. [o EXCEPT !.pc = "lost", !.st = "stopped", !.row = e]
          = [op |-> o.op, sb |-> o.sb, snap |-> o.snap, pc |-> "lost", st |-> "stopped", row |-> e]
    <3>1. [o EXCEPT !.pc = "lost"]
            = [op |-> o.op, sb |-> o.sb, snap |-> o.snap, pc |-> "lost", st |-> o.st, row |-> o.row]
      BY DEF ReqRec
    <3>2. [[op |-> o.op, sb |-> o.sb, snap |-> o.snap, pc |-> "lost", st |-> o.st, row |-> o.row] EXCEPT !.st = "stopped"]
            = [op |-> o.op, sb |-> o.sb, snap |-> o.snap, pc |-> "lost", st |-> "stopped", row |-> o.row]
      OBVIOUS
    <3>3. [[op |-> o.op, sb |-> o.sb, snap |-> o.snap, pc |-> "lost", st |-> "stopped", row |-> o.row] EXCEPT !.row = e]
            = [op |-> o.op, sb |-> o.sb, snap |-> o.snap, pc |-> "lost", st |-> "stopped", row |-> e]
      OBVIOUS
    <3> QED
      BY <3>1, <3>2, <3>3, Zenon
  <2>4. [op |-> o.op, sb |-> o.sb, snap |-> o.snap, pc |-> "lost", st |-> "stopped", row |-> e] \in ReqRec
    BY Zenon DEF ReqRec, Pcs, Final, SbStatus
  <2> QED
    BY <2>1, <2>2, <2>3, <2>4
<1>6. req' \in [Requests -> ReqRec]
  <2>1. req' = [r \in Requests |-> req'[r]]
    BY Zenon DEF Crash
  <2> QED
    BY <1>5, <2>1, Zenon
<1>7. RestOK'
  BY <1>2, <1>3, Zenon DEF RestOK
<1>8. \A r \in Requests :
        /\ ~InFlight(r)'
        /\ req'[r].pc = "idle" <=> req[r].pc = "idle"
        /\ req[r].pc \in Settled => req'[r].pc \in Settled
        /\ req[r].pc = "failwrite" => req'[r].pc = "lost"
        /\ req[r].pc = "lost" => req'[r].pc = "lost"
  BY <1>5, Zenon DEF InFlight, Final, Settled
<1>9. PcInv' /\ Apart'
  BY <1>5, <1>8 DEF SnapInv, PcInv, Apart, InFlight, Final, CreatePcs, RestorePcs
<1>10. ASSUME NEW r \in Requests PROVE HandlerOK(r)'
  <2>1. HandlerOK(r)
    BY Zenon DEF SnapInv, DataInv
  <2>2. CASE InFlight(r)
    BY <1>4, <1>5, <2>2, Zenon DEF HandlerOK, Holds, CreatePcs, Kept, Early
  <2>3. CASE ~InFlight(r)
    <3>1. req'[r] = req[r] /\ cfg'.backend = cfg.backend /\ cfg'.faults = cfg.faults
      BY <1>3, <1>5, <2>3, Zenon
    <3> QED
      BY <1>2, <2>1, <3>1, SameNode, Zenon DEF HandlerOK, Dir
  <2> QED
    BY <2>2, <2>3, Zenon
<1>11. EarlyInv'
  BY <1>8, Zenon DEF EarlyInv, Early, InFlight, Final
<1>12. \A m \in Snaps : RowOK(m)'
  BY <1>2, <1>5, <1>8 DEF SnapInv, DataInv, RowOK, Creator
<1>13. ReadyHasData'
  <2>1. \A m \in Snaps : (Purged(m) => Purged(m)') /\ (Abandoned(m) => Abandoned(m)')
    BY <1>2, <1>3, <1>5, <1>8 DEF Purged, Abandoned, StoreFails, Fails, InFlight, Final
  <2> QED
    BY <1>2, <1>3, <2>1, Zenon DEF SnapInv, DataInv, ReadyHasData, Fails, Dir
<1> QED
  BY <1>6, <1>7, <1>9, <1>10, <1>11, <1>12, <1>13, Typed, Zenon DEF SnapInv, DataInv

-----------------------------------------------------------------------------
(* The theorems.                                                            *)

(* No snapshot, no directory and no request when the node is set up.       *)
LEMMA InitSnapInv == Init => SnapInv
<1> SUFFICES ASSUME Init PROVE SnapInv
  OBVIOUS
<1>1. PICK e \in Rows : e = EmptyRow("none", AnySandbox) /\ ~e.loc /\ e.status = "none"
  BY Chosen, EmptyRowType
<1>2. PICK o \in ReqRec : /\ req = [r \in Requests |-> o]
                          /\ o.op = "create" /\ o.pc = "idle" /\ o.row = e
  <2>1. [op |-> "create", sb |-> AnySandbox, snap |-> CHOOSE n \in Snaps : TRUE, pc |-> "idle",
         st |-> "stopped", row |-> e] \in ReqRec
    BY Chosen, Zenon DEF ReqRec, Ops, Pcs, Final, SbStatus
  <2> QED
    BY <1>1, <2>1, Zenon DEF Init
<1>3. row = [n \in Snaps |-> e]
  BY <1>1, Zenon DEF Init
<1>4. RestOK /\ req \in [Requests -> ReqRec]
  <2>1. /\ cfg \in NodeConfigs /\ base \in BOOLEAN /\ bundle \in SUBSET Snaps /\ crashes \in 0..MaxCrashes
        /\ rec \in [pc : {"idle", "close"}, boot : BOOLEAN, todo : SUBSET Snaps]
    BY SnapshotsAssumption DEF Init
  <2>2. /\ sb \in [Sandboxes -> SbStatus] /\ ws \in [Sandboxes -> {"own", "empty"} \cup Snaps]
    BY Zenon DEF Init, SbStatus
  <2>3. files \in [Sandboxes -> [Snaps -> {"none", "notar", "partial", "full"}]]
    BY Zenon DEF Init
  <2> QED
    BY <1>2, <1>3, <2>1, <2>2, <2>3, Zenon DEF RestOK
<1>5. PcInv /\ Apart
  BY <1>2, Zenon DEF PcInv, Apart, InFlight, Final, CreatePcs, RestorePcs
<1>6. DataInv
  BY <1>1, <1>2, <1>3, Zenon DEF DataInv, HandlerOK, Holds, EarlyInv, RowOK, ReadyHasData,
                          CreatePcs, Kept, Early
<1> QED
  BY <1>4, <1>5, <1>6, Typed, Zenon DEF SnapInv

(* Every step keeps the invariant.                                         *)
LEMMA NextSnapInv == SnapInv /\ [Next]_vars => SnapInv'
<1> SUFFICES ASSUME SnapInv, [Next]_vars PROVE SnapInv'
  OBVIOUS
<1>1. ASSUME NEW r \in Requests, RequestStep(r) PROVE SnapInv'
  BY <1>1, AdmissionSteps, InsertStep, InspectStep, ImageStep, TarStep, SealStep, ExportStep,
     PersistStep, RefreshStep, FailStep, FailWriteStep, GetStep, EnsureStep, FetchStep, RestoreSteps,
     DeleteSteps, PurgeStep, Zenon DEF RequestStep
<1>2. CASE UNCHANGED vars
  <2>1. PcInv' /\ Apart' /\ DataInv'
    BY <1>2, Untouched, Zenon DEF vars, SnapInv
  <2>2. TypeOK'
    BY <1>2, Zenon DEF vars, SnapInv, TypeOK
  <2> QED
    BY <2>1, <2>2, Zenon DEF SnapInv
<1> QED
  BY <1>1, <1>2, IssueStep, IdleSteps, CloseStep, DamageStep, CrashStep, Zenon DEF Next, ReconcileStep

(* The invariant holds in every reachable state.                           *)
LEMMA SnapInvHolds == Spec => []SnapInv
BY InitSnapInv, NextSnapInv, PTL DEF Spec

(* The variables of the snapshot service keep their types.                 *)
THEOREM TypeCorrect == Spec => []TypeOK
<1>1. SnapInv => TypeOK
  BY Zenon DEF SnapInv
<1> QED
  BY <1>1, SnapInvHolds, PTL

(* A row that says ready has its data, for any number of sandboxes,        *)
(* snapshots, requests and crashes, with any faults and any backend: an    *)
(* exported one always; one without an export unless its sandbox was       *)
(* deleted, stored archives rot, or CreateSnapshot was abandoned between   *)
(* its ready write and the write that marks it failed.                     *)
THEOREM ReadyHasDataHolds == Spec => []ReadyHasData
<1>1. SnapInv => ReadyHasData
  BY Zenon DEF SnapInv, DataInv
<1> QED
  BY <1>1, SnapInvHolds, PTL

(* Where a handler has put the snapshot into the workspace.                *)
Restored == {"rpersist", "rfinish"}

(* From there on it is in the workspace of the target, if the row that the *)
(* handler holds is ready.                                                 *)
RestoredInv ==
    \A r \in Requests :
        req[r].pc \in Restored /\ req[r].row.status = "ready" => ws[req[r].sb] = req[r].snap

(* A virtual machine has no workspace to extract into.                     *)
ExtractInv == \A r \in Requests : req[r].pc = "rextract" => cfg.backend # "qemu"

(* A handler moves alone, from its own code, and touches no workspace but  *)
(* that of its own sandbox.                                                *)
LEMMA MovesAlone ==
    ASSUME TypeOK, NEW q \in Requests, RequestStep(q)
    PROVE  /\ InFlight(q)
           /\ \A r \in Requests : r # q => req'[r] = req[r]
           /\ \A s \in Sandboxes : s # req[q].sb => ws'[s] = ws[s]
<1>1. req \in [Requests -> ReqRec] /\ ws \in [Sandboxes -> {"own", "empty"} \cup Snaps]
  BY Typed, Zenon DEF RestOK
<1>2. \E o : req' = [req EXCEPT ![q] = o]
  <2>1. \A pc, copy : /\ Goto(q, pc) => \E o : req' = [req EXCEPT ![q] = o]
                      /\ GotoWith(q, pc, copy) => \E o : req' = [req EXCEPT ![q] = o]
                      /\ Return(q, pc) => \E o : req' = [req EXCEPT ![q] = o]
                      /\ req' = [req EXCEPT ![q].pc = pc, ![q].st = copy]
                            => \E o : req' = [req EXCEPT ![q] = o]
    BY Zenon DEF Goto, GotoWith, Return
  <2>2. CASE GetSandbox(q) \/ AdmitSnapshot(q) \/ InsertSnapshot(q) \/ RuntimeInspect(q)
             \/ RuntimeArchive(q) \/ CopyImage(q) \/ CopyTar(q) \/ SealTar(q)
    BY <2>1, <2>2, Zenon DEF GetSandbox, AdmitSnapshot, InsertSnapshot, RuntimeInspect,
                             RuntimeArchive, CopyImage, CopyTar, SealTar
  <2>3. CASE exportSnapshotBundle(q) \/ PersistReady(q) \/ CreateRefresh(q) \/ FailSnapshot(q)
             \/ FailWrite(q) \/ GetSnapshot(q) \/ FetchBundle(q)
    BY <2>1, <2>3, Zenon DEF exportSnapshotBundle, PersistReady, CreateRefresh, FailSnapshot,
                             FailWrite, GetSnapshot, FetchBundle
  <2>4. CASE ensureSnapshotArtifacts(q)
    <3>1. req[q].row.loc \in BOOLEAN
      BY <1>1, Zenon DEF ReqRec, Rows
    <3> QED
      BY <2>1, <2>4, <3>1, Zenon DEF ensureSnapshotArtifacts, Copy
  <2>5. CASE StopTarget(q) \/ RuntimeRestore(q) \/ createWorkspaceDisk(q) \/ ExtractWorkspace(q)
             \/ RestorePersist(q) \/ RestoreFinish(q) \/ DeleteDestroy(q) \/ DeletePurge(q)
             \/ DeletePersist(q)
    BY <2>1, <2>5, Zenon DEF StopTarget, RuntimeRestore, QemuRestore, ClearWorkspace, createWorkspaceDisk,
                             ExtractWorkspace, RestorePersist, RestoreFinish, DeleteDestroy, DeletePurge,
                             DeletePersist
  <2> QED
    BY <2>2, <2>3, <2>4, <2>5, Zenon DEF RequestStep
<1>3. ws' = ws \/ \E c : SetWorkspace(req[q].sb, c)
  BY Zenon
  DEF RequestStep, GetSandbox, AdmitSnapshot, InsertSnapshot, RuntimeInspect, RuntimeArchive, CopyImage,
      CopyTar, SealTar, exportSnapshotBundle, PersistReady, CreateRefresh, FailSnapshot, FailWrite,
      GetSnapshot, ensureSnapshotArtifacts, FetchBundle, StopTarget, RuntimeRestore, QemuRestore,
      ClearWorkspace, createWorkspaceDisk, ExtractWorkspace, RestorePersist, RestoreFinish,
      DeleteDestroy, DeletePurge, DeletePersist
<1>4. InFlight(q)
  BY Zenon
  DEF InFlight, Final, RequestStep, GetSandbox, AdmitSnapshot, InsertSnapshot, RuntimeInspect,
      RuntimeArchive, CopyImage, CopyTar, SealTar, exportSnapshotBundle, PersistReady, CreateRefresh,
      FailSnapshot, FailWrite, GetSnapshot, ensureSnapshotArtifacts, FetchBundle, StopTarget,
      RuntimeRestore, createWorkspaceDisk, ExtractWorkspace, RestorePersist, RestoreFinish,
      DeleteDestroy, DeletePurge, DeletePersist
<1> QED
  BY <1>1, <1>2, <1>3, <1>4, Zenon DEF SetWorkspace

(* How a handler ends a step: where it is, and with which row.             *)
LEMMA Ends ==
    ASSUME TypeOK, NEW q \in Requests
    PROVE  /\ \A pc : Goto(q, pc) => /\ req'[q].pc = pc /\ req'[q].row = req[q].row
                                     /\ req'[q].sb = req[q].sb /\ req'[q].snap = req[q].snap
           /\ \A pc, copy : GotoWith(q, pc, copy) => req'[q].pc = pc
           /\ \A pc : Return(q, pc) => req'[q].pc = pc
           /\ \A pc, st : req' = [req EXCEPT ![q].pc = pc, ![q].st = st] => req'[q].pc = pc
<1>1. PICK o \in ReqRec : o = req[q]
  BY Typed, Zenon
<1>2. req \in [Requests -> ReqRec]
  BY Typed, Zenon
<1>3. ASSUME NEW pc, Goto(q, pc)
      PROVE  /\ req'[q].pc = pc /\ req'[q].row = req[q].row
             /\ req'[q].sb = req[q].sb /\ req'[q].snap = req[q].snap
  BY <1>1, <1>2, <1>3 DEF Goto, ReqRec
<1>4. ASSUME NEW pc, NEW copy, GotoWith(q, pc, copy) PROVE req'[q].pc = pc
  BY <1>1, <1>2, <1>4 DEF GotoWith, ReqRec
<1>5. ASSUME NEW pc, Return(q, pc) PROVE req'[q].pc = pc
  BY <1>1, <1>2, <1>5 DEF Return, ReqRec
<1>6. ASSUME NEW pc, NEW st, req' = [req EXCEPT ![q].pc = pc, ![q].st = st] PROVE req'[q].pc = pc
  BY <1>1, <1>2, <1>6 DEF ReqRec
<1> QED
  BY <1>3, <1>4, <1>5, <1>6, Zenon

(* The steps after which a handler has restored, and after which it says   *)
(* that it has done what it was asked for.                                 *)
LEMMA RestoreEnds ==
    ASSUME TypeOK, NEW q \in Requests, RequestStep(q)
    PROVE  /\ req'[q].pc \in Restored => createWorkspaceDisk(q) \/ ExtractWorkspace(q) \/ RestorePersist(q)
           /\ req'[q].pc = "ok" => CreateRefresh(q) \/ RestoreFinish(q) \/ DeletePersist(q)
           /\ req'[q].pc = "rextract" => cfg.backend # "qemu"
<1>1. CASE GetSandbox(q) \/ AdmitSnapshot(q) \/ InsertSnapshot(q) \/ RuntimeInspect(q)
           \/ RuntimeArchive(q) \/ CopyImage(q) \/ CopyTar(q) \/ SealTar(q)
  <2>1. CASE GetSandbox(q) \/ AdmitSnapshot(q) \/ InsertSnapshot(q) \/ RuntimeInspect(q)
    <3>1. CASE GetSandbox(q)
      <4>1. req'[q].pc \in {"admit", "ensure", "err"}
        <5> DEFINE at(pc) == req' = [req EXCEPT ![q].pc = pc, ![q].st = sb[req[q].sb]]
        <5>1. at("admit") \/ at("ensure") \/ Return(q, "err")
          BY <3>1, Zenon DEF GetSandbox
        <5>2. ASSUME NEW pc, at(pc) PROVE req'[q].pc = pc
          <6>1. req \in [Requests -> ReqRec]
            BY Typed, Zenon
          <6> QED
            BY <5>2, <6>1 DEF ReqRec
        <5>3. \A pc : Return(q, pc) => req'[q].pc = pc
          BY Ends, Zenon
        <5> HIDE DEF at
        <5> QED
          BY <5>1, <5>2, <5>3, Zenon
      <4> QED
        BY <4>1, Zenon DEF Restored
    <3>2. CASE AdmitSnapshot(q) \/ InsertSnapshot(q) \/ RuntimeInspect(q)
      <4>1. req'[q].pc \in {"err", "insert", "inspect", "archive", "fail"}
        BY <3>2, Ends, Zenon DEF AdmitSnapshot, InsertSnapshot, RuntimeInspect
      <4> QED
        BY <4>1, Zenon DEF Restored
    <3> QED
      BY <2>1, <3>1, <3>2, Zenon
  <2>2. CASE RuntimeArchive(q) \/ CopyImage(q) \/ CopyTar(q) \/ SealTar(q)
    <3>1. req'[q].pc \in {"image", "fail", "tar", "seal", "export"}
      BY <2>2, Ends, Zenon DEF RuntimeArchive, CopyImage, CopyTar, SealTar
    <3> QED
      BY <3>1, Zenon DEF Restored
  <2> QED
    BY <1>1, <2>1, <2>2, Zenon
<1>2. CASE exportSnapshotBundle(q) \/ PersistReady(q) \/ FailSnapshot(q) \/ FailWrite(q)
           \/ GetSnapshot(q) \/ FetchBundle(q)
  <2>1. req'[q].pc \in {"ready", "fail", "refresh", "failwrite", "err", "radmit", "rstop"}
    BY <1>2, Ends, Zenon DEF exportSnapshotBundle, PersistReady, FailSnapshot, FailWrite,
                             GetSnapshot, FetchBundle
  <2> QED
    BY <2>1, Zenon DEF Restored
<1>3. CASE ensureSnapshotArtifacts(q)
  <2>1. req[q].row.loc \in BOOLEAN
    BY Typed, Zenon DEF ReqRec, Rows
  <2>2. req'[q].pc \in {"rstop", "err", "fetch"}
    BY <1>3, <2>1, Ends, Zenon DEF ensureSnapshotArtifacts, Copy
  <2> QED
    BY <2>2, Zenon DEF Restored
<1>4. CASE StopTarget(q) \/ RuntimeRestore(q) \/ DeleteDestroy(q) \/ DeletePurge(q)
  <2>1. CASE StopTarget(q) \/ DeleteDestroy(q) \/ DeletePurge(q)
    <3>1. req'[q].pc \in {"rruntime", "err", "purge", "dpersist"}
      BY <2>1, Ends, Zenon DEF StopTarget, DeleteDestroy, DeletePurge
    <3> QED
      BY <3>1, Zenon DEF Restored
  <2>2. CASE RuntimeRestore(q)
    <3>1. \/ Goto(q, "rmkfs") \/ Return(q, "err")
          \/ cfg.backend # "qemu" /\ Goto(q, "rextract")
      BY <2>2, Zenon DEF RuntimeRestore, QemuRestore, ClearWorkspace
    <3>2. \/ req'[q].pc = "rmkfs" \/ req'[q].pc = "err"
          \/ cfg.backend # "qemu" /\ req'[q].pc = "rextract"
      BY <3>1, Ends, Zenon
    <3> QED
      BY <3>2, Zenon DEF Restored
  <2> QED
    BY <1>4, <2>1, <2>2, Zenon
<1>5. CASE CreateRefresh(q) \/ RestoreFinish(q) \/ DeletePersist(q)
  <2>1. req'[q].pc \in {"ok", "fail", "err"}
    BY <1>5, Ends, Zenon DEF CreateRefresh, RestoreFinish, DeletePersist
  <2> QED
    BY <1>5, <2>1, Zenon DEF Restored
<1>6. CASE createWorkspaceDisk(q) \/ ExtractWorkspace(q) \/ RestorePersist(q)
  <2>1. req'[q].pc \in {"rpersist", "rfinish", "err"}
    BY <1>6, Ends, Zenon DEF createWorkspaceDisk, ExtractWorkspace, RestorePersist
  <2> QED
    BY <1>6, <2>1, Zenon
<1> QED
  BY <1>1, <1>2, <1>3, <1>4, <1>5, <1>6, Zenon DEF RequestStep

(* A handler that holds a ready row names an archive, and has restored it  *)
(* when it gets that far.                                                  *)
LEMMA OwnRestore ==
    ASSUME SnapInv, RestoredInv, NEW q \in Requests, RequestStep(q),
           req'[q].pc \in Restored, req'[q].row.status = "ready"
    PROVE  ws'[req'[q].sb] = req'[q].snap
<1>1. TypeOK /\ HandlerOK(q) /\ req[q].sb \in Sandboxes /\ ws \in [Sandboxes -> {"own", "empty"} \cup Snaps]
  BY RequestTypes, Typed, Zenon DEF SnapInv, DataInv, RestOK
<1>2. Goto(q, "rpersist") \/ Goto(q, "rfinish") \/ Return(q, "err")
  BY <1>1, RestoreEnds, Zenon DEF createWorkspaceDisk, ExtractWorkspace, RestorePersist
<1>3. req'[q].row = req[q].row /\ req'[q].sb = req[q].sb /\ req'[q].snap = req[q].snap
  BY <1>1, <1>2, Ends, Zenon DEF Restored
<1>4. req[q].row.tar
  BY <1>1, <1>3, Zenon DEF HandlerOK, Holds
<1>5. CASE createWorkspaceDisk(q)
  <2>1. SetWorkspace(req[q].sb, req[q].snap)
    BY <1>1, <1>4, <1>5, Ends, Zenon DEF createWorkspaceDisk, Copy, Restored
  <2> QED
    BY <1>1, <1>3, <2>1, Zenon DEF SetWorkspace
<1>6. CASE ExtractWorkspace(q)
  <2>1. SetWorkspace(req[q].sb, req[q].snap)
    BY <1>1, <1>4, <1>6, Ends, Zenon DEF ExtractWorkspace, Copy, Restored
  <2> QED
    BY <1>1, <1>3, <2>1, Zenon DEF SetWorkspace
<1>7. CASE RestorePersist(q)
  BY <1>3, <1>7, Zenon DEF RestorePersist, RestoredInv, Restored
<1> QED
  BY <1>1, <1>5, <1>6, <1>7, RestoreEnds, Zenon

(* Every step keeps what has been restored: requests in flight are about   *)
(* different sandboxes.                                                    *)
LEMMA NextRestored == SnapInv /\ RestoredInv /\ [Next]_vars => RestoredInv'
<1> SUFFICES ASSUME SnapInv, RestoredInv, [Next]_vars PROVE RestoredInv'
  OBVIOUS
<1>1. TypeOK /\ Apart /\ req \in [Requests -> ReqRec]
  BY Typed, Zenon DEF SnapInv
<1>2. ASSUME NEW q \in Requests, RequestStep(q) PROVE RestoredInv'
  <2>1. SUFFICES ASSUME NEW r \in Requests, req'[r].pc \in Restored, req'[r].row.status = "ready"
                 PROVE  ws'[req'[r].sb] = req'[r].snap
    BY Zenon DEF RestoredInv
  <2>2. CASE r = q
    BY <1>2, <2>1, <2>2, OwnRestore, Zenon
  <2>3. CASE r # q
    <3>1. req'[r] = req[r] /\ InFlight(q) /\ \A s \in Sandboxes : s # req[q].sb => ws'[s] = ws[s]
      BY <1>1, <1>2, <2>3, MovesAlone, Zenon
    <3>2. InFlight(r)
      BY <2>1, <3>1, Zenon DEF InFlight, Final, Restored
    <3>3. req[r].sb # req[q].sb /\ req[r].sb \in Sandboxes
      BY <1>1, <2>3, <3>1, <3>2, RequestTypes, Zenon DEF Apart
    <3> QED
      BY <2>1, <3>1, <3>3, Zenon DEF RestoredInv
  <2> QED
    BY <2>2, <2>3, Zenon
<1>3. ASSUME NEW q \in Requests, Issue(q) PROVE RestoredInv'
  <2>1. \E o : req' = [req EXCEPT ![q] = o] /\ o.pc \notin Restored /\ ws' = ws
    <3> DEFINE start(op) == CASE op = "create" -> "get" [] op = "restore" -> "rget" [] OTHER -> "destroy"
    <3>1. PICK op, s, n : req' = [req EXCEPT ![q] =
                       [op |-> op, sb |-> s, snap |-> n, st |-> "stopped",
                        pc |-> start(op), row |-> EmptyRow("none", AnySandbox)]]
      BY <1>3, Zenon DEF Issue
    <3>2. start(op) \notin Restored
      BY Zenon DEF Restored
    <3>3. ws' = ws
      BY <1>3, Zenon DEF Issue
    <3> HIDE DEF start
    <3> DEFINE new == [op |-> op, sb |-> s, snap |-> n, st |-> "stopped",
                       pc |-> start(op), row |-> EmptyRow("none", AnySandbox)]
    <3>4. new.pc = start(op)
      BY Zenon
    <3> HIDE DEF new
    <3> QED
      BY <3>1, <3>2, <3>3, <3>4, Zenon DEF new
  <2> QED
    BY <1>1, <2>1, Zenon DEF RestoredInv
<1>4. CASE Crash
  <2>1. \A r \in Requests : req'[r].pc \notin Restored
    <3>1. ASSUME NEW r \in Requests, InFlight(r) PROVE req'[r].pc = "lost"
      <4>1. PICK o \in ReqRec : o = req[r]
        BY <1>1, Zenon
      <4>2. req'[r] = [o EXCEPT !.pc = "lost", !.st = "stopped", !.row = EmptyRow("none", AnySandbox)]
        BY <1>4, <3>1, <4>1, Zenon DEF Crash
      <4> QED
        BY <4>2 DEF ReqRec
    <3>2. ASSUME NEW r \in Requests, ~InFlight(r) PROVE req'[r] = req[r]
      BY <1>4, <3>2, Zenon DEF Crash
    <3> QED
      BY <3>1, <3>2, Zenon DEF InFlight, Final, Restored
  <2> QED
    BY <2>1, Zenon DEF RestoredInv
<1>5. CASE ReconcileStep \/ (\E s \in Sandboxes : PowerSandbox(s))
           \/ (\E s \in Sandboxes, n \in Snaps : Damage(s, n)) \/ UNCHANGED vars
  <2>1. UNCHANGED <<req, ws>>
    BY <1>5, Zenon DEF ReconcileStep, ListCreating, CloseIncomplete, ReconcileDone, PowerSandbox, Damage, vars
  <2> QED
    BY <2>1, Zenon DEF RestoredInv
<1> QED
  BY <1>2, <1>3, <1>4, <1>5, Zenon DEF Next

(* Which steps move a handler that is in flight.                           *)
LEMMA WhoMoves ==
    ASSUME TypeOK, [Next]_vars, NEW r \in Requests, InFlight(r)
    PROVE  \/ RequestStep(r)
           \/ \E q \in Requests : q # r /\ RequestStep(q) /\ req'[r] = req[r]
           \/ ws' = ws /\ req'[r] = req[r]
           \/ ws' = ws /\ req'[r].pc = "lost"
<1>1. req \in [Requests -> ReqRec]
  BY Typed, Zenon
<1>2. ASSUME NEW q \in Requests, RequestStep(q), q # r PROVE req'[r] = req[r]
  BY <1>2, MovesAlone, Zenon
<1>3. ASSUME NEW q \in Requests, Issue(q) PROVE ws' = ws /\ req'[r] = req[r]
  <2>1. q # r
    BY <1>3, Zenon DEF Issue, InFlight, Final
  <2>2. \E o : req' = [req EXCEPT ![q] = o]
    BY <1>3, Zenon DEF Issue
  <2>3. ws' = ws
    BY <1>3, Zenon DEF Issue
  <2> QED
    BY <1>1, <2>1, <2>2, <2>3, Zenon
<1>4. CASE Crash
  <2>1. PICK o \in ReqRec : o = req[r]
    BY <1>1, Zenon
  <2>2. /\ ws' = ws
        /\ req'[r] = [o EXCEPT !.pc = "lost", !.st = "stopped", !.row = EmptyRow("none", AnySandbox)]
    BY <1>4, <2>1, Zenon DEF Crash
  <2>3. req'[r].pc = "lost"
    BY <2>2 DEF ReqRec
  <2> QED
    BY <2>2, <2>3, Zenon
<1>5. CASE ReconcileStep \/ (\E s \in Sandboxes : PowerSandbox(s))
           \/ (\E s \in Sandboxes, n \in Snaps : Damage(s, n)) \/ UNCHANGED vars
  BY <1>5, Zenon DEF ReconcileStep, ListCreating, CloseIncomplete, ReconcileDone, PowerSandbox, Damage, vars
<1> QED
  BY <1>2, <1>3, <1>4, <1>5, Zenon DEF Next

(* A handler that is not in flight stays where it is, or a request comes.  *)
LEMMA StaysOut ==
    ASSUME TypeOK, [Next]_vars, NEW r \in Requests, ~InFlight(r)
    PROVE  req'[r] = req[r] \/ req'[r].pc \in {"get", "rget", "destroy"}
<1>1. req \in [Requests -> ReqRec]
  BY Typed, Zenon
<1>2. ASSUME NEW q \in Requests, RequestStep(q) PROVE req'[r] = req[r]
  BY <1>2, MovesAlone, Zenon
<1>3. ASSUME NEW q \in Requests, Issue(q)
      PROVE  req'[r] = req[r] \/ req'[r].pc \in {"get", "rget", "destroy"}
  <2> DEFINE start(op) == CASE op = "create" -> "get" [] op = "restore" -> "rget" [] OTHER -> "destroy"
  <2>1. PICK op, s, n : req' = [req EXCEPT ![q] =
                     [op |-> op, sb |-> s, snap |-> n, st |-> "stopped",
                      pc |-> start(op), row |-> EmptyRow("none", AnySandbox)]]
    BY <1>3, Zenon DEF Issue
  <2>2. start(op) \in {"get", "rget", "destroy"}
    BY Zenon
  <2> HIDE DEF start
  <2> QED
    BY <1>1, <2>1, <2>2, Zenon
<1>4. CASE Crash
  BY <1>4, Zenon DEF Crash
<1>5. CASE ReconcileStep \/ (\E s \in Sandboxes : PowerSandbox(s))
           \/ (\E s \in Sandboxes, n \in Snaps : Damage(s, n)) \/ UNCHANGED vars
  BY <1>5, Zenon DEF ReconcileStep, ListCreating, CloseIncomplete, ReconcileDone, PowerSandbox, Damage, vars
<1> QED
  BY <1>2, <1>3, <1>4, <1>5, Zenon DEF Next

(* No step changes the backend, and only containers get there.             *)
LEMMA NextExtract == TypeOK /\ ExtractInv /\ [Next]_vars => ExtractInv'
<1> SUFFICES ASSUME TypeOK, ExtractInv, [Next]_vars PROVE ExtractInv'
  OBVIOUS
<1>1. cfg'.backend = cfg.backend
  <2>1. CASE Crash
    <3>1. PICK e \in BOOLEAN : cfg' = [cfg EXCEPT !.export = e]
      BY <2>1, Zenon DEF Crash
    <3>2. cfg \in NodeConfigs
      BY Zenon DEF TypeOK
    <3> QED
      BY <3>1, <3>2 DEF NodeConfigs
  <2>2. CASE ~Crash
    <3>1. ASSUME NEW q \in Requests, RequestStep(q) PROVE cfg' = cfg
      BY <3>1, Zenon
      DEF RequestStep, GetSandbox, AdmitSnapshot, InsertSnapshot, RuntimeInspect, RuntimeArchive, CopyImage,
          CopyTar, SealTar, exportSnapshotBundle, PersistReady, CreateRefresh, FailSnapshot, FailWrite,
          GetSnapshot, ensureSnapshotArtifacts, FetchBundle, StopTarget, RuntimeRestore,
          createWorkspaceDisk, ExtractWorkspace, RestorePersist, RestoreFinish,
          DeleteDestroy, DeletePurge, DeletePersist
    <3>2. ASSUME NEW q \in Requests, Issue(q) PROVE cfg' = cfg
      BY <3>2, Zenon DEF Issue
    <3> QED
      BY <2>2, <3>1, <3>2, Zenon DEF Next, ReconcileStep, ListCreating, CloseIncomplete, ReconcileDone,
                                     PowerSandbox, Damage, vars
  <2> QED
    BY <2>1, <2>2, Zenon
<1>2. ASSUME NEW r \in Requests, req'[r].pc = "rextract" PROVE cfg.backend # "qemu"
  <2>1. CASE InFlight(r)
    <3>1. ASSUME RequestStep(r) PROVE cfg.backend # "qemu"
      BY <1>2, <3>1, RestoreEnds, Zenon
    <3> QED
      BY <1>2, <2>1, <3>1, WhoMoves, Zenon DEF ExtractInv
  <2>2. CASE ~InFlight(r)
    BY <1>2, <2>2, StaysOut, Zenon DEF InFlight, Final
  <2> QED
    BY <2>1, <2>2, Zenon
<1> QED
  BY <1>1, <1>2, Zenon DEF ExtractInv

(* A virtual machine is never restored by extraction.                      *)
LEMMA ExtractInvHolds == Spec => []ExtractInv
<1>1. Init => ExtractInv
  <2>1. ASSUME Init PROVE \A r \in Requests : req[r].pc = "idle"
    BY <2>1, Zenon DEF Init
  <2> QED
    BY <2>1, Zenon DEF ExtractInv
<1> QED
  BY <1>1, TypeCorrect, NextExtract, PTL DEF Spec

(* What has been restored stays.                                           *)
LEMMA RestoredInvHolds == Spec => [](SnapInv /\ RestoredInv)
<1>1. Init => RestoredInv
  <2>1. ASSUME Init PROVE \A r \in Requests : req[r].pc = "idle"
    BY <2>1, Zenon DEF Init
  <2> QED
    BY <2>1, Zenon DEF RestoredInv, Restored
<1> QED
  BY <1>1, SnapInvHolds, NextRestored, PTL DEF Spec

(* A restore from a ready row that answers ok has put the snapshot into    *)
(* the workspace: with every backend and any faults.                       *)
THEOREM RestoredIsSnapshotHolds == Spec => RestoredIsSnapshot
<1>1. ASSUME SnapInv, RestoredInv, [Next]_vars, NEW r \in Requests,
             req[r].op = "restore", req[r].row.status = "ready", InFlight(r), req'[r].pc = "ok"
      PROVE  ws'[req[r].sb] = req[r].snap
  <2>1. TypeOK /\ PcInv
    BY <1>1, Zenon DEF SnapInv
  <2>2. RequestStep(r)
    BY <1>1, <2>1, WhoMoves, Zenon DEF InFlight, Final
  <2>3. CreateRefresh(r) \/ RestoreFinish(r) \/ DeletePersist(r)
    BY <1>1, <2>1, <2>2, RestoreEnds, Zenon
  <2>4. RestoreFinish(r)
    BY <1>1, <2>1, <2>3, Zenon DEF CreateRefresh, DeletePersist, PcInv, CreatePcs
  <2> QED
    BY <1>1, <2>4, Zenon DEF RestoreFinish, RestoredInv, Restored
<1>2. SnapInv /\ RestoredInv /\ [Next]_vars =>
        [\A r \in Requests :
         /\ req[r].op = "restore" /\ req[r].row.status = "ready"
         /\ InFlight(r) /\ req'[r].pc = "ok"
         => ws'[req[r].sb] = req[r].snap]_vars
  BY <1>1, Zenon
<1> QED
  BY <1>2, RestoredInvHolds, PTL DEF Spec, RestoredIsSnapshot

(* Stored data that are missing or damaged never cost a QEMU sandbox its   *)
(* workspace: the old disk is removed only with the whole snapshot at hand *)
(* (the invariant says that a ready row names an archive, also in the copy *)
(* that the handler has held for a while), and what replaces it is the     *)
(* snapshot.                                                               *)
THEOREM QemuRestoreStagesFirstHolds == Spec => QemuRestoreStagesFirst
<1>1. ASSUME SnapInv, ExtractInv, [Next]_vars, NEW r \in Requests,
             cfg.backend = "qemu", req[r].op = "restore", InFlight(r),
             req[r].row.status = "ready", ws'[req[r].sb] # ws[req[r].sb]
      PROVE  \/ /\ req[r].pc = "rruntime" /\ req'[r].pc = "rmkfs"
                /\ Dir(req[r].row.src, req[r].snap) = "full"
             \/ req[r].pc = "rmkfs" /\ ws'[req[r].sb] = req[r].snap
  <2>1. /\ TypeOK /\ PcInv /\ Apart /\ req[r].sb \in Sandboxes /\ req[r].row.tar
        /\ ws \in [Sandboxes -> {"own", "empty"} \cup Snaps]
    BY <1>1, RequestTypes, Typed, Zenon DEF SnapInv, DataInv, HandlerOK, Holds, RestOK
  <2>2. RequestStep(r)
    <3>1. ASSUME NEW q \in Requests, q # r, RequestStep(q) PROVE ws'[req[r].sb] = ws[req[r].sb]
      BY <1>1, <2>1, <3>1, MovesAlone, Zenon DEF Apart
    <3> QED
      BY <1>1, <2>1, <3>1, WhoMoves, Zenon
  <2>3. RuntimeRestore(r) \/ createWorkspaceDisk(r) \/ ExtractWorkspace(r) \/ DeleteDestroy(r)
    BY <1>1, <2>2, Zenon
    DEF RequestStep, GetSandbox, AdmitSnapshot, InsertSnapshot, RuntimeInspect, RuntimeArchive, CopyImage,
        CopyTar, SealTar, exportSnapshotBundle, PersistReady, CreateRefresh, FailSnapshot, FailWrite,
        GetSnapshot, ensureSnapshotArtifacts, FetchBundle, StopTarget, RestorePersist, RestoreFinish,
        DeletePurge, DeletePersist
  <2>4. CASE RuntimeRestore(r)
    <3>1. req[r].pc = "rruntime" /\ Goto(r, "rmkfs") /\ Dir(req[r].row.src, req[r].snap) = "full"
      BY <1>1, <2>1, <2>4, Zenon DEF RuntimeRestore, QemuRestore, Copy
    <3> QED
      BY <2>1, <3>1, Ends, Zenon
  <2>5. CASE createWorkspaceDisk(r)
    <3>1. req[r].pc = "rmkfs" /\ SetWorkspace(req[r].sb, req[r].snap)
      BY <1>1, <2>1, <2>5, Zenon DEF createWorkspaceDisk, Copy
    <3> QED
      BY <2>1, <3>1, Zenon DEF SetWorkspace
  <2>6. ~ExtractWorkspace(r) /\ ~DeleteDestroy(r)
    BY <1>1, <2>1, Zenon DEF ExtractWorkspace, DeleteDestroy, PcInv, ExtractInv
  <2> QED
    BY <2>3, <2>4, <2>5, <2>6, Zenon
<1>2. SnapInv /\ ExtractInv /\ [Next]_vars =>
        [\A r \in Requests :
         /\ cfg.backend = "qemu" /\ req[r].op = "restore" /\ InFlight(r)
         /\ req[r].row.status = "ready" /\ ws'[req[r].sb] # ws[req[r].sb]
         => \/ /\ req[r].pc = "rruntime" /\ req'[r].pc = "rmkfs"
               /\ Dir(req[r].row.src, req[r].snap) = "full"
            \/ req[r].pc = "rmkfs" /\ ws'[req[r].sb] = req[r].snap]_vars
  BY <1>1, Zenon
<1> QED
  BY <1>2, SnapInvHolds, ExtractInvHolds, PTL DEF Spec, QemuRestoreStagesFirst

=============================================================================
