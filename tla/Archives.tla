------------------------------ MODULE Archives ------------------------------
(***************************************************************************)
(* Trees of files, and one step of each loop that packs or unpacks them:   *)
(* archiveutil.ExtractTarGz, which unpacks an upload into a staging        *)
(* directory under limits, and the walks that pack a workspace for export, *)
(* the guest agent's for a QEMU guest and the service's own for a          *)
(* workspace on the host.  A path is a node of a fixed shape; a file has   *)
(* a size and no content.                                                  *)
(***************************************************************************)
EXTENDS Naturals, Sequences, SequencesExt, FiniteSetsExt

CONSTANTS
    PathOrder,  \* the paths, in the order a walk of the file system finds them
    Parent,     \* the directory of each path; Root for those at the top
    Base,       \* the last element of each path
    MaxBytes,   \* the workspace transfer limit
    MaxFiles,   \* the limit of files in an upload
    MaxRatio    \* the limit of bytes per byte of the compressed upload

Root == ""

Outside == ".."

Paths == ToSet(PathOrder)

Absent == [kind |-> "none", size |-> 0]

Dir == [kind |-> "dir", size |-> 0]

File(n) == [kind |-> "file", size |-> n]

Empty == [p \in Paths |-> Absent]

AtOrAbove[p \in Paths] ==
    {p} \cup IF Parent[p] = Root THEN {} ELSE AtOrAbove[Parent[p]]

----------------------------------------------------------------------------
(* The file system.                                                        *)

(* mkdir -p fails on a file in its way.                                    *)
CanMkdir(tree, p) == \A q \in AtOrAbove[p] : tree[q].kind # "file"

MkdirAll(tree, p) == [q \in Paths |-> IF q \in AtOrAbove[p] THEN Dir ELSE tree[q]]

(* Writing makes the missing directories and fails on a directory.         *)
CanWrite(tree, p) ==
    /\ tree[p].kind # "dir"
    /\ Parent[p] # Root => CanMkdir(tree, Parent[p])

Write(tree, p, n) ==
    [IF Parent[p] = Root THEN tree ELSE MkdirAll(tree, Parent[p]) EXCEPT ![p] = File(n)]

RemoveAll(tree, p) == [q \in Paths |-> IF p \in AtOrAbove[q] THEN Absent ELSE tree[q]]

Present(tree) == {p \in Paths : tree[p].kind # "none"}

(* What a directory listing shows.                                         *)
ReadDir(tree, p) ==
    SelectSeq(PathOrder, LAMBDA q : Parent[q] = p /\ tree[q].kind # "none")

Total(tree) == MapThenSumSet(LAMBDA p : tree[p].size, Paths)

----------------------------------------------------------------------------
(* Unpacking.                                                              *)

Unpacked == [tree |-> Empty, files |-> 0, bytes |-> 0, res |-> "go"]

Refuse(x, why) == [x EXCEPT !.res = why]

(* The file is counted, and refused, before any of it is written.          *)
UnpackFile(x, entry, compressed) ==
    LET y == [x EXCEPT !.files = @ + 1, !.bytes = @ + entry.size]
    IN  IF y.files > MaxFiles THEN Refuse(x, "bad")
        ELSE IF y.bytes > MaxBytes THEN Refuse(x, "large")
        ELSE IF y.bytes > compressed * MaxRatio THEN Refuse(x, "bad")
        ELSE IF ~CanWrite(x.tree, entry.name) THEN Refuse(x, "bad")
        ELSE [y EXCEPT !.tree = Write(@, entry.name, entry.size)]

(* Wrong: the file is written, and then the limits are looked at.          *)
ExtractThenCheck(x, entry, compressed) ==
    IF entry.name = Root THEN x
    ELSE IF entry.name = Outside \/ entry.kind = "link" THEN Refuse(x, "bad")
    ELSE LET y == [x EXCEPT !.tree = IF entry.kind = "dir" THEN MkdirAll(@, entry.name)
                                     ELSE Write(@, entry.name, entry.size)]
         IN  IF entry.kind = "file" /\ x.bytes + entry.size > MaxBytes THEN Refuse(y, "large")
             ELSE [y EXCEPT !.bytes = @ + entry.size]

(* One entry of the archive: the root itself is skipped, a name that       *)
(* leaves the destination is refused, and so is anything that is neither a *)
(* directory nor a regular file.                                           *)
ExtractTarGz(x, entry, compressed) ==
    IF entry.name = Root THEN x
    ELSE IF entry.name = Outside THEN Refuse(x, "bad")
    ELSE IF entry.kind = "dir"
    THEN IF CanMkdir(x.tree, entry.name) THEN [x EXCEPT !.tree = MkdirAll(@, entry.name)]
         ELSE Refuse(x, "bad")
    ELSE IF entry.kind = "link" THEN Refuse(x, "bad")
    ELSE UnpackFile(x, entry, compressed)

----------------------------------------------------------------------------
(* Packing.  A walk goes through the requested paths; todo holds the paths *)
(* still to be visited, src the file whose data is due; cut says that the  *)
(* end of the archive did not reach the disk.                              *)

Walk(paths) ==
    [paths |-> paths, todo |-> <<>>, top |-> Root, seen |-> {}, arch |-> <<>>,
     total |-> 0, src |-> Root, cut |-> FALSE, res |-> "go"]

(* Paths are listed once; none at all stands for the root.                 *)
normalizeWorkspaceExportPaths(paths) ==
    IF paths = <<>> THEN <<Root>>
    ELSE FoldLeft(LAMBDA ps, p : IF p \in ToSet(ps) THEN ps ELSE Append(ps, p), <<>>, paths)

(* The next requested path must exist.                                     *)
Resolve(w, tree) ==
    LET p == Head(w.paths)
        v == [w EXCEPT !.paths = Tail(@), !.top = Root]
    IN  IF p = Root THEN [v EXCEPT !.todo = ReadDir(tree, Root)]
        ELSE IF tree[p].kind = "none" THEN Refuse(v, "err")
        ELSE [v EXCEPT !.todo = <<p>>, !.top = IF tree[p].kind = "file" THEN p ELSE Root]

(* The guest agent names a requested file by its last element.             *)
GuestName(w, p) == IF p = w.top THEN Base[p] ELSE p

(* The service names an entry by its path.                                 *)
HostName(w, p) == p

(* Every entry gets all its bytes before the next header is written.       *)
Padded(w) == w.arch # <<>> => Last(w.arch).got = Last(w.arch).size

(* One visit: a directory's content is visited next, an entry whose name   *)
(* is in the archive is passed over, any other gets a header with the size *)
(* the file has now.                                                       *)
Visit(w, tree, name) ==
    LET p == Head(w.todo)
        v == [w EXCEPT !.todo = (IF tree[p].kind = "dir" THEN ReadDir(tree, p) ELSE <<>>)
                                \o Tail(@)]
    IN  IF name \in w.seen THEN v
        ELSE IF tree[p].kind = "none" \/ ~Padded(w) THEN Refuse(v, "err")
        ELSE [v EXCEPT !.arch = Append(@, [name |-> name, size |-> tree[p].size, got |-> 0]),
                       !.seen = @ \cup {name},
                       !.src = IF tree[p].kind = "file" THEN p ELSE Root]

(* The data of the file, as long as it is now.  The service counts the    *)
(* size of the header against the limit, the QEMU backend the data it got. *)
(* More data than the header says is an error; less is noticed with the    *)
(* next header or at the end.                                              *)
CopyData(w, tree, counted) ==
    LET v == [w EXCEPT !.src = Root, !.total = @ + counted]
    IN  IF v.total > MaxBytes THEN Refuse(v, "large")
        ELSE IF tree[w.src].kind # "file" \/ tree[w.src].size > Last(w.arch).size
        THEN Refuse(v, "err")
        ELSE [v EXCEPT !.arch[Len(w.arch)].got = tree[w.src].size]

=============================================================================
