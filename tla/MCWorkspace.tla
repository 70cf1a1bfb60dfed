---------------------------- MODULE MCWorkspace ----------------------------
(* Instances of Workspace for TLC: a directory d with a file x in it, and  *)
(* a file x at the top.  One request runs while the guest changes files    *)
(* twice, or two requests that change or walk the tree overlap.            *)
EXTENDS Workspace

CONSTANTS r1, r2

MCPathOrder == <<"d", "d/x", "x">>

MCParent == [p \in {"d", "d/x", "x"} |-> IF p = "d/x" THEN "d" ELSE ""]

MCBase == [p \in {"d", "d/x", "x"} |-> IF p = "d" THEN "d" ELSE "x"]

Job == [op |-> "read", path |-> "x", raw |-> FALSE, size |-> 0, body |-> "ok", entries |-> <<>>, paths |-> <<>>]

Entry(n, k, s) == [name |-> n, kind |-> k, size |-> s]

Import(entries, compressed) ==
    [Job EXCEPT !.op = "import", !.entries = entries, !.size = compressed]

Jobs ==
    {Job, [Job EXCEPT !.raw = TRUE], [Job EXCEPT !.path = ".."]}
    \cup {[Job EXCEPT !.op = "write", !.path = p, !.size = n] : p \in {"d/x", "x"}, n \in {1, 2, 3}}
    \cup {[Job EXCEPT !.op = o, !.body = b] : o \in {"write", "export"}, b \in {"large", "bad"}}
    \cup {[Job EXCEPT !.op = "delete", !.path = "d"], [Job EXCEPT !.op = "mkdir", !.path = "d"]}
    \cup {Import(<<Entry("", "dir", 0), Entry("d", "dir", 0), Entry("d/x", "file", 1),
                   Entry("x", "file", 1)>>, 1),
          Import(<<Entry("x", "file", 1), Entry("d/x", "file", 2)>>, 2),
          Import(<<Entry("d", "dir", 0), Entry("x", "file", 2)>>, 1),
          Import(<<Entry("x", "file", 2)>>, 0),
          Import(<<Entry("x", "file", 0), Entry("x", "dir", 0)>>, 1),
          Import(<<Entry("x", "file", 0), Entry("d/x", "link", 0)>>, 1),
          Import(<<Entry("x", "file", 0), Entry("d/x", "file", 0), Entry("x", "file", 1)>>, 1),
          Import(<<Entry("x", "file", 1), Entry("..", "file", 0)>>, 1)}
    \cup {[Job EXCEPT !.op = "import", !.body = b] : b \in {"large", "bad"}}
    \cup {[Job EXCEPT !.op = "export", !.paths = ps] :
            ps \in {<<>>, <<"d/x", "d", "d/x">>, <<"x", "">>, <<"d/x", "x">>, <<"..">>}}

Refused == [Job EXCEPT !.path = ".."]

Busy == {[Job EXCEPT !.op = "write", !.size = 1],
         [Job EXCEPT !.op = "write", !.size = 1, !.path = "d/x"],
         [Job EXCEPT !.op = "delete", !.path = "d"],
         Import(<<Entry("d/x", "file", 1), Entry("x", "file", 1)>>, 1),
         [Job EXCEPT !.op = "export"],
         [Job EXCEPT !.op = "export", !.paths = <<"d/x", "d">>]}

Load(j1, j2, moves0) == [jobs |-> [r \in {r1, r2} |-> IF r = r1 THEN j1 ELSE j2], moves |-> moves0]

MCLoads ==
    {Load(j, Refused, 2) : j \in Jobs} \cup {Load(j1, j2, 0) : j1 \in Busy, j2 \in Busy}
=============================================================================
