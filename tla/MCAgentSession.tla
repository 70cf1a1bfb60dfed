--------------------------- MODULE MCAgentSession ---------------------------
(* Instances of AgentSession: the pairs of calls that share the channel,   *)
(* and the ones during which the machine may exit and boot again.          *)
EXTENDS AgentSession

Pair(a, b) == [c \in Calls |-> IF c = 1 THEN a ELSE b]

MCUnstable == {Pair("exec", "none"), Pair("write", "none"), Pair("ping", "path")}

MCMixes ==
    MCUnstable \cup
    {Pair("exec", "ping"), Pair("read", "path"), Pair("archive", "none"), Pair("path", "path"),
     Pair("pty", "write"), Pair("bridge", "path")}

PtyMix == {Pair("pty", "none")}

=============================================================================
