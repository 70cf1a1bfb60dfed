SPECIFICATION FairSpec
CONSTANTS
    Hosts <- MCHosts
    Registered = {"docker-dev", "containerd-kata-professional", "qemu-professional"}
    EngineFaults = {"cli", "fs"}
    Execs = {e1}
    Bridges = {b1}
    Ttys = {t1}
    e1 = e1
    b1 = b1
    t1 = t1
    PreviewLimit = 1
    MaxOutput = 2
INVARIANTS DestroyedIsGone ContainerIsConfined AnswersWereTrue KillIsReported SucceededIsDelivered ConnectionsEnd
PROPERTIES WaitEnds
CHECK_DEADLOCK FALSE
