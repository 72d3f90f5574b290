\* A start overtakes a restore that has already looked at the container.
CONSTANTS
    r1 = r1
    r2 = r2
    f1 = f1
    NoArg = NoArg
    NoDir = NoDir
    Requests = {r1, r2}
    Files = {f1}
    Ops <- DataOps
    Configs <- SlimConfigs
    Srcs <- OneSrc
    Dests <- OneDest
    MaxWrites = 1
    MaxClock = 2
    MaxCrashes = 0
    RsyncFaults = FALSE
    LinkFaults = FALSE
    DockerFaults = FALSE
    RestartPolicy = "no"
SPECIFICATION Spec
INVARIANT NoRestoreWhileRunning
