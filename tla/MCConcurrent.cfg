\* Two concurrent callers of everything but restore; rsync, symlinks and the
\* daemon may fail, play-bin may crash.
CONSTANTS
    r1 = r1
    r2 = r2
    f1 = f1
    NoArg = NoArg
    NoDir = NoDir
    Requests = {r1, r2}
    Files = {f1}
    Ops <- NoRestore
    Configs <- SlimConfigs
    Srcs <- OneSrc
    Dests <- OneDest
    MaxWrites = 0
    MaxClock = 2
    MaxCrashes = 1
    RsyncFaults = TRUE
    LinkFaults = TRUE
    DockerFaults = TRUE
    RestartPolicy = "always"
SPECIFICATION FairSpec
INVARIANTS
    TypeOK
    LatestIsComplete
PROPERTIES
    BackupOkIsComplete
    EveryCallReturns
