\* One caller at a time of a server with two data directories; the server may
\* exit on its own and any rsync may fail.
CONSTANTS
    r1 = r1
    r2 = r2
    f1 = f1
    NoArg = NoArg
    NoDir = NoDir
    Requests = {r1}
    Files = {f1}
    Ops <- AllOps
    Configs <- FullConfigs
    Srcs <- TwoSrcs
    Dests <- TwoDests
    MaxWrites = 2
    MaxClock = 2
    MaxCrashes = 0
    RsyncFaults = TRUE
    LinkFaults = FALSE
    DockerFaults = FALSE
    RestartPolicy = "no"
SPECIFICATION Spec
INVARIANT
    ListOffersBackups
PROPERTIES
    RestoreGivesBack
    BackupOkIsComplete
