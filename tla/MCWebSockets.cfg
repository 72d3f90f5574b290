\* A terminal with a shell, a log stream or no stream, or the statistics.
CONSTANT Modes = {"exec", "logs", "other", "stats"}
SPECIFICATION FairSpec
INVARIANTS
    TypeOK
    ReturnedIsClean
PROPERTIES
    CleanupEnds
    EndIsNoticed
