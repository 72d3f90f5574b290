\* Two goroutines and up to three replacements, broken ones and removals.
CONSTANTS
    NoThread = NoThread
    Threads = {t1, t2}
    MaxNow = 4
SPECIFICATION FairSpec
INVARIANTS
    TypeOK
    NoLostUpdate
    Freshness
PROPERTIES
    Forward
    ImplementsSource
    EventuallyLoaded
