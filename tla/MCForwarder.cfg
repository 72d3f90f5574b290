\* One container whose forwarding is changed while lines are written.
CONSTANTS
    Servers = {s1}
    Settings = {w1, w2}
    Off = Off
    Tails = {t1, t2}
    None = None
    MaxEdits = 2
    MaxLines = 2
    MaxMoves = 1
    MaxFaults = 1
SPECIFICATION FairSpec
INVARIANTS
    TypeOK
    OneTail
    OnceOnly
PROPERTY Settles
