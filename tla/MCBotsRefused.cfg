\* Discord refuses a connection once; the file is edited at most once.
CONSTANTS
    sA = sA
    sB = sB
    c1 = c1
    c2 = c2
    k1 = k1
    k2 = k2
    h1 = h1
    Empty = Empty
    Servers = {sA, sB}
    Channels = {c1, c2}
    Tokens = {k1, k2}
    Handlers = {}
    Texts <- FewTexts
    MaxFile = 2
    MaxFails = 1
    OtherReaders = FALSE
SPECIFICATION FairSpec
PROPERTY RefusedIsRetried
