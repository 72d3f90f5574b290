\* SyncBots and an interaction, with edits and reloads by other goroutines at
\* any moment and refused connections.
CONSTANTS
    sA = sA
    sB = sB
    c1 = c1
    c2 = c2
    k1 = k1
    k2 = k2
    h1 = h1
    Empty = Empty
    Servers = {sA, sB}
    Channels = {c1, c2}
    Tokens = {k1, k2}
    Handlers = {h1}
    Texts <- FewTexts
    MaxFile = 3
    MaxFails = 1
    OtherReaders = TRUE
SPECIFICATION FairSpec
INVARIANTS
    TypeOK
    OneConnection
    AppliedIsNoted
    RevocationIsImmediate
PROPERTIES
    ChannelsFollow
    BotsComeOnline
