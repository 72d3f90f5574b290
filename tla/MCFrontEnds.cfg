\* One request at a time over HTTP, SFTP or WebDAV, before and after an edit.
CONSTANTS
    ua = ua
    NoUser = NoUser
    Users = {ua}
    Passwords = {"p1", "p2"}
    Names = {"sA", "sB"}
    Containers = {"cA", "cB"}
    NameOf <- Name
    Requests = {r1}
    Tokens = {t1}
    Conns = {k1}
    Texts <- FewTexts
    MaxFile = 2
    Paths <- FewPaths
    RawPaths <- DotPaths
    Mounts <- TwoMounts
    Page = 2
    MaxEntries = 3
SPECIFICATION FairSpec
INVARIANTS
    TypeOK
    RevokedIsRefused
    OfferedIsAllowed
    MatchIsGrant
    
    StaysBelowMount
    PagesComplete
PROPERTY RequestsEnd
