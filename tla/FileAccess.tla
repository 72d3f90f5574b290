----------------------------- MODULE FileAccess -----------------------------
(***************************************************************************)
(* internal/vfs and its two users, internal/sftp and internal/webdav: the  *)
(* tree of servers and mount points that stands for host directories.  A   *)
(* path is the sequence of its segments.  pkg/sftp passes clean, rooted    *)
(* paths.  The WebDAV library passes on the text the client sent: what     *)
(* StripPrefix leaves of the URL and the whole path of a Destination, with *)
(* or without a first slash, empty segments and dots included.             *)
(***************************************************************************)
EXTENDS AccessConfig, SequencesExt

CONSTANTS
    Conns,        \* SFTP connections
    Paths,        \* paths of SFTP requests: clean and rooted
    RawPaths,     \* paths of WebDAV requests: any text, split at the slashes
    Mounts,       \* Mounts[n]: destinations of the mounts of container n, as paths
    Page,         \* how many entries the SFTP library asks for at a time
    MaxEntries    \* bound: entries of a host directory

ASSUME FileAssumption ==
    /\ Page \in Nat \ {0} /\ MaxEntries \in Nat
    /\ Paths \cup RawPaths \subseteq Seq(STRING)
    /\ Mounts \in [Names -> SUBSET Seq(STRING)]
    \* config.json and the containers are finite; dots name no container and
    \* nothing is mounted at the root of one.
    /\ \A c \in Texts : IsFiniteSet(c.servers)
    /\ \A n \in Names : IsFiniteSet(Mounts[n]) /\ <<>> \notin Mounts[n] /\ n \notin {".", ".."}
    \* pkg/sftp cleans a path before it calls the handler: no empty segment and
    \* no dots are left.
    /\ \A p \in Paths : \A i \in DOMAIN p : p[i] \notin {"", ".", ".."}

VARIABLE conns   \* conns[c]: the user a connection has authenticated, or NoUser

SftpOps == {"list", "get", "put", "rename", "rmdir", "mkdir", "remove", "setstat", "symlink"}
DavOps  == {"stat", "open", "create", "davmkdir", "removeall", "davrename"}
Changes == (SftpOps \cup DavOps) \ {"list", "get", "stat", "open"}
Renames == {"rename", "davrename"}
Opens   == {"get", "put", "open", "create"}    \* leave a file open

ConnsInit == conns = [c \in Conns |-> NoUser]

-----------------------------------------------------------------------------
(* vfs.                                                                    *)

\* filepath.Clean of a path, rooted or relative.
Clean(path, rooted) ==
    LET upTo[i \in 0 .. Len(path)] ==
          IF i = 0 THEN <<>>
          ELSE LET done == upTo[i - 1]
                   up   == done # <<>> /\ done[Len(done)] # ".."
               IN  CASE path[i] \in {"", "."}  -> done
                     [] path[i] = ".." /\ up   -> Front(done)
                     [] path[i] = ".." /\ ~ up /\ rooted -> done
                     [] OTHER                  -> Append(done, path[i])
    IN  upTo[Len(path)]

\* Bug: the path is split without being cleaned.
PartsOf_Raw(path, rooted) == path

\* strings.Trim and strings.Split: the first name in a text, whose permission to
\* write is asked for whatever the rest of the text says.
NameIn(path) ==
    LET i == SelectInSeq(path, LAMBDA part : part # "") IN IF i = 0 THEN "" ELSE path[i]

\* The text is one name, but for slashes around it.
JustName(path) == Cardinality({i \in DOMAIN path : path[i] # ""}) = 1

Rooted(path) == Len(path) > 1 /\ path[1] = ""

\* The parts MapPath works on; a clean empty relative path is ".".
PartsOf(path, rooted) ==
    IF Clean(path, rooted) = <<>> /\ ~ rooted THEN <<".">> ELSE Clean(path, rooted)

Is(err) == [err |-> err, name |-> "", mount |-> <<>>, rel |-> <<>>]

MountAt(name, part) == {d \in Mounts[name] : d = <<part>>}

\* What MapPath can return in version v: the container may not answer, or
\* have no mount at the second part of the path.
MapPath(v, user, parts) ==
    IF parts = <<>> THEN {Is("root")}
    ELSE IF ~ May(v, user, parts[1], PermContainerRead) THEN {Is("denied")}
    ELSE IF parts[1] \notin text[v].servers THEN {Is("missing")}
    ELSE IF Len(parts) = 1 THEN {Is("container")}
    ELSE {Is("missing")} \cup
         {[err |-> "none", name |-> parts[1], mount |-> m, rel |-> SubSeq(parts, 3, Len(parts))] :
            m \in MountAt(parts[1], parts[2])}

-----------------------------------------------------------------------------
(* Connections and requests.                                               *)

\* authenticate, then handleConn keeps the name for the whole connection.
SftpConnect(c) ==
    /\ conns[c] = NoUser
    /\ Get
    /\ \E u \in Users, p \in Passwords :
          \/ Verified(file, u, p) /\ conns' = [conns EXCEPT ![c] = u]
          \/ ~ Verified(file, u, p) /\ UNCHANGED conns
    /\ UNCHANGED req

SftpDisconnect(c) ==
    /\ conns[c] # NoUser
    /\ conns' = [conns EXCEPT ![c] = NoUser]
    /\ UNCHANGED <<config, req>>

\* Basic authentication of a WebDAV request, before the library calls the
\* file system (several times, each call being checked by itself).
DavHandler(r) ==
    /\ req[r].pc = "idle"
    /\ Get
    /\ \E u \in Users, p \in Passwords :
          \/ Verified(file, u, p) /\ req' = [req EXCEPT ![r].pc = "dav", ![r].user = u]
          \/ ~ Verified(file, u, p) /\ UNCHANGED req
    /\ UNCHANGED conns

Ask(r, ops, user, paths) ==
    /\ \E op \in ops, path \in paths : \E target \in IF op \in Renames THEN paths ELSE {<<>>} :
          req' = [req EXCEPT ![r] =
                    [NoRequest EXCEPT !.pc = IF op \in Changes THEN "write" ELSE "map", !.op = op,
                       !.user = user, !.path = path, !.target = target, !.floor = file]]
    /\ UNCHANGED <<config, conns>>

SftpAsk(r, ops) ==
    /\ req[r].pc = "idle"
    /\ \E c \in Conns : conns[c] # NoUser /\ Ask(r, ops, conns[c], Paths)

Filelist(r)  == SftpAsk(r, {"list"})
Fileread(r)  == SftpAsk(r, {"get"})
Filewrite(r) == SftpAsk(r, {"put"})
Filecmd(r)   == SftpAsk(r, {"rename", "rmdir", "mkdir", "remove", "setstat", "symlink"})

\* COPY and MOVE pass the Destination to Mkdir, OpenFile and RemoveAll too.
DavAsk(r, ops) == req[r].pc = "dav" /\ Ask(r, ops, req[r].user, RawPaths)

Mkdir(r)     == DavAsk(r, {"davmkdir"})
OpenFile(r)  == DavAsk(r, {"open", "create"})
RemoveAll(r) == DavAsk(r, {"removeall"})
Rename(r)    == DavAsk(r, {"davrename"})
Stat(r)      == DavAsk(r, {"stat"})

\* Bug: the permission is checked in the configuration in memory.
CheckWrite_Cached(r) ==
    /\ req[r].pc = "write"
    /\ IF May(cfg, req[r].user, NameIn(req[r].path), PermFileWrite) THEN GoTo(r, "map") ELSE Finish(r)
    /\ UNCHANGED <<config, conns>>

\* The write permission, of the first name in the path before it is cleaned:
\* WebDAV refuses a path without one, and asks for that of the destination of a
\* rename too.
CheckWrite(r) ==
    LET q == req[r] IN
    /\ q.pc \in {"write", "write2"}
    /\ Get
    /\ LET name == NameIn(IF q.pc = "write" THEN q.path ELSE q.target)
       IN  IF /\ May(file, q.user, name, PermFileWrite)
              /\ q.op \in DavOps => name # ""
           THEN GoTo(r, IF q.op = "davrename" /\ q.pc = "write" THEN "write2" ELSE "map")
           ELSE Finish(r)
    /\ UNCHANGED conns

\* Where a request goes when its path, and that of its target, is resolved:
\* Setstat does nothing and Symlink is refused.
Resolved(q, res) ==
    LET again == q.op \in Renames /\ q.pc = "map" IN
    CASE res.err = "none" /\ again             -> "map2"
      [] res.err = "none" /\ ~ again /\ q.op \notin {"setstat", "symlink"} -> "os"
      [] res.err = "root" /\ q.op = "list"      -> "rootlist"
      [] res.err = "container" /\ q.op = "list" -> "mounts"
      [] res.err \in {"root", "container"} /\ q.op = "open" -> "readdir"
      [] OTHER                                  -> "answered"

\* MapPath takes the configuration once and asks the daemon for the mounts.
Map(r) ==
    LET q == req[r]
        p == IF q.pc = "map" THEN q.path ELSE q.target
    IN  /\ q.pc \in {"map", "map2"}
        /\ Get
        /\ \E res \in MapPath(file, q.user, PartsOf(p, q.op \in SftpOps \/ Rooted(p))) :
              IF Resolved(q, res) = "answered" THEN Finish(r)
              ELSE req' = [req EXCEPT ![r].pc = Resolved(q, res), ![r].snap = file,
                             ![r].host = IF res.err = "none" THEN Append(@, res) ELSE @]
        /\ UNCHANGED conns

\* The call on the host.  What is opened stays open until the client closes it:
\* ReadAt, WriteAt, Read and Write of the file itself, any number of them while
\* pc is "handle", check nothing.
OsCall(r) ==
    /\ req[r].pc = "os" /\ req[r].op # "list"
    /\ \/ req[r].op \in Opens /\ GoTo(r, "handle")
       \/ Finish(r)
    /\ UNCHANGED <<config, conns>>

\* The client closes a file or a directory, or goes away.
CloseHandle(r) ==
    /\ req[r].pc \in {"handle", "readdir"}
    /\ Finish(r)
    /\ UNCHANGED <<config, conns>>

-----------------------------------------------------------------------------
(* Listings.                                                               *)

\* From version v of the configuration.
Show(r, v, entries, next) ==
    req' = [req EXCEPT ![r].pc = next, ![r].out = entries, ![r].snap = v,
                       ![r].sent = IF next = "paged" THEN entries ELSE <<>>]

\* The servers of version v the user may read.
Readable(v, user) == {<<n>> : n \in {s \in text[v].servers : May(v, user, s, PermContainerRead)}}

\* Filelist takes the configuration again.
FilelistRoot(r) ==
    /\ req[r].pc = "rootlist"
    /\ Get
    /\ Show(r, file, SetToSeq(Readable(file, req[r].user)), "page")
    /\ UNCHANGED conns

\* The mount points of a container, none when the daemon does not answer.
FilelistMounts(r) ==
    /\ req[r].pc = "mounts"
    /\ \E mounts \in {{}, Mounts[req[r].path[1]]} : Show(r, req[r].snap, SetToSeq(mounts), "page")
    /\ UNCHANGED <<config, conns>>

\* A directory of the host.  The entries that went away after ReadDir have no
\* Info: their error is dropped and a nil FileInfo, here <<>>, is in the list.
FilelistDir(r) ==
    /\ req[r].pc = "os" /\ req[r].op = "list"
    /\ \/ \E n \in 0 .. MaxEntries : \E gone \in SUBSET (1 .. n) :
             Show(r, req[r].snap, [i \in 1 .. n |-> IF i \in gone THEN <<>> ELSE <<i>>], "page")
       \/ Finish(r)
    /\ UNCHANGED <<config, conns>>

\* Readdir of the root or of the virtual directory of a container, whose mounts
\* the daemon gives if the text is just its name; the library asks for all
\* entries at once.
Readdir(r) ==
    LET parts == PartsOf(req[r].path, Rooted(req[r].path))
    IN  /\ req[r].pc = "readdir"
        /\ Get
        /\ \E entries \in IF parts = <<>> THEN {Readable(file, req[r].user)}
                           ELSE {{}} \cup (IF JustName(req[r].path) THEN {Mounts[parts[1]]} ELSE {}) :
              Show(r, file, SetToSeq(entries), "paged")
        /\ UNCHANGED conns

\* Bug: the last entry counts as the end.
ListAt_OffByOne(items, offset) ==
    IF offset + 1 >= Len(items) THEN [n |-> 0, eof |-> TRUE]
    ELSE LET n == IF Page < Len(items) - offset THEN Page ELSE Len(items) - offset
         IN  [n |-> n, eof |-> n < Page]

\* Bug: the end of the list is not reported.
ListAt_NoEOF(items, offset) ==
    [n |-> IF Page < Len(items) - offset THEN Page ELSE Len(items) - offset, eof |-> FALSE]

ListAt(items, offset) ==
    IF offset >= Len(items) THEN [n |-> 0, eof |-> TRUE]
    ELSE LET n == IF Page < Len(items) - offset THEN Page ELSE Len(items) - offset
         IN  [n |-> n, eof |-> n < Page]

\* The entries ListAt gives the library next.
NextPage(q) == SubSeq(q.out, Len(q.sent) + 1, Len(q.sent) + ListAt(q.out, Len(q.sent)).n)

\* A nil FileInfo: the library calls its Name.
HasNil(page) == \E i \in DOMAIN page : page[i] = <<>>

\* The library sends a page until it gets the end and no entry.
SendPage(r) ==
    LET q   == req[r]
        got == ListAt(q.out, Len(q.sent))
    IN  /\ q.pc = "page" /\ ~ HasNil(NextPage(q))
        /\ IF got.eof /\ got.n = 0 THEN GoTo(r, "paged")
           ELSE req' = [req EXCEPT ![r].sent = @ \o NextPage(q)]
        /\ UNCHANGED <<config, conns>>

EndList(r) ==
    /\ req[r].pc = "paged"
    /\ Finish(r)
    /\ UNCHANGED <<config, conns>>

SftpRequest(r) == Filelist(r) \/ Fileread(r) \/ Filewrite(r) \/ Filecmd(r)

FileWork(r) ==
    \/ Mkdir(r) \/ OpenFile(r) \/ RemoveAll(r) \/ Rename(r) \/ Stat(r)
    \/ CheckWrite(r) \/ Map(r) \/ OsCall(r) \/ FilelistRoot(r) \/ FilelistMounts(r)
    \/ FilelistDir(r) \/ Readdir(r) \/ SendPage(r) \/ EndList(r)

-----------------------------------------------------------------------------
(* Properties.                                                             *)

\* A host file is opened, changed or removed, and stays open, only for a user
\* who had container.read for the server it belongs to and, for a change,
\* file.write for the first name in the path (of both paths of a WebDAV rename),
\* in versions that were on disk after the request had arrived: a connection
\* opened long ago keeps no permission alive.  Over SFTP that name is the server.
FilesNeedPermission ==
    \A r \in Requests : LET q == req[r] IN
        q.pc \in {"os", "handle"} =>
            /\ \A i \in DOMAIN q.host : \E v \in q.floor .. file :
                  May(v, q.user, q.host[i].name, PermContainerRead)
            /\ q.op \in Changes => \E v \in q.floor .. file :
                  May(v, q.user, NameIn(q.path), PermFileWrite)
            /\ q.op = "davrename" => \E v \in q.floor .. file :
                  May(v, q.user, NameIn(q.target), PermFileWrite)
            /\ q.op \in SftpOps => q.host[1].name = NameIn(q.path)

\* Whatever dot segments a path has, MapPath resolves it to a mount of a
\* configured server or to something below it.
StaysBelowMount ==
    \A u \in Users, p \in RawPaths, rooted \in BOOLEAN :
        \A res \in MapPath(file, u, PartsOf(p, rooted)) : res.err = "none" =>
            /\ res.name \in text[file].servers /\ res.mount \in Mounts[res.name]
            /\ \A i \in DOMAIN res.rel : res.rel[i] \notin {"", ".", ".."}

\* The pages of a listing contain every entry once and in order when the end
\* is reported.
PagesComplete ==
    \A r \in Requests : req[r].pc = "paged" => req[r].sent = req[r].out
=============================================================================
