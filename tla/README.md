# play-bin in TLA+

play-bin is one Go process that manages game-server containers: a web
interface, Discord bots, SFTP and WebDAV act, at the same time, on the same
containers, directories and `config.json`.  This directory holds TLA+ modules
translated from its source, TLC configurations that check them on small
instances, and TLAPS proofs for every instance.  `PROJECT.json` maps every
definition to the lines it models.

## Inventory

| component (source) | state | operations | hard because | what makes it correct |
|---|---|---|---|---|
| container manager (`internal/container`) | none of its own: the container in the daemon, the data directories, the generations and the `latest` links on disk | Start, Stop, Kill, Backup, ListBackupGenerations, Restore, Remove | callers run concurrently without any lock; each operation is a sequence of daemon calls, rsyncs and file-system calls; any of them fails; the process may end in between | `latest` names a complete copy; success is reported only for complete work; restore keeps off a running server and gives back what was saved |
| docker client (`internal/docker`) | SDK client | SendCommand, SendExec | SendExec waits without a deadline | operations return, but for that wait |
| configuration (`internal/config`) | `Config`, `LastLoaded`, a RWMutex | Get, Reload | every goroutine reloads; lock upgrade; the file changes meanwhile; the modification time is had last, or not at all | no edit is lost; Get is fresh; versions only advance |
| permissions (`internal/config`) | none | HasPermission, checkPermission, matchRecursive | wildcards at any depth, permissions of different lengths | hierarchical match |
| Discord bots (`internal/discord/bot.go`, `service.go`) | Sessions, ChannelToServer, ChannelUpdatedAt | SyncBots every 5s, onInteractionCreate, onMessageCreate | unlocked reads of `LastLoaded`; connections that fail; handlers run during a sync | sessions and channels follow the configuration; one connection per token; revoked permissions are not honoured |
| log forwarders (`internal/discord/forwarder.go`) | ActiveForwarders, one goroutine per server | SyncLogForwarders every 30s, tailContainerLogs | cancelled goroutines overlap with their successors; streams end and are reopened | no line twice; no goroutine escapes; the present setting wins |
| log rules (`internal/discord/forwarder.go`) | cache per rules file | getLogRules | goroutines of several servers share the cache; loads run outside its lock | the last good rules win |
| HTTP (`internal/api`) | WebSessions | Login, Auth, handlers, list of containers | two checks of different permissions on different names in two configurations; sessions outlive users | no operation on a permission that is gone; what is offered is accepted |
| WebSocket terminal and stats (`internal/api/handlers_ws.go`) | per connection: two streams, a Once, a channel, two goroutines | open, upgrade, copy in both directions, cleanup | either side ends or stops reading at any moment; goroutines end each other | done is closed once; nothing stays open; goroutines end |
| files (`internal/vfs`, `internal/sftp`, `internal/webdav`) | SFTP connections with their user | path resolution, list, read, write, rename, remove | connections outlive users and permissions; dot segments; paging | no path leaves the server's directories; nothing is opened on a permission that is gone; listings are complete |
| web page, logger, main | presentation, output, wiring | | | |

Components meet in three places: the daemon (a container is known by the name
of its server), the disk, and `config.Get`, which everybody calls at the start
of an operation.  There is no lock across operations.

## Modules

| module | models |
|---|---|
| `DockerEngine` | the daemon for one container, read off the SDK calls (external). Each call has its outcomes; with `DockerFaults` a call may fail without telling whether it took effect (daemon unreachable, the 30-minute context of the HTTP handlers) |
| `ContainerManager` | the operations of `internal/container` over `DockerEngine`, for a set `Requests` of concurrent callers |
| `ContainerManagerProofs` | its type invariant, the invariant of `latest` and what a successful backup has copied, proved for any callers |
| `OneCallerProofs` | what a restore gives back for one caller at a time, proved |
| `ConfigSource` | abstract: a file that is edited and a version in memory that only moves forward to written versions, with a `LastLoaded` that belongs to it or to an earlier one |
| `LoadedConfig` | Get and Reload, cut at lock, system calls and assignments, and the editors of the file |
| `LoadedConfigProofs` | its properties and that it implements `ConfigSource`, proved |
| `BotManager` | SyncBots and the interaction and message handlers over `ConfigSource` |
| `BotManagerProofs` | its safety properties, and that it uses the configuration as `ConfigSource` allows, proved |
| `LogRules` | getLogRules for one rules file and the goroutines that share it |
| `LogRulesProofs` | its safety properties, proved |
| `LogForwarder` | SyncLogForwarders and the tailing goroutines |
| `LogForwarderProofs` | its safety properties, proved |
| `Permissions` | the match of permissions, and `Grants`, what a permission means, as its reference |
| `AccessConfig` | what the front ends share: users, permissions and servers over `ConfigSource`, requests under way |
| `WebApi` | Login, Auth, the HTTP handlers and the list of containers |
| `FileAccess` | the virtual file system, SFTP and WebDAV |
| `FrontEnds` | composes `WebApi` and `FileAccess` over one configuration |
| `FrontEndsProofs` | the safety properties of the three, and of the recursions they use (`matchRecursive`, `Clean`), proved |
| `WebSockets` | one terminal, log or statistics connection past its permission check |
| `WebSocketsProofs` | that `done` is closed at most once and nothing stays open, proved |
| `MCContainerManager`, `MCBotManager`, `MCFrontEnds` | configurations for TLC. The other modules are small enough to be instantiated by their `.cfg` alone |

Operators named `X_Something` after a comment "Bug:" are wrong variants of `X`
that show which mistakes the properties detect; no specification uses them.

**ContainerManager.**  `req[r]` is a call: its pc, the server configuration it
got at its beginning (`m.Config.Get()`), its timestamp, the index `i` in the
command list, `isRunning`, `hasError`.  Backup is `BackupCall` (configuration,
timestamp), `BackupInspect`, then per entry `BackupCmd`, `BackupRsync` (mkdir
and start of rsync), one `BackupCopy` per file, `BackupCopied` or
`BackupRsyncFails`, `BackupUnlink` and `BackupLink` for `os.Remove` and
`os.Symlink`; Restore is cut the same way.  A directory is a function from
files to versions, `0` meaning absent.  `gens[d][t]` is the directory of
timestamp `t` below destination `d`.  `done` and `taken` are history: which
copies an rsync completed, and what an undisturbed copy took.  The server
writes and deletes files while it runs, exits, is restarted by the daemon;
`Crash` ends play-bin between any two steps, and boot.sh runs it again.
`ListBackupGenerations` changes nothing and is an operator: `ReadDir` of each
destination, what is not in `Seen` appended (`Collected`), sorted.

**LoadedConfig.**  Every change of the file takes a tick, which is its
modification time and names its version.  Replacement by rename makes a new
inode, so a goroutine that has the old one open goes on reading it.  `FstatFails`
is the path on which Config is new and `LastLoaded` is not; the next Get reads
the file again.  `os.Stat` and `os.Open` fail only when the file is missing.  `Spec`
has replacements, broken replacements and removals; `InPlaceSpec` adds editors
that truncate and write the same inode.

**BotManager.**  Get is one step, as `ConfigSource` allows, in the case in which
the file decodes and its time can be had (so also in `AccessConfig`).  The reads
of `LastLoaded` in SyncBots are steps of their own because they hold no lock of
the configuration (`OtherGet` is any other goroutine that reloads).  A torn
read of `LastLoaded` (three words) is not modelled: it mixes two versions'
times and compares like one of the two.  Opening a connection and storing the
session are two steps, with the registration of commands in between.  An
interaction or a message first reads the channel table, then the configuration.
`missed` is history: the version in memory was loaded by another goroutine
between SyncBots' Get and its last read of `LastLoaded`.

**LogForwarder.**  A stream delivers the lines written after it was attached
and ends with the container; a cancelled context may cut it, but lines on
their way still arrive.  Whether a line matches is a nondeterministic choice.

**Permissions, AccessConfig.**  A permission is the sequence of its words.  A
version of `config.json` is a record of users, passwords, permissions, servers
and what each server defines.  `req[r]` is a request; `floor` is the version on
disk when it arrived, `snap` the version its result was computed from.

**WebApi.**  `Arrive` looks the token up, `AuthGet` and `AuthInspect` are the
two halves of Auth (the daemon may not know the id: then the id is the name),
the handlers check their own permission with a Get of their own on the id as
sent, `Run` stands for the operation, which is `ContainerManager`'s, and
`WaitEnds` for the end of one that waits without a deadline (`Waits`: the exec of a
stop sequence, terminals, logs and statistics).
`ListContainers` computes the list in one step: the daemon's answer is any set
of containers, the configuration is taken after it.

**FileAccess.**  A path is the sequence of its segments and `Clean` is
`filepath.Clean` on them.  A request goes through `CheckWrite` when it changes
something, then `Map` (twice for a rename), then `OsCall` or one of the
listings; SFTP sends a listing in pages through `ListAt`.  The mounts are what
the daemon says of the container; it may not answer.  pkg/sftp cleans paths before
it calls the handler (`Paths`).  The WebDAV library does not: `RawPaths` are texts
as a client sends them, in the URL or in the Destination of a MOVE or COPY, with or
without a first slash, with empty and dot segments.  `NameIn` is the name
`checkWritePerm` finds in such a text, `PartsOf` what MapPath makes of it.  A file
that was opened stays open (`"handle"`) until its client closes it; nothing is
checked meanwhile.  An entry of a directory that goes away between ReadDir and Info
is a nil FileInfo, `<<>>`, in the list; the page that has it ends the process
(`FrontEnds!Panic`), and sessions, connections and requests are gone.

**WebSockets.**  `pc` is the handler, `go` its two goroutines.  A read returns
data, or an error once its stream is closed or the other side has ended; a write
blocks while the other side does not read (`stuck`).  The first send after the
client has left is accepted by the kernel, the next one fails.  `once` and
`closed` are the `sync.Once` and how often `done` was closed.  The mode of a
terminal is a query parameter nobody checks: `"other"` has no stream, and the
goroutine that comes to use it ends the process (`Panic`).

## Runs

| run | instance | shows |
|---|---|---|
| `sequential` | one caller of all operations, two data directories of one file and two destinations, failing rsyncs, 2 writes, 2 timestamps | `ListOffersBackups`, `RestoreGivesBack`, `BackupOkIsComplete` (with one copy of two that fails) |
| `concurrent` | two callers of everything but restore; every fault, execs that may never end, one crash | `TypeOK`, `LatestIsComplete`, `BackupOkIsComplete`, `EveryCallReturns` |
| `latest_race` (violation) | two backups | the one that ends last sets `latest` |
| `restore_race` (violation) | start against restore | the check of Restore is not kept up during its rsync |
| `config` | two goroutines, up to three replacements, broken ones and removals, f.Stat failing | `NoLostUpdate`, `Freshness`, `Forward`, `ImplementsSource`, `EventuallyLoaded` |
| `config_in_place` (violation) | rewriting in place | an edit is never loaded |
| `bots` | two servers, tokens and channels, three versions, an interaction or message, other readers, one refused connection | `OneConnection`, `RevocationIsImmediate`, `AppliedIsNoted`, `ChannelsFollow`, `BotsComeOnline` |
| `bots_refused` (violation) | one refused connection, one edit | a refused token is not tried again |
| `log_rules` | two goroutines, three versions, any of them broken, removals | `NoLostEdit`, `KeepsLastGood`, `RulesFollow` |
| `forwarder` | two edits, two lines, one move of the container, one fault, two goroutines at a time | `OneTail`, `OnceOnly`, `Settles` |
| `front_ends` | one user, two servers one of which only the daemon knows, eight configurations (wildcards at every depth, words missing and in excess, a removed user), two versions, one request at a time, one session, one SFTP connection, six clean paths and seven raw texts, pages of two and up to three entries | `RevokedIsRefused`, `OfferedIsAllowed`, `MatchIsGrant`, `FilesNeedPermission`, `StaysBelowMount`, `PagesComplete`, `RequestsEnd` |
| `websockets` | a shell, a log and a statistics connection and a terminal without a stream, every order of ends and stalls | `ReturnedIsClean`, `CleanupEnds`, `EndIsNoticed`; `TypeOK` says that `done` is closed once |

*Bounds.*  Two callers are enough for every race the operations can have, since
each shares state pairwise (link, container, directory); two timestamps give an
older and a newer generation, two writes a file that changes and disappears.
Restore takes no part in `concurrent`: what it shares with
other callers is the subject of `restore_race`.  Three versions let a slow reader hold the first while a fast one holds the
second and the third is written.  Two goroutines of the forwarder are a
cancelled one and its successor; SyncLogForwarders waits when both are busy,
which bounds the model and not the code.  Requests of the front ends meet only in
the configuration and in the tables of sessions and connections, and none of
them writes what another one reads, so one request at a time, before, across and
after an edit, shows what any number of them can see; two versions are enough
for a permission given, taken or moved, because every check looks at one
version.  A page of two with zero to three entries has the page that is empty,
short, exactly full and followed by another one.  Clocks, writes, edits, lines, faults
and crashes are bounded by the `Max` constants in the guards.

*Fairness.*  Steps of operations are computations, daemon calls and rsyncs,
which return: weak fairness.  That execs end is not assumed, because `SendExec`
has no deadline; that an exec dies with its container is (strong fairness, since
the container may be started again meanwhile).  SyncBots and SyncLogForwarders
are run by tickers: weak fairness.  `GetStat` is strongly fair: callers come
again and again, and a RWMutex does not starve them.  The forwarder's fairness
assumes that webhooks answer, since the code sets no deadline there.  A request
of the front ends is worked on (weak fairness): daemon and host answer, and the
client of a listing asks for its next page.  Nothing is assumed of `Leave`: an exec
of a stop sequence, a terminal or an open file may never end, and `RequestsEnd`
allows exactly these.  In `WebSockets` the handler and
each goroutine are scheduled when they can go on; nothing is assumed of the
client, the shell or the daemon, except that the daemon goes on sending samples
while the container runs.

*Deadlock* is checked in all runs: callers, tickers and readers always come back.

## What the violations show

1. *Restore* looks once whether the container runs, then copies; Start does not
   know of it (`restore_race`).
2. *Backup* takes its timestamp when it begins and relinks when it ends; of two that
   overlap, the older one may win (`latest_race`).  `LatestIsComplete` is what
   remains: `latest` is a complete copy.
3. *Reload* takes the modification time after decoding (`config_in_place`).
   Taking it before, as `getLogRules` does, is safe: `NoLostEdit`.
4. *SyncBots* notes a version as applied before it opens the connections, and does
   nothing until the next version: a token that Discord refused, for instance
   because the network was not up yet, waits for an edit of `config.json`
   (`bots_refused`).

Other disagreements between documents and code that were met, and that the
passing runs are worded around:

- Backup does not stop the container (README.md:185): it sends the save commands if
  the container ran when it was inspected, logs those that fail, and copies; nothing
  is claimed of a copy from a running server;
- a restore skips a destination that lacks the generation and reports success;
- the backup entry of `config.example.json` has keys the code does not read, so
  that Backup does nothing and reports success;
- Stop waits for an exec without a deadline (docker.go:76), although
  container.go:189 speaks of a timeout; `EveryCallReturns` names this wait as the
  only thing that can keep a caller;
- SyncBots compares and stores a `LastLoaded` that may belong to a later version
  than the configuration it applies, when another goroutine reloads in between;
  that version is then noted as applied and is not.  `AppliedIsNoted`,
  `ChannelsFollow` and `BotsComeOnline` hold outside this window (`missed`);
- goroutines that share a rules file may try a line against rules older than
  the file (forwarder.go:144), and the second of two that create the cache entry
  displaces the first one's rules; `RulesFollow` shows that both heal;
- Restore over Discord needs `container.execute.*`, not the documented
  `container.execute.restore`;
- `calculateActions` offers actions only to holders of `container.execute.*`; the
  operator of `config.example.json`, who has `container.execute.start` and
  `container.execute.stop`, is offered none although the handlers accept both.
  `OfferedIsAllowed` states the direction that holds;
- containers without a server are listed by their id, for which the handlers, who
  check the id as it was sent, accept only permissions given to `*`;
- `file.read` is never asked for (README.md:20): reading a file needs
  `container.read`;
- `checkWritePerm` asks for `file.write` (README.md:21) of the first name in the text
  as it was sent, MapPath resolves the cleaned text: where the two differ, the server
  that is changed was asked for `container.read` only.  `FilesNeedPermission` says of
  WebDAV what holds, and of SFTP, whose paths are clean, that the two are the same;
- a file that is open can be written after the permission is gone: nothing checks
  again before it is closed;
- the error of `f.Info()` is dropped (sftp/server.go:231): a file that disappears while
  its directory is listed ends the process;
- a terminal mode that is neither exec nor logs ends the process;
- a mount whose destination has more than one segment is listed and cannot be
  opened;
- WebDAV asks for its root as `""`, which `filepath.Clean` makes `.`, the name of
  no server; and the destination of a rename is taken with its `/dav`, if it has one,
  which is then the name of no server;
- an SFTP rename needs `file.write` for its source only, a WebDAV rename for both;
- the `Stat` of an SFTP client is answered by Filelist with the listing;
- sessions are never removed; a token is worth what its user may do now;
- of two users with the same Discord id the one that comes first in map order is
  asked for the permission.

## Proofs

Every invariant and every action property that a passing run checks, but for
`ListOffersBackups`, is also proved, for every set of callers, goroutines, servers, users, directories,
files, paths and configurations and every bound.  The assumptions are those
named in the modules:

| assumption | beyond the types of the constants it says |
|---|---|
| `DockerAssumption`, `ManagerAssumption` | the markers for "no argument" and "no directory" are not a directory and not a tree |
| `ConfigAssumption`, `ModesAssumption` | |
| `BotAssumption`, `ForwarderAssumption`, `RulesAssumption` | the markers for "empty", "off", "none" and "no reader" are not one of the things they stand for |
| `AccessAssumption`, `WebAssumption` | nobody and `*` are not the name of a user or a server; `NameOf` gives names, and a name its own |
| `FileAssumption` | `config.json` and the mounts of a container are finite; no container is named `.` or `..` (Docker's names do not allow it); the paths pkg/sftp passes have no dot and no empty segment. Nothing is assumed of the texts of WebDAV |

*ContainerManagerProofs* proves `TypeOK`, `LatestIsComplete` and
`BackupOkIsComplete`, for callers that overlap, fail and crash.  `LatestIsComplete`
is not inductive: that relinking happens only after a successful rsync is known
only from the pc.  `IInv` adds, per request (`RequestOK`), that it points at an
entry of its command list that parses, that a backup has its timestamp and its
directory, and that a request about to relink has its generation in `done`; and
that everything in `done` has a directory (`DoneExists`).  Directories are
never deleted by play-bin, so another caller's steps keep all of it.
`BackupOkIsComplete` needs `Copied`: as long as nothing has failed, every copy
of the list that a backup has passed is in `done`.

*OneCallerProofs* proves `RestoreGivesBack` under hypotheses without which it is
false: one caller at a time (`OneCaller`); a daemon that answers and does not start
the container by itself, since an inspect that fails counts as "stopped" and a
container that is started makes the inspection stale; and no two backup commands
with one source (`OwnDirectories`), of which the second restore overwrites the
first.  rsyncs may fail and play-bin may end at any step.  The invariant `GivenBack`
says that a generation holds what was taken (`TakenKept`, `TakingOK`), and that as
long as nothing has failed every command a restore has passed is carried out
(`GivingOK`).  The instance of `sequential` satisfies all hypotheses.

*LoadedConfigProofs* proves `TypeOK`, `NoLostUpdate`, `Freshness`, `Forward` and
the refinement of `ConfigSource`, for files that are replaced.  `IInv` says that
an inode keeps the content and time it was made with and the path names the
youngest (`DiskOK`), that `LastLoaded` is not younger than the version in memory
(`CacheOK`), that whoever reads the file holds the lock (`LockOK`), and at each pc
of Get how its promise will be met (`ThreadOK`): the version is in memory
already, or it is the one on disk, or the one that is open.

*LogRulesProofs* proves `TypeOK`, `NoLostEdit` and `KeepsLastGood`.  Loads run
outside the lock and commit in any order, so `Kept` says of each call what it will
commit (rules that decode, no older than the time it read before) and of each
state object the same; `MadeOnce` says that a reader whose state object is in use
makes no other.

*BotManagerProofs* proves `TypeOK`, `OneConnection`, `AppliedIsNoted`,
`RevocationIsImmediate`, and `UsesConfigSource`: what happens to the
configuration is a behaviour of `ConfigSource`, the specification
`LoadedConfig` implements.  `AppliedIsNoted` is about the rests of SyncBots; the
invariants that lead to it follow one round: what it got is in memory unless it
missed a version (`SnapIsLoaded`), it works on the version it noted
(`SnapIsNoted`), table and sessions come to agree with it (`HalfApplied`,
`NotedApplied`).  `Handled` keeps, for each handler, a version since it began that
admits what it will do.

*LogForwarderProofs* proves `TypeOK`, `OneTail` and `OnceOnly`.  A goroutine that
was cancelled while it posts is `Late`: it will post one line, next to its
successor that is `Ahead`.  `Posts` says that what was posted lies behind the
goroutine at work, that a late one's line is not posted yet, lies behind the one
at work and is no other late one's.  It relies on streams that begin at the end of
the log.

*FrontEndsProofs* proves `TypeOK`, `RevokedIsRefused`, `OfferedIsAllowed`,
`MatchIsGrant`, `FilesNeedPermission`, `StaysBelowMount` and `PagesComplete`.
`IInv` is one formula about a request, a number of versions and their texts
(`RequestOK`): its type, the checks it has passed and in which version, the host
files it has resolved and by which of its paths, the pages it has sent.  Over SFTP
the name that was checked is the server that was resolved because a clean path is
what `Clean` leaves (`PlainName`).  An edit only adds a version, and
what was true of a request stays true (`Grows`).  `MatchIsGrant` and
`StaysBelowMount` need what `matchRecursive` and `Clean` compute for paths of any
length: the set of counterexamples is shown empty from the well-foundedness of
`<` on the natural numbers (`NoFirst`), which needs no induction over an operator.
Proving `StaysBelowMount` showed that two guards of `Resolved` overlapped, which
made its value a matter of `CHOOSE`; they are disjoint now.

*WebSocketsProofs* proves `TypeOK`, whose part on `done` needs that whoever closes
streams in cleanup has found the Once fresh (`OnceClosed`), and `ReturnedIsClean`,
which needs that goroutines run only once both streams are open, or the one there is (`Started`), what
is not open yet at each pc (`NotYetOpen`) and what the deferred calls have closed
already (`DeferredDone`).

*Only model-checked.*  Liveness (`EveryCallReturns`, `EventuallyLoaded`,
`ChannelsFollow`, `BotsComeOnline`, `RulesFollow`, `Settles`, `RequestsEnd`,
`CleanupEnds`, `EndIsNoticed`) is out of the prover's reach and checked by TLC only.
So is `ListOffersBackups`: `SortSeq` chooses a permutation, and that one exists that
sorts a list of any length is not proved.

## Not modelled

The web page, the logger, the listeners, static files, the SSH handshake and host
keys, message texts and the expansion of placeholders (presentation or I/O); the
contents of a container's configuration; several servers that share a data
directory or a destination; HTTP requests without an id, which name no server;
symbolic links inside a mount, which the host resolves; the locks and the traversal of the
WebDAV library.

## Plan

1. done: container manager, configuration, bots, forwarders, log rules; first proofs.
2. done: permissions, sessions, handlers, virtual file system, SFTP, WebDAV,
   WebSocket connections, relay of messages.
3. done: the safety invariants and action properties of the passing runs as theorems.
4. Next: that the front ends, too, use the configuration as `ConfigSource` allows;
   what of `LatestIsNewest` survives a crash; `GivenBack` for callers that overlap on
   different destinations and sources; `ListOffersBackups` as a theorem.
