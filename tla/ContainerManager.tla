-------------------------- MODULE ContainerManager --------------------------
(***************************************************************************)
(* internal/container: Start, Stop, Kill, Backup, Restore and Remove of    *)
(* one server, called concurrently by HTTP handlers and Discord handlers   *)
(* (neither takes a lock), over the Docker daemon, the server's data       *)
(* directories and the backup directories.                                 *)
(*                                                                         *)
(* Each in-flight call is a goroutine: a record in req with a pc that      *)
(* stands between two calls to the outside (SDK call, rsync, os.Remove,    *)
(* os.Symlink), which is where other goroutines can run.                   *)
(*                                                                         *)
(* Config.Get is called once per operation and its value kept, so an       *)
(* operation works on one member of Configs chosen when it starts; two     *)
(* operations may see different ones (hot reload).                         *)
(***************************************************************************)
EXTENDS DockerEngine, Naturals, Sequences, FiniteSets
LOCAL INSTANCE TLC

CONSTANTS
    Requests,     \* slots for concurrent calls
    Ops,          \* the operations that are called: a subset of Operations
    Configs,      \* what Config.Get may return for the server
    Srcs,         \* host directories that hold server data
    Dests,        \* backup base directories
    NoArg,        \* a "backup" command whose arg is not src:destBase
    Files,        \* files of a data directory
    NoDir,        \* a generation directory that does not exist
    MaxWrites,    \* bound: number of writes by the server
    MaxClock,     \* bound: number of seconds observed
    MaxCrashes,   \* bound: number of crashes of play-bin
    RsyncFaults,  \* BOOLEAN: rsync may exit non-zero
    LinkFaults    \* BOOLEAN: os.Remove and os.Symlink may fail

Operations == {"start", "stop", "kill", "backup", "restore", "remove"}
CmdTypes   == {"attach", "exec", "log", "sleep", "backup", "none"}
Stamps     == 1 .. MaxClock      \* timestamps, one per second
None       == 0                  \* no timestamp; no latest link; generation ""
LatestName == MaxClock + 1       \* the name "latest" given as a generation
Versions   == 0 .. MaxWrites     \* contents of a file; 0: it does not exist
Tree       == [Files -> Versions]
Copies     == [type : {"backup"}, src : Srcs, dest : Dests]
Cmds       == Copies \cup [type : CmdTypes, src : {NoArg}, dest : {NoArg}]
ServerConfigs == [managed : BOOLEAN, image : BOOLEAN, stop : Seq(Cmds), backup : Seq(Cmds)]

\* cfg.Servers[name] of a server that is not configured: Go's zero value.
Unmanaged == [managed |-> FALSE, image |-> FALSE, stop |-> <<>>, backup |-> <<>>]

ASSUME ManagerAssumption ==
    /\ Ops \subseteq Operations
    /\ Configs \subseteq ServerConfigs
    /\ NoArg \notin Srcs \cup Dests
    /\ NoDir \notin Tree
    /\ MaxWrites \in Nat /\ MaxClock \in Nat \ {0} /\ MaxCrashes \in Nat
    /\ RsyncFaults \in BOOLEAN /\ LinkFaults \in BOOLEAN

VARIABLES
    req,      \* req[r]: the call in slot r
    data,     \* data[s]: the files of data directory s
    gens,     \* gens[d][t]: the directory d/t, or NoDir
    latest,   \* latest[d]: the target of the symlink d/latest, or None
    clock,    \* the current second
    writes,   \* writes so far (bound)
    crashes,  \* crashes so far (bound)
    done,     \* history: <<d, t>> into which an rsync ended with exit code 0
    taken     \* history: taken[d][t], what src held when d/t was copied, NoDir
              \* if the server wrote meanwhile (seen: writes when rsync began)

env  == <<data, clock, writes, crashes>>
hist == <<done, taken>>
vars == <<container, req, data, gens, latest, clock, writes, crashes, done, taken>>

Pcs == {"idle", "start_inspect", "start_create", "start_run",
        "stop_cmd", "stop_exec", "stop_docker", "kill_stop", "kill_kill",
        "backup_inspect", "backup_cmd", "backup_rsync", "backup_copy",
        "backup_unlink", "backup_link",
        "restore_inspect", "restore_cmd", "restore_rsync", "restore_copy",
        "remove_inspect", "remove_docker"}

Request == [pc : Pcs, cfg : Configs \cup {Unmanaged}, gen : 0 .. LatestName,
            ts : 0 .. MaxClock, i : Nat, err : BOOLEAN,
            todo : SUBSET Files, seen : 0 .. MaxWrites,
            result : {"none", "ok", "err"}]

Idle(res) == [pc |-> "idle", cfg |-> Unmanaged, gen |-> None, ts |-> None, i |-> 0,
              err |-> FALSE, todo |-> {}, seen |-> 0, result |-> res]

Init ==
    /\ container = "missing"
    /\ req = [r \in Requests |-> Idle("none")]
    /\ data = [s \in Srcs |-> [f \in Files |-> 0]]
    /\ gens = [d \in Dests |-> [t \in Stamps |-> NoDir]]
    /\ latest = [d \in Dests |-> None]
    /\ clock = 1 /\ writes = 0 /\ crashes = 0
    /\ done = {}
    /\ taken = [d \in Dests |-> [t \in Stamps |-> NoDir]]

-----------------------------------------------------------------------------
(* Control of a call.                                                      *)

At(r, p) == req[r].pc = p

Begin(r, o, c, p, g, t) ==
    /\ At(r, "idle") /\ o \in Ops
    /\ req' = [req EXCEPT ![r] = [Idle("none") EXCEPT
                  !.pc = p, !.cfg = c, !.gen = g, !.ts = t, !.i = 1]]

\* The call is answered without any effect.
Refuse(r, o, res) ==
    /\ At(r, "idle") /\ o \in Ops
    /\ req' = [req EXCEPT ![r] = Idle(res)]

Goto(r, p) == req' = [req EXCEPT ![r].pc = p]

Return(r, res) == req' = [req EXCEPT ![r] = Idle(res)]

\* "continue" of the loop over the commands.
NextCmd(r, p, failed) ==
    req' = [req EXCEPT ![r].pc = p, ![r].i = @ + 1, ![r].err = @ \/ failed, ![r].todo = {}]

StopCmdOf(r)   == req[r].cfg.stop[req[r].i]
CopyOf(r)      == req[r].cfg.backup[req[r].i]
IsCopy(c)      == c.type = "backup" /\ c.src # NoArg    \* arg parses as src:destBase
\* The commands that the loops of Backup and of Restore act on.
CopiesOf(c)    == {c.backup[j] : j \in {k \in DOMAIN c.backup : IsCopy(c.backup[k])}}

-----------------------------------------------------------------------------
(* Start: a server without an image is not play-bin's to start, and the    *)
(* call succeeds without doing anything.                                   *)

StartCall(r) ==
    /\ \E c \in Configs :
          IF c.managed /\ c.image THEN Begin(r, "start", c, "start_inspect", None, None)
                                  ELSE Refuse(r, "start", "ok")
    /\ UNCHANGED <<container, env, gens, latest, hist>>

StartInspect(r) ==
    /\ At(r, "start_inspect")
    /\ \/ InspectNotFound /\ Goto(r, "start_create")
       \/ (InspectFound \/ InspectFault) /\ Return(r, "err")
    /\ UNCHANGED <<container, env, gens, latest, hist>>

StartCreate(r) ==
    /\ At(r, "start_create")
    /\ \/ CreateOk /\ Goto(r, "start_run")
       \/ CreateErr /\ Return(r, "err")
    /\ UNCHANGED <<env, gens, latest, hist>>

StartRun(r) ==
    /\ At(r, "start_run")
    /\ \/ StartOk /\ Return(r, "ok")
       \/ StartErr /\ Return(r, "err")
    /\ UNCHANGED <<env, gens, latest, hist>>

-----------------------------------------------------------------------------
(* Stop: the configured sequence, then ContainerStop.  A failed command is *)
(* logged and the sequence goes on.  What "attach" makes the server do is  *)
(* in ServerWrites and ProcessExit; "sleep" and "log" only let time pass.  *)

StopCall(r) ==
    /\ \E c \in Configs :
          Begin(r, "stop", c, IF c.managed THEN "stop_cmd" ELSE "stop_docker", None, None)
    /\ UNCHANGED <<container, env, gens, latest, hist>>

StopCmd(r) ==
    /\ At(r, "stop_cmd")
    /\ IF req[r].i > Len(req[r].cfg.stop) THEN Goto(r, "stop_docker")
       ELSE IF StopCmdOf(r).type = "exec" /\ Running
            THEN Goto(r, "stop_exec")
            ELSE NextCmd(r, "stop_cmd", FALSE)
    /\ UNCHANGED <<container, env, gens, latest, hist>>

\* SendExec reads the output until the process ends: on its own ...
StopExecExits(r) ==
    /\ At(r, "stop_exec") /\ Running
    /\ NextCmd(r, "stop_cmd", FALSE)
    /\ UNCHANGED <<container, env, gens, latest, hist>>

\* ... or because its container stopped.  There is no timeout.
StopExecAborted(r) ==
    /\ At(r, "stop_exec") /\ ~Running
    /\ NextCmd(r, "stop_cmd", FALSE)
    /\ UNCHANGED <<container, env, gens, latest, hist>>

StopDocker(r) ==
    /\ At(r, "stop_docker")
    /\ \/ StopOk /\ Return(r, "ok")
       \/ StopErr /\ Return(r, "err")
    /\ UNCHANGED <<env, gens, latest, hist>>

-----------------------------------------------------------------------------
(* Kill: ContainerStop with a 30s timeout, SIGKILL only if that failed.    *)

KillCall(r) ==
    /\ Begin(r, "kill", Unmanaged, "kill_stop", None, None)
    /\ UNCHANGED <<container, env, gens, latest, hist>>

\* Bug: a failed stop is tried again instead of escalating.
KillStop_Retries(r) ==
    /\ At(r, "kill_stop")
    /\ \/ StopOk /\ Return(r, "ok")
       \/ StopErr /\ UNCHANGED req
    /\ UNCHANGED <<env, gens, latest, hist>>

KillStop(r) ==
    /\ At(r, "kill_stop")
    /\ \/ StopOk /\ Return(r, "ok")
       \/ StopErr /\ Goto(r, "kill_kill")
    /\ UNCHANGED <<env, gens, latest, hist>>

KillKill(r) ==
    /\ At(r, "kill_kill")
    /\ \/ KillOk /\ Return(r, "ok")
       \/ KillErr /\ Return(r, "err")
    /\ UNCHANGED <<env, gens, latest, hist>>

-----------------------------------------------------------------------------
(* Backup.  The timestamp is taken before anything else and names the      *)
(* generation in every destBase of the call.                               *)

\* Bug: the timestamp is rounded up to the next second.
BackupCall_RoundsUp(r) ==
    /\ \E c \in Configs :
          IF c.managed THEN Begin(r, "backup", c, "backup_inspect", None, clock + 1)
                       ELSE Refuse(r, "backup", "err")
    /\ UNCHANGED <<container, env, gens, latest, hist>>

BackupCall(r) ==
    /\ \E c \in Configs :
          IF c.managed THEN Begin(r, "backup", c, "backup_inspect", None, clock)
                       ELSE Refuse(r, "backup", "err")
    /\ UNCHANGED <<container, env, gens, latest, hist>>

\* Whatever the inspect answers, or if it fails, the loop is entered: isRunning
\* only decides whether the commands to the server and the waits are left out.
BackupInspect(r) ==
    /\ At(r, "backup_inspect")
    /\ Goto(r, "backup_cmd")
    /\ UNCHANGED <<container, env, gens, latest, hist>>

\* One turn of the loop.  "attach" and "sleep" are carried out only if the
\* container ran at the inspect, and a command that could not be sent is only
\* logged: in each case the loop goes on.  What a command makes the server do
\* is in ServerWrites.  "exec" and "log" are not cases of this switch.
BackupCmd(r) ==
    /\ At(r, "backup_cmd")
    /\ IF req[r].i > Len(req[r].cfg.backup)
       THEN Return(r, IF req[r].err THEN "err" ELSE "ok")
       ELSE IF IsCopy(CopyOf(r)) THEN Goto(r, "backup_rsync")
                                 ELSE NextCmd(r, "backup_cmd", FALSE)
    /\ UNCHANGED <<container, env, gens, latest, hist>>

\* rsync -avh --delete src/ destBase/timestamp creates the directory ...
BackupRsync(r) ==
    LET d == CopyOf(r).dest
        t == req[r].ts IN
    /\ At(r, "backup_rsync")
    /\ req' = [req EXCEPT ![r].pc = "backup_copy", ![r].todo = Files, ![r].seen = writes]
    /\ gens' = [gens EXCEPT ![d][t] = IF @ = NoDir THEN [f \in Files |-> 0] ELSE @]
    /\ taken' = [taken EXCEPT ![d][t] = NoDir]
    /\ UNCHANGED <<container, env, latest, done>>

\* ... and brings one file after the other to the state it has in src.
BackupCopy(r) ==
    LET c == CopyOf(r)
        t == req[r].ts IN
    /\ At(r, "backup_copy")
    /\ \E f \in req[r].todo :
          /\ gens' = [gens EXCEPT ![c.dest][t][f] = data[c.src][f]]
          /\ req' = [req EXCEPT ![r].todo = @ \ {f}]
    /\ UNCHANGED <<container, env, latest, hist>>

BackupCopied(r) ==
    LET d == CopyOf(r).dest
        t == req[r].ts
        quiet == req[r].seen = writes IN
    /\ At(r, "backup_copy") /\ req[r].todo = {}
    /\ Goto(r, "backup_unlink")
    /\ done' = done \cup {<<d, t>>}
    /\ taken' = [taken EXCEPT ![d][t] = IF quiet THEN data[CopyOf(r).src] ELSE NoDir]
    /\ UNCHANGED <<container, env, gens, latest>>

\* Bug: no "continue" after a failed rsync.
BackupRsyncFails_FallsThrough(r) ==
    /\ At(r, "backup_rsync") \/ At(r, "backup_copy")
    /\ RsyncFaults
    /\ req' = [req EXCEPT ![r].pc = "backup_unlink", ![r].err = TRUE]
    /\ UNCHANGED <<container, env, gens, latest, hist>>

\* Bug: hasError is not set.
BackupRsyncFails_Forgets(r) ==
    /\ At(r, "backup_rsync") \/ At(r, "backup_copy")
    /\ RsyncFaults
    /\ NextCmd(r, "backup_cmd", FALSE)
    /\ UNCHANGED <<container, env, gens, latest, hist>>

\* A failing rsync leaves what it copied; the loop goes on with hasError.
BackupRsyncFails(r) ==
    /\ At(r, "backup_rsync") \/ At(r, "backup_copy")
    /\ RsyncFaults
    /\ NextCmd(r, "backup_cmd", TRUE)
    /\ UNCHANGED <<container, env, gens, latest, hist>>

\* os.Remove(latest); its error is ignored.
BackupUnlink(r) ==
    /\ At(r, "backup_unlink")
    /\ Goto(r, "backup_link")
    /\ \/ latest' = [latest EXCEPT ![CopyOf(r).dest] = None]
       \/ LinkFaults /\ UNCHANGED latest
    /\ UNCHANGED <<container, env, gens, hist>>

\* os.Symlink(timestamp, latest) fails if latest exists; ignored too.
BackupLink(r) ==
    LET d == CopyOf(r).dest IN
    /\ At(r, "backup_link")
    /\ NextCmd(r, "backup_cmd", FALSE)
    /\ \/ latest[d] = None /\ latest' = [latest EXCEPT ![d] = req[r].ts]
       \/ (latest[d] # None \/ LinkFaults) /\ UNCHANGED latest
    /\ UNCHANGED <<container, env, gens, hist>>

-----------------------------------------------------------------------------
(* ListBackupGenerations.                                                  *)

\* os.ReadDir(destBase): the directories by name, oldest first, none if destBase
\* does not exist.  The link "latest" is passed over.
ReadDir(d) == SelectSeq([t \in Stamps |-> t], LAMBDA t : gens[d][t] # NoDir)

Seen(generations) == {generations[k] : k \in DOMAIN generations}

\* Bug: a name that was seen in another destBase is appended again.
Collected_NoSeen(c) ==
    LET upTo[i \in 0 .. Len(c.backup)] ==
          IF i = 0 THEN <<>>
          ELSE IF IsCopy(c.backup[i]) THEN upTo[i - 1] \o ReadDir(c.backup[i].dest)
          ELSE upTo[i - 1]
    IN  upTo[Len(c.backup)]

\* The loop over the commands appends what it has not seen yet.
Collected(c) ==
    LET upTo[i \in 0 .. Len(c.backup)] ==
          IF i = 0 THEN <<>>
          ELSE IF IsCopy(c.backup[i])
               THEN upTo[i - 1] \o SelectSeq(ReadDir(c.backup[i].dest),
                                             LAMBDA t : t \notin Seen(upTo[i - 1]))
          ELSE upTo[i - 1]
    IN  upTo[Len(c.backup)]

ListBackupGenerations(c) == SortSeq(Collected(c), LAMBDA t, u : t > u)

-----------------------------------------------------------------------------
(* Restore.                                                                *)

\* The directory that destBase/generation names, None if there is none.
Target(d, g) ==
    LET t == IF g = LatestName THEN latest[d] ELSE g
    IN  IF t # None /\ gens[d][t] # NoDir THEN t ELSE None

RestoreCall(r) ==
    /\ \E c \in Configs, g \in 0 .. LatestName :
          IF g # None /\ c.managed THEN Begin(r, "restore", c, "restore_inspect", g, None)
                                   ELSE Refuse(r, "restore", "err")
    /\ UNCHANGED <<container, env, gens, latest, hist>>

\* Refused only if the inspect succeeds and says the container runs.
RestoreInspect(r) ==
    /\ At(r, "restore_inspect")
    /\ \/ InspectFound /\ Running /\ Return(r, "err")
       \/ (~Running \/ InspectFault) /\ Goto(r, "restore_cmd")
    /\ UNCHANGED <<container, env, gens, latest, hist>>

\* os.Stat of the generation: without it the command is skipped.
RestoreCmd(r) ==
    /\ At(r, "restore_cmd")
    /\ IF req[r].i > Len(req[r].cfg.backup)
       THEN Return(r, IF req[r].err THEN "err" ELSE "ok")
       ELSE IF IsCopy(CopyOf(r)) /\ Target(CopyOf(r).dest, req[r].gen) # None
            THEN Goto(r, "restore_rsync")
            ELSE NextCmd(r, "restore_cmd", FALSE)
    /\ UNCHANGED <<container, env, gens, latest, hist>>

\* rsync resolves the name again; "latest" may be gone by now.
RestoreRsync(r) ==
    LET t == Target(CopyOf(r).dest, req[r].gen) IN
    /\ At(r, "restore_rsync")
    /\ IF t = None THEN NextCmd(r, "restore_cmd", TRUE)
       ELSE req' = [req EXCEPT ![r].pc = "restore_copy", ![r].ts = t, ![r].todo = Files]
    /\ UNCHANGED <<container, env, gens, latest, hist>>

\* Bug: rsync without --delete.
RestoreCopy_KeepsExtraFiles(r) ==
    LET c == CopyOf(r) IN
    /\ At(r, "restore_copy")
    /\ \E f \in req[r].todo :
          /\ data' = [data EXCEPT ![c.src][f] =
                         IF gens[c.dest][req[r].ts][f] = 0 THEN @ ELSE gens[c.dest][req[r].ts][f]]
          /\ req' = [req EXCEPT ![r].todo = @ \ {f}]
    /\ UNCHANGED <<container, clock, writes, crashes, gens, latest, hist>>

RestoreCopy(r) ==
    LET c == CopyOf(r) IN
    /\ At(r, "restore_copy")
    /\ \E f \in req[r].todo :
          /\ data' = [data EXCEPT ![c.src][f] = gens[c.dest][req[r].ts][f]]
          /\ req' = [req EXCEPT ![r].todo = @ \ {f}]
    /\ UNCHANGED <<container, clock, writes, crashes, gens, latest, hist>>

RestoreCopied(r) ==
    /\ At(r, "restore_copy") /\ req[r].todo = {}
    /\ NextCmd(r, "restore_cmd", FALSE)
    /\ UNCHANGED <<container, env, gens, latest, hist>>

RestoreRsyncFails(r) ==
    /\ At(r, "restore_rsync") \/ At(r, "restore_copy")
    /\ RsyncFaults
    /\ NextCmd(r, "restore_cmd", TRUE)
    /\ UNCHANGED <<container, env, gens, latest, hist>>

-----------------------------------------------------------------------------
(* Remove: refused while running; a missing container counts as removed.   *)

RemoveCall(r) ==
    /\ Begin(r, "remove", Unmanaged, "remove_inspect", None, None)
    /\ UNCHANGED <<container, env, gens, latest, hist>>

RemoveInspect(r) ==
    /\ At(r, "remove_inspect")
    /\ \/ InspectFound /\ ~Running /\ Goto(r, "remove_docker")
       \/ (Running \/ InspectFault) /\ Return(r, "err")
       \/ InspectNotFound /\ Return(r, "ok")
    /\ UNCHANGED <<container, env, gens, latest, hist>>

RemoveDocker(r) ==
    /\ At(r, "remove_docker")
    /\ \/ RemoveOk /\ Return(r, "ok")
       \/ RemoveErr /\ Return(r, "err")
    /\ UNCHANGED <<env, gens, latest, hist>>

-----------------------------------------------------------------------------
(* The rest of the world.                                                  *)

\* The running server writes or deletes a file of its data.
ServerWrites ==
    /\ Running /\ writes < MaxWrites
    /\ writes' = writes + 1
    /\ \E s \in Srcs, f \in Files, v \in {0, writes + 1} :
          data' = [data EXCEPT ![s][f] = v]
    /\ UNCHANGED <<container, req, gens, latest, clock, crashes, hist>>

Daemon ==
    /\ ProcessExit \/ DaemonRestart
    /\ UNCHANGED <<req, env, gens, latest, hist>>

Tick ==
    /\ clock < MaxClock
    /\ clock' = clock + 1
    /\ UNCHANGED <<container, req, data, writes, crashes, gens, latest, hist>>

\* play-bin ends between any two steps, with the rsync it started; the loop
\* of boot.sh runs it again, later than the second it ended in.
Crash ==
    /\ crashes < MaxCrashes /\ clock < MaxClock
    /\ crashes' = crashes + 1 /\ clock' = clock + 1
    /\ req' = [r \in Requests |-> Idle("none")]
    /\ UNCHANGED <<container, data, writes, gens, latest, hist>>

Call(r) ==
    \/ StartCall(r) \/ StopCall(r) \/ KillCall(r)
    \/ BackupCall(r) \/ RestoreCall(r) \/ RemoveCall(r)

\* Everything a call does on its way, except waiting for an exec to end.
Step(r) ==
    \/ StartInspect(r) \/ StartCreate(r) \/ StartRun(r)
    \/ StopCmd(r) \/ StopExecAborted(r) \/ StopDocker(r)
    \/ KillStop(r) \/ KillKill(r)
    \/ BackupInspect(r) \/ BackupCmd(r) \/ BackupRsync(r) \/ BackupCopy(r)
    \/ BackupCopied(r) \/ BackupRsyncFails(r) \/ BackupUnlink(r) \/ BackupLink(r)
    \/ RestoreInspect(r) \/ RestoreCmd(r) \/ RestoreRsync(r) \/ RestoreCopy(r)
    \/ RestoreCopied(r) \/ RestoreRsyncFails(r)
    \/ RemoveInspect(r) \/ RemoveDocker(r)

Next ==
    \/ \E r \in Requests : Call(r) \/ Step(r) \/ StopExecExits(r)
    \/ ServerWrites \/ Daemon \/ Tick \/ Crash

Spec == Init /\ [][Next]_vars

-----------------------------------------------------------------------------
(* Fairness.  Every step of a call is a computation, an SDK call or an     *)
(* rsync, all of which return.                                             *)

\* Nothing is assumed of what an exec runs inside the container (SendExec waits
\* for it without a deadline), except that it dies with the container (strong
\* fairness: the container may be started again meanwhile).
FairSpec ==
    Spec /\ \A r \in Requests : WF_vars(Step(r)) /\ SF_vars(StopExecAborted(r))

-----------------------------------------------------------------------------
(* Properties.                                                             *)

\* Every variable keeps its type; in particular a request that acts on a
\* "backup" command points at one that parses.
TypeOK ==
    /\ container \in ContainerStates
    /\ req \in [Requests -> Request]
    /\ data \in [Srcs -> Tree]
    /\ gens \in [Dests -> [Stamps -> Tree \cup {NoDir}]]
    /\ latest \in [Dests -> 0 .. MaxClock]
    /\ clock \in Stamps /\ writes \in 0 .. MaxWrites /\ crashes \in 0 .. MaxCrashes
    /\ done \subseteq Dests \X Stamps
    /\ taken \in [Dests -> [Stamps -> Tree \cup {NoDir}]]

\* Backup relinks "latest" only after an rsync that succeeded: whatever
\* concurrent backups, failures and crashes do, latest is absent or names an
\* existing generation whose copy ran to the end once.
LatestIsComplete ==
    \A d \in Dests : latest[d] # None =>
        /\ <<d, latest[d]>> \in done
        /\ gens[d][latest[d]] # NoDir

\* Backup reports success only if every src:destBase of the configuration it
\* started with was copied under its timestamp by an rsync that succeeded.
BackupOkIsComplete ==
    [][\A r \in Requests :
          At(r, "backup_cmd") /\ req'[r].pc = "idle" /\ req'[r].result = "ok"
          => \A b \in CopiesOf(req[r].cfg) : <<b.dest, req[r].ts>> \in done]_vars

\* Restore writes into the data directories only while the container is
\* stopped ("確実に停止させる必要がある").
NoRestoreWhileRunning ==
    \A r \in Requests : At(r, "restore_copy") => ~Running

\* "最新版は `latest` という名前でリンクされます" (README.md): once no backup is between its rsync and
\* its symlink, latest is the newest generation that was completed.
LatestIsNewest ==
    (\A r \in Requests : ~At(r, "backup_unlink") /\ ~At(r, "backup_link"))
    => \A d \in Dests : \A t \in Stamps : <<d, t>> \in done =>
          latest[d] # None /\ latest[d] >= t

\* A restore that reports success leaves every data directory exactly as it
\* was when the generation was copied, files deleted since and files created
\* since included.
RestoreGivesBack ==
    [][\A r \in Requests :
          At(r, "restore_cmd") /\ req'[r].pc = "idle" /\ req'[r].result = "ok"
          => \A b \in CopiesOf(req[r].cfg) :
                LET t == Target(b.dest, req[r].gen)
                IN  t # None /\ taken[b.dest][t] # NoDir
                    => data[b.src] = taken[b.dest][t]]_vars

\* Collecting over several destBases loses nothing and offers nothing twice: the
\* list is newest first, has every generation that a backup completed in one of
\* them, whatever failed in the others, and only what Restore finds in one.
ListOffersBackups ==
    \A c \in Configs :
        LET L == ListBackupGenerations(c) IN
        /\ \A j, k \in DOMAIN L : j < k => L[j] > L[k]
        /\ \A b \in CopiesOf(c), t \in Stamps : <<b.dest, t>> \in done => t \in Seen(L)
        /\ \A t \in Seen(L) : \E b \in CopiesOf(c) : Target(b.dest, t) # None

\* Every call is answered, whatever the others do, unless it waits for ever for
\* one exec of a stop sequence: nothing else can keep a caller.
EveryCallReturns ==
    \A r \in Requests : <>[]At(r, "stop_exec") \/ (~At(r, "idle") ~> At(r, "idle"))
=============================================================================
