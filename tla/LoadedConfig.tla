---------------------------- MODULE LoadedConfig ----------------------------
(***************************************************************************)
(* internal/config: the hot-reloading cache of config.json.  Any goroutine *)
(* may call Get; Get compares the modification time of the file with       *)
(* LastLoaded under the read lock and, when the file is newer, gives the   *)
(* read lock up and calls Reload, which takes the write lock, opens,       *)
(* decodes and only then asks the open file for its modification time;     *)
(* when that fails the new configuration stays, under the old LastLoaded.  *)
(*                                                                         *)
(* Administrators edit the file meanwhile.  Every change of the file takes *)
(* a tick of now, which is its modification time; a complete configuration *)
(* is known by the tick it was written at, and 0 stands for a file that    *)
(* does not decode.  An edit by rename (most editors, ansible, mv) makes a *)
(* new inode; an edit in place (cp, echo >) truncates the inode and then   *)
(* writes it, so that a reader may have it open.                           *)
(***************************************************************************)
EXTENDS Naturals

CONSTANTS
    Threads,     \* goroutines that call Get
    NoThread,    \* the write lock is free
    MaxNow       \* bound: number of changes of the file

ASSUME ConfigAssumption ==
    /\ NoThread \notin Threads
    /\ MaxNow \in Nat \ {0}

VARIABLES
    now,         \* ticks: the last modification time given
    path,        \* the inode config.json names, 0 if it does not exist
    inode,       \* inode[n]: content and modification time
    writing,     \* the file was truncated and is about to be written
    cfg,         \* c.Config
    lastLoaded,  \* c.LastLoaded
    writer,      \* holder of the write lock of c.mu
    th           \* th[t]: a call of Get

disk == <<now, path, inode, writing>>
vars == <<now, path, inode, writing, cfg, lastLoaded, writer, th>>

Ticks == 0 .. MaxNow
Pcs   == {"idle", "lock", "open", "decode", "fstat", "reread"}

Thread == [pc : Pcs,
           fd : Ticks,      \* the inode that is open
           new : Ticks,     \* newCfg
           ret : Ticks,     \* what the last call returned
           floor : Ticks]   \* history: the version on disk when the call began

Init ==
    /\ now = 1 /\ path = 1 /\ writing = FALSE
    \* The Reload of main found a configuration, whose time it may have missed, or
    \* a file that does not decode.
    /\ \E c \in {0, 1} :
          /\ inode = [n \in 1 .. MaxNow |-> IF n = 1 THEN [content |-> c, mtime |-> 1]
                                            ELSE [content |-> 0, mtime |-> 0]]
          /\ cfg = c /\ lastLoaded \in {0, c}
    /\ writer = NoThread
    /\ th = [t \in Threads |-> [pc |-> "idle", fd |-> 0, new |-> 0, ret |-> 0, floor |-> 0]]

-----------------------------------------------------------------------------
(* Get.                                                                    *)

Exists  == path # 0
Content == IF Exists THEN inode[path].content ELSE 0

\* RLock, os.Stat and the comparison.  If the file is not newer the call
\* returns c.Config under the same lock.
GetStat(t) ==
    /\ th[t].pc = "idle" /\ writer = NoThread
    /\ IF Exists /\ inode[path].mtime > lastLoaded
       THEN th' = [th EXCEPT ![t].pc = "lock", ![t].floor = Content]
       ELSE th' = [th EXCEPT ![t].ret = cfg, ![t].floor = Content]
    /\ UNCHANGED <<disk, cfg, lastLoaded, writer>>

\* Bug: Reload reads the file without the write lock.
Lock_Shared(t) ==
    /\ th[t].pc = "lock"
    /\ writer' = t
    /\ th' = [th EXCEPT ![t].pc = "open"]
    /\ UNCHANGED <<disk, cfg, lastLoaded>>

\* Reload: the write lock excludes readers and other reloads.
Lock(t) ==
    /\ th[t].pc = "lock" /\ writer = NoThread
    /\ writer' = t
    /\ th' = [th EXCEPT ![t].pc = "open"]
    /\ UNCHANGED <<disk, cfg, lastLoaded>>

Open(t) ==
    /\ th[t].pc = "open"
    /\ IF Exists
       THEN th' = [th EXCEPT ![t].pc = "decode", ![t].fd = path] /\ UNCHANGED writer
       ELSE th' = [th EXCEPT ![t].pc = "reread"] /\ writer' = NoThread
    /\ UNCHANGED <<disk, cfg, lastLoaded>>

\* A file that does not decode leaves the cache as it is, LastLoaded too.
Decode(t) ==
    LET c == inode[th[t].fd].content IN
    /\ th[t].pc = "decode"
    /\ IF c # 0
       THEN th' = [th EXCEPT ![t].pc = "fstat", ![t].new = c] /\ UNCHANGED writer
       ELSE th' = [th EXCEPT ![t].pc = "reread"] /\ writer' = NoThread
    /\ UNCHANGED <<disk, cfg, lastLoaded>>

\* Bug: os.Stat of the path instead of f.Stat of the open file.
Fstat_OfPath(t) ==
    /\ th[t].pc = "fstat"
    /\ cfg' = th[t].new
    /\ lastLoaded' = IF Exists THEN inode[path].mtime ELSE lastLoaded
    /\ writer' = NoThread
    /\ th' = [th EXCEPT ![t].pc = "reread"]
    /\ UNCHANGED disk

\* Bug: LastLoaded is the time of the reload.
Fstat_Now(t) ==
    /\ th[t].pc = "fstat"
    /\ cfg' = th[t].new
    /\ lastLoaded' = now
    /\ writer' = NoThread
    /\ th' = [th EXCEPT ![t].pc = "reread"]
    /\ UNCHANGED disk

\* Bug: the modification time is rounded up.
Fstat_RoundsUp(t) ==
    /\ th[t].pc = "fstat"
    /\ cfg' = th[t].new
    /\ lastLoaded' = inode[th[t].fd].mtime + 1
    /\ writer' = NoThread
    /\ th' = [th EXCEPT ![t].pc = "reread"]
    /\ UNCHANGED disk

Fstat(t) ==
    /\ th[t].pc = "fstat"
    /\ cfg' = th[t].new
    /\ lastLoaded' = inode[th[t].fd].mtime
    /\ writer' = NoThread
    /\ th' = [th EXCEPT ![t].pc = "reread"]
    /\ UNCHANGED disk

\* f.Stat fails: Config is the new one already, LastLoaded stays, and the next
\* Get reads the file again.
FstatFails(t) ==
    /\ th[t].pc = "fstat"
    /\ cfg' = th[t].new
    /\ writer' = NoThread
    /\ th' = [th EXCEPT ![t].pc = "reread"]
    /\ UNCHANGED <<disk, lastLoaded>>

\* Bug: the caller is given the configuration it had before the reload.
Reread_ReturnsOld(t) ==
    /\ th[t].pc = "reread" /\ writer = NoThread
    /\ th' = [th EXCEPT ![t].pc = "idle"]
    /\ UNCHANGED <<disk, cfg, lastLoaded, writer>>

\* Back in Get: RLock again and return whatever is there now.
Reread(t) ==
    /\ th[t].pc = "reread" /\ writer = NoThread
    /\ th' = [th EXCEPT ![t].pc = "idle", ![t].ret = cfg]
    /\ UNCHANGED <<disk, cfg, lastLoaded, writer>>

GetStep(t) ==
    Lock(t) \/ Open(t) \/ Decode(t) \/ Fstat(t) \/ FstatFails(t) \/ Reread(t)

-----------------------------------------------------------------------------
(* Edits of the file.  Nobody can be promised a version that is taken back *)
(* by a broken edit or a deletion while his call is under way.             *)

NoPromise == th' = [t \in Threads |-> [th[t] EXCEPT !.floor = 0]]

Rename ==
    /\ now < MaxNow /\ ~writing
    /\ now' = now + 1 /\ path' = now + 1
    /\ inode' = [inode EXCEPT ![now + 1] = [content |-> now + 1, mtime |-> now + 1]]
    /\ UNCHANGED <<writing, cfg, lastLoaded, writer, th>>

RenameBroken ==
    /\ now < MaxNow /\ ~writing
    /\ now' = now + 1 /\ path' = now + 1
    /\ inode' = [inode EXCEPT ![now + 1] = [content |-> 0, mtime |-> now + 1]]
    /\ NoPromise
    /\ UNCHANGED <<writing, cfg, lastLoaded, writer>>

Delete ==
    /\ now < MaxNow /\ ~writing /\ Exists
    /\ now' = now + 1 /\ path' = 0
    /\ NoPromise
    /\ UNCHANGED <<inode, writing, cfg, lastLoaded, writer>>

Truncate ==
    /\ now < MaxNow - 1 /\ ~writing /\ Exists
    /\ now' = now + 1 /\ writing' = TRUE
    /\ inode' = [inode EXCEPT ![path] = [content |-> 0, mtime |-> now + 1]]
    /\ NoPromise
    /\ UNCHANGED <<path, cfg, lastLoaded, writer>>

WriteInPlace ==
    /\ writing
    /\ now' = now + 1 /\ writing' = FALSE
    /\ inode' = [inode EXCEPT ![path] = [content |-> now + 1, mtime |-> now + 1]]
    /\ UNCHANGED <<path, cfg, lastLoaded, writer, th>>

Next ==
    \/ \E t \in Threads : GetStat(t) \/ GetStep(t)
    \/ Rename \/ RenameBroken \/ Delete

\* The file is replaced as a whole.
Spec == Init /\ [][Next]_vars

\* A call of Get that began runs to its end; the tickers of BotManager and
\* the HTTP handlers call Get again and again.
Fairness == \A t \in Threads : WF_vars(GetStep(t)) /\ SF_vars(GetStat(t))

FairSpec == Spec /\ Fairness

\* The file is also rewritten in place, and a started write is finished.
InPlaceSpec ==
    /\ Init /\ [][Next \/ Truncate \/ WriteInPlace]_vars
    /\ Fairness /\ WF_vars(WriteInPlace)

-----------------------------------------------------------------------------
(* Properties.                                                             *)

\* Every variable has its type, and LastLoaded is never later than the file.
TypeOK ==
    /\ now \in 1 .. MaxNow /\ path \in Ticks
    /\ inode \in [1 .. MaxNow -> [content : Ticks, mtime : Ticks]]
    /\ writing \in BOOLEAN
    /\ cfg \in Ticks /\ lastLoaded \in 0 .. now
    /\ writer \in Threads \cup {NoThread}
    /\ th \in [Threads -> Thread]

\* Whenever Get would not reload a file that decodes, it is because that very
\* file is in memory ("変更があれば透過的にリロードを行う").
NoLostUpdate ==
    writer = NoThread /\ Content # 0 /\ ~(inode[path].mtime > lastLoaded)
    => cfg = Content

\* A Get that returned saw at least the version that was on disk when it was
\* called, unless that version was taken back meanwhile.
Freshness == \A t \in Threads : th[t].pc = "idle" => th[t].ret >= th[t].floor

\* Concurrent reloads never put an older configuration over a newer one.
Forward == [][cfg' >= cfg /\ lastLoaded' >= lastLoaded]_vars

\* After the last edit the configuration in memory becomes, and stays, the one
\* on disk.
EventuallyLoaded == <>[](Content # 0 => cfg = Content)

\* The cache implements the source of configuration the other components
\* are specified against.
Source == INSTANCE ConfigSource WITH file <- now, loaded <- lastLoaded
ImplementsSource == Source!SourceSpec
=============================================================================
