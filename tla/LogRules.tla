------------------------------ MODULE LogRules ------------------------------
(***************************************************************************)
(* internal/discord/forwarder.go, getLogRules and loadLogRules: the cache  *)
(* of the log rules of one file, asked for every line of every log by the  *)
(* tailing goroutines of the servers that name this file.                  *)
(*                                                                         *)
(* Version v of the file has modification time v: an editor that replaces  *)
(* the file, on a file system whose clock tells two edits apart.           *)
(***************************************************************************)
EXTENDS Naturals

CONSTANTS
    Readers,    \* goroutines that read the rules of this file
    MaxFile     \* bound: versions of the file

NoReader == "none"        \* the path has no state in the map

ASSUME RulesAssumption == NoReader \notin Readers /\ MaxFile \in Nat \ {0}

VARIABLES
    file,     \* the newest version written
    good,     \* good[v]: version v decodes and its patterns compile
    there,    \* the file is where its path says
    entry,    \* logRulesCache[path]: the reader whose state is in the map
    cache,    \* cache[r]: the logRulesState that r made
    rd        \* rd[r]: a call of getLogRules

vars == <<file, good, there, entry, cache, rd>>
disk == <<file, good, there>>

Versions == 1 .. MaxFile
Nil      == 0             \* no rules

\* A logRulesState: rules is the version they come from.
FreshState == [rules |-> Nil, lastLoaded |-> 0]

\* A call: its state object, the ModTime it saw, the rules it loaded; floor
\* is the version on disk when it began, ret what the last call returned.
IdleCall == [pc |-> "idle", st |-> NoReader, mtime |-> 0, new |-> Nil, floor |-> 0, ret |-> Nil]

Init ==
    /\ file = 1
    /\ good \in [Versions -> BOOLEAN] /\ good[1]
    /\ there = TRUE
    /\ entry = NoReader
    /\ cache = [r \in Readers |-> FreshState]
    /\ rd = [r \in Readers |-> IdleCall]

-----------------------------------------------------------------------------
Goto(r, to) == rd' = [rd EXCEPT ![r].pc = to]

Return(r, v) == rd' = [rd EXCEPT ![r].pc = "idle", ![r].ret = v]

Call(r) ==
    /\ rd[r].pc = "idle"
    /\ rd' = [rd EXCEPT ![r].pc = IF entry = NoReader THEN "insert" ELSE "stat",
                        ![r].st = entry, ![r].floor = file]
    /\ UNCHANGED <<disk, entry, cache>>

\* The read lock was given up: another reader may have inserted a state,
\* which this one replaces.
Insert(r) ==
    /\ rd[r].pc = "insert"
    /\ entry' = r
    /\ cache' = [cache EXCEPT ![r] = FreshState]
    /\ rd' = [rd EXCEPT ![r].pc = "stat", ![r].st = r]
    /\ UNCHANGED disk

\* A missing file means no rules, whatever is cached.
Stat(r) ==
    /\ rd[r].pc = "stat"
    /\ rd' = IF there THEN [rd EXCEPT ![r].pc = "check", ![r].mtime = file]
                      ELSE [rd EXCEPT ![r].pc = "idle", ![r].ret = Nil]
    /\ UNCHANGED <<disk, entry, cache>>

Check(r) ==
    /\ rd[r].pc = "check"
    /\ Goto(r, IF rd[r].mtime > cache[rd[r].st].lastLoaded THEN "load" ELSE "return")
    /\ UNCHANGED <<disk, entry, cache>>

\* Bug: after an error the rules decoded so far, none, are cached.
Load_CachesFailure(r) ==
    /\ rd[r].pc = "load"
    /\ rd' = [rd EXCEPT ![r].pc = "commit", ![r].new = IF there /\ good[file] THEN file ELSE Nil]
    /\ UNCHANGED <<disk, entry, cache>>

\* loadLogRules: an error, of the file or of a pattern, spoils the whole load.
Load(r) ==
    /\ rd[r].pc = "load"
    /\ rd' = IF there /\ good[file] THEN [rd EXCEPT ![r].pc = "commit", ![r].new = file]
                                    ELSE [rd EXCEPT ![r].pc = "fallback"]
    /\ UNCHANGED <<disk, entry, cache>>

\* Bug: the time kept is the present ModTime, not the one of the rules.
Commit_StatsAgain(r) ==
    /\ rd[r].pc = "commit"
    /\ cache' = [cache EXCEPT ![rd[r].st] = [rules |-> rd[r].new, lastLoaded |-> file]]
    /\ Goto(r, "return")
    /\ UNCHANGED <<disk, entry>>

\* Bug: the time kept is rounded up.
Commit_RoundsUp(r) ==
    /\ rd[r].pc = "commit"
    /\ cache' = [cache EXCEPT ![rd[r].st] = [rules |-> rd[r].new, lastLoaded |-> rd[r].mtime + 1]]
    /\ Goto(r, "return")
    /\ UNCHANGED <<disk, entry>>

Commit(r) ==
    /\ rd[r].pc = "commit"
    /\ cache' = [cache EXCEPT ![rd[r].st] = [rules |-> rd[r].new, lastLoaded |-> rd[r].mtime]]
    /\ Goto(r, "return")
    /\ UNCHANGED <<disk, entry>>

\* The rules are read again from the state, under the lock; those of the last
\* good load after an error.
ReturnRules(r) ==
    /\ rd[r].pc \in {"return", "fallback"}
    /\ Return(r, cache[rd[r].st].rules)
    /\ UNCHANGED <<disk, entry, cache>>

Reader(r) == Call(r) \/ Insert(r) \/ Stat(r) \/ Check(r) \/ Load(r) \/ Commit(r) \/ ReturnRules(r)

-----------------------------------------------------------------------------
(* The administrator.                                                      *)

Replace ==
    /\ file < MaxFile
    /\ file' = file + 1
    /\ there' = TRUE
    /\ UNCHANGED <<good, entry, cache, rd>>

Delete ==
    /\ there /\ file < MaxFile
    /\ there' = FALSE
    /\ UNCHANGED <<file, good, entry, cache, rd>>

Next == (\E r \in Readers : Reader(r)) \/ Replace \/ Delete

Spec == Init /\ [][Next]_vars

\* Every line of a log asks for the rules and the file system answers.
FairSpec == Spec /\ \A r \in Readers : WF_vars(Reader(r))

-----------------------------------------------------------------------------
(* Properties.                                                             *)

\* Every variable has its type.
TypeOK ==
    /\ file \in Versions /\ good \in [Versions -> BOOLEAN] /\ there \in BOOLEAN
    /\ entry \in Readers \cup {NoReader}
    /\ cache \in [Readers -> [rules : 0 .. MaxFile, lastLoaded : 0 .. MaxFile]]
    /\ rd \in [Readers ->
         [pc : {"idle", "insert", "stat", "check", "load", "commit", "return", "fallback"},
          st : Readers \cup {NoReader}, mtime : 0 .. MaxFile, new : 0 .. MaxFile,
          floor : 0 .. MaxFile, ret : 0 .. MaxFile]]

\* The rules of a state are never older than the ModTime kept with them
\* (Stat comes before Open), so that an edit during a load is noticed later;
\* this in spite of readers that commit out of order.
NoLostEdit == \A r \in Readers : cache[r].lastLoaded <= cache[r].rules

\* "前回ロード済みのキャッシュを再利用する": a state that has rules keeps having rules that
\* decode, however broken the file becomes.
KeepsLastGood ==
    [][\A r \in Readers : cache[r].rules # Nil => cache'[r].rules # Nil /\ good[cache'[r].rules]]_vars

\* Out-of-order commits heal: when the edits end with a file that decodes, its
\* rules are those every later line is tried against.
RulesFollow ==
    <>[](good[file] /\ there => \A r \in Readers : rd[r].ret = file)
=============================================================================
