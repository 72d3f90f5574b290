----------------------- MODULE ContainerManagerProofs -----------------------
(***************************************************************************)
(* Proofs about ContainerManager, for every set of requests, directories,  *)
(* files and configurations and every bound.                               *)
(***************************************************************************)
EXTENDS ContainerManager, TLAPS

Loops   == {"stop_cmd", "stop_exec", "backup_inspect", "backup_cmd", "restore_inspect",
            "restore_cmd"}
Copying == {"backup_rsync", "backup_copy", "backup_unlink", "backup_link",
            "restore_rsync", "restore_copy"}
Backups == {"backup_inspect", "backup_cmd", "backup_rsync", "backup_copy",
            "backup_unlink", "backup_link"}

\* What a request q may rely on at its pc, G being the generations and D the
\* completed ones: it points at a command of its list, a backup has its
\* timestamp, a copy has its directory, and only an rsync that succeeded
\* leads to the relinking of latest.
RequestOK(q, G, D) ==
    LET c == q.cfg.backup[q.i] IN
    /\ q.pc \in Loops \cup Copying => q.i >= 1
    /\ q.pc \in Copying => q.i <= Len(q.cfg.backup) /\ c \in Copies
    /\ q.pc \in Backups \cup {"restore_copy"} => q.ts \in Stamps
    /\ q.pc \in {"backup_copy", "restore_copy"} => G[c.dest][q.ts] # NoDir
    /\ q.pc \in {"backup_unlink", "backup_link"} => <<c.dest, q.ts>> \in D

\* A generation counted as done has a directory.
DoneExists == \A d \in Dests, t \in Stamps : <<d, t>> \in done => gens[d][t] # NoDir

\* The inductive invariant.
IInv ==
    /\ TypeOK
    /\ \A r \in Requests : RequestOK(req[r], gens, done)
    /\ DoneExists
    /\ LatestIsComplete

-----------------------------------------------------------------------------
(* Facts about requests.                                                   *)

\* A request that is idle is well-formed and relies on nothing.
LEMMA IdleOK ==
    ASSUME NEW res \in {"none", "ok", "err"}, NEW G, NEW D
    PROVE  Idle(res) \in Request /\ RequestOK(Idle(res), G, D)
<1>1. 0 \in 0 .. LatestName /\ 0 \in 0 .. MaxClock /\ 0 \in 0 .. MaxWrites
    BY ManagerAssumption DEF LatestName
<1>2. Idle(res) \in Request
    BY <1>1 DEF Idle, Request, Pcs, None
<1>3. RequestOK(Idle(res), G, D)
    BY DEF Idle, RequestOK, Loops, Copying, Backups
<1> QED BY <1>2, <1>3

\* The configuration a request works on has a list of commands.
LEMMA CfgTyped ==
    ASSUME NEW q \in Request
    PROVE  q.cfg.backup \in Seq(Cmds) /\ Len(q.cfg.backup) \in Nat
<1>1. q.cfg \in ServerConfigs
    <2>1. q.cfg \in Configs \cup {Unmanaged}
        BY DEF Request
    <2>2. <<>> \in Seq(Cmds)
        OBVIOUS
    <2>3. Unmanaged \in ServerConfigs
        BY <2>2 DEF Unmanaged, ServerConfigs
    <2> QED BY <2>1, <2>3, ManagerAssumption
<1>2. q.cfg.backup \in Seq(Cmds)
    BY <1>1 DEF ServerConfigs
<1> QED BY <1>2

\* A command that the loops take for a copy names a source and a destination.
LEMMA CopyTyped ==
    ASSUME NEW q \in Request, q.i \in 1 .. Len(q.cfg.backup), IsCopy(q.cfg.backup[q.i])
    PROVE  q.cfg.backup[q.i] \in Copies
<1>1. q.cfg.backup[q.i] \in Cmds
    BY CfgTyped
<1> QED BY <1>1 DEF Cmds, IsCopy

\* A step that changes one request and nothing a request relies on.
LEMMA RequestStep ==
    ASSUME IInv, NEW r \in Requests, NEW q \in Request,
           req' = [req EXCEPT ![r] = q], RequestOK(q, gens, done),
           container' \in ContainerStates,
           UNCHANGED <<data, gens, latest, clock, writes, crashes, done, taken>>
    PROVE  IInv'
<1>1. req' \in [Requests -> Request]
    BY DEF IInv, TypeOK
<1>2. TypeOK'
    BY <1>1 DEF IInv, TypeOK
<1>3. ASSUME NEW s \in Requests PROVE RequestOK(req'[s], gens', done')
    <2>1. req'[s] = IF s = r THEN q ELSE req[s]
        BY DEF IInv, TypeOK
    <2> QED BY <2>1 DEF IInv
<1>4. DoneExists' /\ LatestIsComplete'
    BY DEF IInv, DoneExists, LatestIsComplete
<1> QED BY <1>2, <1>3, <1>4 DEF IInv

\* A call that ends.
LEMMA ReturnStep ==
    ASSUME IInv, NEW r \in Requests, NEW res \in {"none", "ok", "err"}, Return(r, res),
           container' \in ContainerStates,
           UNCHANGED <<data, gens, latest, clock, writes, crashes, done, taken>>
    PROVE  IInv'
BY RequestStep, IdleOK DEF Return

\* A call that begins.
LEMMA BeginStep ==
    ASSUME IInv, NEW r \in Requests, NEW o, NEW c \in Configs \cup {Unmanaged},
           NEW p \in {"start_inspect", "stop_cmd", "stop_docker", "kill_stop",
                      "backup_inspect", "restore_inspect", "remove_inspect"},
           NEW g \in 0 .. LatestName, NEW t \in 0 .. MaxClock,
           p = "backup_inspect" => t \in Stamps,
           Begin(r, o, c, p, g, t),
           UNCHANGED <<container, data, gens, latest, clock, writes, crashes, done, taken>>
    PROVE  IInv'
<1> DEFINE q == [Idle("none") EXCEPT !.pc = p, !.cfg = c, !.gen = g, !.ts = t, !.i = 1]
<1>1. q \in Request
    <2>1. Idle("none") \in Request
        BY IdleOK
    <2> QED BY <2>1 DEF Request, Pcs
<1>2. q.pc = p /\ q.i = 1 /\ q.ts = t
    BY DEF Idle
<1>3. RequestOK(q, gens, done)
    BY <1>2 DEF RequestOK, Loops, Copying, Backups
<1>4. container' \in ContainerStates
    BY DEF IInv, TypeOK
<1>5. req' = [req EXCEPT ![r] = q]
    BY DEF Begin
<1> HIDE DEF q
<1> QED BY <1>1, <1>3, <1>4, <1>5, RequestStep

\* A call that is answered at once.
LEMMA RefuseStep ==
    ASSUME IInv, NEW r \in Requests, NEW o, NEW res \in {"none", "ok", "err"},
           Refuse(r, o, res),
           UNCHANGED <<container, data, gens, latest, clock, writes, crashes, done, taken>>
    PROVE  IInv'
<1>1. container' \in ContainerStates
    BY DEF IInv, TypeOK
<1> QED BY <1>1, RequestStep, IdleOK DEF Refuse

\* A call that moves on to pc p.
LEMMA GotoStep ==
    ASSUME IInv, NEW r \in Requests, NEW p \in Pcs, Goto(r, p),
           RequestOK([req[r] EXCEPT !.pc = p], gens, done),
           container' \in ContainerStates,
           UNCHANGED <<data, gens, latest, clock, writes, crashes, done, taken>>
    PROVE  IInv'
<1>1. req \in [Requests -> Request]
    BY DEF IInv, TypeOK
<1>2. [req[r] EXCEPT !.pc = p] \in Request
    BY <1>1 DEF Request
<1>3. req' = [req EXCEPT ![r] = [req[r] EXCEPT !.pc = p]]
    BY <1>1 DEF Goto
<1> QED BY <1>2, <1>3, RequestStep

\* A loop that takes its next command.
LEMMA NextCmdStep ==
    ASSUME IInv, NEW r \in Requests, NEW p \in {"stop_cmd", "backup_cmd", "restore_cmd"},
           NEW failed \in BOOLEAN, NextCmd(r, p, failed),
           p = "backup_cmd" => req[r].ts \in Stamps,
           UNCHANGED <<container, data, gens, latest, clock, writes, crashes, done, taken>>
    PROVE  IInv'
<1> DEFINE e == req[r].err \/ failed
<1> DEFINE q == [req[r] EXCEPT !.pc = p, !.i = @ + 1, !.err = e, !.todo = {}]
<1>1. req \in [Requests -> Request] /\ req[r] \in Request
    BY DEF IInv, TypeOK
<1>e. e \in BOOLEAN
    OBVIOUS
<1>2. q \in Request
    <2>1. req[r].i + 1 \in Nat
        BY <1>1 DEF Request
    <2>2. [req[r] EXCEPT !.pc = p, !.i = @ + 1, !.todo = {}] \in Request
        BY <1>1, <2>1 DEF Request, Pcs
    <2>3. q = [[req[r] EXCEPT !.pc = p, !.i = @ + 1, !.todo = {}] EXCEPT !.err = e]
        <3> HIDE DEF e
        <3> QED BY <1>1 DEF Request
    <2> HIDE DEF q, e
    <2> QED BY <2>2, <2>3, <1>e DEF Request
<1>3. q.pc = p /\ q.i = req[r].i + 1 /\ q.ts = req[r].ts /\ req[r].i \in Nat
    BY <1>1 DEF Request
<1>4. RequestOK(q, gens, done)
    BY <1>3 DEF RequestOK, Loops, Copying, Backups
<1>5. container' \in ContainerStates
    BY DEF IInv, TypeOK
<1>6. req' = [req EXCEPT ![r] = q]
    BY <1>1 DEF NextCmd
<1> HIDE DEF q
<1> QED BY <1>2, <1>4, <1>5, <1>6, RequestStep

-----------------------------------------------------------------------------
(* One lemma per operation.                                                *)

\* Whatever the daemon answers, it leaves the container in a known state.
LEMMA DockerTyped ==
    ASSUME container \in ContainerStates,
           CreateOk \/ CreateErr \/ StartOk \/ StartErr \/ StopOk \/ StopErr
           \/ KillOk \/ KillErr \/ RemoveOk \/ RemoveErr \/ ProcessExit \/ DaemonRestart
           \/ UNCHANGED container
    PROVE  container' \in ContainerStates
BY DEF CreateOk, CreateErr, StartOk, StartErr, StopOk, StopErr, KillOk, KillErr,
       RemoveOk, RemoveErr, ProcessExit, DaemonRestart, Fault, ContainerStates,
       Exists, Running

\* The steps that only move a request on, for the operations without copies.
LEMMA StartPreserves ==
    ASSUME IInv, NEW r \in Requests,
           StartCall(r) \/ StartInspect(r) \/ StartCreate(r) \/ StartRun(r)
    PROVE  IInv'
<1>0. container \in ContainerStates
    BY DEF IInv, TypeOK
<1>1. CASE StartCall(r)
    <2>1. PICK c \in Configs :
             IF c.managed /\ c.image THEN Begin(r, "start", c, "start_inspect", None, None)
                                     ELSE Refuse(r, "start", "ok")
        BY <1>1 DEF StartCall
    <2>2. 0 \in 0 .. LatestName /\ 0 \in 0 .. MaxClock
        BY ManagerAssumption DEF LatestName
    <2>3. CASE Begin(r, "start", c, "start_inspect", None, None)
        BY <1>1, <2>2, <2>3, BeginStep DEF StartCall, env, hist, None
    <2>4. CASE Refuse(r, "start", "ok")
        BY <1>1, <2>4, RefuseStep DEF StartCall, env, hist
    <2> QED BY <2>1, <2>3, <2>4
<1>2. CASE StartInspect(r)
    <2>1. CASE Goto(r, "start_create")
        <3>1. RequestOK([req[r] EXCEPT !.pc = "start_create"], gens, done)
            BY DEF RequestOK, Loops, Copying, Backups, IInv, TypeOK, Request
        <3> QED BY <1>0, <1>2, <2>1, <3>1, GotoStep DEF StartInspect, env, hist, Pcs
    <2>2. CASE Return(r, "err")
        BY <1>0, <1>2, <2>2, ReturnStep DEF StartInspect, env, hist
    <2> QED BY <1>2, <2>1, <2>2 DEF StartInspect
<1>3. CASE StartCreate(r)
    <2>0. container' \in ContainerStates
        BY <1>0, <1>3, DockerTyped DEF StartCreate
    <2>1. CASE Goto(r, "start_run")
        <3>1. RequestOK([req[r] EXCEPT !.pc = "start_run"], gens, done)
            BY DEF RequestOK, Loops, Copying, Backups, IInv, TypeOK, Request
        <3> QED BY <2>0, <1>3, <2>1, <3>1, GotoStep DEF StartCreate, env, hist, Pcs
    <2>2. CASE Return(r, "err")
        BY <2>0, <1>3, <2>2, ReturnStep DEF StartCreate, env, hist
    <2> QED BY <1>3, <2>1, <2>2 DEF StartCreate
<1>4. CASE StartRun(r)
    <2>0. container' \in ContainerStates
        BY <1>0, <1>4, DockerTyped DEF StartRun
    <2> QED BY <2>0, <1>4, ReturnStep DEF StartRun, env, hist
<1> QED BY <1>1, <1>2, <1>3, <1>4

\* The steps of Stop, its wait for an exec included, touch the container and
\* their own request only, and keep the invariant.
LEMMA StopPreserves ==
    ASSUME IInv, NEW r \in Requests,
           StopCall(r) \/ StopCmd(r) \/ StopExecExits(r) \/ StopExecAborted(r) \/ StopDocker(r)
    PROVE  IInv'
<1>0. container \in ContainerStates /\ req[r] \in Request /\ RequestOK(req[r], gens, done)
    BY DEF IInv, TypeOK
<1>1. CASE StopCall(r)
    <2>1. PICK c \in Configs :
             Begin(r, "stop", c, IF c.managed THEN "stop_cmd" ELSE "stop_docker", None, None)
        BY <1>1 DEF StopCall
    <2>2. 0 \in 0 .. LatestName /\ 0 \in 0 .. MaxClock
        BY ManagerAssumption DEF LatestName
    <2> QED BY <1>1, <2>1, <2>2, BeginStep DEF StopCall, env, hist, None
<1>2. CASE StopCmd(r)
    <2>1. CASE Goto(r, "stop_docker")
        <3>1. RequestOK([req[r] EXCEPT !.pc = "stop_docker"], gens, done)
            BY <1>0 DEF RequestOK, Loops, Copying, Backups, Request
        <3> QED BY <1>0, <1>2, <2>1, <3>1, GotoStep DEF StopCmd, env, hist, Pcs
    <2>2. CASE Goto(r, "stop_exec")
        <3>1. RequestOK([req[r] EXCEPT !.pc = "stop_exec"], gens, done)
            BY <1>0, <1>2 DEF StopCmd, At, RequestOK, Loops, Copying, Backups, Request
        <3> QED BY <1>0, <1>2, <2>2, <3>1, GotoStep DEF StopCmd, env, hist, Pcs
    <2>3. CASE NextCmd(r, "stop_cmd", FALSE)
        BY <1>2, <2>3, NextCmdStep DEF StopCmd, env, hist
    <2> QED BY <1>2, <2>1, <2>2, <2>3 DEF StopCmd
<1>3. CASE StopExecExits(r) \/ StopExecAborted(r)
    BY <1>3, NextCmdStep DEF StopExecExits, StopExecAborted, env, hist
<1>4. CASE StopDocker(r)
    <2>0. container' \in ContainerStates
        BY <1>0, <1>4, DockerTyped DEF StopDocker
    <2> QED BY <2>0, <1>4, ReturnStep DEF StopDocker, env, hist
<1> QED BY <1>1, <1>2, <1>3, <1>4

\* So do the two attempts of Kill.
LEMMA KillPreserves ==
    ASSUME IInv, NEW r \in Requests, KillCall(r) \/ KillStop(r) \/ KillKill(r)
    PROVE  IInv'
<1>0. container \in ContainerStates /\ req[r] \in Request
    BY DEF IInv, TypeOK
<1>1. CASE KillCall(r)
    <2>1. 0 \in 0 .. LatestName /\ 0 \in 0 .. MaxClock
        BY ManagerAssumption DEF LatestName
    <2> QED BY <1>1, <2>1, BeginStep DEF KillCall, env, hist, None
<1>2. CASE KillStop(r)
    <2>0. container' \in ContainerStates
        BY <1>0, <1>2, DockerTyped DEF KillStop
    <2>1. CASE Return(r, "ok")
        BY <2>0, <1>2, <2>1, ReturnStep DEF KillStop, env, hist
    <2>2. CASE Goto(r, "kill_kill")
        <3>1. RequestOK([req[r] EXCEPT !.pc = "kill_kill"], gens, done)
            BY <1>0 DEF RequestOK, Loops, Copying, Backups, Request
        <3> QED BY <2>0, <1>2, <2>2, <3>1, GotoStep DEF KillStop, env, hist, Pcs
    <2> QED BY <1>2, <2>1, <2>2 DEF KillStop
<1>3. CASE KillKill(r)
    <2>0. container' \in ContainerStates
        BY <1>0, <1>3, DockerTyped DEF KillKill
    <2> QED BY <2>0, <1>3, ReturnStep DEF KillKill, env, hist
<1> QED BY <1>1, <1>2, <1>3

\* So do the inspection and the removal of Remove.
LEMMA RemovePreserves ==
    ASSUME IInv, NEW r \in Requests, RemoveCall(r) \/ RemoveInspect(r) \/ RemoveDocker(r)
    PROVE  IInv'
<1>0. container \in ContainerStates /\ req[r] \in Request
    BY DEF IInv, TypeOK
<1>1. CASE RemoveCall(r)
    <2>1. 0 \in 0 .. LatestName /\ 0 \in 0 .. MaxClock
        BY ManagerAssumption DEF LatestName
    <2> QED BY <1>1, <2>1, BeginStep DEF RemoveCall, env, hist, None
<1>2. CASE RemoveInspect(r)
    <2>1. CASE Goto(r, "remove_docker")
        <3>1. RequestOK([req[r] EXCEPT !.pc = "remove_docker"], gens, done)
            BY <1>0 DEF RequestOK, Loops, Copying, Backups, Request
        <3> QED BY <1>0, <1>2, <2>1, <3>1, GotoStep DEF RemoveInspect, env, hist, Pcs
    <2>2. CASE Return(r, "err") \/ Return(r, "ok")
        BY <1>0, <1>2, <2>2, ReturnStep DEF RemoveInspect, env, hist
    <2> QED BY <1>2, <2>1, <2>2 DEF RemoveInspect
<1>3. CASE RemoveDocker(r)
    <2>0. container' \in ContainerStates
        BY <1>0, <1>3, DockerTyped DEF RemoveDocker
    <2> QED BY <2>0, <1>3, ReturnStep DEF RemoveDocker, env, hist
<1> QED BY <1>1, <1>2, <1>3

\* A copy in progress has typed operands.
LEMMA CopyingFacts ==
    ASSUME IInv, NEW r \in Requests, req[r].pc \in Copying
    PROVE  /\ CopyOf(r).src \in Srcs /\ CopyOf(r).dest \in Dests
           /\ req[r] \in Request /\ req[r].i >= 1 /\ req[r].i \in Nat
           /\ req[r].i <= Len(req[r].cfg.backup) /\ CopyOf(r) \in Copies
           /\ req[r].pc \in Backups \cup {"restore_copy"} => req[r].ts \in Stamps
<1>1. req[r] \in Request /\ RequestOK(req[r], gens, done)
    BY DEF IInv, TypeOK
<1>2. CopyOf(r) \in Copies /\ req[r].i >= 1 /\ req[r].i <= Len(req[r].cfg.backup)
      /\ (req[r].pc \in Backups \cup {"restore_copy"} => req[r].ts \in Stamps)
    BY <1>1 DEF RequestOK, CopyOf
<1>3. req[r].i \in Nat
    BY <1>1 DEF Request
<1> QED BY <1>1, <1>2, <1>3 DEF Copies

\* The steps of Backup outside the copy: the call fixes a timestamp, the loop
\* over commands.backup stays within the list, and a failed rsync only moves on.
LEMMA BackupLoopPreserves ==
    ASSUME IInv, NEW r \in Requests,
           BackupCall(r) \/ BackupInspect(r) \/ BackupCmd(r) \/ BackupRsyncFails(r)
    PROVE  IInv'
<1>0. /\ container \in ContainerStates /\ req[r] \in Request
      /\ RequestOK(req[r], gens, done) /\ req \in [Requests -> Request]
    BY DEF IInv, TypeOK
<1>1. CASE BackupCall(r)
    <2>1. PICK c \in Configs :
             IF c.managed THEN Begin(r, "backup", c, "backup_inspect", None, clock)
                          ELSE Refuse(r, "backup", "err")
        BY <1>1 DEF BackupCall
    <2>2. 0 \in 0 .. LatestName /\ clock \in 0 .. MaxClock /\ clock \in Stamps
        BY ManagerAssumption DEF LatestName, IInv, TypeOK, Stamps
    <2>3. CASE Begin(r, "backup", c, "backup_inspect", None, clock)
        BY <1>1, <2>2, <2>3, BeginStep DEF BackupCall, env, hist, None
    <2>4. CASE Refuse(r, "backup", "err")
        BY <1>1, <2>4, RefuseStep DEF BackupCall, env, hist
    <2> QED BY <2>1, <2>3, <2>4
<1>2. CASE BackupInspect(r)
    <2>1. RequestOK([req[r] EXCEPT !.pc = "backup_cmd"], gens, done)
        BY <1>0, <1>2 DEF BackupInspect, At, RequestOK, Loops, Copying, Backups, Request
    <2> QED BY <1>0, <1>2, <2>1, GotoStep DEF BackupInspect, env, hist, Pcs
<1>3. CASE BackupCmd(r)
    <2>0. /\ req[r].pc = "backup_cmd" /\ req[r].i >= 1 /\ req[r].i \in Nat
          /\ req[r].ts \in Stamps
        BY <1>0, <1>3 DEF BackupCmd, At, RequestOK, Loops, Backups, Request
    <2>1. CASE \E res \in {"ok", "err"} : Return(r, res)
        BY <1>0, <1>3, <2>1, ReturnStep DEF BackupCmd, env, hist
    <2>2. CASE req[r].i <= Len(req[r].cfg.backup) /\ IsCopy(CopyOf(r)) /\ Goto(r, "backup_rsync")
        <3>1. CopyOf(r) \in Copies
            BY <1>0, <2>0, <2>2, CopyTyped DEF CopyOf
        <3>2. RequestOK([req[r] EXCEPT !.pc = "backup_rsync"], gens, done)
            BY <1>0, <2>0, <2>2, <3>1 DEF RequestOK, Loops, Copying, Backups, Request, CopyOf
        <3> QED BY <1>0, <1>3, <2>2, <3>2, GotoStep DEF BackupCmd, env, hist, Pcs
    <2>4. CASE NextCmd(r, "backup_cmd", FALSE)
        BY <1>3, <2>0, <2>4, NextCmdStep DEF BackupCmd, env, hist
    <2>5. Len(req[r].cfg.backup) \in Nat
        BY <1>0, CfgTyped
    <2>6. CASE req[r].i > Len(req[r].cfg.backup)
        BY <1>3, <2>1, <2>6 DEF BackupCmd
    <2>7. CASE ~(req[r].i > Len(req[r].cfg.backup))
        <3>1. req[r].i <= Len(req[r].cfg.backup)
            BY <2>0, <2>5, <2>7
        <3> QED BY <1>3, <2>2, <2>4, <2>7, <3>1, Zenon DEF BackupCmd
    <2> QED BY <2>6, <2>7
<1>4. CASE BackupRsyncFails(r)
    <2>1. req[r].ts \in Stamps
        BY <1>0, <1>4 DEF BackupRsyncFails, At, RequestOK, Backups
    <2> QED BY <1>4, <2>1, NextCmdStep DEF BackupRsyncFails, env, hist
<1> QED BY <1>1, <1>2, <1>3, <1>4

\* The steps that touch the backup directories.
LEMMA BackupCopyPreserves ==
    ASSUME IInv, NEW r \in Requests, BackupRsync(r) \/ BackupCopy(r) \/ BackupCopied(r)
    PROVE  IInv'
<1> DEFINE d == CopyOf(r).dest
           t == req[r].ts
<1>0. /\ req[r] \in Request /\ RequestOK(req[r], gens, done)
      /\ req \in [Requests -> Request] /\ req[r].pc \in Copying
      /\ \A s \in Requests : RequestOK(req[s], gens, done) /\ req[s] \in Request
    BY DEF IInv, TypeOK, BackupRsync, BackupCopy, BackupCopied, At, Copying
<1>1. /\ d \in Dests /\ CopyOf(r).src \in Srcs /\ CopyOf(r) \in Copies /\ t \in Stamps
      /\ req[r].i >= 1 /\ req[r].i <= Len(req[r].cfg.backup)
    BY <1>0, CopyingFacts DEF BackupRsync, BackupCopy, BackupCopied, At, Backups
<1>2. /\ gens \in [Dests -> [Stamps -> Tree \cup {NoDir}]]
      /\ taken \in [Dests -> [Stamps -> Tree \cup {NoDir}]]
      /\ data \in [Srcs -> Tree] /\ writes \in 0 .. MaxWrites
    BY DEF IInv, TypeOK
\* No directory disappears, so that nobody loses what he relied on.
<1>3. ASSUME NEW G, NEW D, \A e \in Dests, u \in Stamps : gens[e][u] # NoDir => G[e][u] # NoDir,
             done \subseteq D, NEW s \in Requests
      PROVE  RequestOK(req[s], G, D)
    <2>1. CASE req[s].pc \in Copying
        <3>1. /\ CopyOf(s).dest \in Dests
              /\ req[s].pc \in Backups \cup {"restore_copy"} => req[s].ts \in Stamps
            BY <2>1, CopyingFacts
        <3> QED BY <1>0, <1>3, <3>1 DEF RequestOK, CopyOf, Backups
    <2>2. CASE req[s].pc \notin Copying
        BY <1>0, <2>2 DEF RequestOK, Copying
    <2> QED BY <2>1, <2>2
<1>4. CASE BackupRsync(r)
    <2> DEFINE q == [req[r] EXCEPT !.pc = "backup_copy", !.todo = Files, !.seen = writes]
    <2>1. q \in Request
        BY <1>0, <1>2 DEF Request, Pcs
    <2>2. req' = [req EXCEPT ![r] = q]
        BY <1>0, <1>4 DEF BackupRsync
    <2>3. [f \in Files |-> 0] \in Tree
        BY ManagerAssumption DEF Tree, Versions
    <2>4. gens' = [gens EXCEPT ![d][t] = IF gens[d][t] = NoDir THEN [f \in Files |-> 0] ELSE gens[d][t]]
        BY <1>4 DEF BackupRsync
    <2>5. gens' \in [Dests -> [Stamps -> Tree \cup {NoDir}]]
        BY <1>1, <1>2, <2>3, <2>4
    <2>6. /\ gens'[d][t] # NoDir
          /\ \A e \in Dests, u \in Stamps : gens[e][u] # NoDir => gens'[e][u] # NoDir
        BY <1>1, <1>2, <2>3, <2>4, ManagerAssumption
    <2>7. taken' \in [Dests -> [Stamps -> Tree \cup {NoDir}]]
        BY <1>1, <1>2, <1>4 DEF BackupRsync
    <2>8. UNCHANGED <<container, data, latest, clock, writes, crashes, done>>
        BY <1>4 DEF BackupRsync, env
    <2>9. RequestOK(q, gens', done)
        <3>1. q.pc = "backup_copy" /\ q.i = req[r].i /\ q.cfg = req[r].cfg /\ q.ts = t
            BY <1>0 DEF Request
        <3> QED BY <1>1, <2>6, <3>1 DEF RequestOK, Loops, Copying, Backups, CopyOf
    <2> HIDE DEF q
    <2>10. req' \in [Requests -> Request]
        BY <1>0, <2>1, <2>2
    <2>11. TypeOK'
        BY <2>5, <2>7, <2>8, <2>10 DEF IInv, TypeOK
    <2>12. ASSUME NEW s \in Requests PROVE RequestOK(req'[s], gens', done')
        <3>1. RequestOK(req[s], gens', done)
            BY <1>3, <2>6
        <3> QED BY <1>0, <2>2, <2>8, <2>9, <3>1
    <2>13. DoneExists' /\ LatestIsComplete'
        <3>1. latest \in [Dests -> 0 .. MaxClock]
            BY DEF IInv, TypeOK
        <3>2. \A e \in Dests : latest[e] # None => latest[e] \in Stamps
            BY <3>1 DEF None, Stamps
        <3> QED BY <2>6, <2>8, <3>2 DEF IInv, DoneExists, LatestIsComplete
    <2> QED BY <2>11, <2>12, <2>13 DEF IInv
<1>5. CASE BackupCopy(r)
    <2>0. gens[d][t] # NoDir /\ gens[d][t] \in Tree
        <3>1. gens[d][t] # NoDir
            BY <1>0, <1>5 DEF BackupCopy, At, RequestOK, CopyOf
        <3> QED BY <1>1, <1>2, <3>1
    <2>1. PICK f \in req[r].todo :
             /\ gens' = [gens EXCEPT ![d][t][f] = data[CopyOf(r).src][f]]
             /\ req' = [req EXCEPT ![r].todo = @ \ {f}]
        BY <1>5 DEF BackupCopy
    <2>2. f \in Files /\ req[r].todo \ {f} \in SUBSET Files
        BY <1>0 DEF Request
    <2>3. data[CopyOf(r).src][f] \in Versions
        BY <1>1, <1>2, <2>2 DEF Tree
    <2> DEFINE q == [req[r] EXCEPT !.todo = @ \ {f}]
               T == [gens[d][t] EXCEPT ![f] = data[CopyOf(r).src][f]]
    <2>4. q \in Request /\ req' = [req EXCEPT ![r] = q]
        BY <1>0, <2>1, <2>2 DEF Request
    <2>5. T \in Tree
        BY <2>0, <2>2, <2>3 DEF Tree
    <2>6. gens' = [gens EXCEPT ![d] = [gens[d] EXCEPT ![t] = T]]
        BY <1>1, <1>2, <2>1
    <2>7. T # NoDir
        BY <2>5, ManagerAssumption
    <2>8. RequestOK(q, gens, done)
        <3>1. q.pc = req[r].pc /\ q.i = req[r].i /\ q.cfg = req[r].cfg /\ q.ts = t
            BY <1>0 DEF Request
        <3> QED BY <1>0, <3>1 DEF RequestOK
    <2> HIDE DEF q, T
    <2>9. gens' \in [Dests -> [Stamps -> Tree \cup {NoDir}]]
        BY <1>1, <1>2, <2>5, <2>6
    <2>10. \A e \in Dests, u \in Stamps : gens[e][u] # NoDir => gens'[e][u] # NoDir
        BY <1>1, <1>2, <2>6, <2>7
    <2>11. UNCHANGED <<container, data, latest, clock, writes, crashes, done, taken>>
        BY <1>5 DEF BackupCopy, env, hist
    <2>12. TypeOK'
        BY <1>0, <2>4, <2>9, <2>11 DEF IInv, TypeOK
    <2>13. ASSUME NEW s \in Requests PROVE RequestOK(req'[s], gens', done')
        <3>1. RequestOK(req[s], gens', done)
            BY <1>3, <2>10
        <3>2. RequestOK(q, gens', done)
            <4>1. q.pc = "backup_copy" /\ q.i = req[r].i /\ q.cfg = req[r].cfg /\ q.ts = t
                BY <1>0, <1>5 DEF q, Request, BackupCopy, At
            <4>2. gens'[d][t] # NoDir
                BY <1>1, <2>0, <2>10
            <4> QED BY <1>1, <4>1, <4>2 DEF RequestOK, Loops, Copying, Backups, CopyOf
        <3> QED BY <1>0, <2>4, <2>11, <3>1, <3>2
    <2>14. DoneExists' /\ LatestIsComplete'
        <3>1. latest \in [Dests -> 0 .. MaxClock]
            BY DEF IInv, TypeOK
        <3>2. \A e \in Dests : latest[e] # None => latest[e] \in Stamps
            BY <3>1 DEF None, Stamps
        <3> QED BY <2>10, <2>11, <3>2 DEF IInv, DoneExists, LatestIsComplete
    <2> QED BY <2>12, <2>13, <2>14 DEF IInv
<1>6. CASE BackupCopied(r)
    <2>0. gens[d][t] # NoDir
        BY <1>0, <1>1, <1>6 DEF BackupCopied, At, RequestOK, CopyOf
    <2> DEFINE q == [req[r] EXCEPT !.pc = "backup_unlink"]
    <2>1. q \in Request /\ req' = [req EXCEPT ![r] = q]
        BY <1>0, <1>6 DEF Request, Pcs, BackupCopied, Goto
    <2>2. done' = done \cup {<<d, t>>} /\ UNCHANGED <<container, data, gens, latest, clock, writes, crashes>>
        BY <1>6 DEF BackupCopied, env
    <2>3. taken' \in [Dests -> [Stamps -> Tree \cup {NoDir}]]
        <3>1. data[CopyOf(r).src] \in Tree
            BY <1>1, <1>2
        <3> QED BY <1>1, <1>2, <1>6, <3>1 DEF BackupCopied
    <2>4. RequestOK(q, gens, done')
        <3>1. q.pc = "backup_unlink" /\ q.i = req[r].i /\ q.cfg = req[r].cfg /\ q.ts = t
            BY <1>0 DEF Request
        <3> QED BY <1>1, <2>2, <3>1 DEF RequestOK, Loops, Copying, Backups, CopyOf
    <2> HIDE DEF q
    <2>5. TypeOK'
        BY <1>0, <1>1, <2>1, <2>2, <2>3 DEF IInv, TypeOK
    <2>6. ASSUME NEW s \in Requests PROVE RequestOK(req'[s], gens', done')
        <3>1. RequestOK(req[s], gens, done')
            BY <1>3, <2>2
        <3> QED BY <1>0, <2>1, <2>2, <2>4, <3>1
    <2>7. DoneExists' /\ LatestIsComplete'
        BY <2>0, <2>2 DEF IInv, DoneExists, LatestIsComplete
    <2> QED BY <2>5, <2>6, <2>7 DEF IInv
<1> QED BY <1>4, <1>5, <1>6

\* The steps that touch the link: it is removed, or set to the generation
\* that this request has just completed.
LEMMA BackupLinkPreserves ==
    ASSUME IInv, NEW r \in Requests, BackupUnlink(r) \/ BackupLink(r)
    PROVE  IInv'
<1> DEFINE d == CopyOf(r).dest
           t == req[r].ts
<1>0. /\ req[r] \in Request /\ RequestOK(req[r], gens, done)
      /\ req \in [Requests -> Request] /\ req[r].pc \in Copying
      /\ \A s \in Requests : RequestOK(req[s], gens, done) /\ req[s] \in Request
      /\ latest \in [Dests -> 0 .. MaxClock]
    BY DEF IInv, TypeOK, BackupUnlink, BackupLink, At, Copying
<1>1. /\ d \in Dests /\ CopyOf(r) \in Copies /\ t \in Stamps
      /\ req[r].i >= 1 /\ req[r].i \in Nat /\ req[r].i <= Len(req[r].cfg.backup)
    BY <1>0, CopyingFacts DEF BackupUnlink, BackupLink, At, Backups
<1>2. <<d, t>> \in done
    BY <1>0 DEF BackupUnlink, BackupLink, At, RequestOK, CopyOf
<1>3. gens[d][t] # NoDir
    BY <1>1, <1>2 DEF IInv, DoneExists
<1>4. t \in 0 .. MaxClock /\ None \in 0 .. MaxClock
    BY <1>1, ManagerAssumption DEF Stamps, None
<1>5. CASE BackupUnlink(r)
    <2> DEFINE q == [req[r] EXCEPT !.pc = "backup_link"]
    <2>1. q \in Request /\ req' = [req EXCEPT ![r] = q]
        BY <1>0, <1>5 DEF BackupUnlink, Goto, Request, Pcs
    <2>2. RequestOK(q, gens, done)
        <3>1. q.pc = "backup_link" /\ q.i = req[r].i /\ q.cfg = req[r].cfg /\ q.ts = t
            BY <1>0 DEF Request
        <3> QED BY <1>1, <1>2, <3>1 DEF RequestOK, Loops, Copying, Backups, CopyOf
    <2>3. latest' = [latest EXCEPT ![d] = None] \/ latest' = latest
        BY <1>5 DEF BackupUnlink
    <2>4. UNCHANGED <<container, data, gens, clock, writes, crashes, done, taken>>
        BY <1>5 DEF BackupUnlink, env, hist
    <2> HIDE DEF q
    <2>5. TypeOK'
        BY <1>0, <1>1, <1>4, <2>1, <2>3, <2>4 DEF IInv, TypeOK
    <2>6. \A s \in Requests : RequestOK(req'[s], gens', done')
        BY <1>0, <2>1, <2>2, <2>4
    <2>7. DoneExists' /\ LatestIsComplete'
        BY <1>0, <1>1, <2>3, <2>4 DEF IInv, DoneExists, LatestIsComplete
    <2> QED BY <2>5, <2>6, <2>7 DEF IInv
<1>6. CASE BackupLink(r)
    <2> DEFINE q == [req[r] EXCEPT !.pc = "backup_cmd", !.i = @ + 1, !.err = @ \/ FALSE, !.todo = {}]
    <2>1. q \in Request
        <3>1. req[r].i + 1 \in Nat /\ {} \in SUBSET Files
            BY <1>1
        <3>2. [req[r] EXCEPT !.pc = "backup_cmd", !.i = @ + 1, !.todo = {}] \in Request
            BY <1>0, <3>1 DEF Request, Pcs
        <3>3. req[r].err \in BOOLEAN
            BY <1>0 DEF Request
        <3>4. (req[r].err \/ FALSE) = req[r].err
            BY <3>3
        <3>5. q = [req[r] EXCEPT !.pc = "backup_cmd", !.i = @ + 1, !.todo = {}]
            BY <1>0, <3>4 DEF Request
        <3> QED BY <3>2, <3>5
    <2>2. req' = [req EXCEPT ![r] = q]
        BY <1>0, <1>6 DEF BackupLink, NextCmd
    <2>3. RequestOK(q, gens, done)
        <3>1. q.pc = "backup_cmd" /\ q.i = req[r].i + 1 /\ q.ts = t
            BY <1>0 DEF Request
        <3> QED BY <1>1, <3>1 DEF RequestOK, Loops, Copying, Backups
    <2>4. latest' = [latest EXCEPT ![d] = t] \/ latest' = latest
        BY <1>6 DEF BackupLink
    <2>5. UNCHANGED <<container, data, gens, clock, writes, crashes, done, taken>>
        BY <1>6 DEF BackupLink, env, hist
    <2> HIDE DEF q
    <2>6. TypeOK'
        BY <1>0, <1>1, <1>4, <2>1, <2>2, <2>4, <2>5 DEF IInv, TypeOK
    <2>7. \A s \in Requests : RequestOK(req'[s], gens', done')
        BY <1>0, <2>1, <2>2, <2>3, <2>5
    <2>8. DoneExists' /\ LatestIsComplete'
        BY <1>0, <1>1, <1>2, <1>3, <2>4, <2>5 DEF IInv, DoneExists, LatestIsComplete
    <2> QED BY <2>6, <2>7, <2>8 DEF IInv
<1> QED BY <1>5, <1>6

\* The steps of Restore outside the copy pick a generation that exists.
LEMMA RestorePreserves ==
    ASSUME IInv, NEW r \in Requests,
           RestoreCall(r) \/ RestoreInspect(r) \/ RestoreCmd(r) \/ RestoreRsync(r)
           \/ RestoreCopied(r) \/ RestoreRsyncFails(r)
    PROVE  IInv'
<1>0. /\ container \in ContainerStates /\ req[r] \in Request
      /\ RequestOK(req[r], gens, done) /\ req \in [Requests -> Request]
    BY DEF IInv, TypeOK
<1>1. CASE RestoreCall(r)
    <2>1. PICK c \in Configs, g \in 0 .. LatestName :
             IF g # None /\ c.managed THEN Begin(r, "restore", c, "restore_inspect", g, None)
                                      ELSE Refuse(r, "restore", "err")
        BY <1>1 DEF RestoreCall
    <2>2. 0 \in 0 .. MaxClock
        BY ManagerAssumption
    <2>3. CASE Begin(r, "restore", c, "restore_inspect", g, None)
        BY <1>1, <2>2, <2>3, BeginStep DEF RestoreCall, env, hist, None
    <2>4. CASE Refuse(r, "restore", "err")
        BY <1>1, <2>4, RefuseStep DEF RestoreCall, env, hist
    <2> QED BY <2>1, <2>3, <2>4
<1>2. CASE RestoreInspect(r)
    <2>1. CASE Goto(r, "restore_cmd")
        <3>1. RequestOK([req[r] EXCEPT !.pc = "restore_cmd"], gens, done)
            BY <1>0, <1>2 DEF RestoreInspect, At, RequestOK, Loops, Copying, Backups, Request
        <3> QED BY <1>0, <1>2, <2>1, <3>1, GotoStep DEF RestoreInspect, env, hist, Pcs
    <2>2. CASE Return(r, "err")
        BY <1>0, <1>2, <2>2, ReturnStep DEF RestoreInspect, env, hist
    <2> QED BY <1>2, <2>1, <2>2 DEF RestoreInspect
<1>3. CASE RestoreCmd(r)
    <2>0. req[r].pc = "restore_cmd" /\ req[r].i >= 1 /\ req[r].i \in Nat
        BY <1>0, <1>3 DEF RestoreCmd, At, RequestOK, Loops, Request
    <2>1. CASE \E res \in {"ok", "err"} : Return(r, res)
        BY <1>0, <1>3, <2>1, ReturnStep DEF RestoreCmd, env, hist
    <2>2. CASE req[r].i <= Len(req[r].cfg.backup) /\ IsCopy(CopyOf(r)) /\ Goto(r, "restore_rsync")
        <3>1. CopyOf(r) \in Copies
            BY <1>0, <2>0, <2>2, CopyTyped, CfgTyped DEF CopyOf
        <3>2. RequestOK([req[r] EXCEPT !.pc = "restore_rsync"], gens, done)
            BY <1>0, <2>0, <2>2, <3>1 DEF RequestOK, Loops, Copying, Backups, Request, CopyOf
        <3> QED BY <1>0, <1>3, <2>2, <3>2, GotoStep DEF RestoreCmd, env, hist, Pcs
    <2>3. CASE NextCmd(r, "restore_cmd", FALSE)
        BY <1>3, <2>3, NextCmdStep DEF RestoreCmd, env, hist
    <2>4. CASE req[r].i > Len(req[r].cfg.backup)
        BY <1>3, <2>1, <2>4 DEF RestoreCmd
    <2>5. CASE ~(req[r].i > Len(req[r].cfg.backup))
        <3>1. req[r].i <= Len(req[r].cfg.backup)
            BY <1>0, <2>0, <2>5, CfgTyped
        <3> QED BY <1>3, <2>2, <2>3, <2>5, <3>1, Zenon DEF RestoreCmd
    <2> QED BY <2>4, <2>5
<1>4. CASE RestoreRsync(r)
    <2> DEFINE d == CopyOf(r).dest
               t == Target(d, req[r].gen)
               q == [req[r] EXCEPT !.pc = "restore_copy", !.ts = t, !.todo = Files]
    <2>0. /\ req[r].pc \in Copying /\ d \in Dests /\ CopyOf(r) \in Copies
          /\ req[r].i >= 1 /\ req[r].i <= Len(req[r].cfg.backup)
        BY <1>4, CopyingFacts DEF RestoreRsync, At, Copying
    <2>1. CASE NextCmd(r, "restore_cmd", TRUE)
        BY <1>4, <2>1, NextCmdStep DEF RestoreRsync, env, hist
    <2>2. CASE t # None /\ req' = [req EXCEPT ![r].pc = "restore_copy", ![r].ts = t, ![r].todo = Files]
        <3>1. t \in Stamps /\ gens[d][t] # NoDir
            <4>1. req[r].gen \in 0 .. LatestName /\ latest[d] \in 0 .. MaxClock
                BY <1>0, <2>0 DEF Request, IInv, TypeOK
            <4>2. MaxClock \in Nat
                BY ManagerAssumption
            <4>3. t # None /\ t = (IF req[r].gen = LatestName THEN latest[d] ELSE req[r].gen)
                  /\ gens[d][t] # NoDir
                BY <2>2 DEF Target
            <4> QED BY <4>1, <4>2, <4>3 DEF LatestName, None, Stamps
        <3> HIDE DEF t
        <3>2. t \in 0 .. MaxClock
            BY <3>1, ManagerAssumption DEF Stamps
        <3>3. q \in Request
            BY <1>0, <3>2 DEF Request, Pcs
        <3>4. req' = [req EXCEPT ![r] = q]
            BY <1>0, <2>2
        <3>5. RequestOK(q, gens, done)
            <4>1. q.pc = "restore_copy" /\ q.i = req[r].i /\ q.cfg = req[r].cfg /\ q.ts = t
                BY <1>0 DEF Request
            <4> QED BY <2>0, <3>1, <4>1 DEF RequestOK, Loops, Copying, Backups, CopyOf
        <3>6. UNCHANGED <<container, data, gens, latest, clock, writes, crashes, done, taken>>
            BY <1>4 DEF RestoreRsync, env, hist
        <3> HIDE DEF q
        <3> QED BY <1>0, <3>3, <3>4, <3>5, <3>6, RequestStep
    <2> QED BY <1>4, <2>1, <2>2 DEF RestoreRsync
<1>5. CASE RestoreCopied(r) \/ RestoreRsyncFails(r)
    BY <1>5, NextCmdStep DEF RestoreCopied, RestoreRsyncFails, env, hist
<1> QED BY <1>1, <1>2, <1>3, <1>4, <1>5

\* The copy of a restore writes data and leaves the generations alone.
LEMMA RestoreCopyPreserves ==
    ASSUME IInv, NEW r \in Requests, RestoreCopy(r)
    PROVE  IInv'
<1> DEFINE c == CopyOf(r)
           t == req[r].ts
<1>0. /\ req[r] \in Request /\ RequestOK(req[r], gens, done) /\ At(r, "restore_copy")
      /\ req \in [Requests -> Request] /\ data \in [Srcs -> Tree]
      /\ gens \in [Dests -> [Stamps -> Tree \cup {NoDir}]]
    BY DEF IInv, TypeOK, RestoreCopy
<1>1. c.src \in Srcs /\ c.dest \in Dests /\ t \in Stamps
    BY <1>0, CopyingFacts DEF At, Copying
<1>2. gens[c.dest][t] # NoDir
    BY <1>0 DEF At, RequestOK, CopyOf
<1>3. gens[c.dest][t] \in Tree
    BY <1>0, <1>1, <1>2
<1>4. PICK f \in req[r].todo :
         /\ data' = [data EXCEPT ![c.src][f] = gens[c.dest][t][f]]
         /\ req' = [req EXCEPT ![r].todo = @ \ {f}]
    BY DEF RestoreCopy
<1>5. f \in Files /\ req[r].todo \ {f} \in SUBSET Files
    BY <1>0 DEF Request
<1>6. gens[c.dest][t][f] \in Versions
    BY <1>3, <1>5 DEF Tree
<1>7. data' \in [Srcs -> Tree]
    <2>1. data[c.src] \in Tree
        BY <1>0, <1>1
    <2>2. [data[c.src] EXCEPT ![f] = gens[c.dest][t][f]] \in Tree
        BY <1>5, <1>6, <2>1 DEF Tree
    <2>3. data' = [data EXCEPT ![c.src] = [data[c.src] EXCEPT ![f] = gens[c.dest][t][f]]]
        BY <1>0, <1>1, <1>4
    <2> QED BY <1>0, <1>1, <2>2, <2>3
<1> DEFINE q == [req[r] EXCEPT !.todo = @ \ {f}]
<1>8. q \in Request /\ req' = [req EXCEPT ![r] = q]
    BY <1>0, <1>4, <1>5 DEF Request
<1>9. RequestOK(q, gens, done)
    <2>1. q.pc = req[r].pc /\ q.i = req[r].i /\ q.cfg = req[r].cfg /\ q.ts = t
        BY <1>0 DEF Request
    <2> QED BY <1>0, <2>1 DEF RequestOK
<1>10. UNCHANGED <<container, gens, latest, clock, writes, crashes, done, taken>>
    BY DEF RestoreCopy, hist
<1> HIDE DEF q
<1>11. TypeOK'
    BY <1>0, <1>7, <1>8, <1>10 DEF IInv, TypeOK
<1>12. \A s \in Requests : RequestOK(req'[s], gens', done')
    BY <1>0, <1>8, <1>9, <1>10 DEF IInv
<1>13. DoneExists' /\ LatestIsComplete'
    BY <1>10 DEF IInv, DoneExists, LatestIsComplete
<1> QED BY <1>11, <1>12, <1>13 DEF IInv

\* The server, the daemon, the clock and a crash of play-bin, which forgets
\* every request wherever it is, keep the invariant.
LEMMA WorldPreserves ==
    ASSUME IInv, ServerWrites \/ Daemon \/ Tick \/ Crash
    PROVE  IInv'
<1>0. /\ container \in ContainerStates /\ data \in [Srcs -> Tree]
      /\ writes \in 0 .. MaxWrites /\ clock \in 1 .. MaxClock /\ crashes \in 0 .. MaxCrashes
      /\ MaxWrites \in Nat /\ MaxClock \in Nat /\ MaxCrashes \in Nat
    BY ManagerAssumption DEF IInv, TypeOK, Stamps
<1>1. ASSUME UNCHANGED <<gens, latest, done, taken>>, req' = req, container' \in ContainerStates,
             data' \in [Srcs -> Tree], writes' \in 0 .. MaxWrites, clock' \in 1 .. MaxClock,
             crashes' \in 0 .. MaxCrashes
      PROVE  IInv'
    BY <1>1 DEF IInv, TypeOK, DoneExists, LatestIsComplete, Stamps
<1>2. CASE ServerWrites
    <2>1. PICK s \in Srcs, f \in Files, v \in {0, writes + 1} : data' = [data EXCEPT ![s][f] = v]
        BY <1>2 DEF ServerWrites
    <2>2. v \in Versions /\ writes' \in 0 .. MaxWrites
        BY <1>0, <1>2 DEF ServerWrites, Versions
    <2>3. data' \in [Srcs -> Tree]
        BY <1>0, <2>1, <2>2 DEF Tree
    <2> QED BY <1>0, <1>1, <1>2, <2>2, <2>3 DEF ServerWrites, hist
<1>3. CASE Daemon
    BY <1>0, <1>1, <1>3, DockerTyped DEF Daemon, env, hist
<1>4. CASE Tick
    BY <1>0, <1>1, <1>4 DEF Tick, hist
<1>5. CASE Crash
    <2>1. req' \in [Requests -> Request] /\ \A s \in Requests : RequestOK(req'[s], gens, done)
        BY <1>5, IdleOK DEF Crash
    <2>2. UNCHANGED <<container, data, writes, gens, latest, done, taken>>
          /\ clock' \in 1 .. MaxClock /\ crashes' \in 0 .. MaxCrashes
        BY <1>0, <1>5 DEF Crash, hist
    <2> QED BY <2>1, <2>2 DEF IInv, TypeOK, DoneExists, LatestIsComplete, Stamps
<1> QED BY <1>2, <1>3, <1>4, <1>5

-----------------------------------------------------------------------------
(* The invariant, and what follows from it.                                *)

\* A fresh play-bin without backups satisfies the invariant.
LEMMA InitIInv == Init => IInv
<1> SUFFICES ASSUME Init PROVE IInv
    OBVIOUS
<1>1. req \in [Requests -> Request] /\ \A r \in Requests : RequestOK(req[r], gens, done)
    BY IdleOK DEF Init
<1>2. [f \in Files |-> 0] \in Tree /\ 0 \in 0 .. MaxClock /\ 1 \in Stamps
      /\ 0 \in 0 .. MaxWrites /\ 0 \in 0 .. MaxCrashes
    BY ManagerAssumption DEF Tree, Versions, Stamps
<1>3. TypeOK
    BY <1>1, <1>2 DEF Init, TypeOK, ContainerStates, None
<1>4. DoneExists /\ LatestIsComplete
    BY DEF Init, DoneExists, LatestIsComplete
<1> QED BY <1>1, <1>3, <1>4 DEF IInv

\* Every step of every caller keeps the invariant.
LEMMA NextIInv == IInv /\ [Next]_vars => IInv'
<1> SUFFICES ASSUME IInv, [Next]_vars PROVE IInv'
    OBVIOUS
<1>1. ASSUME NEW r \in Requests, Call(r) \/ Step(r) \/ StopExecExits(r) PROVE IInv'
    BY <1>1, StartPreserves, StopPreserves, KillPreserves, BackupLoopPreserves,
       BackupCopyPreserves, BackupLinkPreserves, RestorePreserves, RestoreCopyPreserves,
       RemovePreserves DEF Call, Step
<1>2. CASE ServerWrites \/ Daemon \/ Tick \/ Crash
    BY <1>2, WorldPreserves
<1>3. CASE UNCHANGED vars
    BY <1>3 DEF vars, IInv, TypeOK, DoneExists, LatestIsComplete
<1> QED BY <1>1, <1>2, <1>3 DEF Next

\* The invariant on requests, generations and latest holds in every state, for
\* any number of concurrent callers of Manager's operations.
THEOREM Invariance == Spec => []IInv
BY InitIInv, NextIInv, PTL DEF Spec

\* Every variable keeps its type in every behaviour: in particular no loop
\* runs past its list of commands and no copy starts without its directories.
THEOREM TypeCorrect == Spec => []TypeOK
<1>1. IInv => TypeOK
    BY DEF IInv
<1> QED BY <1>1, Invariance, PTL

\* However many backups run at once, whatever fails and whenever play-bin
\* crashes, "latest" is absent or names a generation that rsync completed.
THEOREM LatestAlwaysComplete == Spec => []LatestIsComplete
<1>1. IInv => LatestIsComplete
    BY DEF IInv
<1> QED BY <1>1, Invariance, PTL

-----------------------------------------------------------------------------
(* A backup that reports success.                                          *)

\* As long as nothing has failed, every copy that the loop has passed is done.
CopiedOK(q, D) ==
    q.pc \in Backups /\ ~q.err =>
        \A j \in 1 .. (q.i - 1) : IsCopy(q.cfg.backup[j]) => <<q.cfg.backup[j].dest, q.ts>> \in D

Copied == \A r \in Requests : CopiedOK(req[r], done)

\* The other calls are as they were.
Others(r) == \A s \in Requests : s # r => req'[s] = req[s]

\* What the helpers do to the request that moves.
LEMMA Moves ==
    ASSUME IInv, NEW r \in Requests
    PROVE  /\ \A p : Goto(r, p) => /\ Others(r) /\ req'[r].pc = p /\ req'[r].i = req[r].i
                                  /\ req'[r].cfg = req[r].cfg /\ req'[r].ts = req[r].ts
                                  /\ req'[r].err = req[r].err
           /\ \A res : Return(r, res) => Others(r) /\ req'[r] = Idle(res)
           /\ \A o, res : Refuse(r, o, res) => Others(r) /\ req'[r] = Idle(res)
           /\ \A o, c, p, g, t : Begin(r, o, c, p, g, t) =>
                 Others(r) /\ req'[r].pc = p /\ req'[r].i = 1
           /\ \A p, f : NextCmd(r, p, f) => /\ Others(r) /\ req'[r].pc = p /\ req'[r].i = req[r].i + 1
                                           /\ req'[r].cfg = req[r].cfg /\ req'[r].ts = req[r].ts
                                           /\ req'[r].err = (req[r].err \/ f)
           /\ \A res : Idle(res).pc = "idle" /\ Idle(res).result = res
<1>1. req \in [Requests -> Request] /\ req[r] \in Request
    BY DEF IInv, TypeOK
<1> USE DEF Others
<1>2. ASSUME NEW p, Goto(r, p)
      PROVE  /\ Others(r) /\ req'[r].pc = p /\ req'[r].i = req[r].i
             /\ req'[r].cfg = req[r].cfg /\ req'[r].ts = req[r].ts /\ req'[r].err = req[r].err
    BY <1>1, <1>2 DEF Goto, Request
<1>3. ASSUME NEW res, Return(r, res) PROVE Others(r) /\ req'[r] = Idle(res)
    BY <1>1, <1>3 DEF Return
<1>4. ASSUME NEW o, NEW res, Refuse(r, o, res) PROVE Others(r) /\ req'[r] = Idle(res)
    BY <1>1, <1>4 DEF Refuse
<1>5. ASSUME NEW o, NEW c, NEW p, NEW g, NEW t, Begin(r, o, c, p, g, t)
      PROVE  Others(r) /\ req'[r].pc = p /\ req'[r].i = 1
    BY <1>1, <1>5 DEF Begin, Idle
<1>6. ASSUME NEW p, NEW f, NextCmd(r, p, f)
      PROVE  /\ Others(r) /\ req'[r].pc = p /\ req'[r].i = req[r].i + 1
             /\ req'[r].cfg = req[r].cfg /\ req'[r].ts = req[r].ts
             /\ req'[r].err = (req[r].err \/ f)
    <2> DEFINE e == req[r].err \/ f
    <2>1. req' = [req EXCEPT ![r].pc = p, ![r].i = @ + 1, ![r].err = e, ![r].todo = {}]
        BY <1>1, <1>6 DEF NextCmd
    <2> HIDE DEF e
    <2>2. /\ Others(r) /\ req'[r].pc = p /\ req'[r].i = req[r].i + 1
          /\ req'[r].cfg = req[r].cfg /\ req'[r].ts = req[r].ts /\ req'[r].err = e
        BY <1>1, <2>1 DEF Request
    <2> QED BY <2>2 DEF e
<1>7. \A res : Idle(res).pc = "idle" /\ Idle(res).result = res
    BY DEF Idle
<1> QED BY <1>2, <1>3, <1>4, <1>5, <1>6, <1>7

\* The other operations never bring a call to a pc of Backup.
LEMMA NotABackup ==
    ASSUME IInv, NEW r \in Requests,
           \/ StartCall(r) \/ StartInspect(r) \/ StartCreate(r) \/ StartRun(r)
           \/ StopCall(r) \/ StopCmd(r) \/ StopExecExits(r) \/ StopExecAborted(r) \/ StopDocker(r)
           \/ KillCall(r) \/ KillStop(r) \/ KillKill(r)
           \/ RemoveCall(r) \/ RemoveInspect(r) \/ RemoveDocker(r)
           \/ RestoreCall(r) \/ RestoreInspect(r) \/ RestoreCmd(r) \/ RestoreRsync(r)
           \/ RestoreCopy(r) \/ RestoreCopied(r) \/ RestoreRsyncFails(r)
    PROVE  /\ Others(r) /\ done' = done
           /\ req[r].pc \notin Backups /\ req'[r].pc \notin Backups
<1>1. req \in [Requests -> Request] /\ req[r] \in Request
    BY DEF IInv, TypeOK
<1> DEFINE Away == Others(r) /\ req'[r].pc \notin Backups
<1>2. /\ \A p : p \notin Backups /\ Goto(r, p) => Away
      /\ \A p, f : p \notin Backups /\ NextCmd(r, p, f) => Away
      /\ \A o, c, p, g, t : p \notin Backups /\ Begin(r, o, c, p, g, t) => Away
    BY Moves
<1>3. /\ \A res : Return(r, res) => Away
      /\ \A o, res : Refuse(r, o, res) => Away
    BY Moves DEF Backups
<1>4. /\ \A o, c, p, g, t : Begin(r, o, c, p, g, t) => req[r].pc = "idle"
      /\ \A o, res : Refuse(r, o, res) => req[r].pc = "idle"
    BY DEF Begin, Refuse, At
<1> HIDE DEF Away
<1>5. CASE StartCall(r)
    <2>1. Away
        BY <1>2, <1>3, <1>5, Zenon DEF StartCall, Backups
    <2>2. req[r].pc \notin Backups /\ done' = done
        BY <1>4, <1>5 DEF StartCall, At, Backups, hist
    <2> QED BY <2>1, <2>2 DEF Away
<1>6. CASE StartInspect(r)
    <2>1. Away
        BY <1>2, <1>3, <1>6, Zenon DEF StartInspect, Backups
    <2>2. req[r].pc \notin Backups /\ done' = done
        BY <1>4, <1>6 DEF StartInspect, At, Backups, hist
    <2> QED BY <2>1, <2>2 DEF Away
<1>7. CASE StartCreate(r)
    <2>1. Away
        BY <1>2, <1>3, <1>7, Zenon DEF StartCreate, Backups
    <2>2. req[r].pc \notin Backups /\ done' = done
        BY <1>4, <1>7 DEF StartCreate, At, Backups, hist
    <2> QED BY <2>1, <2>2 DEF Away
<1>8. CASE StartRun(r)
    <2>1. Away
        BY <1>2, <1>3, <1>8, Zenon DEF StartRun, Backups
    <2>2. req[r].pc \notin Backups /\ done' = done
        BY <1>4, <1>8 DEF StartRun, At, Backups, hist
    <2> QED BY <2>1, <2>2 DEF Away
<1>9. CASE StopCall(r)
    <2>1. Away
        BY <1>2, <1>3, <1>9, Zenon DEF StopCall, Backups
    <2>2. req[r].pc \notin Backups /\ done' = done
        BY <1>4, <1>9 DEF StopCall, At, Backups, hist
    <2> QED BY <2>1, <2>2 DEF Away
<1>10. CASE StopCmd(r)
    <2>1. Away
        BY <1>2, <1>3, <1>10, Zenon DEF StopCmd, Backups
    <2>2. req[r].pc \notin Backups /\ done' = done
        BY <1>4, <1>10 DEF StopCmd, At, Backups, hist
    <2> QED BY <2>1, <2>2 DEF Away
<1>11. CASE StopExecExits(r)
    <2>1. Away
        BY <1>2, <1>3, <1>11, Zenon DEF StopExecExits, Backups
    <2>2. req[r].pc \notin Backups /\ done' = done
        BY <1>4, <1>11 DEF StopExecExits, At, Backups, hist
    <2> QED BY <2>1, <2>2 DEF Away
<1>12. CASE StopExecAborted(r)
    <2>1. Away
        BY <1>2, <1>3, <1>12, Zenon DEF StopExecAborted, Backups
    <2>2. req[r].pc \notin Backups /\ done' = done
        BY <1>4, <1>12 DEF StopExecAborted, At, Backups, hist
    <2> QED BY <2>1, <2>2 DEF Away
<1>13. CASE StopDocker(r)
    <2>1. Away
        BY <1>2, <1>3, <1>13, Zenon DEF StopDocker, Backups
    <2>2. req[r].pc \notin Backups /\ done' = done
        BY <1>4, <1>13 DEF StopDocker, At, Backups, hist
    <2> QED BY <2>1, <2>2 DEF Away
<1>14. CASE KillCall(r)
    <2>1. Away
        BY <1>2, <1>3, <1>14, Zenon DEF KillCall, Backups
    <2>2. req[r].pc \notin Backups /\ done' = done
        BY <1>4, <1>14 DEF KillCall, At, Backups, hist
    <2> QED BY <2>1, <2>2 DEF Away
<1>15. CASE KillStop(r)
    <2>1. Away
        BY <1>2, <1>3, <1>15, Zenon DEF KillStop, Backups
    <2>2. req[r].pc \notin Backups /\ done' = done
        BY <1>4, <1>15 DEF KillStop, At, Backups, hist
    <2> QED BY <2>1, <2>2 DEF Away
<1>16. CASE KillKill(r)
    <2>1. Away
        BY <1>2, <1>3, <1>16, Zenon DEF KillKill, Backups
    <2>2. req[r].pc \notin Backups /\ done' = done
        BY <1>4, <1>16 DEF KillKill, At, Backups, hist
    <2> QED BY <2>1, <2>2 DEF Away
<1>17. CASE RemoveCall(r)
    <2>1. Away
        BY <1>2, <1>3, <1>17, Zenon DEF RemoveCall, Backups
    <2>2. req[r].pc \notin Backups /\ done' = done
        BY <1>4, <1>17 DEF RemoveCall, At, Backups, hist
    <2> QED BY <2>1, <2>2 DEF Away
<1>18. CASE RemoveInspect(r)
    <2>1. Away
        BY <1>2, <1>3, <1>18, Zenon DEF RemoveInspect, Backups
    <2>2. req[r].pc \notin Backups /\ done' = done
        BY <1>4, <1>18 DEF RemoveInspect, At, Backups, hist
    <2> QED BY <2>1, <2>2 DEF Away
<1>19. CASE RemoveDocker(r)
    <2>1. Away
        BY <1>2, <1>3, <1>19, Zenon DEF RemoveDocker, Backups
    <2>2. req[r].pc \notin Backups /\ done' = done
        BY <1>4, <1>19 DEF RemoveDocker, At, Backups, hist
    <2> QED BY <2>1, <2>2 DEF Away
<1>20. CASE RestoreCall(r)
    <2>1. Away
        BY <1>2, <1>3, <1>20, Zenon DEF RestoreCall, Backups
    <2>2. req[r].pc \notin Backups /\ done' = done
        BY <1>4, <1>20 DEF RestoreCall, At, Backups, hist
    <2> QED BY <2>1, <2>2 DEF Away
<1>21. CASE RestoreInspect(r)
    <2>1. Away
        BY <1>2, <1>3, <1>21, Zenon DEF RestoreInspect, Backups
    <2>2. req[r].pc \notin Backups /\ done' = done
        BY <1>4, <1>21 DEF RestoreInspect, At, Backups, hist
    <2> QED BY <2>1, <2>2 DEF Away
<1>22. CASE RestoreCmd(r)
    <2>1. Away
        BY <1>2, <1>3, <1>22, Zenon DEF RestoreCmd, Backups
    <2>2. req[r].pc \notin Backups /\ done' = done
        BY <1>4, <1>22 DEF RestoreCmd, At, Backups, hist
    <2> QED BY <2>1, <2>2 DEF Away
<1>23. CASE RestoreCopied(r)
    <2>1. Away
        BY <1>2, <1>3, <1>23, Zenon DEF RestoreCopied, Backups
    <2>2. req[r].pc \notin Backups /\ done' = done
        BY <1>4, <1>23 DEF RestoreCopied, At, Backups, hist
    <2> QED BY <2>1, <2>2 DEF Away
<1>24. CASE RestoreRsyncFails(r)
    <2>1. Away
        BY <1>2, <1>3, <1>24, Zenon DEF RestoreRsyncFails, Backups
    <2>2. req[r].pc \notin Backups /\ done' = done
        BY <1>4, <1>24 DEF RestoreRsyncFails, At, Backups, hist
    <2> QED BY <2>1, <2>2 DEF Away
<1>25. CASE RestoreRsync(r)
    <2>1. CASE NextCmd(r, "restore_cmd", TRUE)
        BY <1>2, <1>25, <2>1 DEF RestoreRsync, At, Backups, hist, Away
    <2>2. CASE Target(CopyOf(r).dest, req[r].gen) # None
        BY <1>1, <1>25, <2>2 DEF RestoreRsync, At, Backups, hist, Others, Request
    <2> QED BY <1>25, <2>1, <2>2 DEF RestoreRsync
<1>26. CASE RestoreCopy(r)
    BY <1>1, <1>26 DEF RestoreCopy, At, Backups, hist, Others, Request
<1> QED BY <1>5, <1>6, <1>7, <1>8, <1>9, <1>10, <1>11, <1>12, <1>13, <1>14, <1>15, <1>16, <1>17,
       <1>18, <1>19, <1>20, <1>21, <1>22, <1>23, <1>24, <1>25, <1>26

\* How a step of Backup moves its call: it ends it, begins it, keeps its place
\* in the loop, or passes a command, which is then no copy, a copy that is
\* done, or one that has failed.
Ended(r)  == req'[r].pc \notin Backups
Begun(r)  == req'[r].i = 1
Stays(r)  == /\ req[r].pc \in Backups
             /\ req'[r].i = req[r].i /\ req'[r].cfg = req[r].cfg /\ req'[r].ts = req[r].ts
             /\ req'[r].err = req[r].err
Passes(r) == /\ req[r].pc \in Backups
             /\ req'[r].i = req[r].i + 1 /\ req'[r].cfg = req[r].cfg /\ req'[r].ts = req[r].ts
             /\ \/ req'[r].err
                \/ /\ req'[r].err = req[r].err
                   /\ IsCopy(CopyOf(r)) => <<CopyOf(r).dest, req[r].ts>> \in done

LEMMA BackupMoves ==
    ASSUME IInv, NEW r \in Requests,
           \/ BackupCall(r) \/ BackupInspect(r) \/ BackupCmd(r) \/ BackupRsync(r) \/ BackupCopy(r)
           \/ BackupCopied(r) \/ BackupRsyncFails(r) \/ BackupUnlink(r) \/ BackupLink(r)
    PROVE  /\ Others(r) /\ done \subseteq done'
           /\ Ended(r) \/ Begun(r) \/ Stays(r) \/ Passes(r)
<1>1. req \in [Requests -> Request] /\ req[r] \in Request
    BY DEF IInv, TypeOK
<1>2. CASE BackupCall(r)
    <2>1. PICK c \in Configs : \/ Begin(r, "backup", c, "backup_inspect", None, clock)
                               \/ Refuse(r, "backup", "err")
        BY <1>2 DEF BackupCall
    <2>2. Others(r) /\ (Begun(r) \/ Ended(r))
        BY <2>1, Moves DEF Begun, Ended, Backups
    <2> QED BY <1>2, <2>2 DEF BackupCall, hist
<1>3. CASE BackupInspect(r)
    <2>1. Goto(r, "backup_cmd") /\ req[r].pc \in Backups /\ done' = done
        BY <1>3 DEF BackupInspect, At, Backups, hist
    <2> QED BY <2>1, Moves DEF Stays
<1>4. CASE BackupCmd(r)
    <2>1. req[r].pc \in Backups /\ done' = done
        BY <1>4 DEF BackupCmd, At, Backups, hist
    <2>2. CASE Return(r, IF req[r].err THEN "err" ELSE "ok")
        BY <2>1, <2>2, Moves DEF Ended, Backups
    <2>3. CASE Goto(r, "backup_rsync")
        BY <2>1, <2>3, Moves DEF Stays
    <2>4. CASE ~IsCopy(CopyOf(r)) /\ NextCmd(r, "backup_cmd", FALSE)
        <3>1. /\ Others(r) /\ req'[r].i = req[r].i + 1 /\ req'[r].cfg = req[r].cfg
              /\ req'[r].ts = req[r].ts /\ req'[r].err = (req[r].err \/ FALSE)
            BY <2>4, Moves
        <3>2. req'[r].err = req[r].err
            BY <1>1, <3>1 DEF Request
        <3> QED BY <2>1, <2>4, <3>1, <3>2 DEF Passes
    <2> QED BY <1>4, <2>2, <2>3, <2>4, Zenon DEF BackupCmd
<1>5. CASE BackupRsync(r)
    BY <1>1, <1>5 DEF BackupRsync, At, Others, Stays, Backups, Request
<1>6. CASE BackupCopy(r)
    <2>1. PICK f : req' = [req EXCEPT ![r].todo = @ \ {f}]
        BY <1>6 DEF BackupCopy
    <2>2. Others(r) /\ Stays(r)
        BY <1>1, <1>6, <2>1 DEF BackupCopy, At, Others, Stays, Backups, Request
    <2> QED BY <1>6, <2>2 DEF BackupCopy, hist
<1>7. CASE BackupCopied(r)
    <2>1. Goto(r, "backup_unlink") /\ req[r].pc \in Backups /\ done \subseteq done'
        BY <1>7 DEF BackupCopied, At, Backups
    <2> QED BY <2>1, Moves DEF Stays
<1>8. CASE BackupRsyncFails(r)
    <2>1. NextCmd(r, "backup_cmd", TRUE) /\ req[r].pc \in Backups /\ done' = done
        BY <1>8 DEF BackupRsyncFails, At, Backups, hist
    <2> QED BY <2>1, Moves DEF Passes
<1>9. CASE BackupUnlink(r)
    <2>1. Goto(r, "backup_link") /\ req[r].pc \in Backups /\ done' = done
        BY <1>9 DEF BackupUnlink, At, Backups, hist
    <2> QED BY <2>1, Moves DEF Stays
<1>10. CASE BackupLink(r)
    <2>1. NextCmd(r, "backup_cmd", FALSE) /\ req[r].pc = "backup_link" /\ done' = done
        BY <1>10 DEF BackupLink, At, hist
    <2>2. <<CopyOf(r).dest, req[r].ts>> \in done
        BY <2>1 DEF IInv, RequestOK, CopyOf
    <2>3. /\ Others(r) /\ req'[r].i = req[r].i + 1 /\ req'[r].cfg = req[r].cfg
          /\ req'[r].ts = req[r].ts /\ req'[r].err = (req[r].err \/ FALSE)
        BY <2>1, Moves
    <2>4. req'[r].err = req[r].err
        BY <1>1, <2>3 DEF Request
    <2> QED BY <2>1, <2>2, <2>3, <2>4 DEF Passes, Backups
<1> QED BY <1>2, <1>3, <1>4, <1>5, <1>6, <1>7, <1>8, <1>9, <1>10

\* A call whose copies were done stays so while the set of copies grows.
LEMMA CopiedStep ==
    ASSUME IInv, Copied, NEW r \in Requests, Others(r), done \subseteq done',
           Ended(r) \/ Begun(r) \/ Stays(r) \/ Passes(r)
    PROVE  Copied'
<1> SUFFICES ASSUME NEW s \in Requests, req'[s].pc \in Backups, ~req'[s].err,
                    NEW j \in 1 .. (req'[s].i - 1), IsCopy(req'[s].cfg.backup[j])
             PROVE  <<req'[s].cfg.backup[j].dest, req'[s].ts>> \in done'
    BY DEF Copied, CopiedOK
<1>1. req \in [Requests -> Request] /\ req[s] \in Request /\ req[s].i \in Nat
    BY DEF IInv, TypeOK, Request
<1>2. ASSUME req[s].pc \in Backups, ~req[s].err, j \in 1 .. (req[s].i - 1),
             req'[s].cfg = req[s].cfg, req'[s].ts = req[s].ts
      PROVE  <<req'[s].cfg.backup[j].dest, req'[s].ts>> \in done'
    BY <1>2 DEF Copied, CopiedOK
<1>3. CASE s # r
    BY <1>2, <1>3 DEF Others
<1>4. CASE s = r /\ Stays(r)
    BY <1>2, <1>4 DEF Stays
<1>5. CASE s = r /\ Passes(r)
    <2>1. CASE j = req[r].i
        <3>1. req'[r].err = req[r].err /\ IsCopy(CopyOf(r)) => <<CopyOf(r).dest, req[r].ts>> \in done
            BY <1>5 DEF Passes
        <3> QED BY <1>5, <2>1, <3>1 DEF Passes, CopyOf
    <2>2. CASE j # req[r].i
        <3>1. j \in 1 .. (req[r].i - 1)
            BY <1>1, <1>5, <2>2 DEF Passes
        <3> QED BY <1>2, <1>5, <3>1 DEF Passes
    <2> QED BY <2>1, <2>2
<1>6. CASE s = r /\ (Ended(r) \/ Begun(r))
    BY <1>6 DEF Ended, Begun
<1> QED BY <1>3, <1>4, <1>5, <1>6

LEMMA NextCopied == IInv /\ Copied /\ [Next]_vars => Copied'
<1> SUFFICES ASSUME IInv, Copied, [Next]_vars PROVE Copied'
    OBVIOUS
<1>1. ASSUME NEW r \in Requests, Call(r) \/ Step(r) \/ StopExecExits(r) PROVE Copied'
    <2>1. CASE \/ BackupCall(r) \/ BackupInspect(r) \/ BackupCmd(r) \/ BackupRsync(r)
               \/ BackupCopy(r) \/ BackupCopied(r) \/ BackupRsyncFails(r) \/ BackupUnlink(r)
               \/ BackupLink(r)
        BY <2>1, BackupMoves, CopiedStep
    <2>2. CASE \/ StartCall(r) \/ StartInspect(r) \/ StartCreate(r) \/ StartRun(r)
               \/ StopCall(r) \/ StopCmd(r) \/ StopExecExits(r) \/ StopExecAborted(r) \/ StopDocker(r)
               \/ KillCall(r) \/ KillStop(r) \/ KillKill(r)
               \/ RemoveCall(r) \/ RemoveInspect(r) \/ RemoveDocker(r)
               \/ RestoreCall(r) \/ RestoreInspect(r) \/ RestoreCmd(r) \/ RestoreRsync(r)
               \/ RestoreCopy(r) \/ RestoreCopied(r) \/ RestoreRsyncFails(r)
        <3>1. Others(r) /\ done' = done /\ Ended(r)
            BY <2>2, NotABackup DEF Ended
        <3> QED BY <3>1, CopiedStep
    <2> QED BY <1>1, <2>1, <2>2, Zenon DEF Call, Step
<1>2. CASE ServerWrites \/ Daemon \/ Tick \/ UNCHANGED vars
    <2>1. req' = req /\ done' = done
        BY <1>2 DEF ServerWrites, Daemon, Tick, vars, hist
    <2> QED BY <2>1 DEF Copied
<1>3. CASE Crash
    <2>1. \A r \in Requests : req'[r].pc = "idle"
        BY <1>3 DEF Crash, Idle
    <2> QED BY <2>1 DEF Copied, CopiedOK, Backups
<1> QED BY <1>1, <1>2, <1>3, Zenon DEF Next

\* A backup that reports success has copied, under its timestamp, every
\* src:destBase of the configuration it started with: no failed rsync is
\* forgotten by the loop of Backup and no command is skipped.
THEOREM BackupOkComplete == Spec => BackupOkIsComplete
<1> DEFINE Complete == \A r \in Requests :
                 At(r, "backup_cmd") /\ req'[r].pc = "idle" /\ req'[r].result = "ok"
                 => \A b \in CopiesOf(req[r].cfg) : <<b.dest, req[r].ts>> \in done
<1>1. Init => Copied
    <2>1. Init => \A r \in Requests : req[r].pc = "idle"
        BY DEF Init, Idle
    <2> QED BY <2>1 DEF Copied, CopiedOK, Backups
<1>2. IInv /\ Copied /\ [Next]_vars => [Complete]_vars
    <2> SUFFICES ASSUME IInv, Copied, Next, NEW r \in Requests, req[r].pc = "backup_cmd",
                        req'[r].pc = "idle", req'[r].result = "ok",
                        NEW b \in CopiesOf(req[r].cfg)
                 PROVE  <<b.dest, req[r].ts>> \in done
        BY DEF Complete, At
    <2>1. req \in [Requests -> Request] /\ req[r] \in Request /\ req[r].i \in Nat /\ req[r].err \in BOOLEAN
        BY DEF IInv, TypeOK, Request
    <2>2. BackupCmd(r)
        <3>1. ASSUME NEW s \in Requests, Call(s) \/ Step(s) \/ StopExecExits(s)
              PROVE  BackupCmd(r)
            <4>1. CASE s # r
                <5>1. Others(s)
                    BY <3>1, BackupMoves, NotABackup, Zenon DEF Call, Step
                <5> QED BY <4>1, <5>1 DEF Others
            <4>2. CASE s = r
                <5>1. CASE \/ StartCall(r) \/ StartInspect(r) \/ StartCreate(r) \/ StartRun(r)
                           \/ StopCall(r) \/ StopCmd(r) \/ StopExecExits(r) \/ StopExecAborted(r) \/ StopDocker(r)
                           \/ KillCall(r) \/ KillStop(r) \/ KillKill(r)
                           \/ RemoveCall(r) \/ RemoveInspect(r) \/ RemoveDocker(r)
                           \/ RestoreCall(r) \/ RestoreInspect(r) \/ RestoreCmd(r) \/ RestoreRsync(r)
                           \/ RestoreCopy(r) \/ RestoreCopied(r) \/ RestoreRsyncFails(r)
                    <6>1. req[r].pc \notin Backups
                        BY <5>1, NotABackup
                    <6> QED BY <6>1 DEF Backups
                <5>2. CASE \/ BackupCall(r) \/ BackupInspect(r) \/ BackupRsync(r)
                           \/ BackupCopy(r) \/ BackupCopied(r) \/ BackupRsyncFails(r) \/ BackupUnlink(r)
                           \/ BackupLink(r)
                    BY <5>2 DEF BackupCall, BackupInspect, BackupRsync, BackupCopy, BackupCopied,
                        BackupRsyncFails, BackupUnlink, BackupLink, Begin, Refuse, At
                <5> QED BY <3>1, <4>2, <5>1, <5>2, Zenon DEF Call, Step
            <4> QED BY <4>1, <4>2
        <3>2. CASE ServerWrites \/ Daemon \/ Tick
            <4>1. req' = req
                BY <3>2 DEF ServerWrites, Daemon, Tick
            <4> QED BY <4>1
        <3>3. CASE Crash
            BY <3>3 DEF Crash, Idle
        <3> QED BY <3>1, <3>2, <3>3, Zenon DEF Next
    <2>3. req[r].i > Len(req[r].cfg.backup) /\ Return(r, IF req[r].err THEN "err" ELSE "ok")
        <3>1. CASE Goto(r, "backup_rsync")
            BY <3>1, Moves
        <3>2. CASE NextCmd(r, "backup_cmd", FALSE)
            BY <3>2, Moves
        <3> QED BY <2>2, <3>1, <3>2, Zenon DEF BackupCmd
    <2>4. ~req[r].err
        <3>1. CASE req[r].err
            <4>1. req'[r] = Idle("err")
                BY <2>3, <3>1, Moves
            <4>2. req'[r].result = "err"
                BY <4>1 DEF Idle
            <4> QED BY <4>2
        <3> QED BY <3>1
    <2>5. PICK j \in DOMAIN req[r].cfg.backup : IsCopy(req[r].cfg.backup[j]) /\ b = req[r].cfg.backup[j]
        BY DEF CopiesOf
    <2>6. j \in 1 .. (req[r].i - 1)
        BY <2>1, <2>3, <2>5, CfgTyped
    <2> QED BY <2>4, <2>5, <2>6 DEF Copied, CopiedOK, Backups
<1> QED BY <1>1, <1>2, NextCopied, Invariance, PTL DEF Spec, BackupOkIsComplete, Complete
=============================================================================
