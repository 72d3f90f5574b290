--------------------------- MODULE OneCallerProofs --------------------------
(***************************************************************************)
(* Proof about ContainerManager for one caller at a time, which is what    *)
(* its operations were written for: what a restore gives back, for every   *)
(* set of directories, files and configurations and every bound.           *)
(***************************************************************************)
EXTENDS ContainerManagerProofs

OneCaller == \A r, s \in Requests : r = s

\* No two commands of a configuration restore into the same data directory.
OwnDirectories ==
    \A c \in Configs : \A j, k \in DOMAIN c.backup :
        j # k /\ IsCopy(c.backup[j]) /\ IsCopy(c.backup[k]) => c.backup[j].src # c.backup[k].src

Restores == {"restore_inspect", "restore_cmd", "restore_rsync", "restore_copy"}

-----------------------------------------------------------------------------
(* The invariants.                                                         *)

\* A generation holds what was taken.
TakenKept == \A d \in Dests, t \in Stamps : taken[d][t] # NoDir => gens[d][t] = taken[d][t]

\* While nothing was written, the files that a backup has copied are those of
\* its source.
TakingOK(r) ==
    req[r].pc = "backup_copy" =>
        /\ taken[CopyOf(r).dest][req[r].ts] = NoDir
        /\ req[r].seen <= writes
        /\ req[r].seen = writes =>
              \A f \in Files \ req[r].todo :
                 gens[CopyOf(r).dest][req[r].ts][f] = data[CopyOf(r).src][f]

\* The command b of a restore of generation g has been carried out.
Restored(b, g) ==
    IsCopy(b) /\ Target(b.dest, g) # None => data[b.src] = gens[b.dest][Target(b.dest, g)]

\* Past its inspection a restore has the data for itself; unless something has
\* failed, each command it has passed is carried out, and so are the files of
\* the present one that are no longer to do.
GivingOK(r) ==
    LET q == req[r] IN
    /\ q.pc = "restore_inspect" => q.i = 1
    /\ q.pc \in Restores \ {"restore_inspect"} =>
          /\ ~Running
          /\ ~q.err => \A k \in 1 .. (q.i - 1) : Restored(q.cfg.backup[k], q.gen)
    /\ q.pc = "restore_copy" =>
          /\ q.ts = Target(CopyOf(r).dest, q.gen)
          /\ \A f \in Files \ q.todo :
                data[CopyOf(r).src][f] = gens[CopyOf(r).dest][q.ts][f]

GivenBack == TakenKept /\ \A r \in Requests : TakingOK(r) /\ GivingOK(r)

-----------------------------------------------------------------------------
(* What the operations leave alone.                                        *)

\* Start, Stop, Kill and Remove touch neither data nor generations.
LEMMA Elsewhere ==
    ASSUME IInv, NEW r \in Requests,
           \/ StartCall(r) \/ StartInspect(r) \/ StartCreate(r) \/ StartRun(r)
           \/ StopCall(r) \/ StopCmd(r) \/ StopExecExits(r) \/ StopExecAborted(r) \/ StopDocker(r)
           \/ KillCall(r) \/ KillStop(r) \/ KillKill(r)
           \/ RemoveCall(r) \/ RemoveInspect(r) \/ RemoveDocker(r)
    PROVE  /\ Others(r) /\ req[r].pc \notin Backups \cup Restores
           /\ req'[r].pc \notin Backups \cup Restores
           /\ UNCHANGED <<data, clock, writes, crashes, gens, latest, done, taken>>
<1>1. Others(r) /\ req[r].pc \notin Backups /\ req'[r].pc \notin Backups
    BY NotABackup
<1>0. /\ \A o, c, p, g, t : Begin(r, o, c, p, g, t) => req[r].pc = "idle"
      /\ \A o, res : Refuse(r, o, res) => req[r].pc = "idle"
    BY DEF Begin, Refuse, At
<1> DEFINE Away == req'[r].pc \notin Restores
<1>2. /\ \A p : p \notin Restores /\ Goto(r, p) => Away
      /\ \A p, f : p \notin Restores /\ NextCmd(r, p, f) => Away
      /\ \A o, c, p, g, t : p \notin Restores /\ Begin(r, o, c, p, g, t) => Away
    BY Moves
<1>3. /\ \A res : Return(r, res) => Away
      /\ \A o, res : Refuse(r, o, res) => Away
    BY Moves DEF Restores
<1> HIDE DEF Away
<1>4. CASE StartCall(r) \/ StartInspect(r) \/ StartCreate(r) \/ StartRun(r)
    <2>1. Away /\ req[r].pc \notin Restores
        BY <1>0, <1>2, <1>3, <1>4, Zenon DEF StartCall, StartInspect, StartCreate, StartRun, At, Restores
    <2>2. UNCHANGED <<data, clock, writes, crashes, gens, latest, done, taken>>
        BY <1>4 DEF StartCall, StartInspect, StartCreate, StartRun, env, hist
    <2> QED BY <1>1, <2>1, <2>2 DEF Away
<1>5. CASE StopCall(r) \/ StopCmd(r) \/ StopExecExits(r) \/ StopExecAborted(r) \/ StopDocker(r)
    <2>1. Away /\ req[r].pc \notin Restores
        BY <1>0, <1>2, <1>3, <1>5, Zenon
           DEF StopCall, StopCmd, StopExecExits, StopExecAborted, StopDocker, At, Restores
    <2>2. UNCHANGED <<data, clock, writes, crashes, gens, latest, done, taken>>
        BY <1>5 DEF StopCall, StopCmd, StopExecExits, StopExecAborted, StopDocker, env, hist
    <2> QED BY <1>1, <2>1, <2>2 DEF Away
<1>6. CASE KillCall(r) \/ KillStop(r) \/ KillKill(r)
    <2>1. Away /\ req[r].pc \notin Restores
        BY <1>0, <1>2, <1>3, <1>6, Zenon DEF KillCall, KillStop, KillKill, At, Restores
    <2>2. UNCHANGED <<data, clock, writes, crashes, gens, latest, done, taken>>
        BY <1>6 DEF KillCall, KillStop, KillKill, env, hist
    <2> QED BY <1>1, <2>1, <2>2 DEF Away
<1>7. CASE RemoveCall(r) \/ RemoveInspect(r) \/ RemoveDocker(r)
    <2>1. Away /\ req[r].pc \notin Restores
        BY <1>0, <1>2, <1>3, <1>7, Zenon DEF RemoveCall, RemoveInspect, RemoveDocker, At, Restores
    <2>2. UNCHANGED <<data, clock, writes, crashes, gens, latest, done, taken>>
        BY <1>7 DEF RemoveCall, RemoveInspect, RemoveDocker, env, hist
    <2> QED BY <1>1, <2>1, <2>2 DEF Away
<1> QED BY <1>4, <1>5, <1>6, <1>7

\* Restore changes no generation, and only its own call.
LEMMA RestoreLeaves ==
    ASSUME IInv, NEW r \in Requests,
           \/ RestoreCall(r) \/ RestoreInspect(r) \/ RestoreCmd(r) \/ RestoreRsync(r)
           \/ RestoreCopy(r) \/ RestoreCopied(r) \/ RestoreRsyncFails(r)
    PROVE  /\ Others(r) /\ req[r].pc \notin Backups /\ req'[r].pc \notin Backups
           /\ UNCHANGED <<container, clock, writes, crashes, gens, latest, done, taken>>
<1>1. Others(r) /\ req[r].pc \notin Backups /\ req'[r].pc \notin Backups
    BY NotABackup
<1>2. UNCHANGED <<container, clock, writes, crashes, gens, latest, done, taken>>
    BY DEF RestoreCall, RestoreInspect, RestoreCmd, RestoreRsync, RestoreCopy, RestoreCopied,
       RestoreRsyncFails, env, hist
<1> QED BY <1>1, <1>2

\* Backup changes neither the data nor the container.
LEMMA BackupLeaves ==
    ASSUME IInv, NEW r \in Requests,
           \/ BackupCall(r) \/ BackupInspect(r) \/ BackupCmd(r) \/ BackupRsync(r) \/ BackupCopy(r)
           \/ BackupCopied(r) \/ BackupRsyncFails(r) \/ BackupUnlink(r) \/ BackupLink(r)
    PROVE  /\ Others(r) /\ UNCHANGED <<container, data, clock, writes, crashes>>
<1>1. Others(r)
    BY BackupMoves
<1>2. UNCHANGED <<container, data, clock, writes, crashes>>
    BY DEF BackupCall, BackupInspect, BackupCmd, BackupRsync, BackupCopy, BackupCopied,
       BackupRsyncFails, BackupUnlink, BackupLink, env
<1> QED BY <1>1, <1>2

-----------------------------------------------------------------------------
(* What a restore gives back.                                              *)

\* What the helpers do to the rest of the call that moves.
LEMMA MoreMoves ==
    ASSUME IInv, NEW r \in Requests
    PROVE  /\ \A p : Goto(r, p) => /\ req'[r].gen = req[r].gen /\ req'[r].todo = req[r].todo
                                  /\ req'[r].seen = req[r].seen
           /\ \A p, f : NextCmd(r, p, f) => req'[r].gen = req[r].gen
<1>1. req \in [Requests -> Request] /\ req[r] \in Request
    BY DEF IInv, TypeOK
<1>2. ASSUME NEW p, Goto(r, p)
      PROVE  req'[r].gen = req[r].gen /\ req'[r].todo = req[r].todo /\ req'[r].seen = req[r].seen
    BY <1>1, <1>2 DEF Goto, Request
<1>3. ASSUME NEW p, NEW f, NextCmd(r, p, f) PROVE req'[r].gen = req[r].gen
    <2> DEFINE e == req[r].err \/ f
    <2>1. req' = [req EXCEPT ![r].pc = p, ![r].i = @ + 1, ![r].err = e, ![r].todo = {}]
        BY <1>1, <1>3 DEF NextCmd
    <2> HIDE DEF e
    <2> QED BY <1>1, <2>1 DEF Request
<1> QED BY <1>2, <1>3

\* A step by which the call neither is in a copy nor in a restore.
LEMMA GivenQuiet ==
    ASSUME GivenBack, OneCaller, NEW r \in Requests, UNCHANGED <<gens, taken>>,
           req'[r].pc \notin Restores \cup {"backup_copy"}
    PROVE  GivenBack'
<1>1. \A s \in Requests : s = r
    BY DEF OneCaller
<1>2. TakenKept'
    BY DEF GivenBack, TakenKept
<1>3. TakingOK(r)' /\ GivingOK(r)'
    BY DEF TakingOK, GivingOK, Restores
<1> QED BY <1>1, <1>2, <1>3 DEF GivenBack

\* Two trees that agree on every file are the same.
LEMMA SameTree ==
    ASSUME NEW T \in Tree, NEW U \in Tree, \A f \in Files : T[f] = U[f]
    PROVE  T = U
BY DEF Tree

\* Backup reaches its copy only through the start of an rsync.
LEMMA BackupAway ==
    ASSUME IInv, NEW r \in Requests,
           \/ BackupCall(r) \/ BackupInspect(r) \/ BackupCmd(r)
           \/ BackupRsyncFails(r) \/ BackupUnlink(r) \/ BackupLink(r)
    PROVE  req'[r].pc \notin Restores \cup {"backup_copy"}
<1>1. req \in [Requests -> Request] /\ req[r] \in Request
    BY DEF IInv, TypeOK
<1>2. CASE BackupCall(r) \/ BackupRsyncFails(r) \/ BackupUnlink(r) \/ BackupLink(r)
    <2>1. \/ \E c : Begin(r, "backup", c, "backup_inspect", None, clock)
          \/ Refuse(r, "backup", "err") \/ Goto(r, "backup_link")
          \/ NextCmd(r, "backup_cmd", TRUE) \/ NextCmd(r, "backup_cmd", FALSE)
        BY <1>2, Zenon DEF BackupCall, BackupRsyncFails, BackupUnlink, BackupLink
    <2>2. CASE \E c : Begin(r, "backup", c, "backup_inspect", None, clock)
        <3>1. req'[r].pc = "backup_inspect"
            BY <2>2, Moves
        <3> QED BY <3>1 DEF Restores
    <2>3. CASE Refuse(r, "backup", "err")
        <3>1. req'[r].pc = "idle"
            BY <2>3, Moves
        <3> QED BY <3>1 DEF Restores
    <2>4. CASE Goto(r, "backup_link") \/ NextCmd(r, "backup_cmd", TRUE) \/ NextCmd(r, "backup_cmd", FALSE)
        <3>1. req'[r].pc \in {"backup_link", "backup_cmd"}
            BY <2>4, Moves
        <3> QED BY <3>1 DEF Restores
    <2> QED BY <2>1, <2>2, <2>3, <2>4
<1>3. CASE BackupInspect(r)
    <2>1. Goto(r, "backup_cmd")
        BY <1>3 DEF BackupInspect
    <2>2. req'[r].pc = "backup_cmd"
        BY <2>1, Moves
    <2> QED BY <2>2 DEF Restores
<1>4. CASE BackupCmd(r)
    <2>1. CASE Return(r, IF req[r].err THEN "err" ELSE "ok")
        BY <2>1, Moves DEF Restores
    <2>2. CASE Goto(r, "backup_rsync") \/ NextCmd(r, "backup_cmd", FALSE)
        <3>1. req'[r].pc \in {"backup_rsync", "backup_cmd"}
            BY <2>2, Moves
        <3> QED BY <3>1 DEF Restores
    <2> QED BY <1>4, <2>1, <2>2, Zenon DEF BackupCmd
<1> QED BY <1>2, <1>3, <1>4

\* The copy of a backup.
LEMMA TakingStep ==
    ASSUME IInv, GivenBack, OneCaller, NEW r \in Requests,
           BackupRsync(r) \/ BackupCopy(r) \/ BackupCopied(r)
    PROVE  GivenBack'
<1>1. \A s \in Requests : s = r
    BY DEF OneCaller
<1>2. /\ req \in [Requests -> Request] /\ req[r] \in Request
      /\ data \in [Srcs -> Tree] /\ writes \in Nat
      /\ gens \in [Dests -> [Stamps -> Tree \cup {NoDir}]]
      /\ taken \in [Dests -> [Stamps -> Tree \cup {NoDir}]]
    BY ManagerAssumption DEF IInv, TypeOK
<1>3. PICK d0, s0, t0 : d0 = CopyOf(r).dest /\ s0 = CopyOf(r).src /\ t0 = req[r].ts
    OBVIOUS
<1>4. req[r].pc \in {"backup_rsync", "backup_copy"}
    BY DEF BackupRsync, BackupCopy, BackupCopied, At
<1>5. d0 \in Dests /\ s0 \in Srcs /\ t0 \in Stamps
    BY <1>3, <1>4, CopyingFacts DEF Copying, Backups
<1>6. UNCHANGED <<container, data, writes>>
    BY BackupLeaves
<1>7. CASE BackupRsync(r)
    <2>1. /\ req' = [req EXCEPT ![r].pc = "backup_copy", ![r].todo = Files, ![r].seen = writes]
          /\ taken' = [taken EXCEPT ![d0][t0] = NoDir]
        BY <1>3, <1>7 DEF BackupRsync
    <2>2. PICK g : g = IF gens[d0][t0] = NoDir THEN [f \in Files |-> 0] ELSE gens[d0][t0]
        OBVIOUS
    <2>3. gens' = [gens EXCEPT ![d0][t0] = g]
        BY <1>2, <1>3, <1>7, <2>2 DEF BackupRsync
    <2>4. /\ req'[r].pc = "backup_copy" /\ req'[r].todo = Files /\ req'[r].seen = writes
          /\ req'[r].ts = t0 /\ req'[r].cfg = req[r].cfg /\ req'[r].i = req[r].i
        BY <1>2, <1>3, <2>1 DEF Request
    <2>5. CopyOf(r)' = CopyOf(r)
        BY <2>4 DEF CopyOf
    <2>6. /\ taken'[d0][t0] = NoDir
          /\ \A d \in Dests, t \in Stamps : d # d0 \/ t # t0 =>
                taken'[d][t] = taken[d][t] /\ gens'[d][t] = gens[d][t]
        BY <1>2, <1>5, <2>1, <2>3
    <2>7. TakenKept'
        BY <2>6 DEF GivenBack, TakenKept
    <2>8. TakingOK(r)'
        <3>1. writes <= writes
            BY <1>2
        <3> QED BY <1>3, <1>6, <2>4, <2>5, <2>6, <3>1 DEF TakingOK
    <2>9. GivingOK(r)'
        BY <2>4 DEF GivingOK, Restores
    <2> QED BY <1>1, <2>7, <2>8, <2>9 DEF GivenBack
<1>8. CASE BackupCopy(r)
    <2>1. PICK f0 \in req[r].todo : /\ gens' = [gens EXCEPT ![d0][t0][f0] = data[s0][f0]]
                                    /\ req' = [req EXCEPT ![r].todo = @ \ {f0}]
        BY <1>3, <1>8 DEF BackupCopy
    <2>2. req[r].pc = "backup_copy" /\ taken' = taken
        BY <1>8 DEF BackupCopy, At, hist
    <2>3. f0 \in Files /\ gens[d0][t0] # NoDir
        BY <1>2, <1>3, <2>2 DEF Request, IInv, RequestOK, CopyOf
    <2>4. gens[d0][t0] \in Tree
        BY <1>2, <1>5, <2>3
    <2>5. /\ gens'[d0][t0][f0] = data[s0][f0]
          /\ \A f \in Files : f # f0 => gens'[d0][t0][f] = gens[d0][t0][f]
          /\ \A d \in Dests, t \in Stamps : d # d0 \/ t # t0 => gens'[d][t] = gens[d][t]
        BY <1>2, <1>5, <2>1, <2>3, <2>4 DEF Tree
    <2>6. /\ req'[r].pc = "backup_copy" /\ req'[r].todo = req[r].todo \ {f0}
          /\ req'[r].seen = req[r].seen /\ req'[r].ts = t0
          /\ req'[r].cfg = req[r].cfg /\ req'[r].i = req[r].i
        BY <1>2, <1>3, <2>1, <2>2 DEF Request
    <2>7. CopyOf(r)' = CopyOf(r)
        BY <2>6 DEF CopyOf
    <2>8. /\ taken[d0][t0] = NoDir /\ req[r].seen <= writes
          /\ req[r].seen = writes => \A f \in Files \ req[r].todo : gens[d0][t0][f] = data[s0][f]
        BY <1>3, <2>2 DEF GivenBack, TakingOK
    <2>9. TakenKept'
        BY <2>2, <2>5, <2>8 DEF GivenBack, TakenKept
    <2>10. ASSUME req[r].seen = writes, NEW f \in Files \ (req[r].todo \ {f0})
           PROVE  gens'[d0][t0][f] = data[s0][f]
        BY <2>5, <2>8, <2>10
    <2>11. TakingOK(r)'
        BY <1>3, <1>6, <2>2, <2>6, <2>7, <2>8, <2>10 DEF TakingOK
    <2>12. GivingOK(r)'
        BY <2>6 DEF GivingOK, Restores
    <2> QED BY <1>1, <2>9, <2>11, <2>12 DEF GivenBack
<1>9. CASE BackupCopied(r)
    <2>1. PICK g : g = IF req[r].seen = writes THEN data[s0] ELSE NoDir
        OBVIOUS
    <2>2. /\ req[r].pc = "backup_copy" /\ req[r].todo = {} /\ gens' = gens
          /\ taken' = [taken EXCEPT ![d0][t0] = g] /\ Goto(r, "backup_unlink")
        BY <1>3, <1>9, <2>1 DEF BackupCopied, At
    <2>3. gens[d0][t0] # NoDir
        BY <1>3, <2>2 DEF IInv, RequestOK, CopyOf
    <2>4. gens[d0][t0] \in Tree /\ data[s0] \in Tree
        BY <1>2, <1>5, <2>3
    <2>5. g # NoDir => gens[d0][t0] = g
        <3>1. req[r].seen = writes => \A f \in Files : gens[d0][t0][f] = data[s0][f]
            BY <1>3, <2>2 DEF GivenBack, TakingOK
        <3> QED BY <2>1, <2>4, <3>1, SameTree
    <2>6. /\ taken'[d0][t0] = g
          /\ \A d \in Dests, t \in Stamps : d # d0 \/ t # t0 => taken'[d][t] = taken[d][t]
        BY <1>2, <1>5, <2>2
    <2>7. TakenKept'
        BY <2>2, <2>5, <2>6 DEF GivenBack, TakenKept
    <2>8. req'[r].pc = "backup_unlink"
        BY <2>2, Moves
    <2>9. TakingOK(r)' /\ GivingOK(r)'
        BY <2>8 DEF TakingOK, GivingOK, Restores
    <2> QED BY <1>1, <2>7, <2>9 DEF GivenBack
<1> QED BY <1>7, <1>8, <1>9
\* What restores rely on besides the data does not change with it.
LEMMA SameTarget ==
    ASSUME UNCHANGED <<gens, latest>>, NEW d, NEW g
    PROVE  Target(d, g)' = Target(d, g)
BY DEF Target

\* A step of a restore that writes no data and passes at most one command,
\* which then is carried out or has failed.
LEMMA GivingMove ==
    ASSUME IInv, GivenBack, OneCaller, NEW r \in Requests,
           UNCHANGED <<container, data, gens, latest, taken>>,
           req[r].pc \in Restores \ {"restore_inspect"}, req'[r].pc \in Restores \ {"restore_inspect"},
           req'[r].cfg = req[r].cfg, req'[r].gen = req[r].gen,
           \/ req'[r].err
           \/ /\ ~req[r].err
              /\ \/ req'[r].i = req[r].i
                 \/ req'[r].i = req[r].i + 1 /\ Restored(CopyOf(r), req[r].gen),
           req'[r].pc = "restore_copy" =>
              /\ req'[r].i = req[r].i /\ req'[r].todo = Files
              /\ req'[r].ts = Target(CopyOf(r).dest, req[r].gen)
    PROVE  GivenBack'
<1>1. \A s \in Requests : s = r
    BY DEF OneCaller
<1>2. GivingOK(r) /\ req[r].i \in Nat
    BY DEF GivenBack, IInv, TypeOK, Request
<1>3. \A b, g : Restored(b, g)' <=> Restored(b, g)
    BY SameTarget DEF Restored
<1>4. ASSUME ~req'[r].err, NEW k \in 1 .. (req'[r].i - 1)
      PROVE  Restored(req[r].cfg.backup[k], req[r].gen)'
    <2>1. CASE k \in 1 .. (req[r].i - 1)
        BY <1>2, <1>3, <1>4, <2>1 DEF GivingOK
    <2>2. CASE k = req[r].i /\ req'[r].i = req[r].i + 1
        BY <1>2, <1>3, <1>4, <2>2 DEF CopyOf
    <2> QED BY <1>2, <1>4, <2>1, <2>2
<1>5. ~Running'
    BY <1>2 DEF GivingOK, Running
<1>6. ASSUME req'[r].pc = "restore_copy"
      PROVE  req'[r].ts = Target(CopyOf(r).dest, req[r].gen)' /\ Files \ req'[r].todo = {}
    <2>1. CopyOf(r)' = CopyOf(r)
        BY <1>6 DEF CopyOf
    <2> QED BY <1>6, <2>1, SameTarget
<1>7. GivingOK(r)'
    BY <1>4, <1>5, <1>6 DEF GivingOK
<1>8. TakenKept' /\ TakingOK(r)'
    BY DEF GivenBack, TakenKept, TakingOK, Restores
<1> QED BY <1>1, <1>7, <1>8 DEF GivenBack

LEMMA GivingStep ==
    ASSUME IInv, GivenBack, OneCaller, OwnDirectories, ~DockerFaults, NEW r \in Requests,
           \/ RestoreCall(r) \/ RestoreInspect(r) \/ RestoreCmd(r) \/ RestoreRsync(r)
           \/ RestoreCopy(r) \/ RestoreCopied(r) \/ RestoreRsyncFails(r)
    PROVE  GivenBack'
<1>1. \A s \in Requests : s = r
    BY DEF OneCaller
<1>2. /\ req \in [Requests -> Request] /\ req[r] \in Request /\ req[r].i \in Nat
      /\ data \in [Srcs -> Tree] /\ req[r].err \in BOOLEAN
      /\ gens \in [Dests -> [Stamps -> Tree \cup {NoDir}]]
    BY DEF IInv, TypeOK, Request
<1>3. UNCHANGED <<container, gens, latest, taken>>
    BY RestoreLeaves
<1>4. ASSUME req'[r].pc \notin Restores \cup {"backup_copy"} PROVE GivenBack'
    BY <1>3, <1>4, GivenQuiet
<1>5. TakenKept'
    BY <1>3 DEF GivenBack, TakenKept
<1>6. CASE RestoreCall(r)
    <2>1. PICK c, g : \/ Begin(r, "restore", c, "restore_inspect", g, None)
                      \/ Refuse(r, "restore", "err")
        BY <1>6 DEF RestoreCall
    <2>2. CASE Begin(r, "restore", c, "restore_inspect", g, None)
        <3>1. req'[r].pc = "restore_inspect" /\ req'[r].i = 1
            BY <2>2, Moves
        <3>2. TakingOK(r)' /\ GivingOK(r)'
            BY <3>1 DEF TakingOK, GivingOK
        <3> QED BY <1>1, <1>5, <3>2 DEF GivenBack
    <2>3. CASE Refuse(r, "restore", "err")
        <3>1. req'[r].pc = "idle"
            BY <2>3, Moves
        <3> QED BY <1>4, <3>1 DEF Restores
    <2> QED BY <2>1, <2>2, <2>3
<1>7. CASE RestoreInspect(r)
    <2>1. CASE Return(r, "err")
        <3>1. req'[r].pc = "idle"
            BY <2>1, Moves
        <3> QED BY <1>4, <3>1 DEF Restores
    <2>2. CASE ~Running /\ Goto(r, "restore_cmd")
        <3>1. req'[r].pc = "restore_cmd" /\ req'[r].i = req[r].i
            BY <2>2, Moves
        <3>2. req[r].pc = "restore_inspect"
            BY <1>7 DEF RestoreInspect, At
        <3>3. req'[r].i = 1
            BY <3>1, <3>2 DEF GivenBack, GivingOK
        <3>4. ~Running'
            BY <1>3, <2>2 DEF Running
        <3>5. TakingOK(r)' /\ GivingOK(r)'
            BY <3>1, <3>3, <3>4 DEF TakingOK, GivingOK
        <3> QED BY <1>1, <1>5, <3>5 DEF GivenBack
    <2> QED BY <1>7, <2>1, <2>2 DEF RestoreInspect, InspectFault
<1>8. CASE RestoreCmd(r)
    <2>1. req[r].pc = "restore_cmd" /\ UNCHANGED <<data>>
        BY <1>8 DEF RestoreCmd, At, env
    <2>2. CASE Return(r, IF req[r].err THEN "err" ELSE "ok")
        <3>1. req'[r].pc = "idle"
            BY <2>2, Moves
        <3> QED BY <1>4, <3>1 DEF Restores
    <2>3. CASE Goto(r, "restore_rsync")
        <3>1. /\ req'[r].pc = "restore_rsync" /\ req'[r].i = req[r].i /\ req'[r].cfg = req[r].cfg
              /\ req'[r].gen = req[r].gen /\ req'[r].err = req[r].err
            BY <2>3, Moves, MoreMoves
        <3> QED BY <1>2, <1>3, <2>1, <3>1, GivingMove DEF Restores
    <2>4. CASE /\ ~(IsCopy(CopyOf(r)) /\ Target(CopyOf(r).dest, req[r].gen) # None)
               /\ NextCmd(r, "restore_cmd", FALSE)
        <3>1. /\ req'[r].pc = "restore_cmd" /\ req'[r].i = req[r].i + 1 /\ req'[r].cfg = req[r].cfg
              /\ req'[r].gen = req[r].gen /\ req'[r].err = (req[r].err \/ FALSE)
            BY <2>4, Moves, MoreMoves
        <3>2. Restored(CopyOf(r), req[r].gen)
            BY <2>4 DEF Restored
        <3> QED BY <1>2, <1>3, <2>1, <3>1, <3>2, GivingMove DEF Restores
    <2> QED BY <1>8, <2>2, <2>3, <2>4, Zenon DEF RestoreCmd
<1>9. CASE RestoreRsync(r) \/ RestoreRsyncFails(r)
    <2>1. req[r].pc \in {"restore_rsync", "restore_copy"} /\ UNCHANGED <<data>>
        BY <1>9 DEF RestoreRsync, RestoreRsyncFails, At, env
    <2>2. CASE NextCmd(r, "restore_cmd", TRUE)
        <3>1. /\ req'[r].pc = "restore_cmd" /\ req'[r].cfg = req[r].cfg
              /\ req'[r].gen = req[r].gen /\ req'[r].err = (req[r].err \/ TRUE)
            BY <2>2, Moves, MoreMoves
        <3> QED BY <1>2, <1>3, <2>1, <3>1, GivingMove DEF Restores
    <2>3. PICK t0 : t0 = Target(CopyOf(r).dest, req[r].gen)
        OBVIOUS
    <2>4. CASE req' = [req EXCEPT ![r].pc = "restore_copy", ![r].ts = t0, ![r].todo = Files]
        <3>1. /\ req'[r].pc = "restore_copy" /\ req'[r].i = req[r].i /\ req'[r].cfg = req[r].cfg
              /\ req'[r].gen = req[r].gen /\ req'[r].err = req[r].err /\ req'[r].todo = Files
              /\ req'[r].ts = t0
            BY <1>2, <2>4 DEF Request
        <3> QED BY <1>2, <1>3, <2>1, <2>3, <3>1, GivingMove DEF Restores
    <2> QED BY <1>9, <2>2, <2>3, <2>4 DEF RestoreRsync, RestoreRsyncFails
<1>10. PICK d0, s0, t0 : d0 = CopyOf(r).dest /\ s0 = CopyOf(r).src /\ t0 = req[r].ts
    OBVIOUS
<1>11. ASSUME req[r].pc = "restore_copy"
       PROVE  /\ d0 \in Dests /\ s0 \in Srcs /\ t0 \in Stamps /\ CopyOf(r) \in Copies
              /\ gens[d0][t0] \in Tree /\ data[s0] \in Tree
              /\ t0 = Target(d0, req[r].gen) /\ req[r].i \in 1 .. Len(req[r].cfg.backup)
              /\ \A f \in Files \ req[r].todo : data[s0][f] = gens[d0][t0][f]
    <2>1. /\ d0 \in Dests /\ s0 \in Srcs /\ t0 \in Stamps /\ CopyOf(r) \in Copies
          /\ req[r].i >= 1 /\ req[r].i <= Len(req[r].cfg.backup)
        BY <1>10, <1>11, CopyingFacts DEF Copying
    <2>2. gens[d0][t0] # NoDir
        BY <1>10, <1>11 DEF IInv, RequestOK, CopyOf
    <2>3. /\ t0 = Target(d0, req[r].gen)
          /\ \A f \in Files \ req[r].todo : data[s0][f] = gens[d0][t0][f]
        BY <1>10, <1>11 DEF GivenBack, GivingOK
    <2>4. Len(req[r].cfg.backup) \in Nat
        BY <1>2, CfgTyped
    <2> QED BY <1>2, <2>1, <2>2, <2>3, <2>4
<1>12. CASE RestoreCopied(r)
    <2>1. /\ req[r].pc = "restore_copy" /\ req[r].todo = {} /\ UNCHANGED <<data>>
          /\ NextCmd(r, "restore_cmd", FALSE)
        BY <1>12 DEF RestoreCopied, At, env
    <2>2. data[s0] = gens[d0][t0]
        BY <1>11, <2>1, SameTree
    <2>3. Restored(CopyOf(r), req[r].gen)
        BY <1>10, <1>11, <2>1, <2>2 DEF Restored
    <2>4. /\ req'[r].pc = "restore_cmd" /\ req'[r].i = req[r].i + 1 /\ req'[r].cfg = req[r].cfg
          /\ req'[r].gen = req[r].gen /\ req'[r].err = (req[r].err \/ FALSE)
        BY <2>1, Moves, MoreMoves
    <2> QED BY <1>2, <1>3, <2>1, <2>3, <2>4, GivingMove DEF Restores
<1>13. CASE RestoreCopy(r)
    <2>1. PICK f0 \in req[r].todo : /\ data' = [data EXCEPT ![s0][f0] = gens[d0][t0][f0]]
                                    /\ req' = [req EXCEPT ![r].todo = @ \ {f0}]
        BY <1>10, <1>13 DEF RestoreCopy
    <2>2. req[r].pc = "restore_copy" /\ f0 \in Files
        BY <1>2, <1>13 DEF RestoreCopy, At, Request
    <2>3. /\ req'[r].pc = "restore_copy" /\ req'[r].todo = req[r].todo \ {f0}
          /\ req'[r].ts = t0 /\ req'[r].cfg = req[r].cfg /\ req'[r].i = req[r].i
          /\ req'[r].gen = req[r].gen /\ req'[r].err = req[r].err
        BY <1>2, <1>10, <2>1, <2>2 DEF Request
    <2>4. /\ data'[s0][f0] = gens[d0][t0][f0]
          /\ \A f \in Files : f # f0 => data'[s0][f] = data[s0][f]
          /\ \A s \in Srcs : s # s0 => data'[s] = data[s]
        BY <1>2, <1>11, <2>1, <2>2 DEF Tree
    <2>5. CopyOf(r)' = CopyOf(r)
        BY <2>3 DEF CopyOf
    <2>6. \A d, g : Target(d, g)' = Target(d, g)
        BY <1>3, SameTarget
    <2>7. ASSUME NEW k \in 1 .. (req[r].i - 1), Restored(req[r].cfg.backup[k], req[r].gen)
          PROVE  Restored(req[r].cfg.backup[k], req[r].gen)'
        <3>1. PICK b : b = req[r].cfg.backup[k]
            OBVIOUS
        <3> SUFFICES ASSUME IsCopy(b), Target(b.dest, req[r].gen) # None
                     PROVE  data'[b.src] = gens[b.dest][Target(b.dest, req[r].gen)]
            BY <1>3, <2>3, <2>6, <3>1 DEF Restored
        <3>2. /\ req[r].cfg.backup \in Seq(Cmds) /\ k \in DOMAIN req[r].cfg.backup
              /\ req[r].i \in DOMAIN req[r].cfg.backup /\ k # req[r].i
            BY <1>2, <1>11, <2>2, CfgTyped
        <3>3. b \in Copies
            BY <3>1, <3>2 DEF Cmds, IsCopy
        <3>4. b.src \in Srcs
            BY <3>3 DEF Copies
        <3>5. IsCopy(CopyOf(r))
            BY <1>11, <2>2, ManagerAssumption DEF Copies, IsCopy
        <3>6. req[r].cfg \in Configs
            <4>1. req[r].cfg \in Configs \cup {Unmanaged}
                BY <1>2 DEF Request
            <4>2. req[r].cfg # Unmanaged
                BY <3>2 DEF Unmanaged
            <4> QED BY <4>1, <4>2
        <3>7. b.src # s0
            BY <1>10, <3>1, <3>2, <3>5, <3>6 DEF OwnDirectories, CopyOf
        <3> QED BY <2>4, <2>7, <3>1, <3>4, <3>7 DEF Restored
    <2>8. ASSUME NEW f \in Files \ (req[r].todo \ {f0})
          PROVE  data'[s0][f] = gens[d0][t0][f]
        BY <1>11, <2>2, <2>4
    <2>9. /\ ~Running
          /\ ~req[r].err => \A k \in 1 .. (req[r].i - 1) : Restored(req[r].cfg.backup[k], req[r].gen)
        BY <2>2 DEF GivenBack, GivingOK, Restores
    <2>10. ~Running'
        BY <1>3, <2>9 DEF Running
    <2>11. ~req'[r].err => \A k \in 1 .. (req'[r].i - 1) : Restored(req[r].cfg.backup[k], req[r].gen)'
        BY <2>3, <2>7, <2>9
    <2>12. req'[r].ts = Target(CopyOf(r).dest, req[r].gen)'
        BY <1>10, <1>11, <2>2, <2>3, <2>5, <2>6
    <2>13. \A f \in Files \ req'[r].todo :
              data'[CopyOf(r)'.src][f] = gens'[CopyOf(r)'.dest][req'[r].ts][f]
        BY <1>3, <1>10, <2>3, <2>5, <2>8
    <2>14. GivingOK(r)'
        BY <2>3, <2>10, <2>11, <2>12, <2>13 DEF GivingOK
    <2>15. TakingOK(r)'
        BY <2>3 DEF TakingOK
    <2> QED BY <1>1, <1>5, <2>14, <2>15 DEF GivenBack
<1> QED BY <1>6, <1>7, <1>8, <1>9, <1>12, <1>13
\* What happens around the call.
LEMMA GivenAround ==
    ASSUME IInv, GivenBack, RestartPolicy = "no",
           ServerWrites \/ Daemon \/ Tick \/ Crash \/ UNCHANGED vars
    PROVE  GivenBack'
<1>1. UNCHANGED <<gens, latest, taken>>
    BY DEF ServerWrites, Daemon, Tick, Crash, vars, env, hist
<1>2. TakenKept'
    BY <1>1 DEF GivenBack, TakenKept
<1>3. CASE ServerWrites
    <2>1. Running /\ req' = req /\ writes' = writes + 1
        BY <1>3 DEF ServerWrites
    <2>2. ASSUME NEW r \in Requests PROVE TakingOK(r)' /\ GivingOK(r)'
        <3>1. req[r].seen \in Nat /\ writes \in Nat
            BY ManagerAssumption DEF IInv, TypeOK, Request
        <3>2. TakingOK(r) /\ GivingOK(r)
            BY DEF GivenBack
        <3>3. CopyOf(r)' = CopyOf(r)
            BY <2>1 DEF CopyOf
        <3>4. req[r].pc = "backup_copy" => req[r].seen <= writes
            BY <3>2 DEF TakingOK
        <3>5. req[r].pc = "backup_copy" => req[r].seen <= writes' /\ req[r].seen # writes'
            BY <2>1, <3>1, <3>4
        <3>6. TakingOK(r)'
            BY <1>1, <2>1, <3>2, <3>3, <3>5 DEF TakingOK
        <3>7. GivingOK(r)'
            BY <2>1, <3>2 DEF GivingOK, Restores
        <3> QED BY <3>6, <3>7
    <2> QED BY <1>2, <2>2 DEF GivenBack
<1>4. CASE Daemon \/ Tick \/ UNCHANGED vars
    <2>1. UNCHANGED <<req, data, writes>>
        BY <1>4 DEF Daemon, Tick, vars, env
    <2>2. Running' => Running
        BY <1>4 DEF Daemon, Tick, vars, ProcessExit, DaemonRestart, Running
    <2>3. \A d, g : Target(d, g)' = Target(d, g)
        BY <1>1, SameTarget
    <2>4. ASSUME NEW r \in Requests PROVE TakingOK(r)' /\ GivingOK(r)'
        <3>1. TakingOK(r) /\ GivingOK(r)
            BY DEF GivenBack
        <3>2. CopyOf(r)' = CopyOf(r)
            BY <2>1 DEF CopyOf
        <3>3. TakingOK(r)'
            BY <1>1, <2>1, <3>1, <3>2 DEF TakingOK
        <3>4. \A b, g : Restored(b, g)' <=> Restored(b, g)
            BY <1>1, <2>1, <2>3 DEF Restored
        <3>5. GivingOK(r)'
            BY <1>1, <2>1, <2>2, <2>3, <3>1, <3>2, <3>4 DEF GivingOK
        <3> QED BY <3>3, <3>5
    <2> QED BY <1>2, <2>4 DEF GivenBack
<1>5. CASE Crash
    <2>1. \A r \in Requests : req'[r].pc = "idle"
        BY <1>5 DEF Crash, Idle
    <2>2. \A r \in Requests : TakingOK(r)' /\ GivingOK(r)'
        BY <2>1 DEF TakingOK, GivingOK, Restores
    <2> QED BY <1>2, <2>2 DEF GivenBack
<1> QED BY <1>3, <1>4, <1>5

\* Only the end of the loop of Restore answers a call that is in it.
LEMMA RestoreEnds ==
    ASSUME IInv, Next, NEW r \in Requests, req[r].pc = "restore_cmd",
           req'[r].pc = "idle", req'[r].result = "ok"
    PROVE  req[r].i > Len(req[r].cfg.backup) /\ ~req[r].err
<1>1. RestoreCmd(r)
    <2>1. ASSUME NEW s \in Requests, Call(s) \/ Step(s) \/ StopExecExits(s)
          PROVE  RestoreCmd(r)
        <3>1. CASE s # r
            <4>1. Others(s)
                BY <2>1, BackupMoves, NotABackup, Zenon DEF Call, Step
            <4> QED BY <3>1, <4>1 DEF Others
        <3>2. CASE s = r
            <4>1. CASE \/ StartCall(r) \/ StartInspect(r) \/ StartCreate(r) \/ StartRun(r)
                       \/ StopCall(r) \/ StopCmd(r) \/ StopExecExits(r) \/ StopExecAborted(r) \/ StopDocker(r)
                       \/ KillCall(r) \/ KillStop(r) \/ KillKill(r)
                       \/ RemoveCall(r) \/ RemoveInspect(r) \/ RemoveDocker(r)
                <5>1. req[r].pc \notin Restores
                    BY <4>1, Elsewhere
                <5> QED BY <5>1 DEF Restores
            <4>2. CASE \/ BackupCall(r) \/ BackupInspect(r) \/ BackupCmd(r) \/ BackupRsync(r)
                       \/ BackupCopy(r) \/ BackupCopied(r) \/ BackupRsyncFails(r) \/ BackupUnlink(r)
                       \/ BackupLink(r)
                BY <4>2 DEF BackupCall, BackupInspect, BackupCmd, BackupRsync, BackupCopy, BackupCopied,
                    BackupRsyncFails, BackupUnlink, BackupLink, Begin, Refuse, At
            <4>3. CASE \/ RestoreCall(r) \/ RestoreInspect(r) \/ RestoreRsync(r)
                       \/ RestoreCopy(r) \/ RestoreCopied(r) \/ RestoreRsyncFails(r)
                BY <4>3 DEF RestoreCall, RestoreInspect, RestoreRsync, RestoreCopy, RestoreCopied,
                    RestoreRsyncFails, Begin, Refuse, At
            <4> QED BY <2>1, <3>2, <4>1, <4>2, <4>3, Zenon DEF Call, Step
        <3> QED BY <3>1, <3>2
    <2>2. CASE ServerWrites \/ Daemon \/ Tick
        <3>1. req' = req
            BY <2>2 DEF ServerWrites, Daemon, Tick
        <3> QED BY <3>1
    <2>3. CASE Crash
        BY <2>3 DEF Crash, Idle
    <2> QED BY <2>1, <2>2, <2>3, Zenon DEF Next
<1>2. req[r].i > Len(req[r].cfg.backup) /\ Return(r, IF req[r].err THEN "err" ELSE "ok")
    <2>1. CASE Goto(r, "restore_rsync")
        BY <2>1, Moves
    <2>2. CASE NextCmd(r, "restore_cmd", FALSE)
        BY <2>2, Moves
    <2> QED BY <1>1, <2>1, <2>2, Zenon DEF RestoreCmd
<1>3. ~req[r].err
    <2>1. CASE req[r].err
        <3>1. req'[r] = Idle("err")
            BY <1>2, <2>1, Moves
        <3>2. req'[r].result = "err"
            BY <3>1 DEF Idle
        <3> QED BY <3>2
    <2> QED BY <2>1
<1> QED BY <1>2, <1>3

\* For one caller at a time, while the daemon answers and does not start the
\* container by itself, and for configurations of which no two commands share
\* a data directory, a restore that reports success leaves every directory as
\* it was when the generation was copied, whatever rsyncs failed and wherever
\* play-bin ended before.
THEOREM GivesBack ==
    OneCaller /\ ~DockerFaults /\ RestartPolicy = "no" /\ OwnDirectories
    => (Spec => RestoreGivesBack)
<1> SUFFICES ASSUME OneCaller, ~DockerFaults, RestartPolicy = "no", OwnDirectories
             PROVE  Spec => RestoreGivesBack
    OBVIOUS
<1> DEFINE Gives == \A r \in Requests :
              At(r, "restore_cmd") /\ req'[r].pc = "idle" /\ req'[r].result = "ok"
              => \A b \in CopiesOf(req[r].cfg) :
                    LET t == Target(b.dest, req[r].gen)
                    IN  t # None /\ taken[b.dest][t] # NoDir => data[b.src] = taken[b.dest][t]
<1>1. Init => GivenBack
    <2> SUFFICES ASSUME Init PROVE GivenBack
        OBVIOUS
    <2>1. \A r \in Requests : req[r].pc = "idle"
        BY DEF Init, Idle
    <2>2. \A d \in Dests, t \in Stamps : taken[d][t] = NoDir
        BY DEF Init
    <2> QED BY <2>1, <2>2 DEF GivenBack, TakenKept, TakingOK, GivingOK, Restores
<1>2. IInv /\ GivenBack /\ [Next]_vars => GivenBack'
    <2> SUFFICES ASSUME IInv, GivenBack, [Next]_vars PROVE GivenBack'
        OBVIOUS
    <2>1. ASSUME NEW r \in Requests, Call(r) \/ Step(r) \/ StopExecExits(r) PROVE GivenBack'
        <3>1. CASE \/ StartCall(r) \/ StartInspect(r) \/ StartCreate(r) \/ StartRun(r)
                   \/ StopCall(r) \/ StopCmd(r) \/ StopExecExits(r) \/ StopExecAborted(r) \/ StopDocker(r)
                   \/ KillCall(r) \/ KillStop(r) \/ KillKill(r)
                   \/ RemoveCall(r) \/ RemoveInspect(r) \/ RemoveDocker(r)
            <4>1. UNCHANGED <<gens, taken>> /\ req'[r].pc \notin Backups \cup Restores
                BY <3>1, Elsewhere
            <4> QED BY <4>1, GivenQuiet DEF Backups
        <3>2. CASE \/ BackupCall(r) \/ BackupInspect(r) \/ BackupCmd(r)
                   \/ BackupRsyncFails(r) \/ BackupUnlink(r) \/ BackupLink(r)
            <4>1. UNCHANGED <<gens, taken>>
                BY <3>2 DEF BackupCall, BackupInspect, BackupCmd, BackupRsyncFails, BackupUnlink,
                   BackupLink, hist
            <4>2. req'[r].pc \notin Restores \cup {"backup_copy"}
                BY <3>2, BackupAway
            <4> QED BY <4>1, <4>2, GivenQuiet
        <3>3. CASE BackupRsync(r) \/ BackupCopy(r) \/ BackupCopied(r)
            BY <3>3, TakingStep
        <3>4. CASE \/ RestoreCall(r) \/ RestoreInspect(r) \/ RestoreCmd(r) \/ RestoreRsync(r)
                   \/ RestoreCopy(r) \/ RestoreCopied(r) \/ RestoreRsyncFails(r)
            BY <3>4, GivingStep
        <3> QED BY <2>1, <3>1, <3>2, <3>3, <3>4, Zenon DEF Call, Step
    <2>2. CASE ServerWrites \/ Daemon \/ Tick \/ Crash \/ UNCHANGED vars
        BY <2>2, GivenAround
    <2> QED BY <2>1, <2>2, Zenon DEF Next
<1>3. IInv /\ GivenBack /\ [Next]_vars => [Gives]_vars
    <2> SUFFICES ASSUME IInv, GivenBack, Next, NEW r \in Requests, req[r].pc = "restore_cmd",
                        req'[r].pc = "idle", req'[r].result = "ok",
                        NEW b \in CopiesOf(req[r].cfg), NEW t, t = Target(b.dest, req[r].gen),
                        t # None, taken[b.dest][t] # NoDir
                 PROVE  data[b.src] = taken[b.dest][t]
        BY DEF Gives, At
    <2>1. req[r] \in Request /\ req[r].i \in Nat /\ req[r].gen \in 0 .. LatestName
        BY DEF IInv, TypeOK, Request
    <2>2. req[r].i > Len(req[r].cfg.backup) /\ ~req[r].err
        BY RestoreEnds
    <2>3. PICK j \in DOMAIN req[r].cfg.backup : IsCopy(req[r].cfg.backup[j]) /\ b = req[r].cfg.backup[j]
        BY DEF CopiesOf
    <2>4. j \in 1 .. (req[r].i - 1) /\ b \in Cmds
        BY <2>1, <2>2, <2>3, CfgTyped
    <2>5. Restored(b, req[r].gen)
        BY <2>2, <2>3, <2>4 DEF GivenBack, GivingOK, Restores
    <2>6. data[b.src] = gens[b.dest][t]
        BY <2>3, <2>5 DEF Restored
    <2>7. b.dest \in Dests
        BY <2>3, <2>4 DEF Cmds, Copies, IsCopy
    <2>8. t \in Stamps
        BY <2>1, <2>7, ManagerAssumption DEF Target, IInv, TypeOK, Stamps, LatestName, None
    <2> QED BY <2>6, <2>7, <2>8 DEF GivenBack, TakenKept
<1> QED BY <1>1, <1>2, <1>3, Invariance, PTL DEF Spec, RestoreGivesBack, Gives
=============================================================================
