------------------------- MODULE LoadedConfigProofs -------------------------
(***************************************************************************)
(* Proofs about LoadedConfig for any number of goroutines and edits, for   *)
(* the specification in which config.json is replaced or removed and never *)
(* rewritten in place.  With rewrites in place the properties do not hold. *)
(***************************************************************************)
EXTENDS LoadedConfig, TLAPS

\* The disk: an inode keeps the content it was made with, the path names the
\* youngest inode or nothing, and nothing is written in place.
DiskOK ==
    /\ ~writing
    /\ path \in {0, now}
    /\ \A n \in 1 .. now : path = n => inode[n].mtime = n
    /\ \A n \in 1 .. MaxNow : inode[n].content # 0 => inode[n] = [content |-> n, mtime |-> n]
    /\ \A n \in now + 1 .. MaxNow : inode[n].content = 0

\* The cache: LastLoaded belongs to the version in memory or to an earlier one.
CacheOK == lastLoaded <= cfg /\ cfg <= now

\* The lock: who reads the file holds it.
LockOK == \A t \in Threads : th[t].pc \in {"open", "decode", "fstat"} <=> writer = t

\* What a call of Get knows at its pc.  floor is the version it must reach.
ThreadOK(t) ==
    /\ th[t].floor <= now
    /\ th[t].pc = "idle" => th[t].ret >= th[t].floor
    /\ th[t].pc \in {"lock", "open"} => th[t].floor <= cfg \/ Content = now
    /\ th[t].pc = "decode" =>
         /\ th[t].fd \in 1 .. now /\ cfg <= th[t].fd
         /\ th[t].floor <= cfg \/ (inode[th[t].fd].content # 0 /\ th[t].floor <= th[t].fd)
    /\ th[t].pc = "fstat" =>
         /\ th[t].fd \in 1 .. now /\ cfg <= th[t].fd
         /\ inode[th[t].fd] = [content |-> th[t].fd, mtime |-> th[t].fd]
         /\ th[t].new = th[t].fd /\ th[t].floor <= th[t].fd
    /\ th[t].pc = "reread" => th[t].floor <= cfg

\* The inductive invariant.
IInv == TypeOK /\ DiskOK /\ CacheOK /\ LockOK /\ \A t \in Threads : ThreadOK(t)

-----------------------------------------------------------------------------

\* The state after the Reload of main satisfies the invariant.
LEMMA InitIInv == Init => IInv
<1> SUFFICES ASSUME Init PROVE IInv
    OBVIOUS
<1>1. MaxNow \in Nat /\ MaxNow >= 1 /\ 0 \in Ticks /\ 1 \in Ticks
    BY ConfigAssumption DEF Ticks
<1>2. PICK c \in {0, 1} :
        /\ inode = [n \in 1 .. MaxNow |-> IF n = 1 THEN [content |-> c, mtime |-> 1]
                                          ELSE [content |-> 0, mtime |-> 0]]
        /\ cfg = c /\ lastLoaded \in {0, c}
    BY DEF Init
<1>3. inode \in [1 .. MaxNow -> [content : Ticks, mtime : Ticks]]
    BY <1>1, <1>2
<1>4. th \in [Threads -> Thread]
    BY <1>1 DEF Init, Thread, Pcs
<1>5. TypeOK
    <2>1. now \in 1 .. MaxNow /\ path \in Ticks /\ cfg \in Ticks /\ lastLoaded \in 0 .. now
        BY <1>1, <1>2 DEF Init
    <2>2. writing \in BOOLEAN /\ writer \in Threads \cup {NoThread}
        BY DEF Init
    <2> QED BY <1>3, <1>4, <2>1, <2>2 DEF TypeOK
<1>6. DiskOK
    BY <1>1, <1>2 DEF Init, DiskOK
<1>7. CacheOK
    BY <1>2 DEF Init, CacheOK
<1>8. LockOK /\ \A t \in Threads : ThreadOK(t)
    BY ConfigAssumption DEF Init, LockOK, ThreadOK
<1> QED BY <1>5, <1>6, <1>7, <1>8 DEF IInv

\* What is on disk when it decodes is the youngest inode.
LEMMA ContentIsNow ==
    ASSUME IInv
    PROVE  /\ now \in Nat /\ now >= 1 /\ cfg \in Nat
           /\ Content = 0 \/ (path = now /\ Content = now /\ inode[path] = [content |-> now, mtime |-> now])
           /\ Exists => path = now /\ inode[path].mtime = now
BY ConfigAssumption DEF IInv, TypeOK, DiskOK, CacheOK, Content, Exists, Ticks

\* A step of goroutine t that leaves the disk and the cache alone.
LEMMA ThreadStep ==
    ASSUME IInv, NEW t \in Threads, NEW q \in Thread, th' = [th EXCEPT ![t] = q],
           UNCHANGED <<now, path, inode, writing, cfg, lastLoaded>>,
           writer' \in Threads \cup {NoThread}, LockOK', ThreadOK(t)'
    PROVE  IInv'
<1>1. th' \in [Threads -> Thread]
    BY DEF IInv, TypeOK
<1>2. TypeOK' /\ DiskOK' /\ CacheOK'
    BY <1>1 DEF IInv, TypeOK, DiskOK, CacheOK
<1>3. ASSUME NEW s \in Threads, s # t PROVE ThreadOK(s)'
    <2>1. th'[s] = th[s] /\ ThreadOK(s)
        BY <1>3 DEF IInv, TypeOK
    <2> QED BY <2>1 DEF ThreadOK, Content, Exists
<1> QED BY <1>2, <1>3 DEF IInv

\* The steps of Get and Reload up to the decoding change the calling thread
\* and the lock only, and keep the invariant.
LEMMA GetPreserves ==
    ASSUME IInv, NEW t \in Threads,
           GetStat(t) \/ Lock(t) \/ Open(t) \/ Decode(t) \/ Reread(t)
    PROVE  IInv'
<1>0. /\ th \in [Threads -> Thread] /\ th[t] \in Thread /\ ThreadOK(t) /\ LockOK
      /\ cfg \in Ticks /\ lastLoaded \in 0 .. now /\ lastLoaded <= cfg /\ path \in Ticks /\ cfg <= now
      /\ inode \in [1 .. MaxNow -> [content : Ticks, mtime : Ticks]]
      /\ now \in 1 .. MaxNow /\ MaxNow \in Nat
    BY ConfigAssumption DEF IInv, TypeOK, CacheOK
<1>1. Content \in Ticks
    BY <1>0, ConfigAssumption DEF Content, Exists, Ticks
<1>2. CASE GetStat(t)
    <2>1. CASE Exists /\ inode[path].mtime > lastLoaded
        <3> DEFINE q == [th[t] EXCEPT !.pc = "lock", !.floor = Content]
        <3>1. q \in Thread /\ th' = [th EXCEPT ![t] = q]
            BY <1>0, <1>1, <1>2, <2>1 DEF GetStat, Thread, Pcs
        <3>2. UNCHANGED <<now, path, inode, writing, cfg, lastLoaded, writer>>
            BY <1>2 DEF GetStat, disk
        <3>3. th'[t].pc = "lock" /\ th'[t].floor = Content
            BY <1>0, <3>1 DEF Thread
        <3>4. ThreadOK(t)'
            BY <1>0, <3>2, <3>3, ContentIsNow DEF ThreadOK, Content, Exists
        <3>5. LockOK'
            BY <1>0, <1>2, <3>1, <3>2, <3>3, ConfigAssumption DEF LockOK, GetStat
        <3> HIDE DEF q
        <3> QED BY <1>0, <3>1, <3>2, <3>4, <3>5, ThreadStep DEF IInv, TypeOK
    <2>2. CASE ~(Exists /\ inode[path].mtime > lastLoaded)
        <3> DEFINE q == [th[t] EXCEPT !.ret = cfg, !.floor = Content]
        <3>1. q \in Thread /\ th' = [th EXCEPT ![t] = q]
            BY <1>0, <1>1, <1>2, <2>2 DEF GetStat, Thread
        <3>2. UNCHANGED <<now, path, inode, writing, cfg, lastLoaded, writer>>
            BY <1>2 DEF GetStat, disk
        <3>3. th'[t].pc = "idle" /\ th'[t].ret = cfg /\ th'[t].floor = Content
            BY <1>0, <1>2, <3>1 DEF GetStat, Thread
        <3>4. Content <= cfg /\ Content <= now
            BY <1>0, <2>2, ContentIsNow DEF Content
        <3>5. ThreadOK(t)'
            BY <1>0, <1>1, <3>2, <3>3, <3>4 DEF ThreadOK, Ticks
        <3>6. LockOK'
            BY <1>0, <1>2, <3>1, <3>2, <3>3, ConfigAssumption DEF LockOK, GetStat
        <3> HIDE DEF q
        <3> QED BY <1>0, <3>1, <3>2, <3>5, <3>6, ThreadStep DEF IInv, TypeOK
    <2> QED BY <2>1, <2>2
<1>3. CASE Lock(t)
    <2> DEFINE q == [th[t] EXCEPT !.pc = "open"]
    <2>1. q \in Thread /\ th' = [th EXCEPT ![t] = q]
        BY <1>0, <1>3 DEF Lock, Thread, Pcs
    <2>2. UNCHANGED <<now, path, inode, writing, cfg, lastLoaded>> /\ writer' = t /\ writer = NoThread
        BY <1>3 DEF Lock, disk
    <2>3. th'[t].pc = "open" /\ th'[t].floor = th[t].floor /\ th[t].pc = "lock"
        BY <1>0, <1>3, <2>1 DEF Thread, Lock
    <2>4. ThreadOK(t)'
        BY <1>0, <2>2, <2>3 DEF ThreadOK, Content, Exists
    <2>5. LockOK'
        BY <1>0, <2>1, <2>2, <2>3, ConfigAssumption DEF LockOK
    <2> HIDE DEF q
    <2> QED BY <2>1, <2>2, <2>4, <2>5, ThreadStep
<1>4. CASE Open(t)
    <2>0. th[t].pc = "open" /\ writer = t
        BY <1>0, <1>4 DEF Open, LockOK
    <2>1. CASE Exists
        <3> DEFINE q == [th[t] EXCEPT !.pc = "decode", !.fd = path]
        <3>1. q \in Thread /\ th' = [th EXCEPT ![t] = q]
            BY <1>0, <1>4, <2>1 DEF Open, Thread, Pcs
        <3>2. UNCHANGED <<now, path, inode, writing, cfg, lastLoaded, writer>>
            BY <1>4, <2>1 DEF Open, disk
        <3>3. th'[t].pc = "decode" /\ th'[t].fd = path /\ th'[t].floor = th[t].floor
            BY <1>0, <3>1 DEF Thread
        <3>4. path = now /\ (th[t].floor <= cfg \/ Content = now) /\ th[t].floor <= now
            BY <1>0, <2>0, <2>1, ContentIsNow DEF ThreadOK
        <3>5. ThreadOK(t)'
            BY <1>0, <2>1, <3>2, <3>3, <3>4 DEF ThreadOK, Content, Exists
        <3>6. LockOK'
            BY <1>0, <2>0, <3>1, <3>2, <3>3 DEF LockOK
        <3> HIDE DEF q
        <3> QED BY <2>0, <3>1, <3>2, <3>5, <3>6, ThreadStep
    <2>2. CASE ~Exists
        <3> DEFINE q == [th[t] EXCEPT !.pc = "reread"]
        <3>1. q \in Thread /\ th' = [th EXCEPT ![t] = q]
            BY <1>0, <1>4, <2>2 DEF Open, Thread, Pcs
        <3>2. UNCHANGED <<now, path, inode, writing, cfg, lastLoaded>> /\ writer' = NoThread
            BY <1>4, <2>2 DEF Open, disk
        <3>3. th'[t].pc = "reread" /\ th'[t].floor = th[t].floor
            BY <1>0, <3>1 DEF Thread
        <3>4. th[t].floor <= cfg /\ th[t].floor <= now
            BY <1>0, <2>0, <2>2 DEF ThreadOK, Content
        <3>5. ThreadOK(t)'
            BY <3>2, <3>3, <3>4 DEF ThreadOK
        <3>6. LockOK'
            BY <1>0, <2>0, <3>1, <3>2, <3>3, ConfigAssumption DEF LockOK
        <3> HIDE DEF q
        <3> QED BY <3>1, <3>2, <3>5, <3>6, ThreadStep
    <2> QED BY <2>1, <2>2
<1>5. CASE Decode(t)
    <2>0. /\ th[t].pc = "decode" /\ writer = t /\ th[t].fd \in 1 .. now /\ cfg <= th[t].fd
          /\ th[t].floor <= now
          /\ th[t].floor <= cfg \/ (inode[th[t].fd].content # 0 /\ th[t].floor <= th[t].fd)
        BY <1>0, <1>5 DEF Decode, LockOK, ThreadOK
    <2>1. CASE inode[th[t].fd].content # 0
        <3> DEFINE q == [th[t] EXCEPT !.pc = "fstat", !.new = inode[th[t].fd].content]
        <3>0. inode[th[t].fd] = [content |-> th[t].fd, mtime |-> th[t].fd] /\ inode[th[t].fd].content = th[t].fd
            <4>1. th[t].fd \in 1 .. MaxNow
                BY <1>0, <2>0
            <4> QED BY <2>1, <4>1 DEF IInv, DiskOK
        <3>1. q \in Thread /\ th' = [th EXCEPT ![t] = q]
            BY <1>0, <1>5, <2>0, <2>1, <3>0 DEF Decode, Thread, Pcs
        <3>2. UNCHANGED <<now, path, inode, writing, cfg, lastLoaded, writer>>
            BY <1>5, <2>1 DEF Decode, disk
        <3>3. /\ th'[t].pc = "fstat" /\ th'[t].fd = th[t].fd /\ th'[t].floor = th[t].floor
              /\ th'[t].new = th[t].fd
            BY <1>0, <3>0, <3>1 DEF Thread
        <3>4. th[t].floor <= th[t].fd
            BY <1>0, <2>0 DEF Thread, Ticks
        <3>5. ThreadOK(t)'
            BY <2>0, <3>0, <3>2, <3>3, <3>4 DEF ThreadOK
        <3>6. LockOK'
            BY <1>0, <2>0, <3>1, <3>2, <3>3 DEF LockOK
        <3> HIDE DEF q
        <3> QED BY <2>0, <3>1, <3>2, <3>5, <3>6, ThreadStep
    <2>2. CASE inode[th[t].fd].content = 0
        <3> DEFINE q == [th[t] EXCEPT !.pc = "reread"]
        <3>1. q \in Thread /\ th' = [th EXCEPT ![t] = q]
            BY <1>0, <1>5, <2>2 DEF Decode, Thread, Pcs
        <3>2. UNCHANGED <<now, path, inode, writing, cfg, lastLoaded>> /\ writer' = NoThread
            BY <1>5, <2>2 DEF Decode, disk
        <3>3. th'[t].pc = "reread" /\ th'[t].floor = th[t].floor
            BY <1>0, <3>1 DEF Thread
        <3>4. ThreadOK(t)'
            BY <2>0, <2>2, <3>2, <3>3 DEF ThreadOK
        <3>5. LockOK'
            BY <1>0, <2>0, <3>1, <3>2, <3>3, ConfigAssumption DEF LockOK
        <3> HIDE DEF q
        <3> QED BY <3>1, <3>2, <3>4, <3>5, ThreadStep
    <2> QED BY <2>1, <2>2
<1>6. CASE Reread(t)
    <2> DEFINE q == [th[t] EXCEPT !.pc = "idle", !.ret = cfg]
    <2>1. q \in Thread /\ th' = [th EXCEPT ![t] = q]
        BY <1>0, <1>6 DEF Reread, Thread, Pcs
    <2>2. UNCHANGED <<now, path, inode, writing, cfg, lastLoaded, writer>> /\ writer = NoThread
        BY <1>6 DEF Reread, disk
    <2>3. th'[t].pc = "idle" /\ th'[t].ret = cfg /\ th'[t].floor = th[t].floor /\ th[t].pc = "reread"
        BY <1>0, <1>6, <2>1 DEF Thread, Reread
    <2>4. th[t].floor <= cfg /\ th[t].floor <= now
        BY <1>0, <2>3 DEF ThreadOK
    <2>5. ThreadOK(t)'
        BY <1>0, <2>2, <2>3, <2>4 DEF ThreadOK, Thread, Ticks
    <2>6. LockOK'
        BY <1>0, <2>1, <2>2, <2>3, ConfigAssumption DEF LockOK
    <2> HIDE DEF q
    <2> QED BY <2>1, <2>2, <2>5, <2>6, ThreadStep DEF IInv, TypeOK
<1> QED BY <1>2, <1>3, <1>4, <1>5, <1>6

\* The commit of Reload, which sets Config and, unless f.Stat fails, LastLoaded,
\* keeps the invariant: the inode that was decoded still has the time it was
\* made with.
LEMMA FstatPreserves ==
    ASSUME IInv, NEW t \in Threads, Fstat(t) \/ FstatFails(t)
    PROVE  IInv' /\ cfg' >= cfg /\ lastLoaded' \in {cfg', lastLoaded} /\ cfg' <= now /\ cfg' \in Nat
<1>0. /\ th \in [Threads -> Thread] /\ th[t] \in Thread /\ LockOK
      /\ \A s \in Threads : ThreadOK(s) /\ th[s] \in Thread
      /\ cfg \in Ticks /\ now \in 1 .. MaxNow /\ MaxNow \in Nat
      /\ lastLoaded \in 0 .. now /\ lastLoaded <= cfg
    BY ConfigAssumption DEF IInv, TypeOK, CacheOK
<1>1. /\ th[t].fd \in 1 .. now /\ cfg <= th[t].fd /\ th[t].new = th[t].fd
      /\ inode[th[t].fd].mtime = th[t].fd /\ th[t].floor <= th[t].fd /\ th[t].pc = "fstat"
    <2>1. th[t].pc = "fstat" /\ ThreadOK(t)
        BY <1>0 DEF Fstat, FstatFails
    <2>2. /\ th[t].fd \in 1 .. now /\ cfg <= th[t].fd /\ th[t].new = th[t].fd
          /\ inode[th[t].fd] = [content |-> th[t].fd, mtime |-> th[t].fd]
          /\ th[t].floor <= th[t].fd
        BY <2>1 DEF ThreadOK
    <2> QED BY <2>1, <2>2
<1>2. writer = t
    BY <1>0, <1>1 DEF LockOK
<1>3. /\ cfg' = th[t].fd /\ lastLoaded' \in {th[t].fd, lastLoaded} /\ writer' = NoThread
      /\ UNCHANGED <<now, path, inode, writing>>
    BY <1>1 DEF Fstat, FstatFails, disk
<1> DEFINE q == [th[t] EXCEPT !.pc = "reread"]
<1>4. q \in Thread /\ th' = [th EXCEPT ![t] = q]
    BY <1>0 DEF Fstat, FstatFails, Thread, Pcs
<1>5. th'[t].pc = "reread" /\ th'[t].floor = th[t].floor
    BY <1>0, <1>4 DEF Thread
<1> HIDE DEF q
<1>6. TypeOK'
    BY <1>0, <1>1, <1>3, <1>4 DEF IInv, TypeOK, Ticks
<1>7. DiskOK' /\ CacheOK'
    <2>1. DiskOK'
        BY <1>3 DEF IInv, DiskOK
    <2>2. CacheOK'
        BY <1>0, <1>1, <1>3 DEF CacheOK, Ticks
    <2> QED BY <2>1, <2>2
<1>8. LockOK'
    BY <1>0, <1>2, <1>3, <1>4, <1>5, ConfigAssumption DEF LockOK
<1>9. ASSUME NEW s \in Threads PROVE ThreadOK(s)'
    <2>1. CASE s = t
        BY <1>0, <1>1, <1>3, <1>5, <2>1 DEF ThreadOK
    <2>2. CASE s # t
        <3>1. th'[s] = th[s] /\ th[s].pc \notin {"open", "decode", "fstat"}
            BY <1>0, <1>2, <1>4, <2>2 DEF LockOK
        <3>2. ThreadOK(s) /\ th[s].floor \in Nat
            BY <1>0 DEF Thread, Ticks
        <3> QED BY <1>0, <1>1, <1>3, <3>1, <3>2 DEF ThreadOK, Content, Exists, Ticks
    <2> QED BY <2>1, <2>2
<1>10. cfg' >= cfg /\ lastLoaded' \in {cfg', lastLoaded} /\ cfg' <= now /\ cfg' \in Nat
    BY <1>0, <1>1, <1>3 DEF Ticks
<1> QED BY <1>6, <1>7, <1>8, <1>9, <1>10 DEF IInv

\* Replacing, breaking and removing config.json keep the invariant.
LEMMA EditPreserves ==
    ASSUME IInv, Rename \/ RenameBroken \/ Delete
    PROVE  IInv' /\ now' = now + 1 /\ UNCHANGED <<cfg, lastLoaded>>
<1>0. /\ th \in [Threads -> Thread] /\ LockOK
      /\ \A s \in Threads : ThreadOK(s) /\ th[s] \in Thread
      /\ cfg \in Ticks /\ lastLoaded \in 0 .. now /\ lastLoaded <= cfg /\ cfg <= now
      /\ now \in 1 .. MaxNow /\ MaxNow \in Nat /\ 0 \in Ticks
      /\ inode \in [1 .. MaxNow -> [content : Ticks, mtime : Ticks]]
    BY ConfigAssumption DEF IInv, TypeOK, CacheOK, Ticks
<1>2. /\ now < MaxNow /\ now' = now + 1 /\ now + 1 \in 1 .. MaxNow /\ now + 1 \in Ticks
      /\ UNCHANGED <<writing, cfg, lastLoaded, writer>>
    BY <1>0 DEF Rename, RenameBroken, Delete, Ticks
<1>3. ASSUME NEW s \in Threads, th'[s] \in Thread, th'[s].pc = th[s].pc, th'[s].fd = th[s].fd,
             th'[s].new = th[s].new, th'[s].ret = th[s].ret,
             \A n \in 1 .. now : inode'[n] = inode[n],
             \/ th'[s].floor = 0
             \/ th'[s].floor = th[s].floor /\ Content' = now'
      PROVE  ThreadOK(s)'
    <2>1. ThreadOK(s) /\ th[s].floor \in Nat /\ th[s].ret \in Nat /\ th[s].fd \in Nat /\ cfg \in Nat
        BY <1>0 DEF Thread, Ticks
    <2> QED BY <1>0, <1>2, <1>3, <2>1 DEF ThreadOK
<1>4. CASE Rename
    <2>1. /\ path' = now + 1 /\ th' = th
          /\ inode' = [inode EXCEPT ![now + 1] = [content |-> now + 1, mtime |-> now + 1]]
        BY <1>4 DEF Rename
    <2>2. /\ inode' \in [1 .. MaxNow -> [content : Ticks, mtime : Ticks]]
          /\ inode'[now + 1] = [content |-> now + 1, mtime |-> now + 1]
          /\ \A n \in 1 .. now : inode'[n] = inode[n]
        BY <1>0, <1>2, <2>1
    <2>3. Content' = now'
        BY <1>0, <1>2, <2>1, <2>2 DEF Content, Exists
    <2>4. TypeOK'
        BY <1>0, <1>2, <2>1, <2>2 DEF IInv, TypeOK, Ticks
    <2>5. DiskOK'
        BY <1>0, <1>2, <2>1, <2>2 DEF IInv, DiskOK
    <2>6. CacheOK' /\ LockOK'
        BY <1>0, <1>2, <2>1 DEF CacheOK, LockOK, Ticks
    <2>7. \A s \in Threads : ThreadOK(s)'
        BY <1>0, <1>3, <2>1, <2>2, <2>3
    <2> QED BY <1>2, <2>4, <2>5, <2>6, <2>7 DEF IInv
<1>5. CASE RenameBroken \/ Delete
    <2>1. /\ path' = now + 1 \/ path' = 0
          /\ th' = [t \in Threads |-> [th[t] EXCEPT !.floor = 0]]
          /\ \/ inode' = inode /\ path' = 0
             \/ inode' = [inode EXCEPT ![now + 1] = [content |-> 0, mtime |-> now + 1]]
        BY <1>5 DEF RenameBroken, Delete, NoPromise
    <2>2. /\ inode' \in [1 .. MaxNow -> [content : Ticks, mtime : Ticks]]
          /\ \A n \in 1 .. now : inode'[n] = inode[n]
        <3>1. CASE inode' = inode
            BY <1>0, <3>1
        <3>2. CASE inode' = [inode EXCEPT ![now + 1] = [content |-> 0, mtime |-> now + 1]]
            <4>1. [content |-> 0, mtime |-> now + 1] \in [content : Ticks, mtime : Ticks]
                BY <1>0, <1>2
            <4> QED BY <1>0, <1>2, <3>2, <4>1
        <3> QED BY <2>1, <3>1, <3>2
    <2>3. \A s \in Threads : /\ th'[s] \in Thread /\ th'[s].pc = th[s].pc /\ th'[s].fd = th[s].fd
                             /\ th'[s].new = th[s].new /\ th'[s].ret = th[s].ret /\ th'[s].floor = 0
        BY <1>0, <2>1 DEF Thread
    <2>4. th' \in [Threads -> Thread]
        BY <2>1, <2>3
    <2>5. TypeOK'
        BY <1>0, <1>2, <2>1, <2>2, <2>4 DEF IInv, TypeOK, Ticks
    <2>6. DiskOK'
        <3>0. DiskOK
            BY DEF IInv
        <3>1. CASE inode' = inode /\ path' = 0
            BY <1>0, <1>2, <3>0, <3>1 DEF DiskOK
        <3>2. CASE inode' = [inode EXCEPT ![now + 1] = [content |-> 0, mtime |-> now + 1]]
            <4>1. inode'[now + 1] = [content |-> 0, mtime |-> now + 1]
                BY <1>0, <1>2, <3>2
            <4>2. \A n \in 1 .. MaxNow : n # now + 1 => inode'[n] = inode[n]
                BY <1>0, <3>2
            <4>3. path' \in {0, now'} /\ ~writing'
                BY <1>2, <2>1, <3>0 DEF DiskOK
            <4>4. \A n \in 1 .. now' : path' = n => inode'[n].mtime = n
                BY <1>0, <1>2, <4>1, <4>3
            <4>5. \A n \in 1 .. MaxNow : inode'[n].content # 0 => inode'[n] = [content |-> n, mtime |-> n]
                BY <3>0, <4>1, <4>2 DEF DiskOK
            <4>6. \A n \in now' + 1 .. MaxNow : inode'[n].content = 0
                BY <1>0, <1>2, <3>0, <4>2 DEF DiskOK
            <4> QED BY <4>3, <4>4, <4>5, <4>6 DEF DiskOK
        <3> QED BY <2>1, <3>1, <3>2
    <2>7. CacheOK' /\ LockOK'
        BY <1>0, <1>2, <2>3 DEF CacheOK, LockOK, Ticks
    <2>8. \A s \in Threads : ThreadOK(s)'
        BY <1>3, <2>2, <2>3
    <2> QED BY <1>2, <2>5, <2>6, <2>7, <2>8 DEF IInv
<1> QED BY <1>4, <1>5

\* Every step keeps the invariant.
LEMMA NextIInv == IInv /\ [Next]_vars => IInv'
<1> SUFFICES ASSUME IInv, [Next]_vars PROVE IInv'
    OBVIOUS
<1>1. ASSUME NEW t \in Threads, GetStat(t) \/ GetStep(t) PROVE IInv'
    BY <1>1, GetPreserves, FstatPreserves DEF GetStep
<1>2. CASE Rename \/ RenameBroken \/ Delete
    BY <1>2, EditPreserves
<1>3. CASE UNCHANGED vars
    BY <1>3 DEF vars, IInv, TypeOK, DiskOK, CacheOK, LockOK, ThreadOK, Content, Exists
<1> QED BY <1>1, <1>2, <1>3 DEF Next

\* The invariant on disk, cache, lock and calls of Get holds in every state.
LEMMA Invariance == Spec => []IInv
<1>1. IInv /\ [Next]_vars => IInv'
    BY NextIInv
<1> QED BY <1>1, InitIInv, PTL DEF Spec

\* Every variable of the cache, its readers and the file keeps its type.
THEOREM TypeCorrect == Spec => []TypeOK
<1>1. IInv => TypeOK
    BY DEF IInv
<1>2. Spec => []IInv
    BY Invariance
<1> QED BY <1>1, <1>2, PTL

\* Get never takes a file it has not loaded for one it has: for any number of
\* goroutines, any interleaving of their reloads with edits by rename, with
\* broken edits and with deletions.
THEOREM NoUpdateIsLost == Spec => []NoLostUpdate
<1>1. IInv => NoLostUpdate
    <2> SUFFICES ASSUME IInv, Content # 0, ~(inode[path].mtime > lastLoaded) PROVE cfg = Content
        BY DEF NoLostUpdate
    <2>1. Content = now /\ inode[path].mtime = now /\ now \in Nat /\ cfg \in Nat
        BY ContentIsNow
    <2>2. lastLoaded \in 0 .. now /\ lastLoaded <= cfg /\ cfg <= now
        BY DEF IInv, TypeOK, CacheOK
    <2> QED BY <2>1, <2>2
<1>2. Spec => []IInv
    BY Invariance
<1> QED BY <1>1, <1>2, PTL

\* A Get returns at least the version that was on disk when it was called.
THEOREM GetIsFresh == Spec => []Freshness
<1>1. IInv => Freshness
    BY DEF IInv, ThreadOK, Freshness
<1>2. Spec => []IInv
    BY Invariance
<1> QED BY <1>1, <1>2, PTL

\* What a step does to the cache.
LEMMA CacheStep ==
    ASSUME IInv, Next
    PROVE  \/ now' = now + 1 /\ UNCHANGED <<cfg, lastLoaded>>
           \/ UNCHANGED <<now, cfg, lastLoaded>>
           \/ /\ now' = now /\ cfg' >= cfg /\ lastLoaded' \in {cfg', lastLoaded} /\ cfg' <= now
              /\ cfg' \in Nat
<1>1. ASSUME NEW t \in Threads, GetStat(t) \/ Lock(t) \/ Open(t) \/ Decode(t) \/ Reread(t)
      PROVE  UNCHANGED <<now, cfg, lastLoaded>>
    BY <1>1 DEF GetStat, Lock, Open, Decode, Reread, disk
<1>2. ASSUME NEW t \in Threads, Fstat(t) \/ FstatFails(t)
      PROVE  /\ now' = now /\ cfg' >= cfg /\ lastLoaded' \in {cfg', lastLoaded}
             /\ cfg' <= now /\ cfg' \in Nat
    BY <1>2, FstatPreserves DEF Fstat, FstatFails, disk
<1>3. CASE Rename \/ RenameBroken \/ Delete
    BY <1>3, EditPreserves
<1> QED BY <1>1, <1>2, <1>3 DEF Next, GetStep

\* Reloads that overlap never put an older configuration over a newer one.
THEOREM OnlyForward == Spec => Forward
<1>1. IInv /\ [Next]_vars => [cfg' >= cfg /\ lastLoaded' >= lastLoaded]_vars
    <2> SUFFICES ASSUME IInv, [Next]_vars PROVE [cfg' >= cfg /\ lastLoaded' >= lastLoaded]_vars
        OBVIOUS
    <2>1. cfg \in Nat /\ lastLoaded \in 0 .. now /\ lastLoaded <= cfg
        BY ContentIsNow DEF IInv, TypeOK, CacheOK
    <2>2. CASE Next
        BY <2>1, <2>2, CacheStep
    <2> QED BY <2>2
<1>2. Spec => []IInv
    BY Invariance
<1> QED BY <1>1, <1>2, PTL DEF Spec, Forward

\* The cache, with its locks and its three separate looks at the file,
\* implements the atomic ConfigSource, also when f.Stat fails.
THEOREM Refinement == Spec => ImplementsSource
<1>1. Init => Source!SourceInit
    BY DEF Init, Source!SourceInit
<1>2. IInv /\ [Next]_vars => [Source!Edit \/ Source!Load]_Source!source
    <2> SUFFICES ASSUME IInv, [Next]_vars PROVE [Source!Edit \/ Source!Load]_Source!source
        OBVIOUS
    <2>1. cfg \in Nat /\ now \in Nat
        BY ContentIsNow
    <2>2. CASE UNCHANGED vars
        BY <2>2 DEF vars, Source!source
    <2>3. CASE Next
        <3>1. CASE now' = now + 1 /\ UNCHANGED <<cfg, lastLoaded>>
            BY <3>1 DEF Source!Edit
        <3>2. CASE UNCHANGED <<now, cfg, lastLoaded>>
            BY <3>2 DEF Source!source
        <3>3. CASE /\ now' = now /\ cfg' >= cfg /\ lastLoaded' \in {cfg', lastLoaded}
                   /\ cfg' <= now /\ cfg' \in Nat
            <4>1. cfg' \in cfg .. now
                BY <2>1, <3>3
            <4> QED BY <3>3, <4>1 DEF Source!Load
        <3> QED BY <2>3, <3>1, <3>2, <3>3, CacheStep
    <2> QED BY <2>2, <2>3
<1>3. Spec => []IInv
    BY Invariance
<1> QED BY <1>1, <1>2, <1>3, PTL DEF Spec, ImplementsSource, Source!SourceSpec
=============================================================================
