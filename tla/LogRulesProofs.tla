--------------------------- MODULE LogRulesProofs ---------------------------
(***************************************************************************)
(* Theorems about LogRules: what the cache of the rules of a file keeps,   *)
(* for any number of readers and of versions of the file.                  *)
(***************************************************************************)
EXTENDS LogRules, TLAPS

\* The types of a logRulesState and of a call, as in TypeOK.
States == [rules : 0 .. MaxFile, lastLoaded : 0 .. MaxFile]
Pcs    == {"idle", "insert", "stat", "check", "load", "commit", "return", "fallback"}
Calls  == [pc : Pcs, st : Readers \cup {NoReader}, mtime : 0 .. MaxFile, new : 0 .. MaxFile,
           floor : 0 .. MaxFile, ret : 0 .. MaxFile]

\* A call past Insert has a state object; the ModTime it saw is not from the
\* future; the rules it is about to commit decode and are no older than that.
CallOK(r) ==
    /\ rd[r].pc \notin {"idle", "insert"} => rd[r].st \in Readers
    /\ rd[r].mtime <= file
    /\ rd[r].pc = "commit" => rd[r].mtime <= rd[r].new /\ rd[r].new # Nil /\ good[rd[r].new]

\* The rules of a state object decode and are no older than its time.
StateOK(r) ==
    /\ cache[r].lastLoaded <= cache[r].rules
    /\ cache[r].rules # Nil => good[cache[r].rules]

\* The state object r made is in use.
Made(r) == cache[r] # FreshState \/ entry = r \/ \E q \in Readers : rd[q].st = r

\* A reader whose state object is in use never makes another: since the map
\* got its first entry, no call finds it empty.
MadeOnce == \A r \in Readers : Made(r) => rd[r].pc # "insert" /\ entry # NoReader

Kept == \A r \in Readers : CallOK(r) /\ StateOK(r)

IInv == TypeOK /\ Kept /\ MadeOnce

-----------------------------------------------------------------------------
\* Init establishes the inductive invariant: no file has been read yet.
LEMMA InitIInv == Init => IInv
<1> SUFFICES ASSUME Init PROVE IInv
  OBVIOUS
<1>1. TypeOK
  BY RulesAssumption DEF Init, TypeOK, FreshState, IdleCall, Nil, Versions
<1>2. Kept
  <2> SUFFICES ASSUME NEW r \in Readers PROVE CallOK(r) /\ StateOK(r)
    BY DEF Kept
  <2>1. rd[r] = IdleCall /\ cache[r] = FreshState /\ file = 1
    BY DEF Init
  <2>2. CallOK(r)
    BY <2>1 DEF CallOK, IdleCall
  <2>3. StateOK(r)
    BY <2>1 DEF StateOK, FreshState, Nil
  <2> QED
    BY <2>2, <2>3
<1>3. MadeOnce
  BY RulesAssumption DEF Init, MadeOnce, Made, IdleCall
<1> QED
  BY <1>1, <1>2, <1>3 DEF IInv

\* Every step keeps the types.
LEMMA TypeStep == IInv /\ [Next]_vars => TypeOK'
<1> SUFFICES ASSUME IInv, [Next]_vars PROVE TypeOK'
  OBVIOUS
<1> USE RulesAssumption DEF disk
<1>1. /\ file \in Nat /\ file <= MaxFile /\ file >= 1 /\ MaxFile \in Nat
      /\ entry \in Readers \cup {NoReader} /\ NoReader \notin Readers
      /\ cache \in [Readers -> States] /\ rd \in [Readers -> Calls]
  BY DEF IInv, TypeOK, Versions, States, Calls, Pcs
<1>2. ASSUME NEW r \in Readers, Reader(r) PROVE UNCHANGED disk
  BY <1>2 DEF Reader, Call, Insert, Stat, Check, Load, Commit, ReturnRules
<1>3. ASSUME NEW r \in Readers, Reader(r) PROVE rd' \in [Readers -> Calls]
  <2>1. CASE Call(r)
    <3>1. \/ rd' = [rd EXCEPT ![r].pc = "insert", ![r].st = entry, ![r].floor = file]
          \/ rd' = [rd EXCEPT ![r].pc = "stat", ![r].st = entry, ![r].floor = file]
      BY <2>1 DEF Call
    <3> QED
      BY <1>1, <3>1 DEF Calls, Pcs
  <2>2. CASE Insert(r)
    BY <1>1, <2>2 DEF Insert, Calls, Pcs
  <2>3. CASE Stat(r)
    <3>1. \/ rd' = [rd EXCEPT ![r].pc = "check", ![r].mtime = file]
          \/ rd' = [rd EXCEPT ![r].pc = "idle", ![r].ret = Nil]
      BY <2>3, Zenon DEF Stat
    <3> QED
      BY <1>1, <3>1 DEF Calls, Pcs, Nil
  <2>4. CASE Check(r)
    <3> DEFINE to == IF rd[r].mtime > cache[rd[r].st].lastLoaded THEN "load" ELSE "return"
    <3>1. to \in Pcs
      BY DEF Pcs
    <3>2. rd' = [rd EXCEPT ![r].pc = to]
      BY <2>4 DEF Check, Goto
    <3> HIDE DEF to
    <3> QED
      BY <1>1, <3>1, <3>2 DEF Calls
  <2>5. CASE Load(r)
    <3>1. \/ rd' = [rd EXCEPT ![r].pc = "commit", ![r].new = file]
          \/ rd' = [rd EXCEPT ![r].pc = "fallback"]
      BY <2>5, Zenon DEF Load
    <3> QED
      BY <1>1, <3>1 DEF Calls, Pcs
  <2>6. CASE Commit(r)
    BY <1>1, <2>6 DEF Commit, Goto, Calls, Pcs
  <2>7. CASE ReturnRules(r)
    <3>1. rd[r].st \in Readers
      BY <2>7 DEF ReturnRules, IInv, Kept, CallOK
    <3> DEFINE v == cache[rd[r].st].rules
    <3>2. v \in 0 .. MaxFile
      BY <1>1, <3>1 DEF States
    <3>3. rd' = [rd EXCEPT ![r].pc = "idle", ![r].ret = v]
      BY <2>7 DEF ReturnRules, Return
    <3> HIDE DEF v
    <3> QED
      BY <1>1, <3>2, <3>3 DEF Calls, Pcs
  <2> QED
    BY <1>3, <2>1, <2>2, <2>3, <2>4, <2>5, <2>6, <2>7 DEF Reader
<1>4. ASSUME NEW r \in Readers, Reader(r)
      PROVE  cache' \in [Readers -> States] /\ entry' \in Readers \cup {NoReader}
  <2>1. CASE Insert(r)
    BY <1>1, <2>1 DEF Insert, FreshState, States, Nil
  <2>2. CASE Commit(r)
    <3>1. rd[r].st \in Readers /\ rd[r].new \in 0 .. MaxFile /\ rd[r].mtime \in 0 .. MaxFile
      BY <1>1, <2>2 DEF Commit, IInv, Kept, CallOK, Calls
    <3> QED
      BY <1>1, <2>2, <3>1 DEF Commit, States
  <2>3. CASE Call(r) \/ Stat(r) \/ Check(r) \/ Load(r) \/ ReturnRules(r)
    BY <1>1, <2>3 DEF Call, Stat, Check, Load, ReturnRules
  <2> QED
    BY <1>4, <2>1, <2>2, <2>3 DEF Reader
<1>5. ASSUME NEW r \in Readers, Reader(r) PROVE TypeOK'
  BY <1>2, <1>3, <1>4, <1>5 DEF IInv, TypeOK, States, Calls, Pcs
<1>6. CASE Replace
  BY <1>1, <1>6 DEF Replace, IInv, TypeOK, Versions
<1>7. CASE Delete
  BY <1>7 DEF Delete, IInv, TypeOK
<1>8. CASE UNCHANGED vars
  BY <1>8 DEF vars, IInv, TypeOK
<1> QED
  BY <1>5, <1>6, <1>7, <1>8 DEF Next

\* A step of a reader keeps what its call holds: the others' calls are as they were.
LEMMA CallStep ==
    ASSUME IInv, NEW r \in Readers, Reader(r), NEW q \in Readers
    PROVE  CallOK(q)'
<1> USE RulesAssumption DEF disk
<1>1. /\ file \in Nat /\ file >= 1 /\ rd \in [Readers -> Calls]
      /\ CallOK(q) /\ CallOK(r) /\ entry \in Readers \cup {NoReader}
  BY DEF IInv, TypeOK, Versions, Calls, Pcs, Kept
<1>2. file' = file /\ good' = good
  BY DEF Reader, Call, Insert, Stat, Check, Load, Commit, ReturnRules
<1>3. CASE q # r
  <2>1. rd'[q] = rd[q]
    BY <1>1, <1>3 DEF Reader, Call, Insert, Stat, Check, Load, Commit, ReturnRules, Goto, Return
  <2> QED
    BY <1>1, <1>2, <2>1 DEF CallOK
<1>4. CASE q = r
  <2>1. CASE Call(r)
    <3>1. /\ rd'[r].pc = "insert" \/ (rd'[r].pc = "stat" /\ rd'[r].st \in Readers)
          /\ rd'[r].mtime = rd[r].mtime
      BY <1>1, <2>1 DEF Call, Calls
    <3> QED
      BY <1>1, <1>2, <1>4, <3>1 DEF CallOK
  <2>2. CASE Insert(r)
    <3>1. rd'[r].pc = "stat" /\ rd'[r].st = r /\ rd'[r].mtime = rd[r].mtime
      BY <1>1, <2>2 DEF Insert, Calls
    <3> QED
      BY <1>1, <1>2, <1>4, <3>1 DEF CallOK
  <2>3. CASE Stat(r)
    <3>1. \/ rd' = [rd EXCEPT ![r].pc = "check", ![r].mtime = file]
          \/ rd' = [rd EXCEPT ![r].pc = "idle", ![r].ret = Nil]
      BY <2>3, Zenon DEF Stat
    <3>2. /\ rd'[r].pc \in {"check", "idle"} /\ rd'[r].st = rd[r].st
          /\ rd'[r].mtime \in {file, rd[r].mtime}
      BY <1>1, <3>1 DEF Calls
    <3>3. rd[r].pc = "stat"
      BY <2>3 DEF Stat
    <3> QED
      BY <1>1, <1>2, <1>4, <3>2, <3>3 DEF CallOK, Calls
  <2>4. CASE Check(r)
    <3>1. rd[r].pc = "check" /\ \E to \in {"load", "return"} : rd' = [rd EXCEPT ![r].pc = to]
      BY <2>4, Zenon DEF Check, Goto
    <3>2. rd'[r].pc \in {"load", "return"} /\ rd'[r].st = rd[r].st /\ rd'[r].mtime = rd[r].mtime
      BY <1>1, <3>1 DEF Calls
    <3> QED
      BY <1>1, <1>2, <1>4, <3>1, <3>2 DEF CallOK
  <2>5. CASE Load(r)
    <3>1. rd[r].pc = "load" /\ rd[r].st \in Readers /\ rd[r].mtime <= file
      BY <1>1, <2>5 DEF Load, CallOK
    <3>2. CASE there /\ good[file]
      <4>1. rd' = [rd EXCEPT ![r].pc = "commit", ![r].new = file]
        BY <2>5, <3>2, Zenon DEF Load
      <4>2. rd'[r].st = rd[r].st /\ rd'[r].mtime = rd[r].mtime /\ rd'[r].new = file
        BY <1>1, <4>1 DEF Calls
      <4> QED
        BY <1>1, <1>2, <1>4, <3>1, <3>2, <4>2 DEF CallOK, Nil
    <3>3. CASE ~(there /\ good[file])
      <4>1. rd' = [rd EXCEPT ![r].pc = "fallback"]
        BY <2>5, <3>3, Zenon DEF Load
      <4>2. rd'[r].st = rd[r].st /\ rd'[r].mtime = rd[r].mtime /\ rd'[r].pc = "fallback"
        BY <1>1, <4>1 DEF Calls
      <4> QED
        BY <1>2, <1>4, <3>1, <4>2 DEF CallOK
    <3> QED
      BY <3>2, <3>3
  <2>6. CASE Commit(r)
    <3>1. /\ rd[r].pc = "commit" /\ rd'[r].pc = "return"
          /\ rd'[r].st = rd[r].st /\ rd'[r].mtime = rd[r].mtime
      BY <1>1, <2>6 DEF Commit, Goto, Calls
    <3> QED
      BY <1>1, <1>2, <1>4, <3>1 DEF CallOK
  <2>7. CASE ReturnRules(r)
    <3>1. rd'[r].pc = "idle" /\ rd'[r].mtime = rd[r].mtime
      BY <1>1, <2>7 DEF ReturnRules, Return, Calls
    <3> QED
      BY <1>1, <1>2, <1>4, <3>1 DEF CallOK
  <2> QED
    BY <2>1, <2>2, <2>3, <2>4, <2>5, <2>6, <2>7 DEF Reader
<1> QED
  BY <1>3, <1>4

\* Only Insert and Commit touch a state object: they store no rules, or those
\* of a load that came after the Stat whose time is stored.
LEMMA StateStep ==
    ASSUME IInv, NEW r \in Readers, Reader(r), NEW q \in Readers
    PROVE  StateOK(q)'
<1>1. /\ cache \in [Readers -> States] /\ rd \in [Readers -> Calls]
      /\ StateOK(q) /\ CallOK(r)
  BY DEF IInv, TypeOK, States, Calls, Pcs, Kept
<1>2. good' = good
  BY DEF Reader, Call, Insert, Stat, Check, Load, Commit, ReturnRules, disk
<1>3. CASE Insert(r)
  <2>1. cache'[q] = cache[q] \/ cache'[q] = FreshState
    BY <1>1, <1>3 DEF Insert
  <2> QED
    BY <1>1, <1>2, <2>1 DEF StateOK, FreshState, Nil
<1>4. CASE Commit(r)
  <2>1. rd[r].pc = "commit"
    BY <1>4 DEF Commit
  <2>2. cache'[q] = cache[q] \/ cache'[q] = [rules |-> rd[r].new, lastLoaded |-> rd[r].mtime]
    BY <1>1, <1>4 DEF Commit
  <2> QED
    BY <1>1, <1>2, <2>1, <2>2 DEF StateOK, CallOK
<1>5. CASE Call(r) \/ Stat(r) \/ Check(r) \/ Load(r) \/ ReturnRules(r)
  <2>1. cache' = cache
    BY <1>5 DEF Call, Stat, Check, Load, ReturnRules
  <2> QED
    BY <1>1, <1>2, <2>1 DEF StateOK
<1> QED
  BY <1>3, <1>4, <1>5 DEF Reader

\* Every step keeps what calls and state objects hold.
LEMMA KeptStep == IInv /\ [Next]_vars => Kept'
<1> SUFFICES ASSUME IInv, [Next]_vars, NEW q \in Readers PROVE CallOK(q)' /\ StateOK(q)'
  BY DEF Kept
<1>1. ASSUME NEW r \in Readers, Reader(r) PROVE CallOK(q)' /\ StateOK(q)'
  BY <1>1, CallStep, StateStep
<1>2. CASE UNCHANGED <<good, cache, rd>> /\ file' >= file
  <2>1. CallOK(q) /\ StateOK(q) /\ rd[q].mtime \in Nat /\ file \in Nat /\ file' \in Nat
    BY <1>2, TypeStep DEF IInv, Kept, TypeOK, Versions
  <2> QED
    BY <1>2, <2>1 DEF CallOK, StateOK
<1>3. CASE Replace \/ Delete \/ UNCHANGED vars
  BY <1>2, <1>3 DEF Replace, Delete, vars, IInv, TypeOK, Versions
<1> QED
  BY <1>1, <1>3 DEF Next

\* No call of a reader whose state object is in use comes to Insert again: it
\* would have to find the map empty.
LEMMA MadeOnceStep == IInv /\ [Next]_vars => MadeOnce'
<1> SUFFICES ASSUME IInv, [Next]_vars, NEW q \in Readers, Made(q)' 
             PROVE  rd'[q].pc # "insert" /\ entry' # NoReader
  BY DEF MadeOnce
<1> USE RulesAssumption DEF IInv, TypeOK, disk, MadeOnce
<1>1. ASSUME NEW r \in Readers, Call(r) PROVE rd'[q].pc # "insert" /\ entry' # NoReader
  BY <1>1 DEF Call, Made
<1>2. ASSUME NEW r \in Readers, Insert(r) PROVE rd'[q].pc # "insert" /\ entry' # NoReader
  BY <1>2 DEF Insert, Made
<1>3. ASSUME NEW r \in Readers, Stat(r) PROVE rd'[q].pc # "insert" /\ entry' # NoReader
  BY <1>3 DEF Stat, Made
<1>4. ASSUME NEW r \in Readers, Check(r) PROVE rd'[q].pc # "insert" /\ entry' # NoReader
  BY <1>4 DEF Check, Goto, Made
<1>5. ASSUME NEW r \in Readers, Load(r) PROVE rd'[q].pc # "insert" /\ entry' # NoReader
  BY <1>5 DEF Load, Made
<1>6. ASSUME NEW r \in Readers, Commit(r) PROVE rd'[q].pc # "insert" /\ entry' # NoReader
  BY <1>6 DEF Commit, Goto, Made
<1>7. ASSUME NEW r \in Readers, ReturnRules(r) PROVE rd'[q].pc # "insert" /\ entry' # NoReader
  BY <1>7 DEF ReturnRules, Return, Made
<1>8. CASE Replace
  BY <1>8 DEF Replace, Made
<1>9. CASE Delete
  BY <1>9 DEF Delete, Made
<1>10. CASE UNCHANGED vars
  BY <1>10 DEF vars, Made
<1> QED
  BY <1>1, <1>2, <1>3, <1>4, <1>5, <1>6, <1>7, <1>8, <1>9, <1>10 DEF Next, Reader

-----------------------------------------------------------------------------
\* The inductive invariant holds in every reachable state.
LEMMA Invariance == Spec => []IInv
<1>1. IInv /\ [Next]_vars => IInv'
  BY TypeStep, KeptStep, MadeOnceStep DEF IInv
<1> QED
  BY InitIInv, <1>1, PTL DEF Spec

\* Type correctness of getLogRules and its cache.
THEOREM TypeCorrect == Spec => []TypeOK
<1>1. IInv => TypeOK
  BY DEF IInv
<1> QED
  BY Invariance, <1>1, PTL

\* However the calls of getLogRules interleave with each other and with edits,
\* the rules of a state object are never older than the time kept with them.
THEOREM NoEditIsLost == Spec => []NoLostEdit
<1>1. IInv => NoLostEdit
  BY DEF IInv, Kept, StateOK, NoLostEdit
<1> QED
  BY Invariance, <1>1, PTL

\* A state object that has rules keeps having rules that decode.
THEOREM LastGoodIsKept == Spec => KeepsLastGood
<1> DEFINE Keeps == \A r \in Readers :
                      cache[r].rules # Nil => cache'[r].rules # Nil /\ good[cache'[r].rules]
<1>1. IInv /\ [Next]_vars => [Keeps]_vars
  <2> SUFFICES ASSUME IInv, Next, NEW q \in Readers, cache[q].rules # Nil
               PROVE  cache'[q].rules # Nil /\ good[cache'[q].rules]
    OBVIOUS
  <2> USE DEF IInv, TypeOK
  <2>1. ASSUME NEW r \in Readers, Insert(r) PROVE cache'[q] = cache[q]
    <3>1. Made(q)
      BY DEF Made, FreshState
    <3> QED
      BY <2>1, <3>1 DEF Insert, MadeOnce
  <2>2. ASSUME NEW r \in Readers, Commit(r)
        PROVE  cache'[q].rules # Nil /\ good[cache'[q].rules]
    BY <2>2 DEF Commit, Kept, CallOK, StateOK
  <2>3. CASE cache'[q] = cache[q]
    BY <2>3 DEF Kept, StateOK
  <2>4. ASSUME NEW r \in Readers, Call(r) \/ Stat(r) \/ Check(r) \/ Load(r) \/ ReturnRules(r)
        PROVE  cache'[q] = cache[q]
    BY <2>4 DEF Call, Stat, Check, Load, ReturnRules
  <2>5. CASE Replace \/ Delete
    BY <2>3, <2>5 DEF Replace, Delete
  <2> QED
    BY <2>1, <2>2, <2>3, <2>4, <2>5 DEF Next, Reader
<1> QED
  BY Invariance, <1>1, PTL DEF Spec, KeepsLastGood
=============================================================================
