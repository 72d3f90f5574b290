------------------------- MODULE LogForwarderProofs -------------------------
(***************************************************************************)
(* Theorems about LogForwarder, for any number of servers and goroutines:  *)
(* no goroutine is out of control and no line is posted twice, although a  *)
(* cancelled goroutine may still be posting next to its successor.         *)
(***************************************************************************)
EXTENDS LogForwarder, TLAPS

\* The type of a goroutine, as in TypeOK.
TailPcs == {"none", "loop", "inspect", "attach", "scan", "line", "post"}
TailRecs ==
    [pc : TailPcs, server : Servers \cup {Off}, setting : Settings \cup {Off}, cancelled : BOOLEAN,
     next : 1 .. MaxLines + 1, open : BOOLEAN, last : 0 .. MaxLines]

Attached == {"scan", "line", "post"}

\* A goroutine has a server, and follows a log no further than it is written.
TailOK(i) ==
    tail[i].pc # "none" =>
        /\ tail[i].server \in Servers
        /\ tail[i].last <= log[tail[i].server]
        /\ tail[i].pc \in Attached => tail[i].next <= log[tail[i].server] + 1
        /\ tail[i].pc \in {"line", "post"} => tail[i].next <= log[tail[i].server]

Tailed == \A i \in Tails : TailOK(i)

\* A goroutine that will post line next and those after it; one that was
\* cancelled too late to keep it from posting line next, and nothing else.
Ahead(i) == ~tail[i].cancelled /\ tail[i].pc \in Attached
Late(i)  == tail[i].cancelled /\ tail[i].pc = "post"

\* What was posted was written, and was posted once.
PostedOK == \A s \in Servers, n \in Lines : posted[s][n] <= 1 /\ (posted[s][n] # 0 => n <= log[s])

\* What was posted lies behind the goroutine at work, and is not what a late one will post.
AheadOK == \A i \in Tails : Ahead(i) =>
    \A n \in Lines : posted[tail[i].server][n] # 0 => n < tail[i].next
LateOK  == \A i \in Tails : Late(i) => posted[tail[i].server][tail[i].next] = 0

\* What a late goroutine will post lies behind the one at work, and no two
\* late ones will post the same line.
Disjoint == \A i, j \in Tails :
    i # j /\ tail[i].server = tail[j].server /\ Late(i) =>
        /\ Ahead(j) => tail[i].next < tail[j].next
        /\ Late(j) => tail[i].next # tail[j].next

Posts == PostedOK /\ AheadOK /\ LateOK /\ Disjoint

IInv == TypeOK /\ Tailed /\ OneTail /\ Posts

-----------------------------------------------------------------------------
(* The steps of a goroutine, by what they do to the properties.            *)

\* The types, one by one.
LEMMA Typed ==
    ASSUME TypeOK
    PROVE  /\ MaxLines \in Nat /\ None \notin Tails /\ Off \notin Settings
           /\ tail \in [Tails -> TailRecs] /\ log \in [Servers -> 0 .. MaxLines]
           /\ active \in [Servers -> Tails \cup {None}]
           /\ posted \in [Servers -> [Lines -> Nat]] /\ todo \subseteq Servers
           /\ snap \in [Servers -> Settings \cup {Off}]
BY ForwarderAssumption DEF TypeOK, TailRecs, TailPcs

\* Only goroutine i moves.
Only(i) == \A j \in Tails : j # i => tail'[j] = tail[j]

\* It returns because it was cancelled, or goes on; it is no more able to post
\* than it was.
QuietStep(i) ==
    /\ UNCHANGED <<log, active, posted>> /\ Only(i)
    /\ \/ tail[i].cancelled /\ tail'[i] = NoTail
       \/ /\ tail[i].pc # "none" /\ tail'[i].pc # "none"
          /\ tail'[i].server = tail[i].server /\ tail'[i].cancelled = tail[i].cancelled
    /\ Ahead(i)' => Ahead(i) /\ tail'[i].next = tail[i].next
    /\ Late(i)' => Late(i) /\ tail'[i].next = tail[i].next

\* It attaches to the end of the log.
AttachStep(i) ==
    /\ UNCHANGED <<log, active, posted>> /\ Only(i)
    /\ tail[i].pc # "none" /\ ~tail[i].cancelled
    /\ tail'[i].pc = "scan" /\ tail'[i].cancelled = tail[i].cancelled
    /\ tail'[i].server = tail[i].server /\ tail'[i].next = log[tail[i].server] + 1

\* It posts a line, or finds that no rule matches it.
PostStep(i) ==
    /\ UNCHANGED <<log, active>> /\ Only(i)
    /\ tail[i].pc = "post" /\ tail'[i].pc = "scan" /\ tail'[i].cancelled = tail[i].cancelled
    /\ tail'[i].server = tail[i].server /\ tail'[i].next = tail[i].next + 1
    /\ Post(tail[i].server, tail[i].next) \/ UNCHANGED posted

\* NoTail is a goroutine record.
LEMMA NoTailTyped == ASSUME TypeOK PROVE NoTail \in TailRecs
BY Typed DEF NoTail, TailRecs, TailPcs

\* A step that only moves the pc among those of the same reach is quiet.
LEMMA GotoQuiet ==
    ASSUME TypeOK, Tailed, NEW i \in Tails, NEW to \in TailPcs \ {"none"}, Goto(i, to),
           tail[i].pc # "none", UNCHANGED <<log, active, posted>>,
           to \in Attached => tail[i].pc \in Attached,
           to = "post" => ~tail[i].cancelled,
           to = "line" => tail[i].next <= log[tail[i].server],
           to = "post" => tail[i].pc = "line"
    PROVE  tail' \in [Tails -> TailRecs] /\ QuietStep(i) /\ TailOK(i)'
<1>1. tail \in [Tails -> TailRecs] /\ tail[i].cancelled \in BOOLEAN
  BY Typed DEF TailRecs
<1>2. tail' \in [Tails -> TailRecs]
  BY <1>1 DEF Goto, TailRecs
<1>3. /\ tail'[i].pc = to /\ tail'[i].server = tail[i].server /\ tail'[i].next = tail[i].next
      /\ tail'[i].cancelled = tail[i].cancelled /\ tail'[i].last = tail[i].last /\ Only(i)
  BY <1>1 DEF Goto, TailRecs, Only
<1>4. QuietStep(i)
  BY <1>1, <1>3 DEF QuietStep, Ahead, Late, Attached
<1>5. TailOK(i)'
  BY <1>3 DEF Tailed, TailOK, Attached
<1> QED
  BY <1>2, <1>4, <1>5

\* A goroutine that returns after it was cancelled.
LEMMA ExitQuiet ==
    ASSUME TypeOK, NEW i \in Tails, Exit(i), tail[i].cancelled, UNCHANGED <<log, active, posted>>
    PROVE  tail' \in [Tails -> TailRecs] /\ QuietStep(i) /\ TailOK(i)'
<1>1. tail \in [Tails -> TailRecs] /\ NoTail \in TailRecs
  BY Typed, NoTailTyped
<1>2. tail' \in [Tails -> TailRecs] /\ tail'[i] = NoTail /\ Only(i)
  BY <1>1 DEF Exit, Only
<1>3. tail'[i].pc = "none"
  BY <1>2 DEF NoTail
<1>4. QuietStep(i)
  BY <1>2, <1>3 DEF QuietStep, Ahead, Late, Attached
<1> QED
  BY <1>2, <1>3, <1>4 DEF TailOK

\* All steps but attaching and posting are quiet.
LEMMA Quiet ==
    ASSUME TypeOK, Tailed, NEW i \in Tails,
           TailLoop(i) \/ TailCallFails(i) \/ TailInspect(i) \/ TailScan(i) \/ TailEnd(i) \/ TailCheck(i)
    PROVE  tail' \in [Tails -> TailRecs] /\ QuietStep(i) /\ TailOK(i)'
<1>1. tail \in [Tails -> TailRecs] /\ tail[i].cancelled \in BOOLEAN /\ tail[i].open \in BOOLEAN
  BY Typed DEF TailRecs
<1>2. UNCHANGED <<log, active, posted>>
  BY DEF TailLoop, TailCallFails, TailInspect, TailScan, TailEnd, TailCheck, world, sync
<1>3. CASE TailLoop(i)
  <2>1. tail[i].pc = "loop"
    BY <1>3 DEF TailLoop
  <2>2. CASE tail[i].cancelled
    BY <1>2, <1>3, <2>2, ExitQuiet DEF TailLoop
  <2>3. CASE ~tail[i].cancelled
    <3>1. Goto(i, "inspect")
      BY <1>3, <2>3 DEF TailLoop
    <3> QED
      BY <1>2, <2>1, <3>1, GotoQuiet DEF TailPcs, Attached
  <2> QED
    BY <2>2, <2>3
<1>4. CASE TailCallFails(i)
  <2>1. tail[i].pc \in {"inspect", "attach"} /\ Goto(i, "loop")
    BY <1>4 DEF TailCallFails
  <2> QED
    BY <1>2, <2>1, GotoQuiet DEF TailPcs, Attached
<1>5. CASE TailInspect(i)
  <2>1. tail[i].pc = "inspect" /\ Goto(i, "attach")
    BY <1>5 DEF TailInspect
  <2> QED
    BY <1>2, <2>1, GotoQuiet DEF TailPcs, Attached
<1>6. CASE TailScan(i)
  <2>1. tail[i].pc = "scan" /\ Goto(i, "line")
    BY <1>6 DEF TailScan
  <2>2. tail[i].next <= log[tail[i].server]
    <3>1. TailOK(i) /\ tail[i].next \in Nat /\ tail[i].last \in Nat
      BY <1>1, Typed DEF Tailed, TailRecs
    <3>2. tail[i].server \in Servers /\ tail[i].last <= log[tail[i].server]
      BY <2>1, <3>1 DEF TailOK
    <3>3. log[tail[i].server] \in Nat
      BY <3>2, Typed
    <3> QED
      BY <1>6, <3>1, <3>2, <3>3 DEF TailScan
  <2> QED
    BY <1>2, <2>1, <2>2, GotoQuiet DEF TailPcs, Attached
<1>7. CASE TailEnd(i)
  <2>1. tail[i].pc = "scan" /\ tail' = [tail EXCEPT ![i].pc = "loop", ![i].open = FALSE]
    BY <1>7 DEF TailEnd
  <2>2. tail' \in [Tails -> TailRecs]
    BY <1>1, <2>1 DEF TailRecs, TailPcs
  <2>3. /\ tail'[i].pc = "loop" /\ tail'[i].server = tail[i].server
        /\ tail'[i].cancelled = tail[i].cancelled /\ tail'[i].last = tail[i].last /\ Only(i)
    BY <1>1, <2>1 DEF TailRecs, Only
  <2>4. QuietStep(i)
    BY <1>1, <1>2, <2>1, <2>3 DEF QuietStep, Ahead, Late, Attached
  <2>5. TailOK(i)'
    BY <1>2, <2>1, <2>3 DEF Tailed, TailOK, Attached
  <2> QED
    BY <2>2, <2>4, <2>5
<1>8. CASE TailCheck(i)
  <2>1. tail[i].pc = "line"
    BY <1>8 DEF TailCheck
  <2>2. CASE tail[i].cancelled
    BY <1>2, <1>8, <2>2, ExitQuiet DEF TailCheck
  <2>3. CASE ~tail[i].cancelled
    <3>1. Goto(i, "post")
      BY <1>8, <2>3 DEF TailCheck
    <3> QED
      BY <1>2, <2>1, <2>3, <3>1, GotoQuiet DEF TailPcs, Attached
  <2> QED
    BY <2>2, <2>3
<1> QED
  BY <1>3, <1>4, <1>5, <1>6, <1>7, <1>8

\* Attaching is an AttachStep.
LEMMA Attaches ==
    ASSUME TypeOK, Tailed, NEW i \in Tails, TailAttach(i)
    PROVE  tail' \in [Tails -> TailRecs] /\ AttachStep(i) /\ TailOK(i)'
<1> DEFINE s == tail[i].server
           o == (box[s] = "running")
<1>1. tail \in [Tails -> TailRecs] /\ tail[i].pc = "attach" /\ ~tail[i].cancelled
  BY Typed DEF TailAttach
<1>2. s \in Servers /\ log[s] \in 0 .. MaxLines /\ MaxLines \in Nat
  BY <1>1, Typed DEF Tailed, TailOK
<1>3. /\ tail' = [tail EXCEPT ![i].pc = "scan", ![i].next = log[s] + 1, ![i].open = o, ![i].last = log[s]]
      /\ o \in BOOLEAN /\ UNCHANGED <<log, active, posted>>
  BY DEF TailAttach, world, sync
<1> HIDE DEF s, o
<1>4. tail' \in [Tails -> TailRecs]
  <2> DEFINE n == log[s]
  <2>1. n \in 0 .. MaxLines /\ n + 1 \in 1 .. MaxLines + 1
    BY <1>2
  <2>2. tail' = [tail EXCEPT ![i].pc = "scan", ![i].next = n + 1, ![i].open = o, ![i].last = n]
    BY <1>3
  <2> HIDE DEF n
  <2>3. [tail[i] EXCEPT !.pc = "scan", !.next = n + 1, !.open = o, !.last = n] \in TailRecs
    BY <1>1, <1>3, <2>1 DEF TailRecs, TailPcs
  <2>4. tail' = [tail EXCEPT ![i] = [tail[i] EXCEPT !.pc = "scan", !.next = n + 1, !.open = o, !.last = n]]
    BY <1>1, <2>2
  <2> QED
    BY <1>1, <2>3, <2>4
<1>5. /\ tail'[i].pc = "scan" /\ tail'[i].server = tail[i].server /\ tail'[i].next = log[s] + 1
      /\ tail'[i].cancelled = tail[i].cancelled /\ tail'[i].last = log[s] /\ Only(i)
  BY <1>1, <1>3 DEF TailRecs, Only
<1>6. AttachStep(i)
  BY <1>1, <1>3, <1>5 DEF AttachStep, s
<1>7. TailOK(i)'
  <2>1. log'[tail'[i].server] = log[s] /\ tail'[i].server = s
    BY <1>3, <1>5 DEF s
  <2> QED
    BY <1>2, <1>5, <2>1 DEF TailOK
<1> QED
  BY <1>4, <1>6, <1>7

\* Posting is a PostStep, of a line that was written.
LEMMA Posting ==
    ASSUME TypeOK, Tailed, NEW i \in Tails, TailPost(i)
    PROVE  /\ tail' \in [Tails -> TailRecs] /\ PostStep(i) /\ TailOK(i)'
           /\ tail[i].server \in Servers /\ tail[i].next \in Lines
           /\ tail[i].next <= log[tail[i].server]
<1>1. tail \in [Tails -> TailRecs] /\ tail[i].pc = "post" /\ MaxLines \in Nat
  BY Typed DEF TailPost
<1>2. tail[i].server \in Servers /\ tail[i].next <= log[tail[i].server] /\ TailOK(i)
  BY <1>1 DEF Tailed, TailOK
<1>3. log[tail[i].server] \in 0 .. MaxLines /\ tail[i].next \in 1 .. MaxLines + 1 /\ tail[i].last \in Nat
  BY <1>1, <1>2, Typed DEF TailRecs
<1>4. tail[i].next \in Lines /\ tail[i].next + 1 \in 1 .. MaxLines + 1
  BY <1>1, <1>2, <1>3 DEF Lines
<1>5. /\ tail' = [tail EXCEPT ![i].pc = "scan", ![i].next = tail[i].next + 1]
      /\ UNCHANGED <<log, active>>
      /\ Post(tail[i].server, tail[i].next) \/ UNCHANGED posted
  BY DEF TailPost, world, sync
<1>6. tail' \in [Tails -> TailRecs]
  BY <1>1, <1>4, <1>5 DEF TailRecs, TailPcs
<1>7. /\ tail'[i].pc = "scan" /\ tail'[i].server = tail[i].server /\ tail'[i].next = tail[i].next + 1
      /\ tail'[i].cancelled = tail[i].cancelled /\ tail'[i].last = tail[i].last /\ Only(i)
  BY <1>1, <1>5 DEF TailRecs, Only
<1>8. PostStep(i)
  BY <1>1, <1>5, <1>7 DEF PostStep
<1>9. TailOK(i)'
  BY <1>1, <1>2, <1>3, <1>5, <1>7 DEF TailOK
<1> QED
  BY <1>2, <1>4, <1>6, <1>8, <1>9

-----------------------------------------------------------------------------
(* Each kind of step keeps OneTail and Posts.                              *)

\* A goroutine that moves, and keeps its server and its context, stays listed;
\* one that returns was not.
LEMMA MoverListed ==
    ASSUME IInv, NEW i \in Tails, tail' \in [Tails -> TailRecs], Only(i), active' = active,
           \/ tail[i].cancelled /\ tail'[i] = NoTail
           \/ /\ tail[i].pc # "none" /\ tail'[i].pc # "none"
              /\ tail'[i].server = tail[i].server /\ tail'[i].cancelled = tail[i].cancelled
    PROVE  OneTail'
<1>1. OneTail /\ active \in [Servers -> Tails \cup {None}] /\ Tailed
  BY Typed DEF IInv
<1>2. CASE tail[i].cancelled /\ tail'[i] = NoTail
  <2>1. tail'[i].pc = "none"
    BY <1>2 DEF NoTail
  <2>2. ASSUME NEW s \in Servers, active[s] # None PROVE active[s] # i /\ tail'[active[s]] = tail[active[s]]
    BY <1>1, <1>2, <2>2 DEF OneTail, Only
  <2> QED
    BY <1>1, <2>1, <2>2 DEF OneTail, Free, Only
<1>3. CASE /\ tail[i].pc # "none" /\ tail'[i].pc # "none"
           /\ tail'[i].server = tail[i].server /\ tail'[i].cancelled = tail[i].cancelled
  <2>1. ASSUME NEW j \in Tails
        PROVE  /\ Free(j)' <=> Free(j)
               /\ tail'[j].server = tail[j].server /\ tail'[j].cancelled = tail[j].cancelled
    BY <1>3 DEF Free, Only
  <2>2. ASSUME NEW s \in Servers, active'[s] # None
        PROVE  ~Free(active[s])' /\ ~tail'[active[s]].cancelled /\ tail'[active[s]].server = s
    BY <1>1, <2>1, <2>2 DEF OneTail
  <2>3. ASSUME NEW j \in Tails, ~Free(j)', ~tail'[j].cancelled PROVE active'[tail'[j].server] = j
    BY <1>1, <2>1, <2>3 DEF OneTail
  <2> QED
    BY <2>2, <2>3 DEF OneTail, Free
<1> QED
  BY <1>2, <1>3

\* At most one goroutine of a server is ahead.
LEMMA AheadUnique ==
    ASSUME IInv, NEW i \in Tails, NEW j \in Tails, Ahead(i), Ahead(j), tail[i].server = tail[j].server
    PROVE  i = j
BY DEF IInv, OneTail, Ahead, Free, Attached

\* A quiet step posts nothing and makes no goroutine able to.
LEMMA QuietPosts ==
    ASSUME IInv, NEW i \in Tails, QuietStep(i), tail' \in [Tails -> TailRecs]
    PROVE  Posts'
<1>1. Posts /\ UNCHANGED <<log, active, posted>>
  BY DEF IInv, QuietStep
<1>2. ASSUME NEW j \in Tails
      PROVE  /\ Ahead(j)' => Ahead(j) /\ tail'[j].next = tail[j].next /\ tail'[j].server = tail[j].server
             /\ Late(j)' => Late(j) /\ tail'[j].next = tail[j].next /\ tail'[j].server = tail[j].server
  <2>1. CASE j # i
    BY <2>1 DEF QuietStep, Only, Ahead, Late
  <2>2. CASE j = i /\ tail'[i] = NoTail
    BY <2>2 DEF Ahead, Late, NoTail, Attached
  <2>3. CASE j = i /\ tail'[i].server = tail[i].server
    BY <2>3 DEF QuietStep
  <2> QED
    BY <2>1, <2>2, <2>3 DEF QuietStep
<1>3. PostedOK'
  BY <1>1 DEF Posts, PostedOK
<1>4. AheadOK' /\ LateOK'
  BY <1>1, <1>2 DEF Posts, AheadOK, LateOK
<1>5. Disjoint'
  BY <1>1, <1>2 DEF Posts, Disjoint
<1> QED
  BY <1>3, <1>4, <1>5 DEF Posts

\* A goroutine attaches behind everything that was posted or will be by a late one.
LEMMA AttachPosts ==
    ASSUME IInv, NEW i \in Tails, AttachStep(i), tail' \in [Tails -> TailRecs]
    PROVE  Posts'
<1>1. /\ Posts /\ UNCHANGED <<log, active, posted>> /\ Tailed
      /\ tail \in [Tails -> TailRecs] /\ log \in [Servers -> 0 .. MaxLines]
      /\ tail[i].server \in Servers /\ MaxLines \in Nat
  BY Typed DEF IInv, AttachStep, Tailed, TailOK
<1>2. ~Late(i)' /\ tail'[i].next = log[tail[i].server] + 1 /\ tail'[i].server = tail[i].server
  BY DEF AttachStep, Late
<1>3. \A j \in Tails : j # i => tail'[j] = tail[j]
  BY DEF AttachStep, Only
<1>4. ASSUME NEW j \in Tails, Late(j), tail[j].server = tail[i].server
      PROVE  tail[j].next < log[tail[i].server] + 1
  BY <1>1, <1>4 DEF Tailed, TailOK, Late, TailRecs
<1>5. PostedOK'
  BY <1>1 DEF Posts, PostedOK
<1>6. LateOK'
  BY <1>1, <1>2, <1>3 DEF Posts, LateOK, Late
<1>7. AheadOK'
  <2> SUFFICES ASSUME NEW j \in Tails, Ahead(j)', NEW n \in Lines, posted'[tail'[j].server][n] # 0
               PROVE  n < tail'[j].next
    BY DEF AheadOK
  <2>1. CASE j # i
    BY <1>1, <1>3, <2>1 DEF Posts, AheadOK, Ahead
  <2>2. CASE j = i
    <3>1. n <= log[tail[i].server] /\ log[tail[i].server] \in Nat /\ n \in Nat
      BY <1>1, <1>2, <2>2 DEF Posts, PostedOK, Lines
    <3> QED
      BY <1>2, <2>2, <3>1
  <2> QED
    BY <2>1, <2>2
<1>8. Disjoint'
  <2> SUFFICES ASSUME NEW j \in Tails, NEW k \in Tails, j # k, Late(j)',
                      tail'[j].server = tail'[k].server
               PROVE  /\ Ahead(k)' => tail'[j].next < tail'[k].next
                      /\ Late(k)' => tail'[j].next # tail'[k].next
    BY DEF Disjoint
  <2>1. j # i /\ tail'[j] = tail[j] /\ Late(j)
    BY <1>2, <1>3 DEF Late
  <2>2. CASE k # i
    BY <1>1, <1>3, <2>1, <2>2 DEF Posts, Disjoint, Ahead, Late
  <2>3. CASE k = i
    BY <1>2, <1>4, <2>1, <2>3
  <2> QED
    BY <2>2, <2>3
<1> QED
  BY <1>5, <1>6, <1>7, <1>8 DEF Posts

\* The line that is posted was not posted before, is behind the goroutine at
\* work and is not the line of a late one.
LEMMA PostPosts ==
    ASSUME IInv, NEW i \in Tails, PostStep(i), tail' \in [Tails -> TailRecs],
           tail[i].server \in Servers, tail[i].next \in Lines, tail[i].next <= log[tail[i].server]
    PROVE  Posts' /\ posted' \in [Servers -> [Lines -> Nat]]
<1> DEFINE s == tail[i].server
           m == tail[i].next
<1>1. /\ Posts /\ log' = log /\ tail \in [Tails -> TailRecs] /\ log \in [Servers -> 0 .. MaxLines]
      /\ s \in Servers /\ m \in Lines /\ m \in Nat /\ m <= log[s] /\ MaxLines \in Nat
      /\ posted \in [Servers -> [Lines -> Nat]]
  BY Typed DEF IInv, PostStep, Lines
<1>2. /\ tail[i].pc = "post" /\ tail[i].cancelled \in BOOLEAN
      /\ ~Late(i)' /\ tail'[i].next = m + 1 /\ tail'[i].server = s
      /\ tail'[i].cancelled = tail[i].cancelled
  BY <1>1 DEF PostStep, Late, TailRecs
<1>3. \A j \in Tails : j # i => tail'[j] = tail[j]
  BY DEF PostStep, Only
<1>4. Ahead(i) \/ Late(i)
  BY <1>2 DEF Ahead, Late, Attached
<1>5. posted[s][m] = 0
  <2>1. CASE Late(i)
    BY <1>1, <2>1 DEF Posts, LateOK
  <2>2. CASE Ahead(i)
    <3>1. posted[s][m] # 0 => m < m
      BY <1>1, <2>2 DEF Posts, AheadOK
    <3> QED
      BY <1>1, <3>1
  <2> QED
    BY <1>4, <2>1, <2>2
<1>6. PICK x \in {0, 1} : posted' = [posted EXCEPT ![s][m] = x]
  <2>1. CASE Post(s, m)
    <3>1. posted' = [posted EXCEPT ![s][m] = posted[s][m] + 1]
      BY <2>1 DEF Post
    <3> QED
      BY <1>5, <3>1
  <2>2. CASE posted' = posted
    <3>1. posted = [posted EXCEPT ![s][m] = posted[s][m]]
      BY <1>1
    <3> QED
      BY <1>5, <2>2, <3>1
  <2> QED
    BY <2>1, <2>2 DEF PostStep
<1> HIDE DEF s, m
<1>7. posted' \in [Servers -> [Lines -> Nat]]
  BY <1>1, <1>6
<1>8. \A t \in Servers, n \in Lines : ~(t = s /\ n = m) => posted'[t][n] = posted[t][n]
  BY <1>1, <1>6
<1>9. posted'[s][m] \in {0, 1}
  BY <1>1, <1>6
<1>10. PostedOK'
  BY <1>1, <1>8, <1>9 DEF Posts, PostedOK
<1>11. ASSUME NEW j \in Tails, j # i, tail[j].server = s
       PROVE  /\ Ahead(j) => m < tail[j].next
              /\ Late(j) => tail[j].next # m
  <2>1. CASE Late(i)
    BY <1>1, <1>11, <2>1 DEF Posts, Disjoint, s, m
  <2>2. CASE Ahead(i)
    <3>1. ~Ahead(j)
      BY <1>11, <2>2, AheadUnique DEF s
    <3>2. Late(j) => tail[j].next < m
      BY <1>1, <1>11, <2>2 DEF Posts, Disjoint, s, m
    <3> QED
      BY <1>1, <3>1, <3>2
  <2> QED
    BY <1>4, <2>1, <2>2
<1>12. \A j \in Tails : Ahead(j) \/ Late(j) => tail[j].server \in Servers /\ tail[j].next \in Nat
  BY <1>1 DEF IInv, Tailed, TailOK, Ahead, Late, Attached, TailRecs
<1>13. LateOK'
  <2> SUFFICES ASSUME NEW j \in Tails, Late(j)' PROVE posted'[tail'[j].server][tail'[j].next] = 0
    BY DEF LateOK
  <2>1. j # i /\ tail'[j] = tail[j] /\ Late(j)
    BY <1>2, <1>3 DEF Late
  <2>2. posted[tail[j].server][tail[j].next] = 0
    BY <1>1, <2>1 DEF Posts, LateOK
  <2>3. tail[j].server \in Servers /\ tail[j].next \in Lines
    <3>1. /\ tail[j].server \in Servers /\ tail[j].next <= log[tail[j].server]
          /\ tail[j].next \in 1 .. MaxLines + 1
      BY <1>1, <2>1 DEF IInv, Tailed, TailOK, Late, TailRecs
    <3>2. log[tail[j].server] \in 0 .. MaxLines
      BY <1>1, <3>1
    <3> QED
      BY <1>1, <3>1, <3>2 DEF Lines
  <2> QED
    BY <1>8, <1>11, <2>1, <2>2, <2>3
<1>14. AheadOK'
  <2> SUFFICES ASSUME NEW j \in Tails, Ahead(j)', NEW n \in Lines, posted'[tail'[j].server][n] # 0
               PROVE  n < tail'[j].next
    BY DEF AheadOK
  <2>1. CASE j # i
    <3>1. tail'[j] = tail[j] /\ Ahead(j)
      BY <1>3, <2>1 DEF Ahead
    <3>2. CASE tail[j].server = s /\ n = m
      BY <1>11, <2>1, <3>1, <3>2
    <3>3. CASE ~(tail[j].server = s /\ n = m)
      BY <1>1, <1>8, <1>12, <3>1, <3>3 DEF Posts, AheadOK
    <3> QED
      BY <3>2, <3>3
  <2>2. CASE j = i
    <3>1. Ahead(i)
      BY <1>2, <2>2 DEF Ahead, Attached
    <3>2. n = m \/ posted[s][n] # 0
      BY <1>1, <1>2, <1>8, <2>2
    <3>3. n = m \/ n < m
      BY <1>1, <3>1, <3>2 DEF Posts, AheadOK, s, m
    <3> QED
      BY <1>1, <1>2, <2>2, <3>3 DEF Lines
  <2> QED
    BY <2>1, <2>2
<1>15. Disjoint'
  <2> SUFFICES ASSUME NEW j \in Tails, NEW k \in Tails, j # k, Late(j)',
                      tail'[j].server = tail'[k].server
               PROVE  /\ Ahead(k)' => tail'[j].next < tail'[k].next
                      /\ Late(k)' => tail'[j].next # tail'[k].next
    BY DEF Disjoint
  <2>1. j # i /\ tail'[j] = tail[j] /\ Late(j)
    BY <1>2, <1>3 DEF Late
  <2>2. CASE k # i
    BY <1>1, <1>3, <2>1, <2>2 DEF Posts, Disjoint, Ahead, Late
  <2>3. CASE k = i
    <3>1. Ahead(k)' => Ahead(i)
      BY <1>2, <2>3 DEF Ahead, Attached
    <3>2. Ahead(i) => tail[j].next < m
      BY <1>1, <1>2, <2>1, <2>3 DEF Posts, Disjoint, s, m
    <3> QED
      BY <1>1, <1>2, <1>12, <2>1, <2>3, <3>1, <3>2
  <2> QED
    BY <2>2, <2>3
<1> QED
  BY <1>7, <1>10, <1>13, <1>14, <1>15 DEF Posts

\* A step that changes no goroutine but for the end of its stream keeps all,
\* also when a line is written.
LEMMA SameTails ==
    ASSUME IInv, UNCHANGED <<active, posted>>, log' \in [Servers -> 0 .. MaxLines],
           \A s \in Servers : log[s] <= log'[s],
           \A i \in Tails : /\ tail'[i].pc = tail[i].pc /\ tail'[i].server = tail[i].server
                            /\ tail'[i].cancelled = tail[i].cancelled /\ tail'[i].next = tail[i].next
    PROVE  OneTail' /\ Posts'
<1>1. /\ OneTail /\ Posts /\ active \in [Servers -> Tails \cup {None}]
      /\ log \in [Servers -> 0 .. MaxLines] /\ MaxLines \in Nat
  BY Typed DEF IInv
<1>2. ASSUME NEW s \in Servers, active[s] # None
      PROVE  ~Free(active[s])' /\ ~tail'[active[s]].cancelled /\ tail'[active[s]].server = s
  BY <1>1, <1>2 DEF OneTail, Free
<1>3. ASSUME NEW j \in Tails, ~Free(j)', ~tail'[j].cancelled PROVE active[tail'[j].server] = j
  BY <1>1, <1>3 DEF OneTail, Free
<1>4. OneTail'
  BY <1>2, <1>3 DEF OneTail, Free
<1>5. PostedOK'
  BY <1>1 DEF Posts, PostedOK, Lines
<1>6. \A j \in Tails : (Ahead(j)' => Ahead(j)) /\ (Late(j)' => Late(j))
  BY DEF Ahead, Late
<1>7. AheadOK' /\ LateOK'
  BY <1>1, <1>6 DEF Posts, AheadOK, LateOK
<1>8. Disjoint'
  BY <1>1, <1>6 DEF Posts, Disjoint
<1> QED
  BY <1>4, <1>5, <1>7, <1>8 DEF Posts

\* Cancelling the goroutines of some servers: one that is posting becomes late,
\* and is the only one of its server that was not.
LEMMA Cancels ==
    ASSUME IInv, NEW gone \in SUBSET Servers, \A s \in gone : active[s] # None,
           Cancel({active[s] : s \in gone}),
           active' = [s \in Servers |-> IF s \in gone THEN None ELSE active[s]],
           UNCHANGED <<log, posted>>
    PROVE  tail' \in [Tails -> TailRecs] /\ Tailed' /\ OneTail' /\ Posts'
<1> DEFINE ids == {active[s] : s \in gone}
<1>1. /\ OneTail /\ Posts /\ Tailed /\ active \in [Servers -> Tails \cup {None}]
      /\ tail \in [Tails -> TailRecs] /\ None \notin Tails
  BY Typed DEF IInv
<1>2. tail' = [i \in Tails |-> IF i \in ids THEN [tail[i] EXCEPT !.cancelled = TRUE] ELSE tail[i]]
  BY DEF Cancel
<1>3. \A i \in Tails : i \in ids <=> (tail[i].server \in gone /\ ~Free(i) /\ ~tail[i].cancelled)
  BY <1>1 DEF OneTail
<1> HIDE DEF ids
<1>4. tail' \in [Tails -> TailRecs]
  BY <1>1, <1>2 DEF TailRecs
<1>5. \A i \in Tails : /\ tail'[i].pc = tail[i].pc /\ tail'[i].server = tail[i].server
                       /\ tail'[i].next = tail[i].next /\ tail'[i].last = tail[i].last
  BY <1>1, <1>2 DEF TailRecs
<1>6. /\ \A i \in ids : i \in Tails => tail'[i].cancelled
      /\ \A i \in Tails : i \notin ids => tail'[i] = tail[i]
  BY <1>1, <1>2 DEF TailRecs
<1>7. Tailed'
  BY <1>1, <1>5 DEF Tailed, TailOK
<1>8. OneTail'
  <2>1. ASSUME NEW s \in Servers, active'[s] # None
        PROVE  /\ active'[s] = active[s] /\ active[s] \in Tails \ ids
    BY <1>1, <1>3, <2>1 DEF OneTail
  <2>2. ASSUME NEW s \in Servers, active'[s] # None
        PROVE  tail'[active'[s]].pc # "none" /\ ~tail'[active'[s]].cancelled /\ tail'[active'[s]].server = s
    <3>1. tail'[active'[s]] = tail[active[s]]
      BY <1>6, <2>1, <2>2
    <3> QED
      BY <1>1, <2>1, <2>2, <3>1 DEF OneTail, Free
  <2>3. ASSUME NEW j \in Tails, ~Free(j)', ~tail'[j].cancelled PROVE active'[tail'[j].server] = j
    <3>1. j \notin ids /\ tail'[j] = tail[j] /\ ~Free(j) /\ ~tail[j].cancelled
      BY <1>6, <2>3 DEF Free
    <3>2. tail[j].server \in Servers \ gone /\ active[tail[j].server] = j
      BY <1>1, <1>3, <3>1 DEF OneTail, Tailed, TailOK, Free
    <3> QED
      BY <3>1, <3>2
  <2> QED
    BY <2>2, <2>3 DEF OneTail, Free
<1>9. PostedOK'
  BY <1>1 DEF Posts, PostedOK
<1>10. ASSUME NEW j \in Tails
       PROVE  /\ Ahead(j)' => Ahead(j)
              /\ Late(j)' => Late(j) \/ (Ahead(j) /\ j \in ids)
  BY <1>3, <1>5, <1>6 DEF Ahead, Late, Attached, Free
<1>11. \A j \in Tails : Ahead(j) \/ Late(j) => tail[j].server \in Servers /\ tail[j].next \in Nat
  BY <1>1 DEF Tailed, TailOK, Ahead, Late, Attached, TailRecs
<1>12. AheadOK'
  BY <1>1, <1>5, <1>10 DEF Posts, AheadOK
<1>13. LateOK'
  <2> SUFFICES ASSUME NEW j \in Tails, Late(j)' PROVE posted[tail[j].server][tail[j].next] = 0
    BY <1>5 DEF LateOK
  <2>1. CASE Late(j)
    BY <1>1, <2>1 DEF Posts, LateOK
  <2>2. CASE Ahead(j)
    <3>1. /\ tail[j].pc = "post" /\ tail[j].next <= log[tail[j].server] /\ tail[j].server \in Servers
      BY <1>1, <1>5 DEF Late, Tailed, TailOK
    <3>2. tail[j].next \in Lines
      <4>1. log[tail[j].server] \in 0 .. MaxLines /\ tail[j].next \in 1 .. MaxLines + 1 /\ MaxLines \in Nat
        BY <1>1, <3>1, Typed DEF TailRecs, IInv
      <4> QED
        BY <3>1, <4>1 DEF Lines
    <3>3. posted[tail[j].server][tail[j].next] # 0 => tail[j].next < tail[j].next
      BY <1>1, <2>2, <3>2 DEF Posts, AheadOK
    <3> QED
      BY <1>11, <2>2, <3>3
  <2> QED
    BY <1>10, <2>1, <2>2
<1>14. Disjoint'
  <2> SUFFICES ASSUME NEW j \in Tails, NEW k \in Tails, j # k, Late(j)',
                      tail[j].server = tail[k].server
               PROVE  /\ Ahead(k)' => tail[j].next < tail[k].next
                      /\ Late(k)' => tail[j].next # tail[k].next
    BY <1>5 DEF Disjoint
  <2>1. CASE Late(j)
    <3>1. /\ Ahead(k) => tail[j].next < tail[k].next
          /\ Late(k) => tail[j].next # tail[k].next
      BY <1>1, <2>1 DEF Posts, Disjoint
    <3> QED
      BY <1>10, <1>11, <2>1, <3>1
  <2>2. CASE Ahead(j)
    <3>1. ~Ahead(k)
      BY <2>2, AheadUnique
    <3>2. Late(k) => tail[k].next < tail[j].next
      BY <1>1, <2>2 DEF Posts, Disjoint
    <3> QED
      BY <1>10, <1>11, <2>2, <3>1, <3>2
  <2> QED
    BY <1>10, <2>1, <2>2
<1> QED
  BY <1>4, <1>7, <1>8, <1>9, <1>12, <1>13, <1>14 DEF Posts

\* Starting a goroutine for a server that has none.
LEMMA Starts ==
    ASSUME IInv, SyncStart
    PROVE  /\ tail' \in [Tails -> TailRecs] /\ active' \in [Servers -> Tails \cup {None}]
           /\ todo' \subseteq Servers /\ Tailed' /\ OneTail' /\ Posts'
<1>1. /\ OneTail /\ Posts /\ Tailed /\ active \in [Servers -> Tails \cup {None}]
      /\ tail \in [Tails -> TailRecs] /\ None \notin Tails /\ todo \subseteq Servers
      /\ snap \in [Servers -> Settings \cup {Off}] /\ log \in [Servers -> 0 .. MaxLines]
      /\ NoTail \in TailRecs
  BY Typed, NoTailTyped DEF IInv
<1>2. PICK s \in todo, i \in Tails :
        /\ active[s] = None /\ tail[i].pc = "none"
        /\ tail' = [tail EXCEPT ![i] = [NoTail EXCEPT !.pc = "loop", !.server = s, !.setting = snap[s]]]
        /\ active' = [active EXCEPT ![s] = i] /\ todo' = todo \ {s}
        /\ UNCHANGED <<log, posted>>
  BY DEF SyncStart, Free, world
<1> DEFINE c == [NoTail EXCEPT !.pc = "loop", !.server = s, !.setting = snap[s]]
<1>3. c \in TailRecs
  BY <1>1, <1>2 DEF TailRecs, TailPcs
<1>4. c.pc = "loop" /\ c.server = s /\ c.cancelled = FALSE /\ c.last = 0
  BY DEF NoTail
<1>5. tail' = [tail EXCEPT ![i] = c]
  BY <1>2
<1> HIDE DEF c
<1>6. tail' \in [Tails -> TailRecs] /\ tail'[i] = c /\ Only(i)
  BY <1>1, <1>3, <1>5 DEF Only
<1>7. Tailed'
  <2> SUFFICES ASSUME NEW j \in Tails PROVE TailOK(j)'
    BY DEF Tailed
  <2>1. CASE j = i
    <3>1. s \in Servers /\ 0 <= log[s]
      BY <1>1, <1>2
    <3> QED
      BY <1>2, <1>4, <1>6, <2>1, <3>1 DEF TailOK, Attached
  <2>2. CASE j # i
    BY <1>1, <1>2, <1>6, <2>2 DEF Tailed, TailOK, Only
  <2> QED
    BY <2>1, <2>2
<1>8. OneTail'
  <2>1. ASSUME NEW t \in Servers, active'[t] # None
        PROVE  tail'[active'[t]].pc # "none" /\ ~tail'[active'[t]].cancelled /\ tail'[active'[t]].server = t
    <3>1. CASE t = s
      BY <1>1, <1>2, <1>4, <1>6, <3>1
    <3>2. CASE t # s
      <4>1. active'[t] = active[t] /\ active[t] \in Tails /\ active[t] # i
        BY <1>1, <1>2, <2>1, <3>2 DEF OneTail, Free
      <4>2. tail'[active'[t]] = tail[active[t]]
        BY <1>6, <4>1 DEF Only
      <4> QED
        BY <1>1, <2>1, <4>1, <4>2 DEF OneTail, Free
    <3> QED
      BY <3>1, <3>2
  <2>2. ASSUME NEW j \in Tails, tail'[j].pc # "none", ~tail'[j].cancelled PROVE active'[tail'[j].server] = j
    <3>1. CASE j = i
      BY <1>1, <1>2, <1>4, <1>6, <3>1
    <3>2. CASE j # i
      <4>1. tail'[j] = tail[j] /\ active[tail[j].server] = j /\ tail[j].server \in Servers
        BY <1>1, <1>6, <2>2, <3>2 DEF OneTail, Only, Free, Tailed, TailOK
      <4>2. tail[j].server # s
        BY <1>1, <1>2, <4>1
      <4> QED
        BY <1>1, <1>2, <4>1, <4>2
    <3> QED
      BY <3>1, <3>2
  <2> QED
    BY <2>1, <2>2 DEF OneTail, Free
<1>9. ASSUME NEW j \in Tails
      PROVE  (Ahead(j)' \/ Late(j)') => j # i /\ tail'[j] = tail[j]
  BY <1>4, <1>6 DEF Ahead, Late, Attached, Only
<1>10. PostedOK'
  BY <1>1, <1>2 DEF Posts, PostedOK
<1>11. AheadOK'
  BY <1>1, <1>2, <1>9 DEF Posts, AheadOK, Ahead
<1>12. LateOK'
  BY <1>1, <1>2, <1>9 DEF Posts, LateOK, Late
<1>13. Disjoint'
  BY <1>1, <1>2, <1>9 DEF Posts, Disjoint, Ahead, Late
<1>14. active' \in [Servers -> Tails \cup {None}] /\ todo' \subseteq Servers
  BY <1>1, <1>2
<1> QED
  BY <1>6, <1>7, <1>8, <1>10, <1>11, <1>12, <1>13, <1>14 DEF Posts

-----------------------------------------------------------------------------
\* Nothing is followed and nothing posted at the start.
LEMMA InitIInv == Init => IInv
<1> SUFFICES ASSUME Init PROVE IInv
  OBVIOUS
<1>1. TypeOK
  <2>1. tail \in [Tails -> TailRecs]
    BY ForwarderAssumption DEF Init, NoTail, TailRecs, TailPcs
  <2>2. posted \in [Servers -> [Lines -> Nat]]
    BY DEF Init
  <2> QED
    BY <2>1, <2>2, ForwarderAssumption DEF Init, TypeOK, TailRecs, TailPcs
<1>2. \A i \in Tails : tail[i].pc = "none"
  BY DEF Init, NoTail
<1>3. Tailed /\ AheadOK /\ LateOK /\ Disjoint
  BY <1>2 DEF Tailed, TailOK, AheadOK, LateOK, Disjoint, Ahead, Late, Attached
<1>4. OneTail
  BY <1>2 DEF OneTail, Init, Free
<1>5. PostedOK
  BY DEF PostedOK, Init
<1> QED
  BY <1>1, <1>3, <1>4, <1>5 DEF IInv, Posts

\* What the types say besides goroutines, lists and posts.
RestTyped ==
    /\ want \in [Servers -> Settings \cup {Off}] /\ snap \in [Servers -> Settings \cup {Off}]
    /\ box \in [Servers -> {"absent", "stopped", "running"}]
    /\ edits \in 0 .. MaxEdits /\ moves \in 0 .. MaxMoves /\ faults \in 0 .. MaxFaults
    /\ pc \in {"idle", "servers"} /\ todo \subseteq Servers
    /\ log \in [Servers -> 0 .. MaxLines]

\* Every step keeps those.
LEMMA RestStep == ASSUME IInv, [Next]_vars PROVE RestTyped' /\ \A s \in Servers : log[s] <= log'[s]
<1>1. RestTyped /\ MaxEdits \in Nat /\ MaxMoves \in Nat /\ MaxFaults \in Nat /\ MaxLines \in Nat
  BY ForwarderAssumption DEF IInv, TypeOK, RestTyped
<1> USE DEF RestTyped, world, sync
<1>2. CASE Edit
  BY <1>1, <1>2 DEF Edit
<1>3. CASE WriteLine
  <2>1. PICK s \in Servers : log[s] < MaxLines /\ log' = [log EXCEPT ![s] = log[s] + 1]
    BY <1>3 DEF WriteLine
  <2>2. UNCHANGED <<want, snap, box, edits, moves, faults, pc, todo>>
    BY <1>3 DEF WriteLine
  <2> QED
    BY <1>1, <2>1, <2>2
<1>4. CASE Move
  <2>1. PICK s \in Servers, b \in {"absent", "stopped", "running"} : box' = [box EXCEPT ![s] = b]
    BY <1>4 DEF Move
  <2>2. UNCHANGED <<want, snap, log, edits, faults, pc, todo>> /\ moves' = moves + 1 /\ moves < MaxMoves
    BY <1>4 DEF Move
  <2> QED
    BY <1>1, <2>1, <2>2
<1>5. CASE SyncLogForwarders
  <2>1. UNCHANGED <<want, edits, box, log, moves, faults>> /\ pc' \in {"idle", "servers"}
    BY <1>1, <1>5 DEF SyncLogForwarders, SyncGet, SyncKeep, SyncChange, SyncStart, SyncPrune
  <2>2. snap' \in [Servers -> Settings \cup {Off}] /\ todo' \subseteq Servers
    BY <1>1, <1>5 DEF SyncLogForwarders, SyncGet, SyncKeep, SyncChange, SyncStart, SyncPrune, Configured
  <2> QED
    BY <1>1, <2>1, <2>2
<1>6. ASSUME NEW i \in Tails, TailCallFails(i) \/ TailEnd(i)
      PROVE  RestTyped' /\ \A s \in Servers : log[s] <= log'[s]
  BY <1>1, <1>6 DEF TailCallFails, TailEnd
<1>7. ASSUME NEW i \in Tails, Tailing(i), ~(TailCallFails(i) \/ TailEnd(i))
      PROVE  RestTyped' /\ \A s \in Servers : log[s] <= log'[s]
  BY <1>1, <1>7 DEF Tailing, TailLoop, TailInspect, TailAttach, TailScan, TailCheck, TailPost
<1>8. CASE UNCHANGED vars
  BY <1>1, <1>8 DEF vars
<1> QED
  BY <1>2, <1>3, <1>4, <1>5, <1>6, <1>7, <1>8 DEF Next

\* Every step keeps the goroutines, the lists and the posts.
LEMMA CoreStep ==
    ASSUME IInv, [Next]_vars
    PROVE  /\ tail' \in [Tails -> TailRecs] /\ active' \in [Servers -> Tails \cup {None}]
           /\ posted' \in [Servers -> [Lines -> Nat]]
           /\ Tailed' /\ OneTail' /\ Posts'
<1> DEFINE Goal == /\ tail' \in [Tails -> TailRecs] /\ active' \in [Servers -> Tails \cup {None}]
                   /\ posted' \in [Servers -> [Lines -> Nat]]
                   /\ Tailed' /\ OneTail' /\ Posts'
<1>1. /\ TypeOK /\ Tailed /\ tail \in [Tails -> TailRecs] /\ MaxLines \in Nat
      /\ active \in [Servers -> Tails \cup {None}] /\ posted \in [Servers -> [Lines -> Nat]]
      /\ log \in [Servers -> 0 .. MaxLines] /\ todo \subseteq Servers
  BY Typed DEF IInv
<1>2. log' \in [Servers -> 0 .. MaxLines] /\ \A s \in Servers : log[s] <= log'[s]
  BY RestStep DEF RestTyped
<1>3. ASSUME NEW i \in Tails, tail' \in [Tails -> TailRecs], Only(i), TailOK(i)', log' = log
      PROVE  Tailed'
  BY <1>1, <1>3 DEF Tailed, TailOK, Only
<1>4. CASE UNCHANGED <<tail, active, posted>>
  <2>1. Tailed'
    <3> SUFFICES ASSUME NEW i \in Tails, tail[i].pc # "none"
                 PROVE  TailOK(i)'
      BY <1>4 DEF Tailed, TailOK
    <3>1. /\ TailOK(i) /\ tail[i].server \in Servers /\ tail[i].next \in Nat /\ tail[i].last \in Nat
      BY <1>1 DEF Tailed, TailOK, TailRecs
    <3>2. /\ log[tail[i].server] \in Nat /\ log'[tail[i].server] \in Nat
          /\ log[tail[i].server] <= log'[tail[i].server]
      BY <1>1, <1>2, <3>1
    <3> QED
      BY <1>4, <3>1, <3>2 DEF TailOK
  <2>2. OneTail' /\ Posts'
    BY <1>2, <1>4, SameTails
  <2> QED
    BY <1>1, <1>4, <2>1, <2>2
<1>5. CASE Edit \/ WriteLine \/ UNCHANGED vars \/ SyncGet \/ SyncKeep
  BY <1>4, <1>5 DEF Edit, WriteLine, vars, SyncGet, SyncKeep, sync
<1>6. CASE Move
  <2>1. PICK s \in Servers :
          tail' = [i \in Tails |-> IF tail[i].server = s /\ tail[i].open
                                   THEN [tail[i] EXCEPT !.open = FALSE, !.last = log[s]] ELSE tail[i]]
    BY <1>6 DEF Move
  <2>2. log' = log /\ active' = active /\ posted' = posted
    BY <1>6 DEF Move, sync
  <2>3. log[s] \in 0 .. MaxLines
    BY <1>1
  <2>4. ASSUME NEW i \in Tails
        PROVE  \/ tail'[i] = tail[i]
               \/ tail[i].server = s /\ tail'[i] = [tail[i] EXCEPT !.open = FALSE, !.last = log[s]]
    BY <2>1
  <2>5. ASSUME NEW i \in Tails
        PROVE  /\ tail'[i] \in TailRecs
               /\ tail'[i].pc = tail[i].pc /\ tail'[i].server = tail[i].server
               /\ tail'[i].cancelled = tail[i].cancelled /\ tail'[i].next = tail[i].next
               /\ tail'[i].last = tail[i].last \/ tail'[i].last = log[tail[i].server]
    <3>1. tail[i] \in TailRecs
      BY <1>1
    <3>2. CASE tail'[i] = tail[i]
      BY <3>1, <3>2
    <3>3. CASE tail[i].server = s /\ tail'[i] = [tail[i] EXCEPT !.open = FALSE, !.last = log[s]]
      BY <2>3, <3>1, <3>3 DEF TailRecs
    <3> QED
      BY <2>4, <3>2, <3>3
  <2>6. tail' \in [Tails -> TailRecs]
    BY <2>1, <2>5
  <2>7. Tailed'
    <3> SUFFICES ASSUME NEW i \in Tails, tail[i].pc # "none" PROVE TailOK(i)'
      BY <2>5 DEF Tailed, TailOK
    <3>1. TailOK(i) /\ log[tail[i].server] \in Nat
      BY <1>1 DEF Tailed, TailOK
    <3> QED
      BY <2>2, <2>5, <3>1 DEF TailOK
  <2>8. OneTail' /\ Posts'
    BY <1>2, <2>2, <2>5, SameTails
  <2> QED
    BY <1>1, <2>2, <2>6, <2>7, <2>8
<1>7. CASE SyncChange
  <2>1. PICK s \in todo : /\ active[s] # None /\ Cancel({active[s]})
                          /\ active' = [active EXCEPT ![s] = None]
    BY <1>7 DEF SyncChange
  <2> DEFINE gone == {s}
  <2>2. gone \in SUBSET Servers /\ \A t \in gone : active[t] # None
    BY <1>1, <2>1
  <2>3. {active[t] : t \in gone} = {active[s]}
    OBVIOUS
  <2>4. active' = [t \in Servers |-> IF t \in gone THEN None ELSE active[t]]
    BY <1>1, <2>1
  <2>5. UNCHANGED <<log, posted>>
    BY <1>7 DEF SyncChange, world
  <2>6. Cancel({active[t] : t \in gone})
    BY <2>1, <2>3
  <2> HIDE DEF gone
  <2>7. tail' \in [Tails -> TailRecs] /\ Tailed' /\ OneTail' /\ Posts'
    BY <2>2, <2>4, <2>5, <2>6, Cancels
  <2> QED
    BY <1>1, <2>4, <2>5, <2>7
<1>8. CASE SyncStart
  <2>1. posted' = posted
    BY <1>8 DEF SyncStart
  <2> QED
    BY <1>1, <1>8, <2>1, Starts
<1>9. CASE SyncPrune
  <2> DEFINE gone == {s \in Servers \ Configured(snap) : active[s] # None}
  <2>1. gone \in SUBSET Servers /\ \A s \in gone : active[s] # None
    OBVIOUS
  <2>2. /\ Cancel({active[s] : s \in gone})
        /\ active' = [s \in Servers |-> IF s \in gone THEN None ELSE active[s]]
        /\ UNCHANGED <<log, posted>>
    BY <1>9 DEF SyncPrune, world
  <2> HIDE DEF gone
  <2>3. tail' \in [Tails -> TailRecs] /\ Tailed' /\ OneTail' /\ Posts'
    BY <2>1, <2>2, Cancels
  <2> QED
    BY <1>1, <2>2, <2>3
<1>10. ASSUME NEW i \in Tails, Tailing(i) PROVE Goal
  <2>1. CASE TailAttach(i)
    <3>1. tail' \in [Tails -> TailRecs] /\ AttachStep(i) /\ TailOK(i)'
      BY <1>1, <2>1, Attaches
    <3>2. Only(i) /\ log' = log /\ active' = active /\ posted' = posted
      BY <3>1 DEF AttachStep
    <3>3. OneTail' /\ Tailed'
      BY <1>3, <3>1, <3>2, MoverListed DEF AttachStep
    <3> QED
      BY <1>1, <3>1, <3>2, <3>3, AttachPosts
  <2>2. CASE TailPost(i)
    <3>1. /\ tail' \in [Tails -> TailRecs] /\ PostStep(i) /\ TailOK(i)'
          /\ tail[i].server \in Servers /\ tail[i].next \in Lines
          /\ tail[i].next <= log[tail[i].server]
      BY <1>1, <2>2, Posting
    <3>2. Only(i) /\ log' = log /\ active' = active
      BY <3>1 DEF PostStep
    <3>3. OneTail' /\ Tailed'
      BY <1>3, <3>1, <3>2, MoverListed DEF PostStep
    <3> QED
      BY <1>1, <3>1, <3>2, <3>3, PostPosts
  <2>3. CASE TailLoop(i) \/ TailCallFails(i) \/ TailInspect(i) \/ TailScan(i) \/ TailEnd(i) \/ TailCheck(i)
    <3>1. tail' \in [Tails -> TailRecs] /\ QuietStep(i) /\ TailOK(i)'
      BY <1>1, <2>3, Quiet
    <3>2. Only(i) /\ log' = log /\ active' = active /\ posted' = posted
      BY <3>1 DEF QuietStep
    <3>3. OneTail' /\ Tailed'
      BY <1>3, <3>1, <3>2, MoverListed DEF QuietStep
    <3> QED
      BY <1>1, <3>1, <3>2, <3>3, QuietPosts
  <2> QED
    BY <1>10, <2>1, <2>2, <2>3 DEF Tailing
<1> QED
  BY <1>5, <1>6, <1>7, <1>8, <1>9, <1>10 DEF Next, SyncLogForwarders

\* The inductive invariant holds in every reachable state.
LEMMA Invariance == Spec => []IInv
<1>1. ASSUME IInv, [Next]_vars PROVE IInv'
  <2>1. TypeOK'
    BY <1>1, RestStep, CoreStep DEF RestTyped, TypeOK, TailRecs, TailPcs
  <2> QED
    BY <1>1, <2>1, CoreStep DEF IInv
<1> QED
  BY InitIInv, <1>1, PTL DEF Spec

\* Type correctness of SyncLogForwarders and tailContainerLogs.
THEOREM TypeCorrect == Spec => []TypeOK
<1>1. IInv => TypeOK
  BY DEF IInv
<1> QED
  BY Invariance, <1>1, PTL

\* The goroutines that were not cancelled are those ActiveForwarders knows.
THEOREM NoneOutOfControl == Spec => []OneTail
<1>1. IInv => OneTail
  BY DEF IInv
<1> QED
  BY Invariance, <1>1, PTL

\* No line is posted twice, by whatever goroutines, however often they attach
\* again and however late a cancelled one posts.
THEOREM PostedOnce == Spec => []OnceOnly
<1>1. IInv => OnceOnly
  BY DEF IInv, Posts, PostedOK, OnceOnly
<1> QED
  BY Invariance, <1>1, PTL
=============================================================================
