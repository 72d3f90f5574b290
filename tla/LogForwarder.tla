---------------------------- MODULE LogForwarder ----------------------------
(***************************************************************************)
(* internal/discord/forwarder.go: SyncLogForwarders, the loop that keeps   *)
(* one tailing goroutine per server in step with the configuration, and    *)
(* tailContainerLogs, that goroutine.  It follows the log of the container *)
(* from the moment it attaches and posts the lines that match the rules of *)
(* its setting (see LogRules) to the webhook of its setting.               *)
(***************************************************************************)
EXTENDS Naturals, FiniteSets

CONSTANTS
    Servers,
    Settings,     \* pairs of a log setting and a webhook
    Off,          \* forwarding is not configured
    Tails,        \* goroutines (bound: how many exist at the same time)
    None,         \* no goroutine
    MaxEdits,     \* bound: edits of the configuration
    MaxLines,     \* bound: lines a container writes
    MaxMoves,     \* bound: starts, stops and removals of a container
    MaxFaults     \* bound: failed calls of the Docker daemon

ASSUME ForwarderAssumption ==
    /\ Off \notin Settings /\ None \notin Tails
    /\ MaxEdits \in Nat /\ MaxLines \in Nat /\ MaxMoves \in Nat /\ MaxFaults \in Nat

VARIABLES
    want,       \* want[s]: the discord section of the configuration
    edits,      \* edits so far (bound)
    box,        \* box[s]: "absent", "stopped" or "running"
    log,        \* log[s]: lines the container has written
    moves,      \* moves so far (bound)
    faults,     \* failed daemon calls so far (bound)
    pc,         \* where SyncLogForwarders is
    snap,       \* the configuration it got
    todo,       \* the configured servers it has not looked at yet
    active,     \* ActiveForwarders
    tail,       \* tail[i]: a goroutine of tailContainerLogs
    posted      \* posted[s][n]: how often the messages for line n of s were posted

world == <<want, edits, box, log, moves, faults>>
sync  == <<pc, snap, todo, active>>
vars  == <<world, sync, tail, posted>>

Lines == 1 .. MaxLines

\* cancelled: its context is done.  The stream of a container that stopped
\* after it was attached ends (open is FALSE) after line last.
NoTail == [pc |-> "none", server |-> Off, setting |-> Off, cancelled |-> FALSE,
           next |-> 1, open |-> FALSE, last |-> 0]

\* A goroutine that does not exist (yet, or any more).
Free(i) == tail[i].pc = "none"

Init ==
    /\ want \in [Servers -> Settings \cup {Off}]
    /\ edits = 0
    /\ box \in [Servers -> {"absent", "stopped", "running"}]
    /\ log = [s \in Servers |-> 0]
    /\ moves = 0 /\ faults = 0
    /\ pc = "idle" /\ snap = [s \in Servers |-> Off] /\ todo = {}
    /\ active = [s \in Servers |-> None]
    /\ tail = [i \in Tails |-> NoTail]
    /\ posted = [s \in Servers |-> [n \in Lines |-> 0]]

-----------------------------------------------------------------------------
(* The administrator, the containers and their daemon.                     *)

Edit ==
    /\ edits < MaxEdits
    /\ \E s \in Servers, w \in Settings \cup {Off} : w # want[s] /\ want' = [want EXCEPT ![s] = w]
    /\ edits' = edits + 1
    /\ UNCHANGED <<box, log, moves, faults, sync, tail, posted>>

WriteLine ==
    /\ \E s \in Servers :
          /\ box[s] = "running" /\ log[s] < MaxLines
          /\ log' = [log EXCEPT ![s] = @ + 1]
    /\ UNCHANGED <<want, edits, box, moves, faults, sync, tail, posted>>

\* A container that stops or disappears ends the streams attached to it.
Move ==
    /\ moves < MaxMoves /\ moves' = moves + 1
    /\ \E s \in Servers, b \in {"absent", "stopped", "running"} :
          /\ b # box[s]
          /\ box' = [box EXCEPT ![s] = b]
          /\ tail' = [i \in Tails |->
                IF tail[i].server = s /\ tail[i].open
                THEN [tail[i] EXCEPT !.open = FALSE, !.last = log[s]] ELSE tail[i]]
    /\ UNCHANGED <<want, edits, log, faults, sync, posted>>

-----------------------------------------------------------------------------
(* SyncLogForwarders.                                                      *)

Configured(c) == {s \in Servers : c[s] # Off}

SyncGet ==
    /\ pc = "idle"
    /\ snap' = want /\ todo' = Configured(want)
    /\ pc' = "servers"
    /\ UNCHANGED <<world, active, tail, posted>>

Cancel(ids) == tail' = [i \in Tails |-> IF i \in ids THEN [tail[i] EXCEPT !.cancelled = TRUE] ELSE tail[i]]

SyncKeep ==
    /\ pc = "servers"
    /\ \E s \in todo :
          /\ active[s] # None /\ tail[active[s]].setting = snap[s]
          /\ todo' = todo \ {s}
    /\ UNCHANGED <<world, pc, snap, active, tail, posted>>

\* Bug: the old goroutine is forgotten, not cancelled.
SyncChange_NoCancel ==
    /\ pc = "servers"
    /\ \E s \in todo :
          /\ active[s] # None /\ tail[active[s]].setting # snap[s]
          /\ active' = [active EXCEPT ![s] = None]
    /\ UNCHANGED <<world, pc, snap, todo, tail, posted>>

\* The setting changed: the goroutine is cancelled and forgotten, and a new
\* one is started (SyncStart) while the old one may still be at work.
SyncChange ==
    /\ pc = "servers"
    /\ \E s \in todo :
          /\ active[s] # None /\ tail[active[s]].setting # snap[s]
          /\ Cancel({active[s]})
          /\ active' = [active EXCEPT ![s] = None]
    /\ UNCHANGED <<world, pc, snap, todo, posted>>

SyncStart ==
    /\ pc = "servers"
    /\ \E s \in todo, i \in Tails :
          /\ active[s] = None
          /\ Free(i)
          /\ tail' = [tail EXCEPT ![i] = [NoTail EXCEPT !.pc = "loop", !.server = s, !.setting = snap[s]]]
          /\ active' = [active EXCEPT ![s] = i]
          /\ todo' = todo \ {s}
    /\ UNCHANGED <<world, pc, snap, posted>>

\* Servers whose forwarding was taken out of the configuration.
SyncPrune ==
    LET gone == {s \in Servers \ Configured(snap) : active[s] # None} IN
    /\ pc = "servers" /\ todo = {}
    /\ Cancel({active[s] : s \in gone})
    /\ active' = [s \in Servers |-> IF s \in gone THEN None ELSE active[s]]
    /\ pc' = "idle"
    /\ UNCHANGED <<world, snap, todo, posted>>

SyncLogForwarders == SyncGet \/ SyncKeep \/ SyncChange \/ SyncStart \/ SyncPrune

-----------------------------------------------------------------------------
(* tailContainerLogs.  A goroutine that returns is free for reuse.         *)

Goto(i, to) == tail' = [tail EXCEPT ![i].pc = to]
Exit(i)     == tail' = [tail EXCEPT ![i] = NoTail]

\* Bug: the context is not looked at between two attempts.
TailLoop_Unchecked(i) ==
    /\ tail[i].pc = "loop"
    /\ Goto(i, "inspect")
    /\ UNCHANGED <<world, sync, posted>>

TailLoop(i) ==
    /\ tail[i].pc = "loop"
    /\ IF tail[i].cancelled THEN Exit(i) ELSE Goto(i, "inspect")
    /\ UNCHANGED <<world, sync, posted>>

\* A daemon call fails: the container is gone, the context is done, or the
\* daemon is at fault.  The goroutine sleeps (10s or 30s) and starts over.
TailCallFails(i) ==
    /\ tail[i].pc \in {"inspect", "attach"}
    /\ \/ (box[tail[i].server] = "absent" \/ tail[i].cancelled) /\ UNCHANGED faults
       \/ faults < MaxFaults /\ faults' = faults + 1
    /\ Goto(i, "loop")
    /\ UNCHANGED <<want, edits, box, log, moves, sync, posted>>

\* Inspection only asks whether the container exists.
TailInspect(i) ==
    /\ tail[i].pc = "inspect"
    /\ box[tail[i].server] # "absent" /\ ~tail[i].cancelled
    /\ Goto(i, "attach")
    /\ UNCHANGED <<world, sync, posted>>

\* Bug: the first line after attaching is skipped too.
TailAttach_SkipsOne(i) ==
    LET s == tail[i].server IN
    /\ tail[i].pc = "attach"
    /\ box[s] # "absent" /\ ~tail[i].cancelled
    /\ tail' = [tail EXCEPT ![i].pc = "scan", ![i].next = log[s] + 2,
                            ![i].open = (box[s] = "running"), ![i].last = log[s]]
    /\ UNCHANGED <<world, sync, posted>>

\* ContainerLogs with Tail "0": only lines written from now on; the stream of a
\* stopped container ends at once.
TailAttach(i) ==
    LET s == tail[i].server IN
    /\ tail[i].pc = "attach"
    /\ box[s] # "absent" /\ ~tail[i].cancelled
    /\ tail' = [tail EXCEPT ![i].pc = "scan", ![i].next = log[s] + 1,
                            ![i].open = (box[s] = "running"), ![i].last = log[s]]
    /\ UNCHANGED <<world, sync, posted>>

\* Scan returns the next line; lines on their way when the context is
\* cancelled still arrive.
TailScan(i) ==
    /\ tail[i].pc = "scan"
    /\ tail[i].next <= (IF tail[i].open THEN log[tail[i].server] ELSE tail[i].last)
    /\ Goto(i, "line")
    /\ UNCHANGED <<world, sync, posted>>

\* Scan returns false: the stream is over, or cut by the context or a fault.
\* The goroutine sleeps (5s) and starts over.
TailEnd(i) ==
    /\ tail[i].pc = "scan"
    /\ \/ ~tail[i].open /\ tail[i].next > tail[i].last /\ UNCHANGED faults
       \/ tail[i].cancelled /\ UNCHANGED faults
       \/ faults < MaxFaults /\ faults' = faults + 1
    /\ tail' = [tail EXCEPT ![i].pc = "loop", ![i].open = FALSE]
    /\ UNCHANGED <<want, edits, box, log, moves, sync, posted>>

\* Bug: the context is not looked at between two lines.
TailCheck_Unchecked(i) ==
    /\ tail[i].pc = "line"
    /\ Goto(i, "post")
    /\ UNCHANGED <<world, sync, posted>>

TailCheck(i) ==
    /\ tail[i].pc = "line"
    /\ IF tail[i].cancelled THEN Exit(i) ELSE Goto(i, "post")
    /\ UNCHANGED <<world, sync, posted>>

\* executeWebhook, for every message the rules make of the line; that a post
\* fails is not noticed.
Post(s, n) == posted' = [posted EXCEPT ![s][n] = @ + 1]

\* The messages of every rule the line matches are posted, or no rule matches.
\* Posting is not tied to the context.
TailPost(i) ==
    LET s == tail[i].server
        n == tail[i].next
    IN
    /\ tail[i].pc = "post"
    /\ Post(s, n) \/ UNCHANGED posted
    /\ tail' = [tail EXCEPT ![i].pc = "scan", ![i].next = n + 1]
    /\ UNCHANGED <<world, sync>>

Tailing(i) ==
    \/ TailLoop(i) \/ TailCallFails(i) \/ TailInspect(i) \/ TailAttach(i)
    \/ TailScan(i) \/ TailEnd(i) \/ TailCheck(i) \/ TailPost(i)

Next == Edit \/ WriteLine \/ Move \/ SyncLogForwarders \/ \E i \in Tails : Tailing(i)

Spec == Init /\ [][Next]_vars

\* The ticker runs SyncLogForwarders every 30s; sleeps end, the daemon and the
\* webhook answer.
FairSpec == Spec /\ WF_vars(SyncLogForwarders) /\ \A i \in Tails : WF_vars(Tailing(i))

-----------------------------------------------------------------------------
(* Properties.                                                             *)

\* Every variable has its type.
TypeOK ==
    /\ want \in [Servers -> Settings \cup {Off}] /\ snap \in [Servers -> Settings \cup {Off}]
    /\ box \in [Servers -> {"absent", "stopped", "running"}]
    /\ log \in [Servers -> 0 .. MaxLines]
    /\ edits \in 0 .. MaxEdits /\ moves \in 0 .. MaxMoves /\ faults \in 0 .. MaxFaults
    /\ pc \in {"idle", "servers"}
    /\ todo \subseteq Servers
    /\ active \in [Servers -> Tails \cup {None}]
    /\ tail \in [Tails ->
         [pc : {"none", "loop", "inspect", "attach", "scan", "line", "post"},
          server : Servers \cup {Off}, setting : Settings \cup {Off}, cancelled : BOOLEAN,
          next : 1 .. MaxLines + 1, open : BOOLEAN, last : 0 .. MaxLines]]
    /\ posted \in [Servers -> [Lines -> Nat]]

\* The goroutines that were not cancelled are exactly those ActiveForwarders
\* knows, each with the server it is listed under: none is out of control.
OneTail ==
    /\ \A s \in Servers : active[s] # None =>
          ~Free(active[s]) /\ ~tail[active[s]].cancelled /\ tail[active[s]].server = s
    /\ \A i \in Tails : ~Free(i) /\ ~tail[i].cancelled => active[tail[i].server] = i

\* No line is posted twice: not by a goroutine that attaches again, and not by
\* a cancelled one at work next to its successor.
OnceOnly == \A s \in Servers, n \in Lines : posted[s][n] <= 1

\* When the configuration no longer changes, exactly the configured servers
\* have a goroutine, with the present setting, and all others have returned.
Settles ==
    <>[](/\ \A s \in Servers : IF want[s] = Off THEN active[s] = None
                               ELSE active[s] # None /\ tail[active[s]].setting = want[s]
         /\ \A i \in Tails : ~Free(i) => active[tail[i].server] = i)
=============================================================================
