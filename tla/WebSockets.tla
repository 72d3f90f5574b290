----------------------------- MODULE WebSockets -----------------------------
(***************************************************************************)
(* One connection of internal/api/handlers_ws.go, past its permission      *)
(* check: a terminal (an exec of a shell, or the log of the container),    *)
(* whose handler starts two goroutines that copy in each direction and end *)
(* each other by closing both streams, or the statistics of a container,   *)
(* which the handler itself sends.  The client, the container and the      *)
(* daemon may end, or stop reading, at any moment.  The mode of a terminal *)
(* is what the client sent: "other" stands for a mode that is neither.     *)
(***************************************************************************)
EXTENDS Naturals

CONSTANT Modes   \* what clients ask for

ASSUME ModesAssumption == Modes \subseteq {"exec", "logs", "other", "stats"}

VARIABLES
    mode,
    pc,       \* the handler
    go,       \* go["out"] copies to the client, go["in"] to the container
    stream,   \* our end of the Docker stream: "none", "open" or "closed"
    ws,       \* our end of the WebSocket: "none", "open" or "closed"
    once,     \* the sync.Once of cleanup: "fresh", "busy" or "over"
    closed,   \* how often the channel done was closed; the second time panics
    remote,   \* what is at the other end of the stream: "up" or "ended"
    client,   \* "there", "gone", or "reset" once the kernel knows
    stuck     \* who does not read what it is sent, of {"stdin", "client"}

env  == <<mode, remote, client, stuck>>
vars == <<env, pc, go, stream, ws, once, closed>>

Init ==
    /\ mode \in Modes
    /\ pc = "open" /\ go = [g \in {"out", "in"} |-> "none"]
    /\ stream = "none" /\ ws = "none"
    /\ once = "fresh" /\ closed = 0
    /\ remote = "up" /\ client = "there" /\ stuck = {}

-----------------------------------------------------------------------------
(* The other ends.                                                         *)

\* The shell exits, the container stops, the daemon goes away.
RemoteEnds == remote = "up" /\ remote' = "ended" /\ UNCHANGED <<mode, client, stuck>>

\* The browser goes away; TCP keep-alive finds out about a silent one.
ClientLeaves == client = "there" /\ client' = "gone" /\ UNCHANGED <<mode, remote, stuck>>

Stall  == \E x \in {"stdin", "client"} : stuck' = stuck \cup {x} /\ UNCHANGED <<mode, remote, client>>
Resume == \E x \in stuck : stuck' = stuck \ {x} /\ UNCHANGED <<mode, remote, client>>

Environment ==
    (RemoteEnds \/ ClientLeaves \/ Stall \/ Resume)
    /\ UNCHANGED <<pc, go, stream, ws, once, closed>>

\* What a send to the client can come to; the first one after it has left is
\* accepted by the kernel, which then learns that nobody is there.
Send(ok, failed) ==
    \/ /\ ws = "closed" \/ client = "reset"
       /\ failed /\ UNCHANGED client
    \/ /\ ws = "open" /\ client = "there" /\ "client" \notin stuck
       /\ ok /\ UNCHANGED client
    \/ /\ ws = "open" /\ client = "gone"
       /\ ok /\ client' = "reset"

-----------------------------------------------------------------------------
(* The handler of a terminal.                                              *)

\* ContainerExecCreate and ContainerExecAttach, or ContainerLogs; when one
\* fails there is nothing to close yet.
OpenStream ==
    /\ mode \in {"exec", "logs"} /\ pc = "open"
    /\ \/ stream' = "open" /\ pc' = "upgrade"
       \/ pc' = "returned" /\ UNCHANGED stream
    /\ UNCHANGED <<env, go, ws, once, closed>>

\* No case of the switch, and no default: the stream stays nil.
NoStream ==
    /\ mode = "other" /\ pc = "open"
    /\ pc' = "upgrade"
    /\ UNCHANGED <<env, go, stream, ws, once, closed>>

\* Bug: the stream is closed only by cleanup, which a failure does not reach.
Upgrade_NoDefer ==
    /\ pc = "upgrade"
    /\ \/ ws' = "open" /\ pc' = "spawn"
       \/ pc' = "returned" /\ UNCHANGED ws
    /\ UNCHANGED <<env, go, stream, once, closed>>

\* The deferred stream.Close is registered before the upgrade, which may fail
\* (no Hijacker, no handshake).
Upgrade ==
    /\ pc = "upgrade"
    /\ \/ ws' = "open" /\ pc' = "spawn"
       \/ pc' = "closeStream" /\ UNCHANGED ws
    /\ UNCHANGED <<env, go, stream, once, closed>>

Spawn ==
    /\ pc = "spawn"
    /\ go' = [g \in {"out", "in"} |-> "read"] /\ pc' = "wait"
    /\ UNCHANGED <<env, stream, ws, once, closed>>

\* <-done, and then the deferred calls, the last one first.
Done ==
    /\ pc = "wait" /\ closed > 0
    /\ pc' = "closeWs"
    /\ UNCHANGED <<env, go, stream, ws, once, closed>>

DeferredWs ==
    /\ pc = "closeWs"
    /\ ws' = "closed" /\ pc' = "closeStream"
    /\ UNCHANGED <<env, go, stream, once, closed>>

DeferredStream ==
    /\ pc = "closeStream"
    /\ stream' = IF stream = "open" THEN "closed" ELSE stream
    /\ pc' = "returned"
    /\ UNCHANGED <<env, go, ws, once, closed>>

-----------------------------------------------------------------------------
(* The handler of the statistics, which upgrades first.                    *)

StatsUpgrade ==
    /\ mode = "stats" /\ pc = "open"
    /\ \/ ws' = "open" /\ pc' = "stats"
       \/ pc' = "returned" /\ UNCHANGED ws
    /\ UNCHANGED <<env, go, stream, once, closed>>

\* ContainerStats; stats.Body.Close is deferred after ws.Close.
StatsOpen ==
    /\ pc = "stats"
    /\ \/ stream' = "open" /\ pc' = "decode"
       \/ pc' = "closeWs" /\ UNCHANGED stream
    /\ UNCHANGED <<env, go, ws, once, closed>>

\* Bug: the end of the stream is taken for a sample.
StatsDecode_IgnoresEOF ==
    /\ pc = "decode"
    /\ pc' = IF remote = "up" THEN "sample" ELSE "decode"
    /\ UNCHANGED <<env, go, stream, ws, once, closed>>

\* The daemon sends a sample every second, and then the end of the stream.
StatsDecode ==
    /\ pc = "decode"
    /\ pc' = IF remote = "up" THEN "sample" ELSE "closeWs"
    /\ UNCHANGED <<env, go, stream, ws, once, closed>>

StatsWrite ==
    /\ pc = "sample"
    /\ Send(pc' = "decode", pc' = "closeWs")
    /\ UNCHANGED <<mode, remote, stuck, go, stream, ws, once, closed>>

Handler ==
    \/ OpenStream \/ NoStream \/ Upgrade \/ Spawn \/ Done \/ DeferredWs \/ DeferredStream
    \/ StatsUpgrade \/ StatsOpen \/ StatsDecode \/ StatsWrite

-----------------------------------------------------------------------------
(* The goroutines.  A read waits for data or for the end of its stream.    *)

Step(g, from, to) == go[g] = from /\ go' = [go EXCEPT ![g] = to]

Output  == Step("out", "read", "write") /\ stream = "open" /\ remote = "up"
Message == Step("in", "read", "write") /\ ws = "open" /\ client = "there"

\* Data arrives, or never does.
Receive == (Output \/ Message) /\ UNCHANGED <<env, pc, stream, ws, once, closed>>

\* Bug: an error of ReadMessage is skipped.
ReadFails_Continues(g) ==
    /\ Step(g, "read", "cleanup")
    /\ g = "out" /\ stream # "none" /\ (stream = "closed" \/ remote = "ended")
    /\ UNCHANGED <<env, pc, stream, ws, once, closed>>

ReadFails(g) ==
    /\ Step(g, "read", "cleanup")
    /\ \/ g = "out" /\ stream # "none" /\ (stream = "closed" \/ remote = "ended")
       \/ g = "in" /\ (ws = "closed" \/ client # "there")
    /\ UNCHANGED <<env, pc, stream, ws, once, closed>>

OutWrite(g) ==
    /\ g = "out" /\ go[g] = "write"
    /\ Send(Step(g, "write", "read"), Step(g, "write", "cleanup"))
    /\ UNCHANGED <<mode, remote, stuck, pc, stream, ws, once, closed>>

\* A write to the stream returns: the log takes everything
\* (ReadNullWriteCloser); a shell that does not read blocks it until the
\* stream ends.
Accepts == mode = "logs" \/ "stdin" \notin stuck \/ stream = "closed" \/ remote = "ended"

\* The result is ignored.
InWrite(g) ==
    /\ g = "in" /\ Step(g, "write", "read")
    /\ stream # "none" /\ Accepts
    /\ UNCHANGED <<env, pc, stream, ws, once, closed>>

\* The nil stream is read or written to: the goroutine panics and nothing
\* recovers, so the process ends and with it every connection.
Panic(g) ==
    /\ stream = "none" /\ go[g] = IF g = "out" THEN "read" ELSE "write"
    /\ pc' = "returned" /\ go' = [h \in {"out", "in"} |-> "ended"] /\ ws' = "closed"
    /\ UNCHANGED <<env, stream, once, closed>>

\* Bug: cleanup without the Once.
CleanupStart_NoOnce(g) ==
    /\ Step(g, "cleanup", "closeStream")
    /\ once' = "busy" /\ closed' = closed + 1
    /\ UNCHANGED <<env, pc, stream, ws>>

\* The first one closes done; the other one waits for it to finish.
CleanupStart(g) ==
    /\ \/ /\ once = "fresh" /\ Step(g, "cleanup", "closeStream")
          /\ once' = "busy" /\ closed' = closed + 1
       \/ /\ once = "over" /\ Step(g, "cleanup", "ended")
          /\ UNCHANGED <<once, closed>>
    /\ UNCHANGED <<env, pc, stream, ws>>

CleanupStream(g) ==
    /\ Step(g, "closeStream", "closeWs")
    /\ stream' = IF stream = "open" THEN "closed" ELSE stream
    /\ UNCHANGED <<env, pc, ws, once, closed>>

CleanupWs(g) ==
    /\ Step(g, "closeWs", "ended")
    /\ ws' = "closed" /\ once' = "over"
    /\ UNCHANGED <<env, pc, stream, closed>>

Pump(g) ==
    \/ ReadFails(g) \/ OutWrite(g) \/ InWrite(g) \/ Panic(g)
    \/ CleanupStart(g) \/ CleanupStream(g) \/ CleanupWs(g)

Next == Environment \/ Handler \/ Receive \/ \E g \in {"out", "in"} : Pump(g)

Spec == Init /\ [][Next]_vars

\* The handler and each goroutine are scheduled, and the daemon sends samples;
\* nothing is assumed of output, messages and ends.
FairSpec == Spec /\ WF_vars(Handler) /\ \A g \in {"out", "in"} : WF_vars(Pump(g))

-----------------------------------------------------------------------------
(* Properties.                                                             *)

\* Every variable has its type; done is never closed twice, which would end
\* the process.
TypeOK ==
    /\ mode \in Modes
    /\ pc \in {"open", "upgrade", "spawn", "wait", "closeWs", "closeStream", "stats", "decode",
              "sample", "returned"}
    /\ go \in [{"out", "in"} -> {"none", "read", "write", "cleanup", "closeStream", "closeWs", "ended"}]
    /\ stream \in {"none", "open", "closed"} /\ ws \in {"none", "open", "closed"}
    /\ once \in {"fresh", "busy", "over"} /\ closed \in 0 .. 1
    /\ remote \in {"up", "ended"} /\ client \in {"there", "gone", "reset"}
    /\ stuck \subseteq {"stdin", "client"}

\* On every way out of the handlers, failures included, nothing stays open.
ReturnedIsClean == pc = "returned" => stream # "open" /\ ws # "open"

\* "全ての関連リソースを一括でクリーンアップしメモリリークを防ぐ": once a connection is being
\* cleaned up the handler returns and both goroutines end, even those that
\* are blocked by a shell or a client that does not read.
CleanupEnds == closed > 0 ~> pc = "returned" /\ \A g \in {"out", "in"} : go[g] = "ended"

\* "いずれかの通信路が切れた際に": when either side has ended, the connection is cleaned
\* up, unless the other side has stopped reading (or, in a mode without a
\* stream, the process ends).
EndIsNoticed ==
    <>[](stuck = {} /\ (remote = "ended" \/ client # "there")) => <>(pc = "returned")
=============================================================================
