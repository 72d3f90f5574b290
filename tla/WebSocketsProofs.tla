-------------------------- MODULE WebSocketsProofs --------------------------
(***************************************************************************)
(* The type invariant of WebSockets, with the fact that done is closed at  *)
(* most once, and that nothing stays open when a handler has returned.     *)
(***************************************************************************)
EXTENDS WebSockets, TLAPS

\* The goroutines run only after both streams are open.
Started == \A g \in {"out", "in"} :
    go[g] # "none" => pc \in {"wait", "closeWs", "closeStream", "returned"}

\* The channel done is closed by the goroutine that finds the Once fresh.
OnceClosed ==
    /\ closed = IF once = "fresh" THEN 0 ELSE 1
    /\ \A g \in {"out", "in"} : go[g] \in {"closeStream", "closeWs"} => once # "fresh"

\* What is not open yet, and what the deferred calls have closed already.
NotYetOpen ==
    /\ pc \in {"open", "upgrade"} => ws = "none"
    /\ pc \in {"open", "stats"} => stream = "none"

DeferredDone == pc = "closeStream" => ws # "open"

IInv == TypeOK /\ OnceClosed /\ Started /\ NotYetOpen /\ DeferredDone /\ ReturnedIsClean

USE DEF env

\* The connection starts with nothing open and no goroutine.
LEMMA InitInv == Init => IInv
BY DEF Init, IInv, TypeOK, OnceClosed, Started, NotYetOpen, DeferredDone, ReturnedIsClean

\* The other ends change nothing of ours.
LEMMA EnvironmentInv == IInv /\ Environment => IInv'
<1> SUFFICES ASSUME IInv, Environment PROVE IInv'
    OBVIOUS
<1>1. (mode \in Modes /\ stuck \subseteq {"stdin", "client"}
         /\ remote \in {"up", "ended"} /\ client \in {"there", "gone", "reset"})'
    <2> USE DEF IInv, TypeOK
    <2>1. CASE RemoteEnds
        BY <2>1 DEF RemoteEnds
    <2>2. CASE ClientLeaves
        BY <2>2 DEF ClientLeaves
    <2>3. CASE Stall
        BY <2>3 DEF Stall
    <2>4. CASE Resume
        BY <2>4 DEF Resume
    <2> QED BY <2>1, <2>2, <2>3, <2>4 DEF Environment
<1>2. UNCHANGED <<pc, go, stream, ws, once, closed>>
    BY DEF Environment
<1>3. (OnceClosed /\ Started)'
    BY <1>2 DEF IInv, OnceClosed, Started
<1>4. (NotYetOpen /\ DeferredDone /\ ReturnedIsClean)'
    BY <1>2 DEF IInv, NotYetOpen, DeferredDone, ReturnedIsClean
<1>5. TypeOK'
    BY <1>1, <1>2 DEF IInv, TypeOK
<1> QED BY <1>3, <1>4, <1>5 DEF IInv

\* The steps of the handler of a terminal.
LEMMA TerminalInv ==
    IInv /\ (OpenStream \/ NoStream \/ Upgrade \/ Spawn \/ Done \/ DeferredWs \/ DeferredStream) => IInv'
<1> USE DEF IInv, TypeOK, OnceClosed, Started, NotYetOpen, DeferredDone, ReturnedIsClean
<1>1. IInv /\ OpenStream => IInv'
    BY DEF OpenStream
<1>2. IInv /\ Upgrade => IInv'
    BY DEF Upgrade
<1>3. IInv /\ Spawn => IInv'
    BY DEF Spawn
<1>4. IInv /\ Done => IInv'
    BY DEF Done
<1>5. IInv /\ DeferredWs => IInv'
    BY DEF DeferredWs
<1>6. IInv /\ DeferredStream => IInv'
    BY DEF DeferredStream
<1>7. IInv /\ NoStream => IInv'
    BY DEF NoStream
<1> QED BY <1>1, <1>2, <1>3, <1>4, <1>5, <1>6, <1>7

\* The steps of the handler of the statistics.
LEMMA StatsInv ==
    IInv /\ (StatsUpgrade \/ StatsOpen \/ StatsDecode \/ StatsWrite) => IInv'
<1> USE DEF IInv, TypeOK, OnceClosed, Started, NotYetOpen, DeferredDone, ReturnedIsClean
<1>1. IInv /\ StatsUpgrade => IInv'
    BY DEF StatsUpgrade
<1>2. IInv /\ StatsOpen => IInv'
    BY DEF StatsOpen
<1>3. IInv /\ StatsDecode => IInv'
    BY DEF StatsDecode
<1>4. IInv /\ StatsWrite => IInv'
    BY DEF StatsWrite, Send
<1> QED BY <1>1, <1>2, <1>3, <1>4

\* Data arrives for a goroutine that reads.
LEMMA ReceiveInv == IInv /\ Receive => IInv'
BY DEF IInv, TypeOK, OnceClosed, Started, NotYetOpen, DeferredDone, ReturnedIsClean,
       Receive, Output, Message, Step

\* The steps of a goroutine: it closes and opens nothing.
LEMMA PumpInv == ASSUME NEW g \in {"out", "in"}, IInv, Pump(g) PROVE IInv'
<1> USE DEF IInv, TypeOK, OnceClosed, Started, NotYetOpen, DeferredDone, ReturnedIsClean, Step
<1>1. CASE ReadFails(g)
    BY <1>1 DEF ReadFails
<1>2. CASE OutWrite(g)
    BY <1>2 DEF OutWrite, Send
<1>3. CASE InWrite(g)
    BY <1>3 DEF InWrite
<1>4. CASE CleanupStart(g)
    BY <1>4 DEF CleanupStart
<1>5. CASE CleanupStream(g)
    BY <1>5 DEF CleanupStream
<1>6. CASE CleanupWs(g)
    BY <1>6 DEF CleanupWs
<1>7. CASE Panic(g)
    BY <1>7 DEF Panic
<1> QED BY <1>1, <1>2, <1>3, <1>4, <1>5, <1>6, <1>7 DEF Pump

\* IInv holds for ever.
THEOREM Inductive == Spec => []IInv
<1>1. IInv /\ [Next]_vars => IInv'
    <2> SUFFICES ASSUME IInv, [Next]_vars PROVE IInv'
        OBVIOUS
    <2>1. CASE UNCHANGED vars
        BY <2>1 DEF IInv, TypeOK, OnceClosed, Started, NotYetOpen, DeferredDone,
                    ReturnedIsClean, vars
    <2>2. CASE Environment
        BY <2>2, EnvironmentInv
    <2>3. CASE Handler
        BY <2>3, TerminalInv, StatsInv DEF Handler
    <2>4. CASE Receive
        BY <2>4, ReceiveInv
    <2>5. CASE \E g \in {"out", "in"} : Pump(g)
        BY <2>5, PumpInv
    <2> QED BY <2>1, <2>2, <2>3, <2>4, <2>5 DEF Next
<1> QED BY <1>1, InitInv, PTL DEF Spec

\* Every variable of a WebSocket connection keeps its type; in particular the
\* two goroutines together close done at most once.
THEOREM TypeCorrect == Spec => []TypeOK
<1>1. IInv => TypeOK
    BY DEF IInv
<1> QED BY <1>1, Inductive, PTL

\* When TerminalHandler or StatsHandler has returned, on whatever path, neither
\* its Docker stream nor its WebSocket is open, and none is opened later.
THEOREM ReturnedClean == Spec => []ReturnedIsClean
<1>1. IInv => ReturnedIsClean
    BY DEF IInv
<1> QED BY <1>1, Inductive, PTL
=============================================================================
