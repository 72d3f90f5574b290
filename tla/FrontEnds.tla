------------------------------ MODULE FrontEnds -----------------------------
(***************************************************************************)
(* The HTTP, SFTP and WebDAV front ends over one configuration, while      *)
(* administrators edit it, in one process.                                 *)
(***************************************************************************)
EXTENDS WebApi, FileAccess

vars == <<config, req, sessions, conns>>

Init == ConfigInit /\ SessionsInit /\ ConnsInit

\* The nil FileInfo is dereferenced in a goroutine of the SFTP library, which does
\* not recover: the process ends, and boot.sh starts it again, without sessions,
\* connections and requests.
Panic(r) ==
    /\ req[r].pc = "page" /\ HasNil(NextPage(req[r]))
    /\ req' = [q \in Requests |-> NoRequest]
    /\ sessions' = [t \in Tokens |-> NoUser]
    /\ conns' = [c \in Conns |-> NoUser]
    /\ Get

Work(r) ==
    \/ (LoginStore(r) \/ WebWork(r)) /\ UNCHANGED conns
    \/ FileWork(r) /\ UNCHANGED sessions
    \/ Panic(r)

\* What is up to the client, or to what runs in the container.
Leave(r) ==
    \/ WaitEnds(r) /\ UNCHANGED conns
    \/ CloseHandle(r) /\ UNCHANGED sessions

Next ==
    \/ Write /\ UNCHANGED <<sessions, conns>>
    \/ \E r \in Requests : Work(r) \/ Leave(r) \/ ((Login(r) \/ Arrive(r)) /\ UNCHANGED conns)
    \/ \E r \in Requests : (SftpRequest(r) \/ DavHandler(r)) /\ UNCHANGED sessions
    \/ \E c \in Conns : (SftpConnect(c) \/ SftpDisconnect(c)) /\ UNCHANGED sessions

Spec == Init /\ [][Next]_vars

\* A request that is under way is worked on: the daemon and the host answer,
\* and the client of a listing asks for the next page.  Nothing is assumed of
\* Leave.
FairSpec == Spec /\ \A r \in Requests : WF_vars(Work(r))

\* Every variable has its type.
TypeOK ==
    /\ file \in 1 .. MaxFile /\ cfg \in 1 .. file /\ loaded = cfg
    /\ text \in [1 .. MaxFile -> Texts]
    /\ sessions \in [Tokens -> Users \cup {NoUser}]
    /\ conns \in [Conns -> Users \cup {NoUser}]
    /\ \A r \in Requests : LET q == req[r] IN
          /\ q.op \in {"none", "login", "list"} \cup AuthOnly \cup Checked \cup SftpOps \cup DavOps
          /\ q.user \in Users <=> q.pc # "idle"
          /\ q.snap \in 0 .. file /\ q.floor \in 0 .. file
          /\ Len(q.sent) <= Len(q.out)
          /\ Len(q.host) <= 2

\* Every request is answered unless it comes to a wait that has no deadline (an
\* exec, a stream, an open file): no check, retry or page keeps it for ever.
RequestsEnd ==
    \A r \in Requests : LET q == req[r] IN
        q.pc # "idle" ~> \/ q.pc \in {"idle", "handle"}
                         \/ q.pc = "run" /\ q.op \in Waits
=============================================================================
