------------------------------- MODULE WebApi -------------------------------
(***************************************************************************)
(* internal/api: login, the session table, the Auth middleware and the     *)
(* handlers behind it.  A request on a container is checked twice: Auth    *)
(* asks for container.read on the name the daemon gives to its id, the     *)
(* handler asks for its own permission on the id as it was sent, with a    *)
(* Get of its own.  What the operations do is in ContainerManager.         *)
(***************************************************************************)
EXTENDS AccessConfig

CONSTANTS
    Tokens,       \* session tokens: 16 random bytes each
    Containers,   \* ids of containers
    NameOf        \* NameOf[c]: the name of container c, for a name itself

ASSUME WebAssumption == NameOf \in [Names \cup Containers -> Names]
                        /\ \A n \in Names : NameOf[n] = n

VARIABLE sessions   \* WebSessions: the user of a token, or NoUser

Actions == {"start", "stop", "kill", "backup", "remove"}

\* Endpoints that only Auth protects, and those that check again.
AuthOnly == {"inspect", "backups", "logs"}
Checked  == Actions \cup {"restore", "cmd", "exec", "wslogs", "stats"}

SessionsInit == sessions = [t \in Tokens |-> NoUser]

containerToPerm(a) == IF a \in Actions THEN Execute(a) ELSE PermContainerExecute

-----------------------------------------------------------------------------
(* Login.                                                                  *)

\* The configuration is taken and the credentials are compared with it.
Login(r) ==
    /\ req[r].pc = "idle"
    /\ Get
    /\ \E u \in Users, p \in Passwords :
          \/ /\ Verified(file, u, p)
             /\ req' = [req EXCEPT ![r].pc = "token", ![r].op = "login", ![r].user = u]
          \/ ~ Verified(file, u, p) /\ UNCHANGED req
    /\ UNCHANGED sessions

\* A new token is stored for the user, unless there is no randomness.
LoginStore(r) ==
    /\ req[r].pc = "token"
    /\ \/ \E t \in Tokens : sessions[t] = NoUser /\ sessions' = [sessions EXCEPT ![t] = req[r].user]
       \/ UNCHANGED sessions
    /\ Finish(r)
    /\ UNCHANGED config

-----------------------------------------------------------------------------
(* The middleware.  A token without a session is refused.                  *)

Arrive(r) ==
    /\ req[r].pc = "idle"
    /\ \E t \in Tokens :
          /\ sessions[t] # NoUser
          /\ \/ \E op \in AuthOnly \cup Checked, id \in Names \cup Containers :
                   req' = [req EXCEPT ![r] = [NoRequest EXCEPT !.pc = "auth", !.op = op,
                             !.user = sessions[t], !.path = <<id>>, !.floor = file]]
             \/ req' = [req EXCEPT ![r] = [NoRequest EXCEPT !.pc = "list", !.op = "list",
                          !.user = sessions[t], !.floor = file]]
    /\ UNCHANGED <<config, sessions>>

\* Bug: the configuration in memory is used as it is.
AuthGet_Cached(r) ==
    /\ req[r].pc = "auth"
    /\ req' = [req EXCEPT ![r].pc = "inspect", ![r].snap = cfg]
    /\ UNCHANGED <<config, sessions>>

AuthGet(r) ==
    /\ req[r].pc = "auth"
    /\ Get
    /\ req' = [req EXCEPT ![r].pc = "inspect", ![r].snap = file]
    /\ UNCHANGED sessions

\* Without a container of that id, the id is taken for the server's name.
AuthInspect(r) ==
    /\ req[r].pc = "inspect"
    /\ \E realName \in {NameOf[req[r].path[1]], req[r].path[1]} :
          IF May(req[r].snap, req[r].user, realName, PermContainerRead)
          THEN GoTo(r, "handler") ELSE Finish(r)
    /\ UNCHANGED <<config, sessions>>

-----------------------------------------------------------------------------
(* The handlers.  Those that change something or stream look the session   *)
(* up again (no entry is ever removed: the user is the same) and check a   *)
(* permission of their own, on the id as it was sent.                      *)

Permit(r, perm) ==
    /\ Get
    /\ IF May(file, req[r].user, req[r].path[1], perm) THEN GoTo(r, "run") ELSE Finish(r)
    /\ UNCHANGED sessions

At(r, ops) == req[r].pc = "handler" /\ req[r].op \in ops

Action(r)          == At(r, Actions) /\ Permit(r, containerToPerm(req[r].op))
RestoreAction(r)   == At(r, {"restore"}) /\ Permit(r, PermContainerRestore)
CmdContainer(r)    == At(r, {"cmd"}) /\ Permit(r, PermContainerWrite)
TerminalHandler(r) == At(r, {"exec", "wslogs"})
                      /\ Permit(r, IF req[r].op = "exec" THEN PermContainerWrite ELSE PermContainerRead)
StatsHandler(r)    == At(r, {"stats"}) /\ Permit(r, PermContainerRead)

\* These rely on Auth.
Proceed(r)          == GoTo(r, "run") /\ UNCHANGED <<config, sessions>>
InspectContainer(r) == At(r, {"inspect"}) /\ Proceed(r)
ListBackups(r)      == At(r, {"backups"}) /\ Proceed(r)
GetContainerLogs(r) == At(r, {"logs"}) /\ Proceed(r)

\* These go on for as long as the client stays connected, or what a stop sequence
\* executes in the container runs: the code sets no deadline.
Waits == {"stop", "exec", "wslogs", "stats"}

Answer(r) ==
    /\ req[r].pc = "run"
    /\ Finish(r)
    /\ UNCHANGED <<config, sessions>>

\* The operation runs to its end (or its body is refused) and is answered.
Run(r) == req[r].op \notin Waits /\ Answer(r)

\* A wait is over, or there was none.
WaitEnds(r) == req[r].op \in Waits /\ Answer(r)

\* The actions the configuration of a server provides for.
DefinedActions(v, name) ==
    LET defs == text[v].defs[name]
    IN  (IF "image" \in defs THEN {"start"} ELSE {})
        \cup (IF "stop" \in defs THEN {"stop", "kill"} ELSE {})
        \cup (IF "backup" \in defs THEN {"backup", "restore"} ELSE {})
        \cup {"remove"}

\* Bug: whoever may read the console is offered the actions.
calculateActions_ForReaders(v, user, name) ==
    IF May(v, user, name, PermContainerRead) THEN DefinedActions(v, name) ELSE {}

\* The actions offered for a server of version v.
calculateActions(v, user, name) ==
    IF May(v, user, name, PermContainerExecute) THEN DefinedActions(v, name) ELSE {}

\* An entry of the list; a container without a server goes by its id.
Item(v, user, id, name, actions) ==
    [id |-> id, name |-> name, actions |-> actions,
     permissions |->
        {IF p = PermContainerExecute /\ id # name THEN <<"execute">> ELSE p :
           p \in {q \in {PermContainerRead, PermContainerWrite, PermContainerExecute} :
                    May(v, user, name, q)}}]

\* The servers of the configuration, then the other containers of the daemon.
ListItems(v, user, existing) ==
    LET listed == {s \in text[v].servers : May(v, user, s, PermContainerRead)}
    IN  {Item(v, user, n, n, calculateActions(v, user, n)) : n \in listed}
        \cup {Item(v, user, c, NameOf[c], {}) :
                c \in {d \in existing : /\ NameOf[d] \notin listed
                                        /\ May(v, user, NameOf[d], PermContainerRead)}}

\* ListContainers; the daemon is asked first and may not answer.
ListContainers(r) ==
    /\ req[r].pc = "list"
    /\ \/ /\ Get
          /\ \E existing \in SUBSET Containers :
                req' = [req EXCEPT ![r].pc = "listed", ![r].snap = file,
                                   ![r].items = ListItems(file, req[r].user, existing)]
       \/ Finish(r) /\ UNCHANGED config
    /\ UNCHANGED sessions

Listed(r) ==
    /\ req[r].pc = "listed"
    /\ Finish(r)
    /\ UNCHANGED <<config, sessions>>

WebWork(r) ==
    \/ AuthGet(r) \/ AuthInspect(r)
    \/ Action(r) \/ RestoreAction(r) \/ CmdContainer(r) \/ TerminalHandler(r) \/ StatsHandler(r)
    \/ InspectContainer(r) \/ ListBackups(r) \/ GetContainerLogs(r) \/ Run(r)
    \/ ListContainers(r) \/ Listed(r)

-----------------------------------------------------------------------------
(* Properties.                                                             *)

\* The permission README.md names for each operation.
RequiredPerm(op) ==
    CASE op \in {"cmd", "exec"}     -> PermContainerWrite
      [] op \in {"wslogs", "stats"} -> PermContainerRead
      [] OTHER                      -> Execute(op)

\* Both checks of a request on container id pass in version v.
Accepted(v, user, id, op) ==
    /\ \E name \in {NameOf[id], id} : May(v, user, name, PermContainerRead)
    /\ op \in Checked => May(v, user, id, RequiredPerm(op))

\* An operation runs only for a user who had each of the permissions it asks
\* for in a version that was on disk after the request had arrived: neither
\* the session nor the configuration in memory keeps a revoked one alive.
RevokedIsRefused ==
    \A r \in Requests : LET q == req[r] IN
        q.pc = "run" =>
            /\ \E v \in q.floor .. file, name \in {NameOf[q.path[1]], q.path[1]} :
                  May(v, q.user, name, PermContainerRead)
            /\ q.op \in Checked =>
                  \E v \in q.floor .. file : May(v, q.user, q.path[1], RequiredPerm(q.op))

\* Every action that ListContainers offers (calculateActions asks for
\* container.execute.*) is one the middleware and the handler accept, each of
\* which asks for a permission of its own.  (The converse does not hold: see
\* README.md.)
OfferedIsAllowed ==
    \A r \in Requests : req[r].pc = "listed" =>
        \A it \in req[r].items : \A a \in it.actions :
            Accepted(req[r].snap, req[r].user, it.id, a)

\* matchRecursive computes what permissions mean, on the ones in config.json
\* and every permission a handler asks for.
MatchIsGrant ==
    \A u \in Users, n \in Names \cup {"*"} : \A p \in text[file].perms[u][n] :
        \A required \in {RequiredPerm(op) : op \in Checked} \cup {PermContainerExecute, PermFileWrite} :
            matchRecursive(p, required) <=> Grants(p, required)
=============================================================================
