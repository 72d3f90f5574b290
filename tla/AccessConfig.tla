---------------------------- MODULE AccessConfig ----------------------------
(***************************************************************************)
(* What the HTTP, SFTP and WebDAV front ends share: the configuration (a   *)
(* version of config.json per edit, as ConfigSource specifies it) with its *)
(* users, permissions and servers, and the requests under way.  A request  *)
(* takes the configuration again with Get at each of its checks.           *)
(***************************************************************************)
EXTENDS ConfigSource, Permissions

CONSTANTS
    Users, Passwords,
    Names,      \* names of servers and containers
    NoUser,     \* no user: an empty entry of a table
    Requests,   \* requests under way
    Texts,      \* what administrators write: a subset of AllTexts
    MaxFile     \* bound: versions of config.json

\* defs[n]: which of compose.image, commands.stop and commands.backup the
\* server n has.
AllTexts ==
    [known   : SUBSET Users,
     pass    : [Users -> Passwords],
     perms   : [Users -> [Names \cup {"*"} -> SUBSET Seq(STRING)]],
     servers : SUBSET Names,
     defs    : [Names -> SUBSET {"image", "stop", "backup"}]]

ASSUME AccessAssumption ==
    /\ NoUser \notin Users
    /\ "*" \notin Names
    /\ Texts \subseteq AllTexts
    /\ MaxFile \in Nat \ {0}

VARIABLES
    text,       \* text[v]: version v of config.json
    req         \* req[r]: a request, NoRequest when there is none

config == <<source, text>>

NoRequest ==
    [pc |-> "idle", op |-> "none", user |-> NoUser, path |-> <<>>, target |-> <<>>,
     snap |-> 0, floor |-> 0, items |-> {}, out |-> <<>>, sent |-> <<>>, host |-> <<>>]

ConfigInit ==
    /\ SourceInit /\ cfg = 1 /\ loaded = 1
    /\ \E c \in Texts : text = [v \in 1 .. MaxFile |-> c]
    /\ req = [r \in Requests |-> NoRequest]

Write ==
    /\ file < MaxFile
    /\ Edit
    /\ \E c \in Texts : text' = [text EXCEPT ![file + 1] = c]
    /\ UNCHANGED req

\* Bug: LastLoaded keeps the time of the previous version.
Get_OldTime == cfg' = file /\ UNCHANGED <<file, loaded, text>>

\* Config.Get returns a version no older than the file at the call.  (Files that
\* are missing or broken, or whose time cannot be had, are LoadedConfig's.)
Get == cfg' = file /\ loaded' = file /\ UNCHANGED <<file, text>>

\* The entry of a user the configuration does not know has no permission.
May(v, user, name, perm) ==
    user \in text[v].known /\ HasPermission(text[v].perms[user], name, perm)

\* The credentials are those of a user of version v.
Verified(v, user, password) == user \in text[v].known /\ text[v].pass[user] = password

Finish(r)     == req' = [req EXCEPT ![r] = NoRequest]
GoTo(r, next) == req' = [req EXCEPT ![r].pc = next]
=============================================================================
