----------------------------- MODULE BotManager -----------------------------
(***************************************************************************)
(* internal/discord: the loop that keeps the Discord sessions and the      *)
(* channel table in step with the configuration (SyncBots, every 5s) and   *)
(* the handlers of interactions and messages in a channel, over the        *)
(* configuration as ConfigSource specifies it.                             *)
(*                                                                         *)
(* SyncBots gets a configuration and then reads LastLoaded twice, without  *)
(* the lock of the configuration; the other goroutines of the process      *)
(* (HTTP, SFTP, handlers) call Get too and may reload in between.          *)
(***************************************************************************)
EXTENDS ConfigSource, FiniteSets

CONSTANTS
    Servers, Channels, Tokens,
    Empty,         \* an empty or missing channel or token
    Handlers,      \* interactions being handled
    Texts,         \* what administrators write: a subset of AllTexts
    MaxFile,       \* bound: versions of config.json
    MaxFails,      \* bound: refused connections to Discord
    OtherReaders   \* BOOLEAN: other goroutines call Get

\* A configuration: the discord section of each server, the servers on which
\* the user of the interactions has the permission he needs, and those with a
\* template for messages.
AllTexts == [token   : [Servers -> Tokens \cup {Empty}],
             channel : [Servers -> Channels \cup {Empty}],
             allowed : SUBSET Servers, relay : SUBSET Servers]

ASSUME BotAssumption ==
    /\ Empty \notin Channels \cup Tokens
    /\ Texts \subseteq AllTexts
    /\ MaxFile \in Nat \ {0} /\ MaxFails \in Nat
    /\ OtherReaders \in BOOLEAN

VARIABLES
    text,        \* text[v]: version v of config.json
    pc,          \* where SyncBots is
    snap,        \* the version SyncBots got
    todo,        \* the tokens SyncBots has not looked at yet
    opened,      \* the token whose connection is open and not yet in Sessions
    updatedAt,   \* ChannelUpdatedAt
    channels,    \* ChannelToServer: Empty for a channel without a server
    sessions,    \* Sessions[token]: "absent", "nil" or "open"
    live,        \* live[token]: open gateway connections
    fails,       \* refused connections so far (bound)
    hd,          \* hd[h]: an interaction or a message
    missed       \* history: the version in memory was loaded by another goroutine
                 \* between SyncBots' Get and its last read of LastLoaded

bot  == <<pc, snap, todo, opened, updatedAt, channels, sessions, live, fails>>
vars == <<source, text, bot, hd, missed>>

Versions    == 1 .. MaxFile
NoText      == [token |-> [s \in Servers |-> Empty], channel |-> [s \in Servers |-> Empty],
                allowed |-> {}, relay |-> {}]
TextOf(v)   == IF v = 0 THEN NoText ELSE text[v]
TokensOf(c) == {c.token[s] : s \in Servers} \ {Empty}

\* The tables the loop over cfg.Servers may build: of servers that share a
\* channel the one that comes last in map order wins, which can be any.
TablesOf(c) ==
    {T \in [Channels -> Servers \cup {Empty}] : \A ch \in Channels :
        LET claim == {s \in Servers : c.channel[s] = ch}
        IN  IF claim = {} THEN T[ch] = Empty ELSE T[ch] \in claim}

NoInteraction == [pc |-> "idle", kind |-> "none", server |-> Empty, floor |-> 0]

Init ==
    /\ SourceInit /\ cfg = 1 /\ loaded = 1
    /\ \E c \in Texts : text = [v \in Versions |-> c]
    /\ pc = "idle" /\ snap = 0 /\ todo = {} /\ opened = Empty
    /\ updatedAt = 0
    /\ channels = [ch \in Channels |-> Empty]
    /\ sessions = [t \in Tokens |-> "absent"]
    /\ live = [t \in Tokens |-> 0]
    /\ fails = 0
    /\ hd = [h \in Handlers |-> NoInteraction]
    /\ missed = FALSE

-----------------------------------------------------------------------------
(* The configuration.                                                      *)

Write ==
    /\ file < MaxFile
    /\ Edit
    /\ \E c \in Texts : text' = [text EXCEPT ![file + 1] = c]
    /\ UNCHANGED <<bot, hd, missed>>

\* Config.Get returns a version no older than the file at the call.  (Files that
\* are missing or broken, or whose time cannot be had, are LoadedConfig's.)
Get ==
    /\ cfg' = file /\ loaded' = file
    /\ missed' = IF cfg = file THEN missed ELSE pc \in {"check", "mark"}
    /\ UNCHANGED file

OtherGet ==
    /\ OtherReaders
    /\ \E v \in (cfg + 1) .. file : cfg' = v /\ loaded' = v
    /\ UNCHANGED file
    /\ missed' = (pc \in {"check", "mark"})
    /\ UNCHANGED <<text, bot, hd>>

-----------------------------------------------------------------------------
(* SyncBots.                                                               *)

SyncGet ==
    /\ pc = "idle"
    /\ Get
    /\ snap' = file
    /\ pc' = "check"
    /\ UNCHANGED <<text, todo, opened, updatedAt, channels, sessions, live, fails, hd>>

\* needsUpdate: the first unlocked read of LastLoaded.
SyncCheck ==
    /\ pc = "check"
    /\ pc' = IF updatedAt < loaded THEN "mark" ELSE "idle"
    /\ UNCHANGED <<source, text, snap, todo, opened, updatedAt, channels, sessions, live, fails, hd, missed>>

\* The second one.
SyncMark ==
    /\ pc = "mark"
    /\ updatedAt' = loaded
    /\ pc' = "channels"
    /\ UNCHANGED <<source, text, snap, todo, opened, channels, sessions, live, fails, hd, missed>>

\* Bug: the table is filled in, never emptied.
SyncChannels_Merges ==
    /\ pc = "channels"
    /\ \E T \in TablesOf(TextOf(snap)) :
          channels' = [ch \in Channels |-> IF T[ch] = Empty THEN channels[ch] ELSE T[ch]]
    /\ todo' = TokensOf(TextOf(snap))
    /\ pc' = "tokens"
    /\ UNCHANGED <<source, text, snap, opened, updatedAt, sessions, live, fails, hd, missed>>

SyncChannels ==
    /\ pc = "channels"
    /\ channels' \in TablesOf(TextOf(snap))
    /\ todo' = TokensOf(TextOf(snap))
    /\ pc' = "tokens"
    /\ UNCHANGED <<source, text, snap, opened, updatedAt, sessions, live, fails, hd, missed>>

\* Bug: a token is opened again although its session is healthy.
SyncToken_AlwaysOpens ==
    /\ pc = "tokens"
    /\ \E t \in todo :
          /\ opened' = t
          /\ live' = [live EXCEPT ![t] = @ + 1]
          /\ pc' = "register"
    /\ UNCHANGED <<source, text, snap, todo, updatedAt, channels, sessions, fails, hd, missed>>

\* One token, in map order: a healthy session is kept, otherwise a connection
\* is opened; when Discord refuses, the token is noted with a nil session.
\* (discordgo.New, before, only fills in a struct: its error is always nil.)
SyncToken ==
    /\ pc = "tokens"
    /\ \E t \in todo :
          \/ /\ sessions[t] = "open"
             /\ todo' = todo \ {t}
             /\ UNCHANGED <<pc, opened, sessions, live, fails>>
          \/ /\ sessions[t] # "open"
             /\ live' = [live EXCEPT ![t] = @ + 1]
             /\ opened' = t
             /\ pc' = "register"
             /\ UNCHANGED <<todo, sessions, fails>>
          \/ /\ sessions[t] # "open" /\ fails < MaxFails
             /\ sessions' = [sessions EXCEPT ![t] = "nil"]
             /\ fails' = fails + 1
             /\ todo' = todo \ {t}
             /\ UNCHANGED <<pc, opened, live>>
    /\ UNCHANGED <<source, text, snap, updatedAt, channels, hd, missed>>

\* The commands of the bot are registered with Discord (a refusal is logged)
\* and only then is the open session stored.
SyncStore ==
    /\ pc = "register"
    /\ sessions' = [sessions EXCEPT ![opened] = "open"]
    /\ todo' = todo \ {opened}
    /\ opened' = Empty
    /\ pc' = "tokens"
    /\ UNCHANGED <<source, text, snap, updatedAt, channels, live, fails, hd, missed>>

Gone == {t \in Tokens : sessions[t] # "absent"} \ TokensOf(TextOf(snap))

\* Bug: the session is closed and stays in the map.
SyncPrune_KeepsEntry ==
    /\ pc = "tokens" /\ todo = {}
    /\ live' = [t \in Tokens |-> IF t \in Gone /\ sessions[t] = "open" THEN 0 ELSE live[t]]
    /\ pc' = "idle"
    /\ UNCHANGED <<source, text, snap, todo, opened, updatedAt, channels, sessions, fails, hd, missed>>

\* Sessions whose token is gone are closed and forgotten, under the lock.
SyncPrune ==
    /\ pc = "tokens" /\ todo = {}
    /\ live' = [t \in Tokens |-> IF t \in Gone /\ sessions[t] = "open" THEN live[t] - 1 ELSE live[t]]
    /\ sessions' = [t \in Tokens |-> IF t \in Gone THEN "absent" ELSE sessions[t]]
    /\ pc' = "idle"
    /\ UNCHANGED <<source, text, snap, todo, opened, updatedAt, channels, fails, hd, missed>>

SyncBots == SyncGet \/ SyncCheck \/ SyncMark \/ SyncChannels \/ SyncToken \/ SyncStore
            \/ SyncPrune

-----------------------------------------------------------------------------
(* onInteractionCreate and onMessageCreate: the channel table is read      *)
(* first, the configuration after it; the operation of an interaction runs *)
(* after the deferred response.                                            *)

Interact(h) ==
    /\ hd[h].pc = "idle"
    /\ \E ch \in Channels, k \in {"interaction", "message"} :
          /\ channels[ch] # Empty
          /\ hd' = [hd EXCEPT ![h] = [pc |-> "lookup", kind |-> k, server |-> channels[ch],
                                      floor |-> file]]
    /\ UNCHANGED <<source, text, bot, missed>>

\* The servers on which version v lets an interaction or a message through.
Admits(v, kind) == IF kind = "interaction" THEN TextOf(v).allowed ELSE TextOf(v).relay

\* Bug: the configuration SyncBots works on is asked.
Authorize_Cached(h) ==
    /\ hd[h].pc = "lookup" /\ hd[h].kind = "interaction"
    /\ hd' = [hd EXCEPT ![h] = IF hd[h].server \in Admits(snap, "interaction")
                               THEN [hd[h] EXCEPT !.pc = "run"] ELSE NoInteraction]
    /\ UNCHANGED <<source, text, bot, missed>>

Authorize(h) ==
    /\ hd[h].pc = "lookup" /\ hd[h].kind = "interaction"
    /\ Get
    /\ hd' = [hd EXCEPT ![h] = IF hd[h].server \in Admits(file, "interaction")
                               THEN [hd[h] EXCEPT !.pc = "run"] ELSE NoInteraction]
    /\ UNCHANGED <<text, bot>>

\* A message of a user (those of bots are dropped on arrival) is sent to the
\* server when its configuration has a template.
Relay(h) ==
    /\ hd[h].pc = "lookup" /\ hd[h].kind = "message"
    /\ Get
    /\ hd' = [hd EXCEPT ![h] = IF hd[h].server \in Admits(file, "message")
                               THEN [hd[h] EXCEPT !.pc = "run"] ELSE NoInteraction]
    /\ UNCHANGED <<text, bot>>

\* The deferred response is sent (if that fails nothing is run) and the
\* operation is run on the server, or the message is sent to it; see
\* ContainerManager.
Execute(h) ==
    /\ hd[h].pc = "run"
    /\ hd' = [hd EXCEPT ![h] = NoInteraction]
    /\ UNCHANGED <<source, text, bot, missed>>

Next ==
    \/ Write \/ OtherGet \/ SyncBots
    \/ \E h \in Handlers : Interact(h) \/ Authorize(h) \/ Relay(h) \/ Execute(h)

Spec == Init /\ [][Next]_vars

\* The ticker runs SyncBots every 5s and its steps return.
FairSpec == Spec /\ WF_vars(SyncBots)

-----------------------------------------------------------------------------
(* Properties.                                                             *)

\* Every variable has its type.
TypeOK ==
    /\ file \in Versions /\ cfg \in 0 .. MaxFile /\ loaded \in 0 .. MaxFile
    /\ text \in [Versions -> Texts]
    /\ pc \in {"idle", "check", "mark", "channels", "tokens", "register"}
    /\ snap \in 0 .. MaxFile /\ updatedAt \in 0 .. MaxFile
    /\ todo \subseteq Tokens /\ opened \in Tokens \cup {Empty}
    /\ channels \in [Channels -> Servers \cup {Empty}]
    /\ sessions \in [Tokens -> {"absent", "nil", "open"}]
    /\ live \in [Tokens -> 0 .. 1]
    /\ fails \in 0 .. MaxFails
    /\ hd \in [Handlers -> [pc : {"idle", "lookup", "run"}, kind : {"none", "interaction", "message"},
                            server : Servers \cup {Empty}, floor : 0 .. MaxFile]]
    /\ missed \in BOOLEAN

\* A token never has two gateway connections, and a connection is open only
\* while Sessions, or the SyncBots that is about to store it, knows it: no
\* event is handled twice, none by a bot that cannot be stopped any more.
OneConnection ==
    \A t \in Tokens : live[t] = IF sessions[t] = "open" \/ opened = t THEN 1 ELSE 0

\* The version SyncBots noted as applied is the one it applied, unless it was
\* loaded behind its back: when it rests, table and sessions are those of
\* version ChannelUpdatedAt.
AppliedIsNoted ==
    pc = "idle" /\ updatedAt # 0 /\ updatedAt = loaded /\ ~ missed =>
        /\ channels \in TablesOf(text[updatedAt])
        /\ {t \in Tokens : sessions[t] # "absent"} = TokensOf(text[updatedAt])

\* An interaction that arrives after a permission was revoked is never run, nor
\* is a message relayed that comes after its template was removed.
RevocationIsImmediate ==
    \A h \in Handlers : hd[h].pc = "run" =>
        \E v \in hd[h].floor .. file : hd[h].server \in Admits(v, hd[h].kind)

\* "動的なリロードによって稼働中のシステムに即座に反映されます" (system-design.md): after the last
\* edit the channel table becomes that of the configuration on disk, whoever
\* loads it, except between the steps of SyncBots that missed stands for.
ChannelsFollow == <>[](~ missed) => <>[](channels \in TablesOf(text[file]))

\* Under the same condition every configured bot gets online, or its last
\* connection was refused.
BotsComeOnline ==
    <>[](~ missed) => <>[](\A t \in TokensOf(text[file]) : live[t] = 1 \/ sessions[t] = "nil")

\* "リトライ対象として nil をセット" (SyncBots): a token whose connection was refused is
\* tried again, so after the last refusal every configured bot gets online.
RefusedIsRetried == <>[](\A t \in TokensOf(text[file]) : live[t] = 1)
=============================================================================
