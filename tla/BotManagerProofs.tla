-------------------------- MODULE BotManagerProofs --------------------------
(***************************************************************************)
(* Theorems about BotManager, for any number of servers, channels, bots,   *)
(* interactions and edits: the connections to Discord are those the        *)
(* program knows of, the version noted as applied is the one applied, and  *)
(* no permission outlives its revocation.                                  *)
(***************************************************************************)
EXTENDS BotManager, TLAPS

\* LastLoaded belongs to the version in memory, and nobody is ahead of it.
SourceOK ==
    /\ cfg = loaded /\ 1 <= loaded /\ loaded <= file
    /\ snap <= loaded /\ updatedAt <= loaded

\* A connection waits to be stored exactly when SyncBots registers commands.
OpenedOK == IF pc = "register" THEN opened \in Tokens ELSE opened = Empty

\* Table and sessions are those of configuration c.
Applied(c) ==
    /\ channels \in TablesOf(c)
    /\ {t \in Tokens : sessions[t] # "absent"} = TokensOf(c)

\* From its Get to its last read of LastLoaded, SyncBots has the version in
\* memory unless it missed one.
SnapIsLoaded == pc \in {"check", "mark"} /\ ~missed => snap = loaded

\* While it works, it works on the version it noted.
SnapIsNoted ==
    pc \in {"channels", "tokens", "register"} /\ ~missed /\ updatedAt = loaded => snap = updatedAt

\* Once the table is built, and for the tokens it has looked at, what it got is done.
HalfApplied ==
    pc \in {"tokens", "register"} =>
        /\ channels \in TablesOf(TextOf(snap))
        /\ \A t \in TokensOf(TextOf(snap)) \ todo : t \in Tokens /\ sessions[t] # "absent"

\* AppliedIsNoted, until SyncBots begins to change things.
NotedApplied ==
    pc \in {"idle", "check", "mark"} /\ updatedAt # 0 /\ updatedAt = loaded /\ ~missed =>
        Applied(TextOf(updatedAt))

\* What a handler will be allowed was allowed since it began.
HandlerOK(h) ==
    /\ hd[h].floor <= file
    /\ hd[h].pc = "run" => \E v \in hd[h].floor .. file : hd[h].server \in Admits(v, hd[h].kind)

Handled == \A h \in Handlers : HandlerOK(h)

IInv ==
    /\ TypeOK /\ SourceOK /\ OpenedOK /\ OneConnection
    /\ SnapIsLoaded /\ SnapIsNoted /\ HalfApplied /\ NotedApplied /\ Handled

-----------------------------------------------------------------------------
(* What a step does to the configuration.                                  *)

\* A configuration is well formed: its tokens are tokens, its tables tables.
LEMMA TextTyped ==
    ASSUME TypeOK, NEW v \in 0 .. MaxFile
    PROVE  /\ TextOf(v) \in AllTexts
           /\ TokensOf(TextOf(v)) \subseteq Tokens
<1>1. TextOf(v) \in AllTexts
  <2>1. CASE v = 0
    BY <2>1 DEF TextOf, NoText, AllTexts
  <2>2. CASE v # 0
    <3>1. v \in Versions
      BY <2>2, BotAssumption DEF Versions
    <3>2. text[v] \in Texts
      BY <3>1 DEF TypeOK
    <3> QED
      BY <2>2, <3>2, BotAssumption DEF TextOf
  <2> QED
    BY <2>1, <2>2
<1>2. TokensOf(TextOf(v)) \subseteq Tokens
  BY <1>1 DEF TokensOf, AllTexts
<1> QED
  BY <1>1, <1>2

\* Get and OtherGet leave the version in memory alone, or move it forward and
\* note whether SyncBots missed it.
LoadStep ==
    \/ UNCHANGED <<cfg, loaded, missed>>
    \/ /\ loaded' \in (loaded + 1) .. file /\ cfg' = loaded'
       /\ missed' = (pc \in {"check", "mark"})

\* Config.Get is such a step.
LEMMA GetLoads == ASSUME TypeOK, SourceOK, Get PROVE LoadStep
<1>1. CASE cfg = file
  BY <1>1 DEF Get, LoadStep, SourceOK
<1>2. CASE cfg # file
  <2>1. missed' = (pc \in {"check", "mark"})
    BY <1>2 DEF Get
  <2>2. loaded' \in (loaded + 1) .. file /\ cfg' = loaded'
    BY <1>2 DEF Get, TypeOK, SourceOK, Versions
  <2> QED
    BY <2>1, <2>2 DEF LoadStep
<1> QED
  BY <1>1, <1>2

\* So is a Get of another goroutine.
LEMMA OtherGetLoads == ASSUME TypeOK, SourceOK, OtherGet PROVE LoadStep
<1>1. missed' = (pc \in {"check", "mark"})
  BY DEF OtherGet
<1>2. loaded' \in (loaded + 1) .. file /\ cfg' = loaded'
  BY DEF OtherGet, TypeOK, SourceOK, Versions
<1> QED
  BY <1>1, <1>2 DEF LoadStep

\* Every step moves the configuration by LoadStep, and only adds versions to
\* the file: those that were written stay as they are.
LEMMA SourceStep ==
    ASSUME IInv, [Next]_vars
    PROVE  /\ LoadStep /\ file <= file' /\ file' \in Versions
           /\ text' \in [Versions -> Texts]
           /\ \A v \in 0 .. file : TextOf(v)' = TextOf(v)
<1> DEFINE Stays == file' = file /\ text' = text
<1> USE DEF source
<1>1. CASE Write
  <2>1. /\ file' = file + 1 /\ file \in Versions /\ file' \in Versions
        /\ text \in [Versions -> Texts]
    BY <1>1, BotAssumption DEF Write, Edit, IInv, TypeOK, Versions
  <2>2. PICK c \in Texts : text' = [text EXCEPT ![file + 1] = c]
    BY <1>1 DEF Write
  <2>3. \A v \in 0 .. file : TextOf(v)' = TextOf(v)
    BY <2>1, <2>2, BotAssumption DEF TextOf, Versions
  <2>4. LoadStep
    BY <1>1 DEF Write, Edit, LoadStep
  <2> QED
    BY <2>1, <2>2, <2>3, <2>4 DEF Versions
<1>2. CASE OtherGet
  <2>1. Stays
    BY <1>2 DEF OtherGet
  <2> QED
    BY <1>2, <2>1, OtherGetLoads DEF IInv, TypeOK, TextOf, Versions
<1>3. ASSUME Get, text' = text PROVE LoadStep /\ Stays
  BY <1>3, GetLoads DEF IInv, Get
<1>4. ASSUME UNCHANGED <<source, text, missed>> PROVE LoadStep /\ Stays
  BY <1>4 DEF LoadStep
<1>5. CASE SyncGet
  BY <1>3, <1>5 DEF SyncGet, IInv, TypeOK, TextOf, Versions
<1>6. CASE SyncBots /\ ~SyncGet
  <2>1. UNCHANGED <<source, text, missed>>
    BY <1>6 DEF SyncBots, SyncCheck, SyncMark, SyncChannels, SyncToken, SyncStore, SyncPrune
  <2> QED
    BY <1>4, <2>1 DEF IInv, TypeOK, TextOf, Versions
<1>7. ASSUME NEW h \in Handlers, Authorize(h) \/ Relay(h) PROVE LoadStep /\ Stays
  BY <1>3, <1>7 DEF Authorize, Relay
<1>8. ASSUME NEW h \in Handlers, Interact(h) \/ Execute(h) PROVE LoadStep /\ Stays
  BY <1>4, <1>8 DEF Interact, Execute
<1>9. CASE UNCHANGED vars
  BY <1>4, <1>9 DEF vars, IInv, TypeOK, TextOf, Versions
<1>10. CASE LoadStep /\ Stays
  BY <1>10 DEF IInv, TypeOK, TextOf, Versions
<1> QED
  BY <1>1, <1>2, <1>5, <1>6, <1>7, <1>8, <1>9, <1>10 DEF Next
-----------------------------------------------------------------------------
(* The connections.                                                        *)

\* The types of the state of the connections, as in TypeOK.
ConnectionTypes ==
    /\ pc \in {"idle", "check", "mark", "channels", "tokens", "register"}
    /\ todo \subseteq Tokens /\ opened \in Tokens \cup {Empty}
    /\ sessions \in [Tokens -> {"absent", "nil", "open"}]
    /\ live \in [Tokens -> 0 .. 1]

Connections == ConnectionTypes /\ OpenedOK /\ OneConnection

\* Handlers, edits and the Get of other goroutines leave SyncBots' state alone.
LEMMA BotUnchanged == ASSUME [Next]_vars PROVE SyncBots \/ UNCHANGED bot
BY DEF Next, vars, Write, OtherGet, Interact, Authorize, Relay, Execute

\* A connection is opened only for a token that has none, and is closed only
\* with the session that holds it.
LEMMA ConnectionStep == ASSUME IInv, [Next]_vars PROVE Connections'
<1>1. /\ Connections /\ TypeOK /\ Empty \notin Tokens /\ snap \in 0 .. MaxFile
  BY BotAssumption DEF IInv, TypeOK, Connections, ConnectionTypes
<1> USE DEF Connections
<1>2. ASSUME UNCHANGED <<pc, todo, opened, sessions, live>> PROVE Connections'
  BY <1>1, <1>2 DEF ConnectionTypes, OpenedOK, OneConnection
<1>3. CASE UNCHANGED bot
  BY <1>2, <1>3 DEF bot
<1>4. ASSUME UNCHANGED <<opened, sessions, live>>, todo' \subseteq Tokens, pc # "register",
             pc' \in {"idle", "check", "mark", "channels", "tokens"}
      PROVE  Connections'
  BY <1>1, <1>4 DEF ConnectionTypes, OpenedOK, OneConnection
<1>5. CASE SyncGet \/ SyncCheck \/ SyncMark
  BY <1>1, <1>4, <1>5 DEF SyncGet, SyncCheck, SyncMark, ConnectionTypes
<1>6. CASE SyncChannels
  BY <1>1, <1>4, <1>6, TextTyped DEF SyncChannels
<1>7. CASE SyncToken
  <2>1. PICK t \in todo :
          \/ /\ sessions[t] = "open"
             /\ todo' = todo \ {t}
             /\ UNCHANGED <<pc, opened, sessions, live, fails>>
          \/ /\ sessions[t] # "open"
             /\ live' = [live EXCEPT ![t] = @ + 1]
             /\ opened' = t
             /\ pc' = "register"
             /\ UNCHANGED <<todo, sessions, fails>>
          \/ /\ sessions[t] # "open" /\ fails < MaxFails
             /\ sessions' = [sessions EXCEPT ![t] = "nil"]
             /\ fails' = fails + 1
             /\ todo' = todo \ {t}
             /\ UNCHANGED <<pc, opened, live>>
    BY <1>7 DEF SyncToken
  <2>2. t \in Tokens /\ opened = Empty /\ pc = "tokens"
    BY <1>1, <1>7 DEF SyncToken, ConnectionTypes, OpenedOK
  <2>3. CASE UNCHANGED <<pc, opened, sessions, live, fails>> /\ todo' = todo \ {t}
    BY <1>1, <1>4, <2>2, <2>3 DEF ConnectionTypes
  <2>4. CASE /\ sessions[t] # "open"
             /\ live' = [live EXCEPT ![t] = @ + 1]
             /\ opened' = t
             /\ pc' = "register"
             /\ UNCHANGED <<todo, sessions, fails>>
    <3>1. live[t] = 0
      BY <1>1, <2>2, <2>4 DEF OneConnection
    <3> QED
      BY <1>1, <2>2, <2>4, <3>1 DEF ConnectionTypes, OpenedOK, OneConnection
  <2>5. CASE /\ sessions[t] # "open" /\ fails < MaxFails
             /\ sessions' = [sessions EXCEPT ![t] = "nil"]
             /\ fails' = fails + 1
             /\ todo' = todo \ {t}
             /\ UNCHANGED <<pc, opened, live>>
    BY <1>1, <2>2, <2>5 DEF ConnectionTypes, OpenedOK, OneConnection
  <2> QED
    BY <2>1, <2>3, <2>4, <2>5
<1>8. CASE SyncStore
  BY <1>1, <1>8 DEF SyncStore, ConnectionTypes, OpenedOK, OneConnection
<1>9. CASE SyncPrune
  <2>1. opened = Empty /\ opened' = Empty /\ pc' = "idle" /\ todo' = todo
    BY <1>1, <1>9 DEF SyncPrune, OpenedOK
  <2>2. \A t \in Tokens : live[t] = IF sessions[t] = "open" THEN 1 ELSE 0
    BY <1>1, <2>1 DEF OneConnection
  <2>3. /\ live' = [t \in Tokens |-> IF t \in Gone /\ sessions[t] = "open" THEN live[t] - 1 ELSE live[t]]
        /\ sessions' = [t \in Tokens |-> IF t \in Gone THEN "absent" ELSE sessions[t]]
    BY <1>9 DEF SyncPrune
  <2>4. ConnectionTypes'
    BY <1>1, <2>1, <2>2, <2>3 DEF ConnectionTypes
  <2>5. OneConnection'
    BY <1>1, <2>1, <2>2, <2>3 DEF OneConnection
  <2> QED
    BY <2>1, <2>4, <2>5 DEF OpenedOK
<1> QED
  BY <1>3, <1>5, <1>6, <1>7, <1>8, <1>9, BotUnchanged DEF SyncBots

-----------------------------------------------------------------------------
(* The version noted as applied.                                           *)

\* The rest of SyncBots' state keeps its types, and neither its version nor
\* ChannelUpdatedAt gets ahead of LastLoaded.
LEMMA SyncTypes ==
    ASSUME IInv, [Next]_vars
    PROVE  /\ SourceOK' /\ loaded' \in 0 .. MaxFile /\ cfg' \in 0 .. MaxFile
           /\ snap' \in 0 .. MaxFile /\ updatedAt' \in 0 .. MaxFile
           /\ channels' \in [Channels -> Servers \cup {Empty}]
           /\ fails' \in 0 .. MaxFails /\ missed' \in BOOLEAN
<1>1. /\ MaxFile \in Nat /\ MaxFails \in Nat /\ missed \in BOOLEAN
      /\ file \in Nat /\ file <= MaxFile /\ loaded \in Nat /\ 1 <= loaded /\ loaded <= file
      /\ cfg = loaded /\ snap \in Nat /\ updatedAt \in Nat /\ snap <= loaded
      /\ updatedAt <= loaded /\ fails \in 0 .. MaxFails
      /\ channels \in [Channels -> Servers \cup {Empty}]
  BY BotAssumption DEF IInv, TypeOK, SourceOK, Versions
<1>2. /\ LoadStep /\ file <= file' /\ file' \in Nat /\ file' <= MaxFile
  BY <1>1, SourceStep DEF Versions
<1>3. /\ cfg' = loaded' /\ loaded <= loaded' /\ loaded' \in Nat /\ loaded' <= file'
      /\ loaded' <= MaxFile
  <2>1. CASE UNCHANGED <<cfg, loaded, missed>>
    BY <1>1, <1>2, <2>1
  <2>2. CASE loaded' \in (loaded + 1) .. file /\ cfg' = loaded'
    BY <1>1, <1>2, <2>2
  <2> QED
    BY <1>2, <2>1, <2>2 DEF LoadStep
<1>4. missed' \in BOOLEAN
  <2>1. CASE missed' = missed
    BY <1>1, <2>1
  <2>2. CASE missed' = (pc \in {"check", "mark"})
    BY <2>2
  <2> QED
    BY <1>2, <2>1, <2>2 DEF LoadStep
<1>5. /\ snap' \in Nat /\ snap' <= loaded' /\ updatedAt' \in Nat /\ updatedAt' <= loaded'
      /\ fails' \in 0 .. MaxFails /\ channels' \in [Channels -> Servers \cup {Empty}]
  <2>1. CASE UNCHANGED bot
    BY <1>1, <1>3, <2>1 DEF bot
  <2>2. CASE SyncGet
    BY <1>1, <1>3, <2>2 DEF SyncGet, Get
  <2>3. CASE SyncMark
    BY <1>1, <1>3, <2>3 DEF SyncMark, source
  <2>4. CASE SyncChannels
    BY <1>1, <1>3, <2>4 DEF SyncChannels, TablesOf
  <2>5. CASE SyncToken
    BY <1>1, <1>3, <2>5 DEF SyncToken
  <2>6. CASE SyncCheck \/ SyncStore \/ SyncPrune
    BY <1>1, <1>3, <2>6 DEF SyncCheck, SyncStore, SyncPrune
  <2> QED
    BY <2>1, <2>2, <2>3, <2>4, <2>5, <2>6, BotUnchanged DEF SyncBots
<1> QED
  BY <1>1, <1>2, <1>3, <1>4, <1>5 DEF SourceOK

\* SyncBots works on the version in memory unless it missed one, and once it
\* noted a version only a later one in memory is different from its own.
LEMMA SnapStep == ASSUME IInv, [Next]_vars PROVE SnapIsLoaded' /\ SnapIsNoted'
<1>1. /\ LoadStep /\ loaded \in Nat /\ updatedAt \in Nat /\ updatedAt <= loaded
      /\ SnapIsLoaded /\ SnapIsNoted /\ cfg = loaded /\ file \in Nat
  BY SourceStep DEF IInv, TypeOK, SourceOK, Versions
<1>2. CASE UNCHANGED bot
  <2>1. CASE UNCHANGED <<loaded, missed>>
    BY <1>1, <1>2, <2>1 DEF bot, SnapIsLoaded, SnapIsNoted
  <2>2. CASE loaded' \in (loaded + 1) .. file /\ missed' = (pc \in {"check", "mark"})
    <3>1. updatedAt' # loaded'
      BY <1>1, <1>2, <2>2 DEF bot
    <3>2. pc' \in {"check", "mark"} => missed'
      BY <1>2, <2>2 DEF bot
    <3> QED
      BY <3>1, <3>2 DEF SnapIsLoaded, SnapIsNoted
  <2> QED
    BY <1>1, <2>1, <2>2 DEF LoadStep
<1>3. CASE SyncGet
  BY <1>3 DEF SyncGet, Get, SnapIsLoaded, SnapIsNoted
<1>4. CASE SyncCheck
  <2>1. pc = "check" /\ pc' \in {"mark", "idle"} /\ UNCHANGED <<loaded, snap, missed>>
    BY <1>4 DEF SyncCheck, source
  <2> QED
    BY <1>1, <2>1 DEF SnapIsLoaded, SnapIsNoted
<1>5. CASE SyncMark
  <2>1. pc = "mark" /\ pc' = "channels" /\ updatedAt' = loaded /\ UNCHANGED <<loaded, snap, missed>>
    BY <1>5 DEF SyncMark, source
  <2> QED
    BY <1>1, <2>1 DEF SnapIsLoaded, SnapIsNoted
<1>6. ASSUME pc \in {"channels", "tokens", "register"}, pc' \in {"idle", "tokens", "register"},
             UNCHANGED <<loaded, snap, updatedAt, missed>>
      PROVE  SnapIsLoaded' /\ SnapIsNoted'
  BY <1>1, <1>6 DEF SnapIsLoaded, SnapIsNoted
<1>7. CASE SyncChannels \/ SyncStore \/ SyncPrune
  BY <1>6, <1>7 DEF SyncChannels, SyncStore, SyncPrune, source
<1>8. CASE SyncToken
  <2>1. pc = "tokens" /\ pc' \in {"tokens", "register"} /\ UNCHANGED <<loaded, snap, updatedAt, missed>>
    BY <1>8 DEF SyncToken, source
  <2> QED
    BY <1>6, <2>1
<1> QED
  BY <1>2, <1>3, <1>4, <1>5, <1>7, <1>8, BotUnchanged DEF SyncBots

\* A token that SyncBots has looked at has an entry in Sessions.
LEMMA HalfAppliedStep == ASSUME IInv, [Next]_vars PROVE HalfApplied'
<1>1. /\ HalfApplied /\ snap \in 0 .. file /\ snap \in 0 .. MaxFile /\ TypeOK
      /\ todo \subseteq Tokens /\ sessions \in [Tokens -> {"absent", "nil", "open"}]
  BY DEF IInv, TypeOK, SourceOK, Versions
<1>2. snap' = snap => TextOf(snap)' = TextOf(snap)
  BY <1>1, SourceStep
<1>3. CASE UNCHANGED <<pc, snap, todo, channels, sessions>>
  BY <1>1, <1>2, <1>3 DEF HalfApplied
<1>4. CASE pc' \notin {"tokens", "register"}
  BY <1>4 DEF HalfApplied
<1>5. CASE UNCHANGED bot
  BY <1>3, <1>5 DEF bot
<1>6. CASE SyncGet \/ SyncCheck \/ SyncMark \/ SyncPrune
  BY <1>4, <1>6 DEF SyncGet, SyncCheck, SyncMark, SyncPrune
<1>7. CASE SyncChannels
  BY <1>1, <1>2, <1>7 DEF SyncChannels, HalfApplied
<1>8. CASE SyncToken
  <2>1. PICK t \in todo :
          \/ sessions[t] = "open" /\ todo' = todo \ {t} /\ sessions' = sessions
          \/ todo' = todo /\ sessions' = sessions
          \/ sessions' = [sessions EXCEPT ![t] = "nil"] /\ todo' = todo \ {t}
    BY <1>8 DEF SyncToken
  <2>2. snap' = snap /\ channels' = channels /\ pc \in {"tokens", "register"}
    BY <1>8 DEF SyncToken
  <2> QED
    BY <1>1, <1>2, <2>1, <2>2 DEF HalfApplied
<1>9. CASE SyncStore
  <2>1. opened \in Tokens
    BY <1>9 DEF SyncStore, IInv, OpenedOK
  <2>2. /\ sessions' = [sessions EXCEPT ![opened] = "open"] /\ todo' = todo \ {opened}
        /\ snap' = snap /\ channels' = channels /\ pc \in {"tokens", "register"}
    BY <1>9 DEF SyncStore
  <2> QED
    BY <1>1, <1>2, <2>1, <2>2 DEF HalfApplied
<1> QED
  BY <1>5, <1>6, <1>7, <1>8, <1>9, BotUnchanged DEF SyncBots

\* When SyncBots comes to rest, what it noted is applied, and stays so until it
\* works again or a version is loaded.
LEMMA NotedStep == ASSUME IInv, [Next]_vars PROVE NotedApplied'
<1>1. /\ NotedApplied /\ TypeOK /\ loaded \in Nat /\ file \in Nat /\ loaded <= file
      /\ updatedAt \in 0 .. file /\ updatedAt <= loaded /\ snap \in 0 .. file
      /\ snap \in 0 .. MaxFile /\ cfg = loaded
  BY DEF IInv, TypeOK, SourceOK, Versions
<1>2. \A v \in 0 .. file : TextOf(v)' = TextOf(v)
  BY SourceStep
<1>3. ASSUME UNCHANGED <<updatedAt, channels, sessions>>, pc \in {"idle", "check", "mark"},
             \/ UNCHANGED <<loaded, missed>>
             \/ loaded' \in (loaded + 1) .. file
      PROVE  NotedApplied'
  <2>1. CASE UNCHANGED <<loaded, missed>>
    BY <1>1, <1>2, <1>3, <2>1 DEF NotedApplied, Applied
  <2>2. CASE loaded' \in (loaded + 1) .. file
    BY <1>1, <1>3, <2>2 DEF NotedApplied
  <2> QED
    BY <1>3, <2>1, <2>2
<1>4. CASE pc' \notin {"idle", "check", "mark"}
  BY <1>4 DEF NotedApplied
<1>5. CASE UNCHANGED bot
  <2>1. CASE pc \in {"idle", "check", "mark"}
    BY <1>3, <1>5, <2>1, SourceStep DEF bot, LoadStep
  <2> QED
    BY <1>4, <1>5, <2>1 DEF bot
<1>6. CASE SyncGet
  <2>1. LoadStep
    BY SourceStep
  <2> QED
    BY <1>3, <1>6, <2>1 DEF SyncGet, LoadStep
<1>7. CASE SyncCheck
  BY <1>3, <1>7 DEF SyncCheck, source
<1>8. CASE SyncMark \/ SyncChannels \/ SyncToken \/ SyncStore
  BY <1>4, <1>8 DEF SyncMark, SyncChannels, SyncToken, SyncStore
<1>9. CASE SyncPrune
  <2>1. /\ pc = "tokens" /\ todo = {}
        /\ UNCHANGED <<loaded, snap, updatedAt, channels, missed>>
        /\ sessions' = [t \in Tokens |-> IF t \in Gone THEN "absent" ELSE sessions[t]]
    BY <1>9 DEF SyncPrune, source
  <2>2. /\ channels \in TablesOf(TextOf(snap))
        /\ \A t \in TokensOf(TextOf(snap)) : t \in Tokens /\ sessions[t] # "absent"
    BY <2>1 DEF IInv, HalfApplied
  <2>3. {t \in Tokens : sessions'[t] # "absent"} = TokensOf(TextOf(snap))
    BY <2>1, <2>2 DEF Gone
  <2>4. updatedAt = loaded /\ ~missed => snap = updatedAt
    BY <2>1 DEF IInv, SnapIsNoted
  <2> QED
    BY <1>1, <1>2, <2>1, <2>2, <2>3, <2>4 DEF NotedApplied, Applied
<1> QED
  BY <1>5, <1>6, <1>7, <1>8, <1>9, BotUnchanged DEF SyncBots

-----------------------------------------------------------------------------
(* The handlers.                                                           *)

\* The type of a handler, as in TypeOK.
Interactions ==
    [pc : {"idle", "lookup", "run"}, kind : {"none", "interaction", "message"},
     server : Servers \cup {Empty}, floor : 0 .. MaxFile]

\* A handler that lets an interaction or a message through has asked a version
\* no older than the interaction.
LEMMA HandlerStep ==
    ASSUME IInv, [Next]_vars
    PROVE  hd' \in [Handlers -> Interactions] /\ Handled'
<1>1. /\ hd \in [Handlers -> Interactions] /\ Handled /\ MaxFile \in Nat /\ file \in 0 .. MaxFile
      /\ channels \in [Channels -> Servers \cup {Empty}]
  BY BotAssumption DEF IInv, TypeOK, Interactions, Versions
<1>2. /\ file <= file' /\ file' \in Nat /\ \A v \in 0 .. file : TextOf(v)' = TextOf(v)
  BY SourceStep DEF Versions
<1>3. ASSUME NEW h \in Handlers, hd'[h] = hd[h] PROVE HandlerOK(h)'
  <2>1. \A v \in 0 .. file : \A k : Admits(v, k)' = Admits(v, k)
    BY <1>2 DEF Admits
  <2>2. hd[h].floor \in Nat /\ hd[h].floor <= file
    BY <1>1 DEF Interactions, Handled, HandlerOK
  <2>3. CASE hd[h].pc = "run"
    <3>1. PICK v \in hd[h].floor .. file : hd[h].server \in Admits(v, hd[h].kind)
      BY <1>1, <2>3 DEF Handled, HandlerOK
    <3>2. v \in 0 .. file /\ v \in hd[h].floor .. file'
      BY <1>1, <1>2, <2>2, <3>1
    <3>3. (hd[h].server \in Admits(v, hd[h].kind))'
      BY <1>3, <2>1, <3>1, <3>2
    <3>4. hd[h].floor <= file'
      BY <1>1, <1>2, <2>2
    <3> QED
      BY <1>3, <3>2, <3>3, <3>4 DEF HandlerOK
  <2>4. CASE hd[h].pc # "run"
    BY <1>1, <1>2, <1>3, <2>2, <2>4 DEF HandlerOK
  <2> QED
    BY <2>3, <2>4
<1>4. ASSUME NEW h \in Handlers, hd'[h] = NoInteraction PROVE HandlerOK(h)'
  BY <1>2, <1>4 DEF HandlerOK, NoInteraction
<1>5. CASE hd' = hd
  BY <1>1, <1>3, <1>5 DEF Handled
<1>6. ASSUME NEW h \in Handlers, NEW c \in Interactions, hd' = [hd EXCEPT ![h] = c], HandlerOK(h)'
      PROVE  hd' \in [Handlers -> Interactions] /\ Handled'
  <2>1. hd' \in [Handlers -> Interactions]
    BY <1>1, <1>6
  <2>2. ASSUME NEW g \in Handlers PROVE HandlerOK(g)'
    <3>1. g # h => hd'[g] = hd[g]
      BY <1>1, <1>6
    <3> QED
      BY <1>3, <1>6, <3>1
  <2> QED
    BY <2>1, <2>2 DEF Handled
<1>7. NoInteraction \in Interactions
  BY <1>1 DEF NoInteraction, Interactions
<1>8. ASSUME NEW h \in Handlers, Interact(h) PROVE hd' \in [Handlers -> Interactions] /\ Handled'
  <2>1. PICK ch \in Channels, k \in {"interaction", "message"} :
          hd' = [hd EXCEPT ![h] = [pc |-> "lookup", kind |-> k, server |-> channels[ch], floor |-> file]]
    BY <1>8 DEF Interact
  <2> DEFINE c == [pc |-> "lookup", kind |-> k, server |-> channels[ch], floor |-> file]
  <2>2. c \in Interactions
    BY <1>1 DEF Interactions
  <2>3. hd'[h] = c /\ file' = file
    BY <1>1, <1>8, <2>1 DEF Interact, source
  <2>4. HandlerOK(h)'
    BY <1>1, <2>3 DEF HandlerOK
  <2> QED
    BY <1>6, <2>1, <2>2, <2>4
<1>9. ASSUME NEW h \in Handlers, Authorize(h) \/ Relay(h)
      PROVE  hd' \in [Handlers -> Interactions] /\ Handled'
  <2>1. /\ hd[h].pc = "lookup" /\ file' = file /\ text' = text
        /\ \/ hd' = [hd EXCEPT ![h] = NoInteraction]
           \/ /\ hd[h].server \in Admits(file, hd[h].kind)
              /\ hd' = [hd EXCEPT ![h] = [hd[h] EXCEPT !.pc = "run"]]
    BY <1>9 DEF Authorize, Relay, Get
  <2>2. CASE hd' = [hd EXCEPT ![h] = NoInteraction]
    <3>1. hd'[h] = NoInteraction
      BY <1>1, <2>2
    <3> QED
      BY <1>4, <1>6, <1>7, <2>2, <3>1
  <2>3. CASE /\ hd[h].server \in Admits(file, hd[h].kind)
             /\ hd' = [hd EXCEPT ![h] = [hd[h] EXCEPT !.pc = "run"]]
    <3> DEFINE c == [hd[h] EXCEPT !.pc = "run"]
    <3>1. c \in Interactions
      BY <1>1 DEF Interactions
    <3>2. /\ hd'[h] = c /\ c.pc = "run" /\ c.kind = hd[h].kind /\ c.server = hd[h].server
          /\ c.floor = hd[h].floor
      BY <1>1, <2>3 DEF Interactions
    <3>3. hd[h].floor \in Nat /\ hd[h].floor <= file
      BY <1>1 DEF Interactions, Handled, HandlerOK
    <3>4. hd[h].server \in Admits(file, hd[h].kind)'
      BY <2>1, <2>3 DEF Admits, TextOf
    <3>5. file \in hd[h].floor .. file'
      BY <1>1, <2>1, <3>3
    <3> HIDE DEF c
    <3>6. HandlerOK(h)'
      BY <1>1, <2>1, <3>2, <3>3, <3>4, <3>5 DEF HandlerOK
    <3> QED
      BY <1>6, <2>3, <3>1, <3>6 DEF c
  <2> QED
    BY <2>1, <2>2, <2>3
<1>10. ASSUME NEW h \in Handlers, Execute(h) PROVE hd' \in [Handlers -> Interactions] /\ Handled'
  <2>1. hd' = [hd EXCEPT ![h] = NoInteraction] /\ hd'[h] = NoInteraction
    BY <1>1, <1>10 DEF Execute
  <2> QED
    BY <1>4, <1>6, <1>7, <2>1
<1>11. CASE Write \/ OtherGet \/ SyncBots \/ UNCHANGED vars
  BY <1>5, <1>11 DEF Write, OtherGet, SyncBots, SyncGet, SyncCheck, SyncMark, SyncChannels,
       SyncToken, SyncStore, SyncPrune, vars
<1> QED
  BY <1>8, <1>9, <1>10, <1>11 DEF Next

-----------------------------------------------------------------------------
\* SyncBots has not run, no connection is open and no interaction has come.
LEMMA InitIInv == Init => IInv
<1> SUFFICES ASSUME Init PROVE IInv
  OBVIOUS
<1> USE BotAssumption DEF Init, SourceInit
<1>1. TypeOK
  <2>1. text \in [Versions -> Texts]
    OBVIOUS
  <2>2. missed \in BOOLEAN /\ todo \subseteq Tokens
    OBVIOUS
  <2>3. hd \in [Handlers -> [pc : {"idle", "lookup", "run"}, kind : {"none", "interaction", "message"},
                            server : Servers \cup {Empty}, floor : 0 .. MaxFile]]
    BY DEF NoInteraction
  <2>4. /\ file \in Versions /\ cfg \in 0 .. MaxFile /\ loaded \in 0 .. MaxFile
        /\ snap \in 0 .. MaxFile /\ updatedAt \in 0 .. MaxFile /\ fails \in 0 .. MaxFails
    BY DEF Versions
  <2>5. /\ channels \in [Channels -> Servers \cup {Empty}] /\ opened \in Tokens \cup {Empty}
        /\ sessions \in [Tokens -> {"absent", "nil", "open"}] /\ live \in [Tokens -> 0 .. 1]
        /\ pc \in {"idle", "check", "mark", "channels", "tokens", "register"}
    OBVIOUS
  <2> QED
    BY <2>1, <2>2, <2>3, <2>4, <2>5 DEF TypeOK
<1>2. SourceOK /\ OpenedOK /\ OneConnection
  BY DEF SourceOK, OpenedOK, OneConnection
<1>3. SnapIsLoaded /\ SnapIsNoted /\ HalfApplied /\ NotedApplied
  BY DEF SnapIsLoaded, SnapIsNoted, HalfApplied, NotedApplied
<1>4. Handled
  BY DEF Handled, HandlerOK, NoInteraction
<1> QED
  BY <1>1, <1>2, <1>3, <1>4 DEF IInv

\* The inductive invariant holds in every reachable state.
LEMMA Invariance == Spec => []IInv
<1>1. ASSUME IInv, [Next]_vars PROVE IInv'
  <2>1. TypeOK'
    BY <1>1, SourceStep, ConnectionStep, SyncTypes, HandlerStep
       DEF TypeOK, Connections, ConnectionTypes, Interactions
  <2> QED
    BY <1>1, <2>1, ConnectionStep, SyncTypes, SnapStep, HalfAppliedStep, NotedStep, HandlerStep
       DEF IInv, Connections
<1> QED
  BY InitIInv, <1>1, PTL DEF Spec

\* Type correctness of SyncBots and the handlers.
THEOREM TypeCorrect == Spec => []TypeOK
<1>1. IInv => TypeOK
  BY DEF IInv
<1> QED
  BY Invariance, <1>1, PTL

\* A token never has two gateway connections, and every open connection is
\* known to Sessions or to the SyncBots that is about to store it.
THEOREM ConnectionIsKnown == Spec => []OneConnection
<1>1. IInv => OneConnection
  BY DEF IInv
<1> QED
  BY Invariance, <1>1, PTL

\* When SyncBots rests, table and sessions are those of the version it noted
\* in ChannelUpdatedAt, unless that was loaded behind its back.
THEOREM NotedIsApplied == Spec => []AppliedIsNoted
<1>1. IInv => AppliedIsNoted
  BY DEF IInv, NotedApplied, Applied, AppliedIsNoted, TextOf
<1> QED
  BY Invariance, <1>1, PTL

\* Whatever runs was permitted by a version of the configuration that was on
\* disk when the interaction came, or a later one.
THEOREM RevokedIsNotRun == Spec => []RevocationIsImmediate
<1>1. IInv => RevocationIsImmediate
  BY DEF IInv, Handled, HandlerOK, RevocationIsImmediate
<1> QED
  BY Invariance, <1>1, PTL

\* The configuration under the bots moves as ConfigSource promises: a Get that
\* reloads is a Load, everything else but an edit leaves it alone.
THEOREM UsesConfigSource == Spec => SourceSpec
<1>1. Init => SourceInit
  BY DEF Init
<1>2. ASSUME IInv, [Next]_vars PROVE [Edit \/ Load]_source
  <2>1. /\ cfg = loaded /\ cfg \in Nat /\ file \in Nat /\ LoadStep
    BY <1>2, SourceStep DEF IInv, TypeOK, SourceOK, Versions
  <2>2. CASE Write
    BY <2>2 DEF Write
  <2>3. CASE file' = file
    <3>1. CASE UNCHANGED <<cfg, loaded, missed>>
      BY <2>3, <3>1 DEF source
    <3>2. CASE loaded' \in (loaded + 1) .. file /\ cfg' = loaded'
      <4>1. loaded' \in cfg .. file
        BY <2>1, <3>2
      <4> QED
        BY <2>3, <3>2, <4>1 DEF Load
    <3> QED
      BY <2>1, <3>1, <3>2 DEF LoadStep
  <2>4. Write \/ file' = file
    BY <1>2 DEF Next, vars, source, OtherGet, Get, SyncBots, SyncGet, SyncCheck, SyncMark,
         SyncChannels, SyncToken, SyncStore, SyncPrune, Interact, Authorize, Relay, Execute
  <2> QED
    BY <2>2, <2>3, <2>4
<1> QED
  BY Invariance, <1>1, <1>2, PTL DEF Spec, SourceSpec
=============================================================================
