---------------------------- MODULE RoomManager ----------------------------
(***************************************************************************)
(* The game loop's registries: serverimpl/chat/game.  One goroutine (the   *)
(* skeleton, framework/module/server.go) runs every handler to its end     *)
(* before the next one, so a handler is one action here.  What a handler   *)
(* hands to the room's worker goroutine (sends and broadcasts) is the      *)
(* sequence out; what it hands to the word filter and to the word counter  *)
(* are the queues submitted, checking and queries, whose results come back *)
(* to the loop as later actions.                                           *)
(*                                                                         *)
(* An agent is a connection.  Its fd, a UUID, is taken to be unique and is *)
(* identified with the agent.  A chat's text is its number; a chat is      *)
(* masked once the filter has rewritten its text.                          *)
(***************************************************************************)
EXTENDS Integers, Sequences, FiniteSets

CONSTANTS
    Agents,        \* connections the server may see
    NoAgent,
    Names,         \* non-empty user names
    NoName,        \* the empty name an agent has before it logs in
    RoomCap,       \* members a room takes: 100 in room.go
    MaxRooms,      \* rooms the manager opens: 100 in mgr.go
    HistoryCap,    \* chats a room remembers: 50 in room.go
    MaxChats,      \* bound on the chats submitted in a behaviour
    MaxQueries,    \* bound on the pending popular-word queries
    LoginOnce      \* TRUE: every client logs in once, before anything else,
                   \* with a non-empty name (client/agent/agent.go)

NameSet == Names \cup {NoName}
RoomIds == 1..MaxRooms
Guest == "N/A"

ASSUME AgentsAssumption == IsFiniteSet(Agents) /\ NoAgent \notin Agents
ASSUME NamesAssumption == NoName \notin Names /\ Guest \notin NameSet
ASSUME LimitsAssumption ==
    /\ RoomCap \in Nat \ {0} /\ MaxRooms \in Nat /\ HistoryCap \in Nat \ {0}
    /\ MaxChats \in Nat /\ MaxQueries \in Nat
    /\ LoginOnce \in BOOLEAN

VARIABLES
    status,        \* absent, live, or destroyed (Agent.destroyed)
    agentSet,      \* agentset.go's registry of connections
    username,      \* Agent.username
    roomID,        \* Agent.roomID, 0 until the first Join
    names,         \* Manager.names: never shrinks
    players,       \* Manager.players
    playersByName, \* Manager.playersByName
    rooms,         \* the keys of Manager.rooms
    roomIDBase,    \* Manager.roomIDBase
    validRooms,    \* Manager.validRooms, front first
    node,          \* Room.node # nil
    members,       \* Room.members
    history,       \* Room.historyMsgs
    submitted,     \* private chats the room's worker has yet to submit
    checking,      \* each room filter's one worker: jobs with the loop
                   \* callback still to run
    queries,       \* rooms whose "popular" query the counter has to answer
    posted,        \* chats submitted so far
    out            \* tasks the last step gave to room workers, in order

connVars == <<status, agentSet, username>>
seatVars == <<roomID, players, playersByName, rooms, roomIDBase, validRooms,
              node, members>>
chatVars == <<history, submitted, checking, queries, posted>>
vars == <<connVars, names, seatVars, chatVars, out>>

-----------------------------------------------------------------------------
(* Messages and the tasks that carry them. *)

Kinds == {"rsp_login", "rsp_heartbeat", "rsp_room_chat", "rsp_room_list",
          "rsp_join_room", "rsp_chat", "ntf_online", "ntf_history",
          "ntf_room_chat", "ntf_chat"}

Chats == [no : 0..MaxChats, from : NameSet \cup {Guest}, masked : BOOLEAN]
Jobs == [by : Agents, to : Agents \cup {NoAgent}, no : 1..MaxChats]
Messages == [kind : Kinds, ok : BOOLEAN, chats : Seq(Chats)]
\* key: the room whose worker runs the task (0 for an agent in no room);
\* to: the addressee, NoAgent for a broadcast to the room's members.
Tasks == [key : 0..MaxRooms, to : Agents \cup {NoAgent}, msg : Messages]

Rsp(kind, ok) == [kind |-> kind, ok |-> ok, chats |-> <<>>]
Ntf(kind, chats) == [kind |-> kind, ok |-> TRUE, chats |-> chats]
Chat1(no, from, masked) == <<[no |-> no, from |-> from, masked |-> masked]>>

\* Wrong variant: SendClient without its test of destroyed.
SendUnchecked(p, r, msg) == <<[key |-> r, to |-> p, msg |-> msg]>>

\* Agent.SendClient, given the agent's room: a destroyed agent gets nothing.
Send(p, r, msg) ==
    IF status[p] = "destroyed" THEN <<>>
    ELSE <<[key |-> r, to |-> p, msg |-> msg]>>

Broadcast(r, msg) == <<[key |-> r, to |-> NoAgent, msg |-> msg]>>

\* A GM result: text number 0, never filtered, shown as said by nobody.
GMResult(r) == Broadcast(r, Ntf("ntf_room_chat", Chat1(0, Guest, FALSE)))

-----------------------------------------------------------------------------
Init ==
    /\ status = [p \in Agents |-> "absent"]
    /\ agentSet = {}
    /\ username = [p \in Agents |-> NoName]
    /\ roomID = [p \in Agents |-> 0]
    /\ names = {}
    /\ players = {}
    /\ playersByName = [n \in NameSet |-> NoAgent]
    /\ rooms = {}
    /\ roomIDBase = 0
    /\ validRooms = <<>>
    /\ node = [r \in RoomIds |-> FALSE]
    /\ members = [r \in RoomIds |-> {}]
    /\ history = [r \in RoomIds |-> <<>>]
    /\ submitted = [r \in RoomIds |-> <<>>]
    /\ checking = [r \in RoomIds |-> <<>>]
    /\ queries = <<>>
    /\ posted = 0
    /\ out = <<>>

Live(p) == status[p] = "live"
\* A client that follows the protocol asks for nothing before its login.
Ready(p) == Live(p) /\ (LoginOnce => username[p] # NoName)

\* NewPlayer: the connection is accepted, and the call that registers it in
\* agentSet is run by the loop, or was dropped because ChanCall was full.
Connect(p) ==
    /\ status[p] = "absent"
    /\ status' = [status EXCEPT ![p] = "live"]
    /\ agentSet' \in {agentSet, agentSet \cup {p}}
    /\ out' = <<>>
    /\ UNCHANGED <<username, names, seatVars, chatVars>>

-----------------------------------------------------------------------------
(* Joining and leaving. *)

NoRoomLeft == validRooms = <<>> /\ Cardinality(rooms) >= MaxRooms

\* The front of validRooms, or the room AddRoom makes.
NextRoom == IF validRooms = <<>> THEN roomIDBase + 1 ELSE Head(validRooms)

\* Wrong variants: the count is taken one too late, or one too early.
JoinStateLate(r) ==
    LET l == Cardinality(members[r])
    IN  IF l >= RoomCap THEN "full" ELSE "valid"

JoinStateEarly(r) ==
    LET l == Cardinality(members[r])
    IN  IF l + 2 >= RoomCap THEN "full" ELSE "valid"

\* Room.Join's result.  It counts the members before the insertion and does
\* not look whether the agent is already one of them.
JoinState(r) ==
    LET l == Cardinality(members[r])
    IN  IF l >= RoomCap THEN "invalid" ELSE IF l + 1 = RoomCap THEN "full" ELSE "valid"

\* Manager.Join from the choice of the room on.  An invalid result changes
\* no member but is otherwise taken for a success.
EnterRoom(p, n) ==
    LET r      == NextRoom
        listed == IF validRooms = <<>> THEN <<r>> ELSE validRooms
        full   == JoinState(r) = "full"
    IN  /\ ~NoRoomLeft
        /\ rooms' = rooms \cup {r}
        /\ roomIDBase' = IF validRooms = <<>> THEN r ELSE roomIDBase
        /\ validRooms' = IF full THEN Tail(listed) ELSE listed
        /\ node' = [node EXCEPT ![r] = ~full]
        /\ members' = IF JoinState(r) = "invalid" THEN members
                      ELSE [members EXCEPT ![r] = @ \cup {p}]
        /\ roomID' = [roomID EXCEPT ![p] = r]
        /\ players' = players \cup {p}
        /\ playersByName' = [playersByName EXCEPT ![n] = p]

\* What Join sends on success: the arrival to the members, and the history
\* to the agent if there is any.
Welcome(p, n, r) ==
    Broadcast(r, Ntf("ntf_online", Chat1(0, n, FALSE)))
    \o (IF history[r] = <<>> THEN <<>>
        ELSE Send(p, r, Ntf("ntf_history", history[r])))

\* Wrong variant: the -1 that Join returns with its error is kept as the room.
JoinKeepsError(p, n, rsp) ==
    \/ /\ n \in names
       /\ roomID' = [roomID EXCEPT ![p] = -1]
       /\ out' = <<>>
       /\ UNCHANGED <<names, players, playersByName, rooms, roomIDBase, validRooms,
                      node, members>>
    \/ /\ n \notin names
       /\ names' = names \cup {n}
       /\ EnterRoom(p, n)
       /\ out' = Welcome(p, n, NextRoom) \o Send(p, NextRoom, Rsp(rsp, TRUE))

\* Manager.Join and the response its caller sends.  The name is used up
\* before the manager looks for a room.
Join(p, n, rsp) ==
    \/ /\ n \in names
       /\ out' = Send(p, roomID[p], Rsp(rsp, FALSE))
       /\ UNCHANGED <<names, seatVars>>
    \/ /\ n \notin names
       /\ names' = names \cup {n}
       /\ NoRoomLeft
       /\ out' = Send(p, roomID[p], Rsp(rsp, FALSE))
       /\ UNCHANGED seatVars
    \/ /\ n \notin names
       /\ names' = names \cup {n}
       /\ EnterRoom(p, n)
       /\ out' = Welcome(p, n, NextRoom) \o Send(p, NextRoom, Rsp(rsp, TRUE))

\* reqLogin: the agent takes the name even when Join has refused it.
Login(p, n) ==
    /\ Live(p)
    /\ LoginOnce => username[p] = NoName /\ n # NoName
    /\ Join(p, n, "rsp_login")
    /\ username' = [username EXCEPT ![p] = n]
    /\ UNCHANGED <<status, agentSet, chatVars>>

\* reqJoinRoom joins again, under the name the agent already has.
JoinRoom(p) ==
    /\ Ready(p)
    /\ Join(p, username[p], "rsp_join_room")
    /\ UNCHANGED <<connVars, chatVars>>

\* Manager.Leave: only the room the agent entered last, and only its
\* current name, are cleared; a room that was full is listed again.
LeftMembers(p) == [members EXCEPT ![roomID[p]] = @ \ {p}]
Relisted(p) == IF node[roomID[p]] THEN validRooms ELSE Append(validRooms, roomID[p])
RelistedNode(p) == [node EXCEPT ![roomID[p]] = TRUE]
LeftNames(p) == IF p \in players THEN [playersByName EXCEPT ![username[p]] = NoAgent]
                ELSE playersByName

LeaveWith(p, mem, list, nod, pl, byName) ==
    /\ members' = mem
    /\ validRooms' = list
    /\ node' = nod
    /\ players' = pl
    /\ playersByName' = byName
    /\ UNCHANGED <<roomID, rooms, roomIDBase>>

\* Wrong variants: each forgets, or overdoes, one update of Leave.
LeaveKeepsMember(p) ==
    IF roomID[p] \notin rooms THEN UNCHANGED seatVars
    ELSE LeaveWith(p, members, Relisted(p), RelistedNode(p), players \ {p}, LeftNames(p))
LeaveForgetsList(p) ==
    IF roomID[p] \notin rooms THEN UNCHANGED seatVars
    ELSE LeaveWith(p, LeftMembers(p), validRooms, node, players \ {p}, LeftNames(p))
LeaveAlwaysLists(p) ==
    IF roomID[p] \notin rooms THEN UNCHANGED seatVars
    ELSE LeaveWith(p, LeftMembers(p), Append(validRooms, roomID[p]), RelistedNode(p),
                   players \ {p}, LeftNames(p))
LeaveKeepsPlayer(p) ==
    IF roomID[p] \notin rooms THEN UNCHANGED seatVars
    ELSE LeaveWith(p, LeftMembers(p), Relisted(p), RelistedNode(p), players, LeftNames(p))
LeaveKeepsName(p) ==
    IF roomID[p] \notin rooms THEN UNCHANGED seatVars
    ELSE LeaveWith(p, LeftMembers(p), Relisted(p), RelistedNode(p), players \ {p},
                   playersByName)
Leave(p) ==
    IF roomID[p] \notin rooms THEN UNCHANGED seatVars
    ELSE LeaveWith(p, LeftMembers(p), Relisted(p), RelistedNode(p), players \ {p},
                   LeftNames(p))

\* Wrong variant: the name is given back when its holder goes.
DestroyFreesName(p) ==
    /\ Live(p)
    /\ Leave(p)
    /\ status' = [status EXCEPT ![p] = "destroyed"]
    /\ agentSet' = agentSet \ {p}
    /\ names' = names \ {username[p]}
    /\ out' = <<>>
    /\ UNCHANGED <<username, chatVars>>

\* The "gate.p.close" call.
Destroy(p) ==
    /\ Live(p)
    /\ Leave(p)
    /\ status' = [status EXCEPT ![p] = "destroyed"]
    /\ agentSet' = agentSet \ {p}
    /\ out' = <<>>
    /\ UNCHANGED <<username, names, chatVars>>

-----------------------------------------------------------------------------
(* Requests that change no registry. *)

Heartbeat(p) ==
    /\ Ready(p)
    /\ out' = Send(p, roomID[p], Rsp("rsp_heartbeat", TRUE))
    /\ UNCHANGED <<connVars, names, seatVars, chatVars>>

RoomList(p) ==
    /\ Ready(p)
    /\ out' = Send(p, roomID[p], Rsp("rsp_room_list", TRUE))
    /\ UNCHANGED <<connVars, names, seatVars, chatVars>>

\* A request that has no effect and no answer: the agent is destroyed, the
\* body lacks the message its id calls for, or GetRoomList panics on a
\* negative count.
Ignored(p) ==
    /\ status[p] # "absent"
    /\ out' = <<>>
    /\ UNCHANGED <<connVars, names, seatVars, chatVars>>

-----------------------------------------------------------------------------
(* Room chat. *)

\* Wrong variant: the text is shown at once, before the filter has seen it.
RoomChatEchoes(p) ==
    LET r == roomID[p]
    IN  /\ Ready(p)
        /\ posted < MaxChats
        /\ p \in players
        /\ posted' = posted + 1
        /\ checking' = [checking EXCEPT ![r] =
              Append(@, [by |-> p, to |-> NoAgent, no |-> posted + 1])]
        /\ out' = Broadcast(r, Ntf("ntf_room_chat", Chat1(posted + 1, username[p], FALSE)))
        /\ UNCHANGED <<connVars, names, seatVars, history, submitted, queries>>

\* Manager.RoomChat for a text that is not a command: a job for the room's
\* filter, unless the agent has no room or the filter's channel is full.
RoomChat(p) ==
    LET r == roomID[p]
    IN  /\ Ready(p)
        /\ posted < MaxChats
        /\ posted' = posted + 1
        /\ \/ checking' = checking
           \/ /\ p \in players
              /\ r \in rooms
              /\ checking' = [checking EXCEPT ![r] =
                    Append(@, [by |-> p, to |-> NoAgent, no |-> posted + 1])]
        /\ out' = Send(p, r, Rsp("rsp_room_chat", TRUE))
        /\ UNCHANGED <<connVars, names, seatVars, history, submitted, queries>>

\* Manager.RoomChat for "/..." : execGM.  Anything but two words is answered
\* "invalid cmd" and then executed all the same: one word panics, and with it
\* goes the response; three or more run the first two.  A popular query counts
\* if its number of seconds is in range and the counter's channel has room.
Commands == [verb : {"popular", "other"}, arg : {NoName}]
            \cup [verb : {"stats"}, arg : NameSet]

RoomCommand(p, words, cmd) ==
    LET r         == roomID[p]
        complaint == IF words = 2 THEN <<>> ELSE GMResult(r)
        answered  == \/ cmd.verb = "other"
                     \/ cmd.verb = "stats" /\ playersByName[cmd.arg] # NoAgent
        result    == IF answered THEN GMResult(r) ELSE <<>>
    IN  /\ Ready(p)
        /\ p \in players
        /\ r \in rooms
        /\ out' = IF words = 1 THEN complaint
                  ELSE complaint \o result \o Send(p, r, Rsp("rsp_room_chat", TRUE))
        /\ \/ queries' = queries
           \/ /\ words > 1
              /\ cmd.verb = "popular"
              /\ Len(queries) < MaxQueries
              /\ queries' = Append(queries, r)
        /\ UNCHANGED <<connVars, names, seatVars, history, submitted, checking, posted>>

\* The word counter's goroutine answers the oldest query.
PopularAnswered ==
    /\ queries # <<>>
    /\ queries' = Tail(queries)
    /\ out' = GMResult(Head(queries))
    /\ UNCHANGED <<connVars, names, seatVars, history, submitted, checking, posted>>

\* Wrong variant: the newest chat goes to the head of the list.
AddMsgAtHead(r, chat) ==
    history' = [history EXCEPT ![r] =
                  chat \o (IF Len(@) >= HistoryCap THEN Tail(@) ELSE @)]

\* Room.AddMsg.
AddMsg(r, chat) ==
    history' = [history EXCEPT ![r] =
                  (IF Len(@) >= HistoryCap THEN Tail(@) ELSE @) \o chat]

\* The name notifyRoomChat shows: the sender may have left since.
ShownName(p) == IF p \in players THEN username[p] ELSE Guest

\* The callback of the room filter's oldest job reaches the loop: a room chat
\* is remembered and broadcast, a private one is sent to its target.
FilterDone(r) ==
    /\ checking[r] # <<>>
    /\ LET job == Head(checking[r])
       IN  \/ /\ job.to = NoAgent
              /\ AddMsg(r, Chat1(job.no, username[job.by], TRUE))
              /\ out' = Broadcast(r, Ntf("ntf_room_chat",
                                         Chat1(job.no, ShownName(job.by), TRUE)))
           \/ /\ job.to # NoAgent
              /\ out' = Send(job.to, roomID[job.to],
                             Ntf("ntf_chat", Chat1(job.no, username[job.by], TRUE)))
              /\ UNCHANGED history
    /\ checking' = [checking EXCEPT ![r] = Tail(@)]
    /\ UNCHANGED <<connVars, names, seatVars, submitted, queries, posted>>

\* The oldest job's callback finds ChanCall full.
FilterLost(r) ==
    /\ checking[r] # <<>>
    /\ checking' = [checking EXCEPT ![r] = Tail(@)]
    /\ out' = <<>>
    /\ UNCHANGED <<connVars, names, seatVars, history, submitted, queries, posted>>

-----------------------------------------------------------------------------
(* Private chat. *)

\* The target is found and sits in the agent's room.
ChatTarget(p, n) ==
    /\ playersByName[n] # NoAgent
    /\ roomID[playersByName[n]] = roomID[p]
    /\ roomID[p] \in rooms

\* Manager.Chat: the text goes to the target as it is, and a task of the
\* room's worker has it filtered and sent a second time.
ChatSent(p, n) ==
    LET r == roomID[p]
        q == playersByName[n]
    IN  /\ ChatTarget(p, n)
        /\ submitted' \in {submitted,
             [submitted EXCEPT ![r] = Append(@, [by |-> p, to |-> q, no |-> posted + 1])]}
        /\ out' = Send(q, r, Ntf("ntf_chat", Chat1(posted + 1, username[p], FALSE)))
                  \o Send(p, r, Rsp("rsp_chat", TRUE))

ChatRefused(p, n) ==
    /\ ~ChatTarget(p, n)
    /\ submitted' = submitted
    /\ out' = Send(p, roomID[p], Rsp("rsp_chat", FALSE))

Chat(p, n) ==
    /\ Ready(p)
    /\ posted < MaxChats
    /\ posted' = posted + 1
    /\ ChatSent(p, n) \/ ChatRefused(p, n)
    /\ UNCHANGED <<connVars, names, seatVars, history, checking, queries>>

\* The room's worker runs its oldest submission: the filter takes the job, or
\* drops it when its channel is full.
RunSubmitted(r) ==
    /\ submitted[r] # <<>>
    /\ submitted' = [submitted EXCEPT ![r] = Tail(@)]
    /\ checking' \in {checking,
                      [checking EXCEPT ![r] = Append(@, Head(submitted[r]))]}
    /\ out' = <<>>
    /\ UNCHANGED <<connVars, names, seatVars, history, queries, posted>>

-----------------------------------------------------------------------------
Request(p) ==
    \/ \E n \in NameSet : Login(p, n)
    \/ JoinRoom(p)
    \/ Heartbeat(p)
    \/ RoomList(p)
    \/ Ignored(p)
    \/ RoomChat(p)
    \/ \E words \in 1..3, cmd \in Commands : RoomCommand(p, words, cmd)
    \/ \E n \in NameSet : Chat(p, n)

Next ==
    \/ \E p \in Agents : Connect(p) \/ Request(p) \/ Destroy(p)
    \/ \E r \in RoomIds : RunSubmitted(r) \/ FilterDone(r) \/ FilterLost(r)
    \/ PopularAnswered

Spec == Init /\ [][Next]_vars

-----------------------------------------------------------------------------
(* Properties of every behaviour, whatever the clients send. *)

ConnTypeOK ==
    /\ status \in [Agents -> {"absent", "live", "destroyed"}]
    /\ agentSet \subseteq Agents
    /\ username \in [Agents -> NameSet]
    /\ names \subseteq NameSet

SeatTypeOK ==
    /\ roomID \in [Agents -> 0..MaxRooms]
    /\ players \subseteq Agents
    /\ playersByName \in [NameSet -> Agents \cup {NoAgent}]
    /\ rooms \subseteq RoomIds
    /\ roomIDBase \in 0..MaxRooms
    /\ validRooms \in Seq(RoomIds)
    /\ node \in [RoomIds -> BOOLEAN]
    /\ members \in [RoomIds -> SUBSET Agents]

ChatTypeOK ==
    /\ history \in [RoomIds -> Seq(Chats)]
    /\ submitted \in [RoomIds -> Seq(Jobs)]
    /\ checking \in [RoomIds -> Seq(Jobs)]
    /\ queries \in Seq(RoomIds)
    /\ posted \in 0..MaxChats

TypeOK == ConnTypeOK /\ SeatTypeOK /\ ChatTypeOK /\ out \in Seq(Tasks)

\* The list of rooms with space and the rooms' node pointers agree after any
\* interleaving of joins and leaves: a room is listed exactly when its node is
\* set, never twice, and only rooms that exist are.  Leave relies on it to
\* relist a room once, Join to unlist it (mgr.go push, Join, Leave).
ListMatchesNodes ==
    /\ \A i, j \in 1..Len(validRooms) :
          validRooms[i] = validRooms[j] => i = j
    /\ \A r \in RoomIds :
          node[r] <=> \E i \in 1..Len(validRooms) : validRooms[i] = r
    /\ \A i \in 1..Len(validRooms) : validRooms[i] \in rooms
    /\ rooms = 1..roomIDBase

\* Every listed room can take a member and no room is ever over its capacity.
\* Manager.Join does not look at Room.Join's "invalid" result, so this is what
\* keeps it from admitting a player into a room that refused it.
ListedRoomsHaveSpace ==
    /\ \A i \in 1..Len(validRooms) : Cardinality(members[validRooms[i]]) < RoomCap
    /\ \A r \in RoomIds : Cardinality(members[r]) <= RoomCap

\* The players map, the agents' own room numbers and the rooms' member maps
\* agree: a registered player is a live connection and a member of the room it
\* names, and every live connection with a room is registered.  notifyRoomChat,
\* broadcast and RoomChat each look at a different one of the three.  Nobody has
\* a room before it connects, and no room a member before it is opened.
RegistryMatchesRooms ==
    /\ players = {p \in Agents : status[p] = "live" /\ roomID[p] # 0}
    /\ \A p \in players : roomID[p] \in rooms /\ p \in members[roomID[p]]
    /\ \A p \in Agents : status[p] = "absent" => roomID[p] = 0
    /\ \A r \in RoomIds \ rooms : members[r] = {}

\* A name that has been used never comes to mean another connection: it may
\* only lose its holder, so a private chat addressed to a name never reaches
\* somebody who took the name over (names in Manager.Join, Leave).
NamesNeverPassOn ==
    [][/\ names \subseteq names'
       /\ \A n \in names : playersByName'[n] \in {playersByName[n], NoAgent}]_vars

\* A task addressed to one agent is never given out once that agent has been
\* destroyed, although private chats come back from the filter long after the
\* target was looked up (Manager.Chat, Agent.SendClient), and it goes to the
\* worker of the room the agent is in.
OutReachesTheLiving ==
    \A i \in 1..Len(out) :
       out[i].to # NoAgent =>
          /\ status[out[i].to] = "live"
          /\ out[i].key = roomID[out[i].to]

-----------------------------------------------------------------------------
(* Properties of chat. *)

\* A room's history is a run of its chats in the order they were submitted,
\* whatever was lost on the way, never longer than the cap; every chat still
\* with the filter is newer than all of it, and waits in its order.
HistoryInOrder ==
    \A r \in RoomIds :
       /\ Len(history[r]) <= HistoryCap
       /\ \A i, j \in 1..Len(history[r]) :
             i < j => history[r][i].no < history[r][j].no
       /\ \A i \in 1..Len(checking[r]) :
             checking[r][i].to = NoAgent =>
                /\ \A j \in 1..Len(history[r]) :
                      history[r][j].no < checking[r][i].no
                /\ \A j \in 1..i-1 :
                      checking[r][j].to = NoAgent =>
                         checking[r][j].no < checking[r][i].no

\* What the room remembers and what its members are told never differ: a step
\* broadcasts a player's chat to a room exactly when the same chat becomes
\* the newest of that room's history, so a joiner who reads the history has
\* missed no chat and reads no text the filter has not masked.
BroadcastsAreRemembered ==
    [][\A r \in RoomIds :
          LET told == {t \in {out'[i] : i \in 1..Len(out')} :
                         /\ t.key = r /\ t.to = NoAgent
                         /\ t.msg.kind = "ntf_room_chat" /\ t.msg.chats[1].no # 0}
          IN  IF history'[r] = history[r] THEN told = {}
              ELSE /\ history'[r] # <<>>
                   /\ \E t \in told :
                        LET c == history'[r][Len(history'[r])]
                        IN  /\ t.msg.chats[1].no = c.no
                            /\ t.msg.chats[1].from \in {c.from, Guest}
                            /\ c.masked /\ t.msg.chats[1].masked]_vars

\* What the README says of the word filter (README.md:54: the text a player
\* enters is looked up in the trie and its sensitive words are replaced), for
\* every chat that goes out to a player.  It is not so: Manager.Chat sends the
\* text as it came before the filtered copy.
EveryChatIsMasked ==
    \A i \in 1..Len(out) :
       out[i].msg.kind \in {"ntf_chat", "ntf_room_chat", "ntf_history"} =>
          \A j \in 1..Len(out[i].msg.chats) :
             out[i].msg.chats[j].no # 0 => out[i].msg.chats[j].masked

-----------------------------------------------------------------------------
(* Properties of clients that log in once (LoginOnce). *)

\* Nobody occupies a second seat: the members of a room are exactly the
\* registered players whose room it is (Room.members, Agent.roomID).
OneRoomPerPlayer ==
    \A r \in RoomIds : members[r] = {p \in players : roomID[p] = r}

\* No seat is lost: a room that exists and is not listed is full.
UnlistedRoomsAreFull ==
    \A r \in rooms : node[r] \/ Cardinality(members[r]) = RoomCap

\* A player can be reached under its user name and under no other, so "stats"
\* and private chats find exactly the players that are there.
ReachableByName ==
    \A p \in Agents, n \in NameSet :
       playersByName[n] = p <=> p \in players /\ username[p] = n

\* A fresh name is refused only when every seat of every room the manager may
\* open is taken (Manager.Join, "no room valid").
RefusedOnlyWhenFull ==
    [][names' # names /\ players' = players
          => Cardinality(players) = MaxRooms * RoomCap]_vars

\* The registries implement the lobby.
LobbyView == INSTANCE Lobby WITH
    People <- Agents, Nobody <- NoAgent, Names <- NameSet,
    seat <- [p \in Agents |-> IF p \in players THEN roomID[p] ELSE 0],
    opened <- roomIDBase, used <- names, holder <- playersByName

\* Rooms, seats and names behave as the lobby promises.
ImplementsLobby == LobbyView!Spec
=============================================================================
