# Verification of the chat server

The program is a chat server in Go: clients connect over TCP, log in with a
name, are put into a room, and chat with the room or with one member of it.
This directory models its core in TLA+, checks the model with TLC on small
instances, and proves its safety properties with TLAPS for every instance. Paths
below are relative to the repository; `game/` stands for
`serverimpl/chat/game/`.

## 1. The system's parts

One goroutine, the *game loop* (`framework/module/server.go`, `Run`), runs every
request handler and every callback to its end before the next one. Everything
else reaches it through one bounded channel, `ChanCall`, which drops a call when
it is full. Around the loop run: one reader goroutine per connection, one writer
goroutine per connection, 300 workers of the rooms' task pool, 300 workers for
each room's filter pool, the word counter's goroutine, the accept loop.

| Part | State | Operations | Correct when |
| --- | --- | --- | --- |
| room manager, rooms (`game/mgr.go`, `game/room.go`) | `names`, `players`, `playersByName`, `rooms`, `validRooms`, `roomIDBase`; per room `members`, `node`, `historyMsgs` | `Join`, `Leave`, `RoomChat`, `execGM`, `Chat`, `GetRoomList`, `AddMsg`, `notifyRoomChat`, `broadcast` | the registries agree with each other; no room overfilled; no seat lost; a name never changes hands; history in order and equal to what was broadcast |
| request handlers (`game/cb.go`, `game/handler.go`) | the handler table | `reqLogin` ... `reqChat`, `handleCS` | every request is answered once, by its handler's rules |
| player agents (`game/player.go`, `game/agentset.go`) | `roomID`, `username`, `destroyed`, `agentSet` | `NewPlayer`, `readTask`, `SendClient`, `OnClose`, `Destroy` | nothing is sent for a destroyed agent; a closed connection's agent is destroyed |
| word filter (`common/word/filter`, `common/containers/trie`) | a trie; a pool of its own | `Check`, `Replace` | a word of the list reaches a player only where masking made it |
| task pool (`common/task/pool.go`) | 300 bounded queues, a worker each | `AddTask`, `ProcessTask` | tasks of one key run in order; none runs twice |
| word counter (`common/word/frequency`) | a list of one-second word counts, two queues | `Add`, `GetFrequencyByTime`, the ticker | the answer is the most frequent word of the asked seconds |
| rpc (`framework/rpc`) | `ChanCall`, pending calls | `Go`, `GoFunc`, `Call*`, `AsynCall`, `Close` | each accepted call runs once; a caller that waits is answered |
| module life cycle (`framework/module`, `framework/factory`, `framework/timer`) | modules, wait groups, timers | `Run`, `Destroy`, `AfterFunc`, `Stop` | every module is destroyed after it has stopped; a stopped timer does not fire |
| TCP (`framework/network`) | `writeChan`, `isClosed`; connection set, limiter | `Write`, `Close`, `WriteTask`; accept, `Close`; reconnect | no write to a closed channel; `Close` waits for everybody; the rate is kept |
| framing (`framework/msg/cs`) | the receive buffer | `DealMsgExt`, `CompressMsg`, `Write2Socket` | packets come out as they went in, however the bytes are cut |
| uuid (`common/uuid`) | `high`, `low` | `Get` | ids are unique |
| heap, complete tree (`common/containers`) | an array | `New`, `heapify` | the result is a heap |
| log (`framework/log`) | files, a queue | `doLogTask`, `RollFile` | no line is lost by rolling |
| client (`client/`) | name, chats | `login`, `readTask` | - |

Interactions. A reader goroutine parses packets and hands requests to the loop
(`Go`). The loop changes the registries and hands sends and broadcasts to the
worker of the agent's room (`AddRoomTask`, the key is the room's number). The
worker encodes and puts bytes into the connections' `writeChan`. A room chat goes
from the loop to the filter's worker and comes back as a call (`task.cb`). A
private chat goes to the room's worker, from there to the filter's worker, and
comes back the same way. A closed connection makes its reader post
`gate.p.close`.

Hard behaviours: results that come back to the loop after the state they were
asked under has changed (a player that left, changed room, logged in again);
calls and tasks dropped at every full queue; a manager that ignores a room's
refusal; registries keyed by name and by number that have to be cleared together;
workers that read the loop's maps with no lock; a channel closed by one goroutine
while another sends on it. `PROJECT.json` lists each hazard with its line and
the properties that cover it, or why none does.

## 2. What is modelled

### RoomManager (the core)

`RoomManager.tla` is the game loop: `game/mgr.go`, `game/room.go`, `game/cb.go`,
`game/handler.go` and the parts of `game/player.go` that run on the loop. A
handler is one action, because the loop runs it to its end.

| Model | Code |
| --- | --- |
| `status`, `agentSet`, `username`, `roomID` | `Agent.destroyed` and whether the connection exists, `agentSet`, `Agent.username`, `Agent.roomID` |
| `names`, `players`, `playersByName`, `rooms`, `roomIDBase` | the fields of `Manager`; a map is the set of its keys, or a function with `NoAgent` for a missing key |
| `validRooms`, `node` | the list of rooms with space, front first; `Room.node # nil` |
| `members`, `history` | `Room.members`, `Room.historyMsgs` |
| `submitted` | private chats whose filter call waits in the room's worker queue |
| `checking` | each room filter's queue and its callbacks still on their way to the loop. All its jobs have the key "1" (`game/skeleton.go`), so one worker handles them in order |
| `queries` | `Frequency.sortTasks` |
| `out` | the tasks the last step gave to the rooms' workers, in order: an observation, reset by every action |
| `Connect`, `Destroy` | `NewPlayer`; the `gate.p.close` call |
| `Login`, `JoinRoom`, `RoomChat`, `RoomCommand`, `Chat`, `Heartbeat`, `RoomList` | the six handlers; `RoomCommand` is `reqRoomChat` for a text beginning with "/" |
| `Join`, `EnterRoom`, `JoinState`, `Leave`, `AddMsg` | `Manager.Join`, its part after the name test, `Room.Join`, `Manager.Leave`, `Room.AddMsg` |
| `Ignored` | every way `handleCS` and the handlers end without an effect or an answer |
| `RunSubmitted`, `FilterDone`, `FilterLost` | the room's worker submits a private chat to the filter; the filter's callback runs on the loop; `ChanCall` was full |
| `PopularAnswered` | the word counter's callback |

Three details of the code that matter and are kept: `Join` puts the name into
`names` before it looks for a room; `Join` takes `invalid` for success;
`reqLogin` sets the user name even when `Join` has refused it.

Abstractions. A chat's text is its number, plus whether the filter has rewritten
it. An agent stands for its file descriptor number, a UUID, taken to be unique.
Room numbers do not wrap (`newTid` wraps after 2^63 - 1 rooms; 100 are opened).
`GetRoomList`, wording, time stamps and the active time have no effect on the
state. The popular query's result does not depend on the model's state: whatever
the counter answers goes to the room. A queue that may be full is a choice
between taking the item and dropping it.

`LoginOnce` chooses the clients. FALSE: any request in any order, including
logins under further names and `JoinRoom` before a login. TRUE: what the
repository's own client does (`client/agent/agent.go`): it logs in once, with a
non-empty name, and asks for anything else only after the login was answered
(`rspLogin`, lines 226-248, is what lets it send chats).

The definitions that a comment calls *wrong variants* are not used by the
specification. Each is a plausible mistake in the definition it precedes, kept
to show which property notices it (the `mutants` of `PROJECT.json`).

### Lobby (the abstract specification)

`Lobby.tla` says what the manager promises to players who log in once, with seats
only: `Admit` takes a fresh name and a seat in an open room, and a new room only
when all are full; `TurnAway` uses up a name when every seat is taken; `Leave`
frees the seat and the name's holder but not the name. It has no list, no node
pointers, no member maps. `ImplementsLobby` is RoomManager's refinement of it:
`seat` is the agent's room while it is registered, and 0 otherwise.

### Delivery

`Delivery.tla` extends RoomManager by what becomes of the tasks in `out`: the
rooms' task pool, a broadcast as a loop over members, and the connections.

| Model | Code |
| --- | --- |
| `pending`, `LoopIdle` | the calls of `AddRoomTask` a running handler has still to make; the loop's next step waits for them |
| `handed`, `AddTask`, `HandOut` | `Pool.AddTask` with a key; tasks are numbered in the order they are handed out |
| `queue`, `busy`, `Take`, `Finish` | the workers' channels, `ProcessTask`, and the end of a task |
| `Visit`, `Put`, `Panic` | a broadcast's look at one member and `Write`'s test of `isClosed`; then the send, which may find the channel closed |
| `conn`, `Closes`, `FinishClose` | `TCPConn.Close`: the channel is closed first, `isClosed` is set next |
| `pipe`, `socket`, `WriteOut`, `HangUp` | `writeChan`, `WriteTask` |
| `got` | what the client has received: task numbers, with their keys |
| `CounterStep`, `Elsewhere` | RoomManager's steps that run on other goroutines |
| `crashed` | the Go runtime aborts the process |

The loop, the workers and the writers interleave at every point where one can
see what another has done: between the look at `members`, the test of `isClosed`,
the send and the two halves of `Close`. Go leaves a range over a map that is
being written open in two ways: the runtime may notice and abort (`crashed`), and
otherwise the range visits every member that was there throughout and any that
came meanwhile (`due`, `seen`). A stale read of `isClosed` has the outcome of a
read during `closing`, which the model has.

Abstractions. Each key has a worker of its own instead of one of 300 by hash,
which allows every order a shared worker does. Bytes are the number of their task.
`RunSubmitted`, the filter call of a private chat, keeps no place among the
worker's other tasks. The lost registration in `agentSet` is left out, as nothing
reads that set.

### Skeleton

`Skeleton.tla` is what surrounds a handler: the loop of `framework/module/server.go`,
the calls of `framework/rpc`, the timers of `framework/timer` and the connections'
reader goroutines. What a handler does is RoomManager's matter; here it may
return, panic, use timers, or never return.

| Model | Code |
| --- | --- |
| `reader`, `ReaderStarts`, `PostRequest`, `ReaderEnds` | `NewPlayer`, `readTask` and its `msgHandler`, `OnClose` |
| `ChanCall`, `isOpen`, `dropped`, `AddChanCall` | `Server.ChanCall`; a full one drops the call, a closed one panics in the sender, which `Go`, `GoFunc` and `call` recover. `dropped` is a history |
| `player` | what the loop has done for the connection: registered, destroyed |
| `loop`, `current`, `TakeCall`, `TakeTimer`, `Exec`, `Answer`, `Ret` | `ServerMod.Run`, `runFunc`, `Server.Exec`, `Server.ret`; a function and the answer are two steps, as the answer may have to wait |
| `Hang`, `Watchdog` | a handler that does not return; `runFunc`'s goroutine, which ends the process after 1000 seconds |
| `client`, `chanSyncRet`, `ChanAsynRet`, `pendingAsynCall`, `SyncCall`, `Send`, `Receive`, `AsynCall`, `Cb`, `CloseClient` | `rpc.Client` on a goroutine of its own |
| `timers`, `ChanTimer`, `MakeTimer`, `Stop`, `Expire`, `SendTimer`, `CB`, `CBReturns` | `AfterFunc`, `NewTicker`, `Stop`; an expiry is armed, in the runtime's goroutine, in the channel, at the loop |
| `CloseServer`, `Drain`, `ServerClosed` | `closeSig`, `Server.Close` |

The program makes no `rpc.Client` and no timer: both are modelled as the
packages offer them. `Register` fills the table of functions before the loop
runs. An error answered to `CallN`, or to a callback that takes a slice, panics
on the conversion of nil (`rpc.go:302`, `366`) in a goroutine that does not
recover: `Receive` and `Cb` may end the process then. The three seconds before
`os.Exit` are left out.

### Framing and Stream

`Stream.tla` says what a connection promises in one direction: the packets that
are written are handed on in order, each once, until the reader gives up.
`Framing.tla` is how it is done by bytes: `framework/msg/cs/cs.go` and the client's
copy of it in `client/agent/agent.go`. Bytes are the offsets they have in the
stream; `sent` is the packets with where they begin, `read` how far TCP has
delivered, in pieces of any size, `consumed` how far `recvBuffer` has been taken
apart, `got` the ranges given to `msgHandler` as bodies. The reader does not know
where packets begin: if `consumed` is not the start of one, it takes some other
byte for a length. `writer` chooses the direction: requests, which the server
reads with its limit, or what the server sends, possibly compressed, and the
client reads with a limit ten times smaller and no decompression (the todo at
`agent.go:189`). So a body over 1000 bytes, such as a long history, makes the
client give up, which `Stream` has as what it refuses and may be unable to read.

Encryption is off in `game.Init`. The line that compresses where its comment says
decompress (`cs.go:133`) is not modelled: no client of the repository compresses.

### TCPServer and LifeCycle

`TCPServer.tla` is `framework/network/tcpserver.go`. What it starts for a connection
is `newAgent`, whose inside is RoomManager, Delivery and Skeleton.

| Model | Code |
| --- | --- |
| `ln`, `net` | the listener; each connection as the network has it |
| `Start` | `Start` with `init` |
| `run`, `cur`; `RunStarts`, `Accept`, `Register`, `Serve`, `AcceptFails`, `SendOff`, `RunEnds` | the accept loop and its deferred function, cut at `wgLn.Add`, the lock, `wgConns.Add`, the send |
| `tick`, `offChan`, `NumberOfConn`; `TickStarts`, `MakeOffChan`, `Tick`, `TickEnds` | the limiter's ticker |
| `agent`; `AgentReturns`, `AgentUnregisters`, `AgentDone` | `newAgent`, cut at the lock and at `wgConns.Done`; `AgentReturns` is the end of `readTask`, when a read has failed or when a packet is refused on a connection that is still open |
| `closer`; `CloseListener`, `CloseConns`, `CloseReturned` | `Close`, cut at its two waits |
| `conns`, `isNil`, `wgLn`, `wgConns` | the map and whether it is nil; the wait groups |

`Start` returns before `run` and `tick` have counted themselves. Retries after
errors only sleep and are left out.

A reader that refuses a packet (`refused` in Framing) returns with its connection
open, and `newAgent` takes it off the map. From then on only the game loop closes
it, on the `gate.p.close` call that `OnClose` posts (`HangUp` here, Skeleton's
`DeparturesAreSeen` and Delivery's `SocketsClose` for how it comes to that);
`Close` no longer knows of it. `NothingLeftOpen` therefore says which connections
may be open when `Close` waits for the goroutines, and when it has returned: those
whose goroutine has left the map, and no other.

`LifeCycle.tla` extends it to the whole process: `main`, `framework/factory`,
`framework/module` and the two modules.

| Model | Code |
| --- | --- |
| `main`, `at`; `RunModule`, `Signalled`, `SendCloseSig`, `WaitReturns`, `OnDestroy`, `CloseEnded`, `Exit` | the main goroutine in `CServer.Run`, `module.Run` and `module.Destroy` |
| `goro`, `wg`, `closeSig`; `ModuleStarts`, `RunReturns`, `ModuleDone` | the modules' goroutines, which count themselves once they run |
| `tcpServer`; `GateMakesServer`, `GateStarts` | `Gate.Run` |
| `ready`, `players`; `NewPlayer`, `PlayerReturns` | whether `self.OnInit` has made what `NewPlayer` uses; a connection that comes before crashes the process |
| `GoesOn` | what fairness asks of a connection's goroutine |
| `fatal`, `FatalExits` | `log.Fatal` after a failed `Start`: the logger ends the process when it comes to it |
| `missed` | modules whose goroutine had not begun when `Destroy` waited for it: a history |

The signal the code waits for is `os.Kill`, which Unix systems do not deliver to
a process: there, nothing after `Signalled` happens. The model lets it come or not.

### Frequency, Trie, UUID, Log

Four parts that share no state with the rest or with each other.

- `Frequency.tla`: the word counter's goroutine `update` with its two channels,
  the list of one-second nodes, the ticker, and the clock. Words reach it through
  `Add`, which only a test calls; queries come from the popular command.
- `Trie.tla`: the word list as a trie, and `Replace` with its scans from each
  character, as `Filter.check` calls it. A node is the sequence of characters that
  leads to it. The mask may be a character of the words and the texts, as
  `list.txt:265` is `masterbat*`: masking `fuk` in `masterbatfuk` makes that word.
- `UUID.tla`: `Get` cut at every load and store of `high` and `low`, as every
  connection's goroutine runs it with no lock. RoomManager takes ids to be unique,
  which this module shows to fail only for calls that overlap.
- `Log.tla`: the channel of lines, and `doLogTask` with rolling by size and by day.
  Every file operation may fail; what has failed so far is the history `failed`.
  What may become of the files in one step is a set of outcomes, composed by `Then`.
  Left out: a failing `Stat`, after which the size is not looked at, and a failing
  `Close` of the rolled file, which is only reported.

## 3. What the runs check

| Run | Instance | Shows |
| --- | --- | --- |
| `seating` | 4 agents, 4 names, 2 rooms of 2, `LoginOnce` | `OneRoomPerPlayer`, `UnlistedRoomsAreFull`, `ReachableByName`, `ImplementsLobby` |
| `refusal` | 4 agents, 4 names, 1 room of 2, `LoginOnce` | `RefusedOnlyWhenFull` |
| `anyclient` | 3 agents, 2 names and the empty one, 2 rooms of 2, any client | `TypeOK`, `ListMatchesNodes`, `ListedRoomsHaveSpace`, `RegistryMatchesRooms`, `NamesNeverPassOn` |
| `chat` | 2 agents, 2 names, 1 room of 2, 3 chats, history of 2, 1 query, `LoginOnce` | `OutReachesTheLiving`, `HistoryInOrder`, `BroadcastsAreRemembered` |
| `rawchat` | as `chat` | `EveryChatIsMasked` is violated |
| `rooms` | 2 agents, 2 names, 2 rooms of 1, queues of 2, channels of 1, 5 tasks, 1 query, `LoginOnce` | `DeliveryTypeOK`, `ReceivedInOrder`, `HearsOwnRoomOnly` |
| `live` | 2 agents, 2 names, 1 room of 2, queues of 2, channels of 1, 4 tasks, one client that may stop reading, `LoginOnce` | `WorkersComeToRest`, `SocketsClose` |
| `keys` | 1 agent, 1 name, 2 rooms of 1, 5 tasks, any client | `AnswersInOrder` is violated |
| `skeleton` | 1 connection, 1 rpc client, 1 ticker, 1 request, 3 calls; `ChanCall` of 2, `ChanAsynRet` and `ChanTimer` of 1 | `TypeOK`, `CallsRunInOrder`, `ClosedOwesNothing`, `StoppedNeverFires`, `SyncCallsEnd`, `ClientCloseReturns`, `DeparturesAreSeen`, `TickerGoesOn` |
| `framing` | bodies of 1, 3 and 4, heads of 2; limits of 3 (server) and 2 (client), compression from 3; 2 packets handled per read, reads of up to 12; 4 packets | `FramingTypeOK`, `WaitsOnlyBehindTheCap`, `ImplementsStream`, `StreamDrains` |
| `lifecycle` | 3 clients, 2 places, a limit of 2 a second | `LifeTypeOK`, `NothingLeftOpen`, `MapHoldsServed`, `ClosedAtTheEnd`, `ShutdownEnds` |
| `common` | counter: 2 words, 2 seconds kept, channels of 2 and 1, clock to 3, 3 words said; trie: 7 listed words, texts to 5 of 4 characters, one of them the mask; uuid: 4 callers, clock to 3; log: channel of 2, files of 2 lines, days of 2 s, clock to 3, 4 lines, 2 kinds of failure | `TopIsTop`, `AnswersForTheseSeconds`, `FilterCleans`, `ClashesStayInTheirSecond`, `LinesAreKept` |

Bounds. Two seats a room are the least that tell "the last seat" from "a seat"
and let a full room be reopened by one leave and filled again. Two rooms let a
list have an order and two entries; four agents fill both, and one that leaves
reopens either. One room and four agents make two clients too many. Three chats
and a history of two make the oldest chat drop out while another waits in the
filter. With any client the number of names bounds the number of joins an agent
can make: two names and the empty one suffice to move an agent twice. `MaxChats`
and `MaxQueries` cap counters; every other bound is a limit of the code (100
members, 100 rooms, 50 chats) made small. Agents and names are symmetric.
The runs of RoomManager check deadlock: an agent can connect at first, and its
requests remain possible from then on. The other passing runs do not: their
behaviours end when the bounds are used up, when the process exits or crashes, or
when everything is closed.

In `rooms` one seat a room puts two players into two rooms, so that a
broadcast to the wrong room would show. In `live` both are in one room, so that
one may leave while a broadcast to both is under way. Names are
interchangeable: of the pairs of clients and names only one of each two that differ
by swapping the names is gone through (`LiveSpec`). A login
makes two tasks (the arrival's broadcast and the response), so that a login alone
fills a queue of two and overfills a channel of one, and `MaxTasks` lets both
clients log in. When it is used up the loop does no more.
`rooms` takes states that differ only in the observation `out` for one (`WithoutOut`).

In `skeleton` the queues are of two and of one, so that one client alone fills
them, and three calls put an answered one, a waiting one and a dropped one side by
side. The ticker comes through everything a one-shot timer does and starts again.

In `framing` the constants (a limit of 10000 bytes, one of 1000, compression from
1024, 16 packets a read) keep their order and are made small: of the three bodies one is within
every limit, one exceeds the client's, one the server's as well, and the
larger two are compressed when the server writes, to any smaller size. Reads
cut the stream anywhere, within heads and lengths too; four packets fill the
two a read handles twice.

In `lifecycle`, three clients for two places are one too many, and the limiter
of two turns away the second of a second. Connections are interchangeable, and
only one numbering of them is gone through (`Numbered`). Only `Accept` looks at the
backlog and at the limiter's count, so clients dial, and the ticker clears the
count, just when it would make a difference to it (`Numbered`, `Timely`).

In `common` the four components share no state, and the run goes through the
behaviours of each alone. Two seconds kept, a clock to three and queries that go
further back make the counter drop seconds and be asked for more than it has. The
listed words begin, contain and end one another, masking can make one of them, and
texts are longer than the longest. Two callers of `Get` overlap and leave, and two more come after, so that
an id that was spoilt could still meet theirs. Four lines and a file of two roll
twice, with the day changing at any line; a second kind of failure can meet the
traces of the first.

Fairness. In `live`: the loop finishes a handler it has begun, and each worker goes
on, as no step of theirs waits for anybody (sends are `select`s with a default). A
writer goes on unless its client has stopped reading, as `conn.Write` has no
deadline (`Stalled`). Nothing is assumed of the clients, of the filter or of the
counter, and nothing else must happen: every step between a chat and its delivery
may drop it.

In `skeleton`: each goroutine of the runtime and the loop goes on when it can. The
loop's `select` takes one of several ready cases at random, so a call is taken in
the end even if timers keep coming: strong fairness of `TakeCall`. Nothing is
assumed of the connections, of `closeSig`, of handlers (they may hang; the watchdog
then ends the process), or of a client that is not inside a call. In `framing`: the
reader's goroutine deals with what it has and reads what has come; nothing of the
writer. In `lifecycle`: the goroutines of the server go on when they can, those that
read only when their connection has been closed (`GoesOn`), as a packet to refuse
need not come; nothing of clients, of the clock, of the signal, or of the logger that carries out a
`Fatal`.

What the liveness and end-state properties exempt is what the code does not
achieve, and no document says it does:

- `SyncCallsEnd`: a caller whose call waited in `ChanCall` when the loop came to
  answer others in `Server.Close` and could not (no watchdog runs there).
- `ClientCloseReturns`: a call that a full `ChanCall` dropped stays counted in
  `pendingAsynCall`, and `Close` waits for it.
- `DeparturesAreSeen`: `gate.p.close` is posted once, and a full `ChanCall` drops it.
- `StreamDrains`: packets beyond the sixteenth of a read wait in the buffer until
  the peer sends more (`cs.go:76`).
- `ShutdownEnds`: the accept loop ends before the ticker has made `offChan`, and
  waits on a nil channel for ever; `Close` waits for it, and main for `Close`.
- `ClosedAtTheEnd`: the gate's goroutine had not begun when `Destroy` waited for it.
- `AnswersForTheseSeconds`: where a query comes in a later second than the newest
  node, the code steps back by the difference (`frequency.go:147`), so the asked
  seconds end as long before that node as the query came after it. The property
  takes the end of the seconds as the code has it and says that the answer is
  their most frequent word. It also exempts a list that the ticker has not kept up (`KeptUp`).
- `LinesAreKept`: lines that were on their way when a file operation failed, and
  the other cases its comment lists, each needed.

`rawchat`: `Manager.Chat` sends a private chat to its target as it came
(`game/mgr.go:323`) and once more after the filter. README.md:54 describes the
filter as replacing the sensitive characters of the text entered. The trace is
two logins and one private chat.

`keys`: `common/task/pool.go:114` says that a player's id is pinned to one worker,
which keeps the order. The key `SendClient` passes is the agent's room
(`game/player.go:183`), which is 0 before the login and changes when the client
logs in again. The trace is a request before the login, and the login: two
workers write the two answers in either order. With the repository's own client,
whose first request is the login, the order is kept: `ReceivedInOrder` in `rooms`.

## 4. What is proved

Every invariant and every action property of the passing runs, both refinements that
TLC checks and two more, for every value of the constants: any set of connections,
names, words, timers and calls, any capacity, limit and bound. The hypotheses are
the assumptions the constants are declared with (sets of connections and agents are
finite; the placeholders such as `NoAgent` are none of the things they stand in for;
capacities and limits are positive, as the code's constants are; `HeadLen` is small
enough for its byte and for both limits), and, where it is said below, `LoginOnce`.
The limiter's number and the bounds that only keep TLC's runs finite (`MaxChats`,
`MaxTasks`, ...) may be any natural number.

Each proof has one inductive invariant, one lemma per action or per group of actions
that disturb the same conjuncts, and a last step that puts them together. The
invariants that say more than the properties were put to TLC where that was cheap
(`DeliveryInv`, `UUIDInv`), and say why the properties alone are not inductive:

`RoomManagerProofs.tla`, whatever the clients send: `TypeCorrect`,
`ListAlwaysMatchesNodes` (the list holds a room once, exactly when its node is set),
`RoomsNeverOverfull` (a listed room has space and no room is over its cap),
`RegistriesAlwaysAgree` (`players`, the agents' rooms and `members` agree). The
invariant is `IInv`: the types, and the conjunction `RoomInv` of the three
properties. None of the three is inductive alone. That a listed room has space needs
that no room is listed twice: otherwise the join that fills a room would remove one
entry and leave another. That no room is listed twice needs that `node` tells
whether a room is listed, as `Leave` relists by it. That `members` agrees with
`players` needs that no member was refused, which is that listed rooms have space.
The two lemmas that carry the proof are `EnterRoomKeepsRooms` and `LeaveKeepsRooms`;
all other actions leave the rooms alone and are shown by `RoomsUntouched`, with the
types of histories, queues and tasks action by action.

`LobbyProofs.tla`, under `LoginOnce`: `NoSecondSeat`, `NoSeatLost`,
`NamesFindPlayers`, `FreshNamesFindSeats` (a fresh name is refused only when every
seat is taken) and `RoomManagerImplementsLobby`. The invariant `SeatInv` adds to
`IInv` that an agent without a user name is not registered (so a login never moves a
player) and that every registered player's name is used (so `JoinRoom` under one's
own name is always refused, `JoinRoomRefused`). The refinement maps a login that
finds a room to `Admit`, one that finds none to `TurnAway`, `Destroy` of a
registered player to `Leave`, and everything else to a stutter.

`ChatProofs.tla`, whatever the clients send: `OutAlwaysReachesTheLiving`,
`HistoryStaysInOrder`, `BroadcastsAreAlwaysRemembered`, `NamesAreNeverPassedOn`. A
job comes back from the filter long after it was made, so `ChatInv` says what every
job on its way still carries: a target that had connected by then
(`TargetsConnected`), and a number already given out (`NumbersTaken`), so that what
is added to a history later cannot have a number that comes after those still to be
made.

`DeliveryProofs.tla`, whatever the clients send: `DeliveryTypes` and
`DeliveryImplementsManager`, by which all that is proved of RoomManager holds with
the workers and writers running. Under `LoginOnce`: `OneLoginReceivesInOrder` and
`OneLoginHearsOneRoom`. `DeliveryInv` follows a task through its stations. `Places`:
in `pending`, in a queue, in a worker's hands and at a connection, it has the key of
the room of whom it is for, who has a name (so its room, being given once, is still
the same). `Numbered`: what waits in a queue has a higher number than what the
worker has in its hands, and that a higher one than what its targets' channels hold,
and so on to what the clients have received; a broadcast under way has come to
exactly the members it has visited, except one whose `isClosed` was read and to whom
nothing has been sent.

`SkeletonProofs.tla`: `SkeletonTypeOK`, `SkeletonCallsRunInOrder`,
`SkeletonClosedOwesNothing`, `SkeletonStoppedNeverFires`. `HaltedSilent`: a timer
that was stopped has lost its callback, wherever its expiry is. `NumbersInOrder`: of
each poster, the calls in `ChanCall` and the one in the loop's hands come after the
last that ran, in order, and a connection's close is the last it posts.
`PendingExact` says what `pendingAsynCall` counts: the client's calls in the queue,
in the loop's hands and among the answers, and those that were dropped. A closed
client counts nothing (`ClosedCountsNothing`), so nothing of it is in any of these
places: a call is left out of the count by no panic, no send on the closed channel
and no answer of `Server.Close`.

`FramingProofs.tla`: `FramingTypes`, `WaitsBehindTheCap` and
`FramingImplementsStream`. `Laid` says that packets lie in the stream one after the
other without a gap; `InStep` that a reader that has not refused stands where a
packet begins, having given its handler the bodies of those before. From that
follows that what `DealMsgExt` takes for a length is one: `Handle` maps to
`Stream`'s, a refusal to `Refuse`, reading and cutting to a stutter.

`LifeCycleProofs.tla`: of the server alone, `ServerNothingLeftOpen` and
`ServerMapHoldsServed`; `LifeCycleImplementsTCPServer`, whatever main and the two
modules do; hence both of the whole program (`ProgramServesSafely`); `LifeTypes`;
and `LifeClosedAtTheEnd`. `ServerInv` says what the wait groups count (`Counted`),
that an open connection is in the map or in the accept loop's hands unless its own
goroutine has taken it off the map, having refused a packet (`Handled`), and
that once `Close` has set the map to nil nothing writes it (`Ordered`). `LifeInv`
adds what each module's wait group counts (`Waited`), and that main comes to close
the listener when the gate's goroutine has ended or had not begun (`Closing`).

`CommonProofs.tla`, each part by itself:

- `TopWordsAreTop`, `QueriesAreAnsweredRight`: no word of a node is counted more
  often than its top word, and nodes of consecutive seconds are as many apart as
  their seconds (`Straight`), which is why stepping back by a difference of seconds
  finds the right node.
- `IdsClashInTheirSecondOnly`: calls in `Get` together have marked their seconds
  (`OverlapsMarked`); in an unmarked second one is alone with `high` and `low`
  (`CallsAlone`), and the ids given out are behind them (`IdsBehind`).
- `TakenLinesAreKept`: until an operation fails that loses lines, the files hold
  what was taken (`HoldsUpTo`), nothing else (`FilesUpTo`), and the channel holds
  the lines that come next (`LinesInLine`). Each file operation's outcomes are shown
  to keep this (`Keeps`), and so their compositions by `Then`.
- `TextsAreCleaned`: for any list of words and any text, the mask in them or not. Here the content is in the
  operators. `Walk` and `Masked` are defined by recursion; `WalkScans` and
  `MaskedSweeps` show that the recursive functions exist and obey their equations.
  `ListedIsFound`: the scan from where a listed word begins goes down that word,
  though it never turns back, and stops at its end at the latest. `FoundIsRead`:
  what is found can be read in the text. `MaskedCovers`: Replace masks whole
  stretches that were found, and every place where something begins that can be
  found, also after skipping what it has masked. So a listed word of which nothing
  is masked cannot be left (`LeftIsMasked`). The library's induction theorems
  take an operator, which no installed prover instantiates; `Induct` is induction
  over a set of numbers, from the library's well-foundedness of `<`.

Only model-checked: the liveness properties `WorkersComeToRest`, `SocketsClose`,
`SyncCallsEnd`, `ClientCloseReturns`, `DeparturesAreSeen`, `TickerGoesOn`,
`StreamDrains` and `ShutdownEnds`. They rest on fairness, hence on `ENABLED`, which
the prover does not handle. That the two violated properties are violated is TLC's
trace.

## 5. What is left

Theorems. No safety property is left. The liveness properties would need a rule
about fairness that the prover lacks; what could be proved of them is the safety
half: that a waiting caller is always one of those the property exempts or has its
call or its answer on the way, which then only has to move.

Not modelled:

- The tcp client (`framework/network/tcpclient.go`): nothing calls its `Close`, and the
  one program that uses it exits as soon as its connection ends
  (`client/agent/agent.go:90-94`), so neither the reconnect nor a race with
  `Close` can be reached.
- The heap and the complete tree: only a test calls them, and the heap's is empty.
- AES and zlib: library calls on opaque bytes; encryption is off. No client
  compresses, so `cs.go:133` is never reached with a compressed request.
- Configuration and platform files, protobuf's generated code, the client's
  terminal, the log's levels and call stacks.
- A bound on the connections of any second, which the limiter does not give: its
  seconds are the ticker's, and begin when `tick` does. A comment calls
  `ConnNumberPerSecond` the connections allowed in a second (`tcpserver.go:22`); the
  test of line 142, which `Accept` has, admits one fewer, and no run states it.
