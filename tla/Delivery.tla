------------------------------ MODULE Delivery ------------------------------
(***************************************************************************)
(* From the game loop to the clients' sockets: common/task/pool.go,        *)
(* framework/network/tcp.go and Room.broadcast, composed with RoomManager. *)
(*                                                                         *)
(* The loop hands the tasks of a handler one by one to workers, one per    *)
(* key.  A worker runs its tasks in turn: it looks at the loop's maps and  *)
(* at a connection's isClosed with no lock, then puts the bytes into the   *)
(* connection's writeChan.  The connection's writer goroutine takes them   *)
(* from there to the socket.  Bytes are the number of the task.            *)
(*                                                                         *)
(* The pool hashes keys onto 300 workers; here each key has its own, which *)
(* allows every order that a shared worker does.  The place of a private   *)
(* chat's filter call (RunSubmitted) in its worker's queue is not kept.    *)
(***************************************************************************)
EXTENDS RoomManager

CONSTANTS
    QueueCap,      \* tasks a worker's channel holds: 10000 in pool.go
    WriteCap,      \* messages writeChan holds: PendingWriteNum
    MaxTasks,      \* bound on the tasks handed out in a behaviour
    Stalled        \* connections whose clients may stop reading for ever

ASSUME DeliveryAssumption ==
    /\ QueueCap \in Nat \ {0} /\ WriteCap \in Nat \ {0} /\ MaxTasks \in Nat
    /\ Stalled \subseteq Agents

VARIABLES
    pending,       \* tasks the running handler has still to hand out
    handed,        \* how many tasks have been handed out: they are numbered
    queue,         \* each worker's channel
    busy,          \* the task each worker is running, or Idle
    conn,          \* open; closing: writeChan is closed; closed: isClosed too
    pipe,          \* writeChan
    socket,        \* up, or down once the writer has closed it
    got,           \* what each client has received
    crashed        \* the Go runtime has aborted the process

deliveryVars == <<pending, handed, queue, busy, conn, pipe, socket, got, crashed>>
allVars == <<vars, deliveryVars>>

Keys == 0..MaxRooms
QueuedTasks == [no : 1..MaxTasks, key : Keys, to : Agents \cup {NoAgent}]
Idle == [task |-> "none"]
\* due: whom a range over the map is bound to visit; seen: whom it has
\* visited; at: whose isClosed was found false, with the send to come.
Running == [task : QueuedTasks, due : SUBSET Agents, seen : SUBSET Agents,
            at : Agents \cup {NoAgent}]

DeliveryInit ==
    /\ Init
    /\ pending = <<>>
    /\ handed = 0
    /\ queue = [k \in Keys |-> <<>>]
    /\ busy = [k \in Keys |-> Idle]
    /\ conn = [p \in Agents |-> "open"]
    /\ pipe = [p \in Agents |-> <<>>]
    /\ socket = [p \in Agents |-> "up"]
    /\ got = [p \in Agents |-> <<>>]
    /\ crashed = FALSE

-----------------------------------------------------------------------------
(* The game loop. *)

\* Handlers run on the loop, one at a time: what the last one has begun is
\* finished before the next.
LoopIdle == pending = <<>> /\ \A p \in Agents : conn[p] # "closing"

\* Workers that range over a room's members.
Ranging == {k \in Keys : busy[k] # Idle /\ busy[k].task.to = NoAgent}

\* Wrong variant: Destroy leaves the connection open.
NothingCloses == conn

\* TCPConn.Close, called by Destroy, closes writeChan.
Closes ==
    [p \in Agents |-> IF status[p] = "live" /\ status'[p] = "destroyed"
                      THEN "closing" ELSE conn[p]]

\* A handler of RoomManager.  A write of the maps that a worker is ranging
\* over may be noticed by the Go runtime, which then aborts the process.
LoopStep ==
    /\ LoopIdle
    /\ \/ \E p \in Agents : Request(p) \/ Destroy(p)
       \/ \E r \in RoomIds : FilterDone(r) \/ FilterLost(r)
    /\ pending' = out'
    /\ handed + Len(out') <= MaxTasks
    /\ conn' = Closes
    /\ crashed' \in {FALSE, Ranging # {} /\ <<players, members>>' # <<players, members>>}
    /\ UNCHANGED <<handed, queue, busy, pipe, socket, got>>

\* TCPConn.Close sets isClosed after it has closed the channel.
FinishClose(p) ==
    /\ conn[p] = "closing"
    /\ conn' = [conn EXCEPT ![p] = "closed"]
    /\ UNCHANGED <<vars, pending, handed, queue, busy, pipe, socket, got, crashed>>

\* Wrong variants: any worker gets the task; the channel has no bound.
AddTaskAnywhere(t) ==
    /\ handed' = handed + 1
    /\ \E k \in Keys :
          queue' = [queue EXCEPT ![k] =
             IF Len(@) >= QueueCap THEN @
             ELSE Append(@, [no |-> handed + 1, key |-> t.key, to |-> t.to])]

AddTaskUnbounded(t) ==
    /\ handed' = handed + 1
    /\ queue' = [queue EXCEPT ![t.key] =
          Append(@, [no |-> handed + 1, key |-> t.key, to |-> t.to])]

\* Pool.AddTask: a full channel drops the task.
AddTask(t) ==
    /\ handed' = handed + 1
    /\ queue' = [queue EXCEPT ![t.key] =
          IF Len(@) >= QueueCap THEN @
          ELSE Append(@, [no |-> handed + 1, key |-> t.key, to |-> t.to])]

HandOut ==
    /\ pending # <<>>
    /\ AddTask(Head(pending))
    /\ pending' = Tail(pending)
    /\ UNCHANGED <<vars, busy, conn, pipe, socket, got, crashed>>

\* Steps of RoomManager on other goroutines.  Nothing reads agentSet, so the
\* loss of an agent's registration, which RoomManager has, is left out.
Elsewhere ==
    /\ \/ \E p \in Agents : Connect(p) /\ p \in agentSet'
       \/ \E r \in RoomIds : RunSubmitted(r)
    /\ UNCHANGED deliveryVars

\* The word counter's goroutine hands out its answer itself.
CounterStep ==
    /\ PopularAnswered
    /\ handed + Len(pending) < MaxTasks
    /\ AddTask(out'[1])
    /\ UNCHANGED <<pending, busy, conn, pipe, socket, got, crashed>>

-----------------------------------------------------------------------------
(* The workers. *)

Take(k) ==
    /\ busy[k] = Idle
    /\ queue[k] # <<>>
    /\ LET t == Head(queue[k])
       IN  busy' = [busy EXCEPT ![k] =
              [task |-> t, seen |-> {}, at |-> NoAgent,
               due |-> IF t.to = NoAgent THEN members[t.key] ELSE {t.to}]]
    /\ queue' = [queue EXCEPT ![k] = Tail(@)]
    /\ UNCHANGED <<vars, pending, handed, conn, pipe, socket, got, crashed>>

\* Wrong variant: a broadcast goes to every player.
EveryPlayer(t) == IF t.to = NoAgent THEN players ELSE {t.to}

\* Whom the task is for, as the maps are now.
Addressees(t) == IF t.to = NoAgent THEN members[t.key] ELSE {t.to}

\* TCPConn.Write up to its test of isClosed; a member that is no registered
\* player is passed over.
Visit(k) ==
    /\ busy[k] # Idle
    /\ busy[k].at = NoAgent
    /\ \E p \in Addressees(busy[k].task) \ busy[k].seen :
          busy' = [busy EXCEPT ![k].seen = @ \cup {p},
                               ![k].at = IF /\ p \in players \/ busy[k].task.to = p
                                            /\ conn[p] # "closed"
                                         THEN p ELSE NoAgent]
    /\ UNCHANGED <<vars, pending, handed, queue, conn, pipe, socket, got, crashed>>

\* Wrong variant: the send waits for space.
PutWaits(k, p) ==
    /\ conn[p] = "open"
    /\ Len(pipe[p]) < WriteCap
    /\ pipe' = [pipe EXCEPT ![p] = Append(@, busy[k].task)]
    /\ busy' = [busy EXCEPT ![k].at = NoAgent]

\* TCPConn.Write's send, on an open channel: a full one drops the message.
Put(k, p) ==
    /\ conn[p] = "open"
    /\ pipe' = [pipe EXCEPT ![p] =
          IF Len(@) >= WriteCap THEN @ ELSE Append(@, busy[k].task)]
    /\ busy' = [busy EXCEPT ![k].at = NoAgent]

\* The same on a closed channel: the send panics, executeFun recovers, and
\* the rest of the task is lost.
Panic(k, p) ==
    /\ conn[p] # "open"
    /\ pipe' = pipe
    /\ busy' = [busy EXCEPT ![k] = Idle]

Write(k) ==
    /\ busy[k] # Idle
    /\ busy[k].at # NoAgent
    /\ Put(k, busy[k].at) \/ Panic(k, busy[k].at)
    /\ UNCHANGED <<vars, pending, handed, queue, conn, socket, got, crashed>>

\* A range ends when every member that was there all the time was visited.
Finish(k) ==
    /\ busy[k] # Idle
    /\ busy[k].at = NoAgent
    /\ busy[k].due \cap Addressees(busy[k].task) \subseteq busy[k].seen
    /\ busy' = [busy EXCEPT ![k] = Idle]
    /\ UNCHANGED <<vars, pending, handed, queue, conn, pipe, socket, got, crashed>>

Worker(k) == Take(k) \/ Visit(k) \/ Write(k) \/ Finish(k)

-----------------------------------------------------------------------------
(* WriteTask, the writer goroutine of a connection. *)

\* The write reaches the client, or fails and is skipped.
WriteOut(p) ==
    /\ pipe[p] # <<>>
    /\ pipe' = [pipe EXCEPT ![p] = Tail(@)]
    /\ got' \in {got, [got EXCEPT ![p] = Append(@, Head(pipe[p]))]}
    /\ UNCHANGED <<vars, pending, handed, queue, busy, conn, socket, crashed>>

\* The channel is closed and drained.
HangUp(p) ==
    /\ conn[p] # "open"
    /\ pipe[p] = <<>>
    /\ socket[p] = "up"
    /\ socket' = [socket EXCEPT ![p] = "down"]
    /\ UNCHANGED <<vars, pending, handed, queue, busy, conn, pipe, got, crashed>>

Writer(p) == WriteOut(p) \/ HangUp(p)

-----------------------------------------------------------------------------
DeliveryNext ==
    /\ ~crashed
    /\ \/ LoopStep
       \/ HandOut
       \/ Elsewhere
       \/ CounterStep
       \/ \E k \in Keys : Worker(k)
       \/ \E p \in Agents : FinishClose(p) \/ Writer(p)

DeliverySpec == DeliveryInit /\ [][DeliveryNext]_allVars

\* The loop and the workers never wait for anybody inside a task, so the Go
\* scheduler lets them go on.  A writer's conn.Write has no deadline: it waits
\* for as long as its client does not read.
Fairness ==
    /\ WF_allVars(~crashed /\ (HandOut \/ \E p \in Agents : FinishClose(p)))
    /\ \A k \in Keys : WF_allVars(~crashed /\ Worker(k))
    /\ \A p \in Agents \ Stalled : WF_allVars(~crashed /\ Writer(p))

FairDelivery == DeliverySpec /\ Fairness

-----------------------------------------------------------------------------
DeliveryTypeOK ==
    /\ pending \in Seq(Tasks)
    /\ handed \in 0..MaxTasks
    /\ queue \in [Keys -> Seq(QueuedTasks)]
    /\ busy \in [Keys -> Running \cup {Idle}]
    /\ conn \in [Agents -> {"open", "closing", "closed"}]
    /\ pipe \in [Agents -> Seq(QueuedTasks)]
    /\ socket \in [Agents -> {"up", "down"}]
    /\ got \in [Agents -> Seq(QueuedTasks)]
    /\ crashed \in BOOLEAN
    /\ \A k \in Keys : Len(queue[k]) <= QueueCap
    /\ \A p \in Agents : Len(pipe[p]) <= WriteCap

\* A client receives messages in the order the loop handed them out, and none
\* twice, although they pass two queues and a worker that may drop or abandon
\* them (Pool.AddTask, executeFun, TCPConn.Write), and although its key changes
\* when it logs in.
ReceivedInOrder ==
    \A p \in Agents : \A i, j \in 1..Len(got[p]) :
       i < j => got[p][i].no < got[p][j].no

\* What pool.go:114 says: a player's number is pinned to a worker, to keep the
\* order of what is sent to that player alone.  It is not so for a client that
\* asks for something before its login, or logs in again: the key is the room.
AnswersInOrder ==
    \A p \in Agents : \A i, j \in 1..Len(got[p]) :
       i < j /\ got[p][i].to = p /\ got[p][j].to = p => got[p][i].no < got[p][j].no

\* A client hears of its own room only: every message it has received came
\* from the worker of the room it is in now (0 if it was refused one), so no
\* broadcast of another room has reached it (Room.broadcast, SendClient).
HearsOwnRoomOnly ==
    \A p \in Agents : \A i \in 1..Len(got[p]) : got[p][i].key = roomID[p]

\* The workers get through all they were handed, whatever panics on the way
\* and however slow the clients are: again and again none has anything left,
\* as MaxTasks bounds what the loop hands out.  Nothing in a task waits for a
\* client (TCPConn.Write, executeFun).
WorkersComeToRest ==
    []<>(crashed \/ \A k \in Keys : queue[k] = <<>> /\ busy[k] = Idle)

\* A destroyed agent's socket is closed in the end, unless its client has
\* stopped reading, whatever is still being written to it by workers that saw
\* it open (Destroy, TCPConn.Close, WriteTask).
SocketsClose ==
    \A p \in Agents \ Stalled :
       status[p] = "destroyed" ~> (socket[p] = "down" \/ crashed)
=============================================================================
