---------------------------- MODULE DeliveryProofs ----------------------------
(***************************************************************************)
(* What is proved of Delivery, for any number of clients, rooms and        *)
(* messages and any capacity of the queues.  Whatever the clients send,    *)
(* the queues hold what they should and no more than they may.  If every   *)
(* client logs in once, as client/agent does, its messages reach it in the *)
(* order the loop handed them out, and are those of its own room.          *)
(***************************************************************************)
EXTENDS Delivery, ChatProofs, LobbyProofs

\* A task that goes to a room's members names a room.
ForRooms(those) == {t \in those : t.to = NoAgent => t.key \in RoomIds}
HandedTasks == ForRooms(QueuedTasks)
Work == {w \in Running : w.task \in HandedTasks}

Loaded ==
    /\ pending \in Seq(ForRooms(Tasks))
    /\ handed + Len(pending) <= MaxTasks
    /\ queue \in [Keys -> Seq(HandedTasks)]
    /\ busy \in [Keys -> Work \cup {Idle}]

\* Whatever the clients do.
LoadInv == IInv /\ TargetsConnected /\ DeliveryTypeOK /\ Loaded

\* A client that has logged in stays in the room it was given, or in none.
Named == {p \in Agents : username[p] # NoName}

Elems(s) == {s[i] : i \in 1..Len(s)}
Rising(s) == \A i, j \in 1..Len(s) : i < j => s[i].no < s[j].no

\* What has come to a client's connection.
Arrived(p) == Elems(got[p]) \cup Elems(pipe[p])

Placed(t) == t.to # NoAgent => t.to \in Named /\ t.key = roomID[t.to]

WorkPlaced(k) ==
    busy[k] # Idle =>
       /\ Placed(busy[k].task) /\ busy[k].task.key = k
       /\ busy[k].at # NoAgent =>
             busy[k].at \in Named \cap busy[k].seen /\ roomID[busy[k].at] = k

\* Tasks are where their keys say, and go to those who are in that room.
Places ==
    /\ \A t \in Elems(pending) : Placed(t)
    /\ \A k \in Keys : \A t \in Elems(queue[k]) : Placed(t) /\ t.key = k
    /\ \A k \in Keys : WorkPlaced(k)
    /\ \A p \in Agents : \A t \in Arrived(p) : p \in Named /\ t.key = roomID[p]

\* A room's tasks are numbered in the order of the stations they have reached:
\* queued, running, and at the connections; a running one has come to those it
\* has visited, except the one whose isClosed was read last.
Numbered ==
    /\ \A k \in Keys : Rising(queue[k]) /\ \A t \in Elems(queue[k]) : t.no <= handed
    /\ \A k \in Keys : busy[k] # Idle =>
          busy[k].task.no <= handed /\ \A t \in Elems(queue[k]) : busy[k].task.no < t.no
    /\ \A p \in Agents :
          /\ Rising(got[p]) /\ Rising(pipe[p])
          /\ \A s \in Elems(got[p]), t \in Elems(pipe[p]) : s.no < t.no
    /\ \A p \in Agents : \A t \in Arrived(p) :
          /\ t.no <= handed
          /\ \A s \in Elems(queue[roomID[p]]) : t.no < s.no
          /\ busy[roomID[p]] # Idle =>
                /\ t.no <= busy[roomID[p]].task.no
                /\ p \notin busy[roomID[p]].seen \/ busy[roomID[p]].at = p
                      => t.no < busy[roomID[p]].task.no

\* When every client logs in once.
DeliveryInv == LoadInv /\ SeatInv /\ Targets(Named) /\ Places /\ Numbered

-----------------------------------------------------------------------------
(* Sequences of tasks, by their elements and the order of their numbers. *)

LEMMA ElemsOf ==
    ASSUME NEW S, NEW s \in Seq(S)
    PROVE  Elems(s) \subseteq S /\ Len(s) \in Nat
BY ElementOfSeq, LenProperties DEF Elems

LEMMA ElemsAppended ==
    ASSUME NEW S, NEW s \in Seq(S), NEW x \in S
    PROVE  /\ Append(s, x) \in Seq(S) /\ Len(Append(s, x)) = Len(s) + 1 /\ Len(s) \in Nat
           /\ Elems(Append(s, x)) = Elems(s) \cup {x}
<1> DEFINE t == Append(s, x)
<1>1. /\ t \in Seq(S) /\ Len(s) \in Nat /\ Len(t) = Len(s) + 1 /\ t[Len(s) + 1] = x
      /\ \A i \in 1..Len(s) : t[i] = s[i]
  BY AfterAppend
<1> HIDE DEF t
<1>2. \A i \in 1..Len(t) : i \in 1..Len(s) \/ i = Len(s) + 1
  BY <1>1
<1>3. 1..Len(s) \subseteq 1..Len(t) /\ Len(s) + 1 \in 1..Len(t)
  BY <1>1
<1>4. Elems(t) = Elems(s) \cup {x}
  BY <1>1, <1>2, <1>3 DEF Elems
<1> QED BY <1>1, <1>4 DEF t

LEMMA ElemsTaken ==
    ASSUME NEW S, NEW s \in Seq(S), s # <<>>
    PROVE  /\ Tail(s) \in Seq(S) /\ Len(Tail(s)) = Len(s) - 1 /\ Len(s) \in Nat
           /\ Elems(Tail(s)) \subseteq Elems(s) /\ Head(s) \in Elems(s) /\ Head(s) \in S
<1>1. /\ Len(s) \in Nat \ {0} /\ s[1] = Head(s) /\ s[1] \in S
      /\ Tail(s) \in Seq(S) /\ Len(Tail(s)) = Len(s) - 1
      /\ \A i \in 1..Len(Tail(s)) : Tail(s)[i] = s[i + 1]
  BY AfterFront
<1>2. \A i \in 1..Len(Tail(s)) : i + 1 \in 1..Len(s)
  BY <1>1
<1>3. 1 \in 1..Len(s)
  BY <1>1
<1> QED BY <1>1, <1>2, <1>3 DEF Elems

LEMMA RisingAppended ==
    ASSUME NEW S, NEW s \in Seq(S), NEW x \in S, Rising(s), \A y \in Elems(s) : y.no < x.no
    PROVE  Rising(Append(s, x))
<1> DEFINE t == Append(s, x)
<1>1. /\ Len(s) \in Nat /\ Len(t) = Len(s) + 1 /\ t[Len(s) + 1] = x
      /\ \A i \in 1..Len(s) : t[i] = s[i]
  BY AfterAppend
<1> HIDE DEF t
<1>2. ASSUME NEW i \in 1..Len(t), NEW j \in 1..Len(t), i < j PROVE t[i].no < t[j].no
  <2>1. i \in 1..Len(s) /\ t[i] = s[i] /\ t[i] \in Elems(s)
    BY <1>1, <1>2 DEF Elems
  <2>2. CASE j \in 1..Len(s)
    BY <1>1, <1>2, <2>1, <2>2 DEF Rising
  <2>3. CASE j = Len(s) + 1
    BY <1>1, <2>1, <2>3
  <2> QED BY <1>1, <2>2, <2>3
<1>3. Rising(t)
  BY <1>2 DEF Rising
<1> QED BY <1>3 DEF t

LEMMA RisingTaken ==
    ASSUME NEW S, NEW s \in Seq(S), s # <<>>, Rising(s)
    PROVE  Rising(Tail(s)) /\ \A y \in Elems(Tail(s)) : Head(s).no < y.no
<1> DEFINE t == Tail(s)
<1>1. /\ Len(s) \in Nat \ {0} /\ s[1] = Head(s)
      /\ Len(t) = Len(s) - 1 /\ \A i \in 1..Len(t) : t[i] = s[i + 1]
  BY AfterFront
<1> HIDE DEF t
<1>2. ASSUME NEW i \in 1..Len(t) PROVE i + 1 \in 1..Len(s) /\ 1 < i + 1 /\ 1 \in 1..Len(s)
  BY <1>1
<1>3. ASSUME NEW i \in 1..Len(t), NEW j \in 1..Len(t), i < j PROVE t[i].no < t[j].no
  <2>1. i + 1 < j + 1
    BY <1>3
  <2> QED BY <1>1, <1>2, <2>1 DEF Rising
<1>4. ASSUME NEW i \in 1..Len(t) PROVE Head(s).no < t[i].no
  BY <1>1, <1>2 DEF Rising
<1> QED BY <1>3, <1>4 DEF Rising, Elems, t

-----------------------------------------------------------------------------
(* The steps of RoomManager that Delivery takes are steps of RoomManager. *)

LEMMA ManagerSteps == DeliveryNext \/ UNCHANGED allVars => [Next]_vars
BY DEF DeliveryNext, LoopStep, HandOut, Elsewhere, CounterStep, Worker, Take, Visit, Write, Finish,
       FinishClose, Writer, WriteOut, HangUp, allVars, Next
-----------------------------------------------------------------------------
(* What the queues hold, whatever the clients do. *)

LEMMA LoopLoads ==
    ASSUME IInv, TargetsConnected, Next
    PROVE  out' \in Seq(ForRooms(Tasks))
<1>1. PICK C : C = Connected
  OBVIOUS
<1>2. out' \in Seq(Told(C)')
  BY <1>1, Requesters, ToldSteps DEF TargetsConnected
<1>3. Told(C)' \subseteq ForRooms(Tasks)
  BY DEF Told, ForRooms
<1> QED BY <1>2, <1>3, SeqMonotonic

\* A task at the end of its worker's queue has the next number.
LEMMA AddTaskLoads ==
    ASSUME DeliveryTypeOK, Loaded, NEW t \in ForRooms(Tasks), AddTask(t), handed < MaxTasks
    PROVE  /\ handed' = handed + 1 /\ handed' \in 0..MaxTasks
           /\ queue' \in [Keys -> Seq(HandedTasks)]
           /\ \A k \in Keys : Len(queue'[k]) <= QueueCap
<1> USE DeliveryAssumption
<1> DEFINE x == [no |-> handed + 1, key |-> t.key, to |-> t.to]
           S == HandedTasks
<1>1. handed' = handed + 1 /\ handed' \in 0..MaxTasks /\ handed + 1 \in 1..MaxTasks
  BY DEF AddTask, DeliveryTypeOK
<1>2. t.key \in Keys /\ x \in S
  BY <1>1 DEF ForRooms, Tasks, HandedTasks, QueuedTasks, Keys
<1>3. /\ queue \in [Keys -> Seq(S)]
      /\ queue' = [queue EXCEPT ![t.key] = IF Len(@) >= QueueCap THEN @ ELSE Append(@, x)]
  BY DEF Loaded, AddTask
<1>4. \A k \in Keys : Len(queue[k]) <= QueueCap
  BY DEF DeliveryTypeOK
<1> HIDE DEF x, S
<1>5. ASSUME NEW k \in Keys
      PROVE  /\ queue'[k] = queue[k] \/ (queue'[k] = Append(queue[k], x) /\ ~(Len(queue[k]) >= QueueCap))
             /\ queue'[k] \in Seq(S) /\ Len(queue'[k]) <= QueueCap
  <2>1. queue'[k] = queue[k] \/ (queue'[k] = Append(queue[k], x) /\ ~(Len(queue[k]) >= QueueCap))
    BY <1>2, <1>3
  <2>2. queue[k] \in Seq(S)
    BY <1>3
  <2>3. /\ Append(queue[k], x) \in Seq(S) /\ Len(queue[k]) \in Nat
        /\ Len(Append(queue[k], x)) = Len(queue[k]) + 1
    BY <1>2, <2>2, ElemsAppended
  <2>4. Len(queue[k]) <= QueueCap /\ QueueCap \in Nat
    BY <1>4
  <2> DEFINE long == Len(queue[k])
             s    == Append(queue[k], x)
  <2>5. ~(long >= QueueCap) => Len(s) <= QueueCap
    <3> HIDE DEF s
    <3>1. long \in Nat /\ Len(s) = long + 1
      BY <2>3 DEF s
    <3> HIDE DEF long
    <3> QED BY <2>4, <3>1
  <2> QED BY <2>1, <2>2, <2>3, <2>4, <2>5
<1>6. queue' \in [Keys -> Seq(S)]
  BY <1>3, <1>5
<1> QED BY <1>1, <1>5, <1>6 DEF S

HandedTypes ==
    /\ queue \in [Keys -> Seq(QueuedTasks)]
    /\ pending \in Seq(Tasks)
    /\ busy \in [Keys -> Running \cup {Idle}]

LEMMA TypesOfHanded == Loaded => HandedTypes
<1> SUFFICES ASSUME Loaded PROVE HandedTypes
  OBVIOUS
<1>1. /\ HandedTasks \subseteq QueuedTasks /\ ForRooms(Tasks) \subseteq Tasks
      /\ Work \subseteq Running
  BY DEF HandedTasks, ForRooms, Work
<1>2. /\ queue \in [Keys -> Seq(HandedTasks)] /\ pending \in Seq(ForRooms(Tasks))
      /\ busy \in [Keys -> Work \cup {Idle}]
  BY DEF Loaded
<1>3. queue \in [Keys -> Seq(QueuedTasks)]
  BY <1>1, <1>2, QueuesGrow
<1>4. pending \in Seq(Tasks)
  BY <1>1, <1>2, SeqMonotonic
<1> QED BY <1>1, <1>2, <1>3, <1>4 DEF HandedTypes

LEMMA TypesOfHandedAfter == Loaded' => HandedTypes'
BY TypesOfHanded, PTL

LEMMA HandOutLoads ==
    ASSUME LoadInv, HandOut
    PROVE  DeliveryTypeOK' /\ Loaded'
<1>1. /\ Head(pending) \in ForRooms(Tasks) /\ Tail(pending) \in Seq(ForRooms(Tasks))
      /\ Len(Tail(pending)) = Len(pending) - 1 /\ Len(pending) \in Nat \ {0}
  <2>1. pending \in Seq(ForRooms(Tasks)) /\ pending # <<>>
    BY DEF HandOut, LoadInv, Loaded
  <2> QED BY <2>1, AfterFront
<1>2. handed < MaxTasks /\ handed \in Nat /\ handed + Len(pending) <= MaxTasks /\ MaxTasks \in Nat
  BY <1>1, DeliveryAssumption DEF LoadInv, Loaded, DeliveryTypeOK
<1>3. /\ handed' = handed + 1 /\ handed' \in 0..MaxTasks
      /\ queue' \in [Keys -> Seq(HandedTasks)]
      /\ \A k \in Keys : Len(queue'[k]) <= QueueCap
  BY <1>1, <1>2, AddTaskLoads DEF LoadInv, HandOut
<1>4. /\ pending' = Tail(pending) /\ UNCHANGED <<busy, conn, pipe, socket, got, crashed>>
      /\ handed' + Len(pending') <= MaxTasks
  BY <1>1, <1>2, <1>3 DEF HandOut
<1>5. Loaded'
  BY <1>1, <1>3, <1>4 DEF LoadInv, Loaded
<1> QED BY <1>3, <1>4, <1>5, TypesOfHandedAfter DEF HandedTypes, LoadInv, DeliveryTypeOK

LEMMA CounterLoads ==
    ASSUME LoadInv, CounterStep
    PROVE  DeliveryTypeOK' /\ Loaded'
<1>1. out'[1] \in ForRooms(Tasks)
  <2>1. out' \in Seq(ForRooms(Tasks))
    BY LoopLoads DEF LoadInv, CounterStep, Next
  <2>2. Len(out') = 1
    BY DEF CounterStep, PopularAnswered, GMResult, Broadcast
  <2> QED BY <2>1, <2>2, ElementOfSeq
<1>2. /\ handed < MaxTasks /\ handed \in Nat /\ handed + Len(pending) < MaxTasks
      /\ MaxTasks \in Nat /\ Len(pending) \in Nat
  <2>1. Len(pending) \in Nat
    BY LenProperties DEF LoadInv, Loaded
  <2> QED BY <2>1, DeliveryAssumption DEF LoadInv, DeliveryTypeOK, CounterStep
<1>3. /\ handed' = handed + 1 /\ handed' \in 0..MaxTasks
      /\ queue' \in [Keys -> Seq(HandedTasks)]
      /\ \A k \in Keys : Len(queue'[k]) <= QueueCap
  BY <1>1, <1>2, AddTaskLoads DEF LoadInv, CounterStep
<1>4. /\ UNCHANGED <<pending, busy, conn, pipe, socket, got, crashed>>
      /\ handed' + Len(pending') <= MaxTasks
  BY <1>2, <1>3 DEF CounterStep
<1>5. Loaded'
  BY <1>3, <1>4 DEF LoadInv, Loaded
<1> QED BY <1>3, <1>4, <1>5, TypesOfHandedAfter DEF HandedTypes, LoadInv, DeliveryTypeOK

LEMMA TakeLoads ==
    ASSUME LoadInv, NEW k \in Keys, Take(k)
    PROVE  DeliveryTypeOK' /\ Loaded'
<1> DEFINE S == HandedTasks
           t == Head(queue[k])
           w == [task |-> t, seen |-> {}, at |-> NoAgent,
                 due |-> IF t.to = NoAgent THEN members[t.key] ELSE {t.to}]
<1>1. /\ queue[k] \in Seq(S) /\ queue[k] # <<>> /\ queue' = [queue EXCEPT ![k] = Tail(@)]
      /\ queue \in [Keys -> Seq(S)] /\ busy' = [busy EXCEPT ![k] = w]
      /\ busy \in [Keys -> Work \cup {Idle}]
  BY DEF LoadInv, Loaded, Take
<1>2. t \in HandedTasks
  BY <1>1, AfterFront
<1>3. w \in Work
  <2>1. t \in QueuedTasks /\ (t.to = NoAgent => t.key \in RoomIds)
    BY <1>2 DEF HandedTasks, ForRooms
  <2>2. t.to = NoAgent => members[t.key] \subseteq Agents
    BY <2>1 DEF LoadInv, IInv, TypeOK, SeatTypeOK
  <2>3. t.to # NoAgent => t.to \in Agents
    BY <2>1 DEF QueuedTasks
  <2> HIDE DEF t
  <2> QED BY <1>2, <2>1, <2>2, <2>3 DEF Work, Running
<1> HIDE DEF S, w
<1>4. busy' \in [Keys -> Work \cup {Idle}]
  BY <1>1, <1>3
<1>5. queue' \in [Keys -> Seq(S)]
  BY <1>1, QueueTaken
<1>6. \A j \in Keys : Len(queue'[j]) <= QueueCap
  <2>1. ASSUME NEW j \in Keys PROVE Len(queue[j]) <= QueueCap
    BY DEF LoadInv, DeliveryTypeOK
  <2>2. \A j \in Keys : j # k => queue'[j] = queue[j]
    BY <1>1
  <2>3. queue'[k] = Tail(queue[k])
    BY <1>1
  <2>4. Len(Tail(queue[k])) = Len(queue[k]) - 1 /\ Len(queue[k]) \in Nat
    BY <1>1, ElemsTaken
  <2>5. Len(Tail(queue[k])) <= QueueCap
    BY <2>1, <2>4, DeliveryAssumption
  <2> QED BY <2>1, <2>2, <2>3, <2>5
<1>7. UNCHANGED <<pending, handed, conn, pipe, socket, got, crashed>>
  BY DEF Take
<1>8. Loaded'
  BY <1>4, <1>5, <1>7 DEF LoadInv, Loaded, S
<1> QED BY <1>6, <1>7, <1>8, TypesOfHandedAfter DEF HandedTypes, LoadInv, DeliveryTypeOK

\* Who is visited is a client.
LEMMA AddresseesAreAgents ==
    ASSUME LoadInv, NEW k \in Keys, busy[k] # Idle
    PROVE  /\ busy[k] \in Work /\ busy[k].task \in QueuedTasks
           /\ Addressees(busy[k].task) \subseteq Agents
<1> DEFINE t == busy[k].task
<1>1. busy[k] \in Work
  BY DEF LoadInv, Loaded
<1>2. t \in QueuedTasks /\ (t.to = NoAgent => t.key \in RoomIds)
  BY <1>1 DEF Work, HandedTasks, ForRooms
<1>3. t.to = NoAgent => members[t.key] \subseteq Agents
  BY <1>2 DEF LoadInv, IInv, TypeOK, SeatTypeOK
<1>4. t.to # NoAgent => t.to \in Agents
  BY <1>2 DEF QueuedTasks
<1> QED BY <1>1, <1>2, <1>3, <1>4 DEF Addressees

LEMMA VisitLoads ==
    ASSUME LoadInv, NEW k \in Keys, Visit(k)
    PROVE  DeliveryTypeOK' /\ Loaded'
<1>1. /\ busy[k] # Idle /\ busy \in [Keys -> Work \cup {Idle}]
      /\ UNCHANGED <<pending, handed, queue, conn, pipe, socket, got, crashed>>
  BY DEF Visit, LoadInv, Loaded
<1>2. /\ busy[k] \in Work /\ Addressees(busy[k].task) \subseteq Agents
  BY <1>1, AddresseesAreAgents
<1>3. PICK p \in Addressees(busy[k].task), a \in Agents \cup {NoAgent} :
         busy' = [busy EXCEPT ![k].seen = @ \cup {p}, ![k].at = a]
  BY <1>2 DEF Visit
<1>4. [busy[k] EXCEPT !.seen = @ \cup {p}, !.at = a] \in Work
  BY <1>2, <1>3 DEF Work, Running
<1>5. busy' \in [Keys -> Work \cup {Idle}]
  BY <1>1, <1>3, <1>4
<1>6. Loaded'
  BY <1>1, <1>5 DEF LoadInv, Loaded
<1> QED BY <1>1, <1>6, TypesOfHandedAfter DEF HandedTypes, LoadInv, DeliveryTypeOK

LEMMA WriteLoads ==
    ASSUME LoadInv, NEW k \in Keys, Write(k)
    PROVE  DeliveryTypeOK' /\ Loaded'
<1> DEFINE t == busy[k].task
           p == busy[k].at
           S == QueuedTasks
<1>1. /\ busy[k] # Idle /\ busy \in [Keys -> Work \cup {Idle}] /\ p # NoAgent
      /\ UNCHANGED <<pending, handed, queue, conn, socket, got, crashed>>
  BY DEF Write, LoadInv, Loaded
<1>2. busy[k] \in Work /\ t \in S /\ p \in Agents
  <2>1. busy[k] \in Work /\ t \in S
    BY <1>1, AddresseesAreAgents
  <2> QED BY <1>1, <2>1 DEF Work, Running
<1>3. busy' \in [Keys -> Work \cup {Idle}]
  <2>1. [busy[k] EXCEPT !.at = NoAgent] \in Work
    BY <1>2 DEF Work, Running
  <2> QED BY <1>1, <2>1 DEF Write, Put, Panic
<1>4. pipe \in [Agents -> Seq(S)] /\ \A q \in Agents : Len(pipe[q]) <= WriteCap
  BY DEF LoadInv, DeliveryTypeOK
<1>5. \/ pipe' = pipe
      \/ ~(Len(pipe[p]) >= WriteCap) /\ pipe' = [pipe EXCEPT ![p] = Append(@, t)]
  <2>1. \/ pipe' = pipe
        \/ pipe' = [pipe EXCEPT ![p] = IF Len(@) >= WriteCap THEN @ ELSE Append(@, t)]
    BY DEF Write, Put, Panic
  <2>2. [pipe EXCEPT ![p] = pipe[p]] = pipe
    BY <1>4
  <2> DEFINE full == Len(pipe[p]) >= WriteCap
  <2>5. \/ pipe' = pipe
        \/ pipe' = [pipe EXCEPT ![p] = IF full THEN pipe[p] ELSE Append(pipe[p], t)]
    BY <2>1
  <2> HIDE DEF t, p, S, full
  <2>3. CASE full
    BY <2>2, <2>3, <2>5
  <2>4. CASE ~full
    BY <2>4, <2>5 DEF full
  <2> QED BY <2>3, <2>4
<1> HIDE DEF t, p, S
<1>6. pipe' \in [Agents -> Seq(S)] /\ \A q \in Agents : Len(pipe'[q]) <= WriteCap
  <2>1. CASE pipe' = pipe
    BY <1>4, <2>1
  <2>2. CASE ~(Len(pipe[p]) >= WriteCap) /\ pipe' = [pipe EXCEPT ![p] = Append(@, t)]
    <3> DEFINE long == Len(pipe[p])
               s    == Append(pipe[p], t)
    <3>1. s \in Seq(S) /\ long \in Nat /\ Len(s) = long + 1 /\ WriteCap \in Nat
      BY <1>2, <1>4, ElemsAppended, DeliveryAssumption
    <3>2. ~(long >= WriteCap) /\ pipe' = [pipe EXCEPT ![p] = s]
      BY <2>2
    <3> HIDE DEF long, s
    <3>3. Len(s) <= WriteCap
      BY <3>1, <3>2
    <3> QED BY <1>2, <1>4, <3>1, <3>2, <3>3
  <2> QED BY <1>5, <2>1, <2>2
<1>7. Loaded'
  BY <1>1, <1>3 DEF LoadInv, Loaded
<1> QED BY <1>1, <1>6, <1>7, TypesOfHandedAfter DEF HandedTypes, LoadInv, DeliveryTypeOK, S

LEMMA FinishLoads ==
    ASSUME LoadInv, NEW k \in Keys, Finish(k)
    PROVE  DeliveryTypeOK' /\ Loaded'
<1>1. /\ busy' \in [Keys -> Work \cup {Idle}]
      /\ UNCHANGED <<pending, handed, queue, conn, pipe, socket, got, crashed>>
  BY DEF Finish, LoadInv, Loaded
<1>2. Loaded'
  BY <1>1 DEF LoadInv, Loaded
<1> QED BY <1>1, <1>2, TypesOfHandedAfter DEF HandedTypes, LoadInv, DeliveryTypeOK

LEMMA WriteOutLoads ==
    ASSUME LoadInv, NEW p \in Agents, WriteOut(p)
    PROVE  DeliveryTypeOK' /\ Loaded'
<1> DEFINE S == QueuedTasks
           h == Head(pipe[p])
           s == Tail(pipe[p])
<1>1. /\ pipe \in [Agents -> Seq(S)] /\ got \in [Agents -> Seq(S)] /\ pipe[p] # <<>>
      /\ pipe' = [pipe EXCEPT ![p] = s] /\ got' \in {got, [got EXCEPT ![p] = Append(@, h)]}
      /\ \A q \in Agents : Len(pipe[q]) <= WriteCap
      /\ UNCHANGED <<pending, handed, queue, busy, conn, socket, crashed>>
  BY DEF WriteOut, LoadInv, DeliveryTypeOK
<1>2. s \in Seq(S) /\ h \in S /\ Len(s) <= WriteCap
  <2> DEFINE long == Len(pipe[p])
  <2>1. s \in Seq(S) /\ h \in S /\ Len(s) = long - 1 /\ long \in Nat /\ long <= WriteCap
    <3> HIDE DEF S
    <3> QED BY <1>1, ElemsTaken
  <2> HIDE DEF long, s
  <2> QED BY <2>1, DeliveryAssumption
<1> HIDE DEF S, h, s
<1>3. pipe' \in [Agents -> Seq(S)] /\ \A q \in Agents : Len(pipe'[q]) <= WriteCap
  <2>1. pipe' \in [Agents -> Seq(S)] /\ pipe'[p] = s /\ \A q \in Agents : q # p => pipe'[q] = pipe[q]
    BY <1>1, <1>2
  <2> QED BY <1>1, <1>2, <2>1
<1>4. got' \in [Agents -> Seq(S)]
  <2>1. [got EXCEPT ![p] = Append(@, h)] \in [Agents -> Seq(S)]
    BY <1>1, <1>2, QueueAdded
  <2> QED BY <1>1, <2>1
<1>5. Loaded'
  BY <1>1 DEF LoadInv, Loaded
<1> QED BY <1>1, <1>3, <1>4, <1>5, TypesOfHandedAfter DEF HandedTypes, LoadInv, DeliveryTypeOK, S

LEMMA LoopStepLoads ==
    ASSUME LoadInv, LoopStep
    PROVE  DeliveryTypeOK' /\ Loaded'
<1>1. Next
  BY DEF LoopStep, Next
<1>2. /\ pending' = out' /\ handed + Len(out') <= MaxTasks
      /\ UNCHANGED <<handed, queue, busy, pipe, socket, got>>
      /\ conn' \in [Agents -> {"open", "closing", "closed"}] /\ crashed' \in BOOLEAN
  BY DEF LoopStep, Closes, LoadInv, DeliveryTypeOK
<1>3. pending' \in Seq(ForRooms(Tasks))
  BY <1>1, <1>2, LoopLoads DEF LoadInv
<1>4. Loaded'
  BY <1>2, <1>3 DEF LoadInv, Loaded
<1> QED BY <1>2, <1>4, TypesOfHandedAfter DEF HandedTypes, LoadInv, DeliveryTypeOK

LEMMA LoadStep ==
    ASSUME LoadInv, [DeliveryNext]_allVars
    PROVE  LoadInv'
<1>1. IInv' /\ TargetsConnected'
  BY ManagerSteps, NextIInv, TargetsStep DEF LoadInv
<1>2. CASE UNCHANGED deliveryVars
  <2>1. Loaded'
    BY <1>2 DEF deliveryVars, LoadInv, Loaded
  <2> QED BY <1>1, <1>2, <2>1 DEF deliveryVars, LoadInv, DeliveryTypeOK
<1>3. ASSUME NEW p \in Agents, FinishClose(p) \/ HangUp(p) PROVE DeliveryTypeOK' /\ Loaded'
  <2>1. Loaded'
    BY <1>3 DEF FinishClose, HangUp, LoadInv, Loaded
  <2> QED BY <1>3, <2>1 DEF FinishClose, HangUp, LoadInv, DeliveryTypeOK
<1>4. ASSUME Elsewhere \/ UNCHANGED allVars PROVE UNCHANGED deliveryVars
  BY <1>4 DEF Elsewhere, allVars
<1>5. ASSUME DeliveryNext, ~Elsewhere PROVE DeliveryTypeOK' /\ Loaded'
  BY <1>3, <1>5, LoopStepLoads, HandOutLoads, CounterLoads, TakeLoads, VisitLoads, WriteLoads,
     FinishLoads, WriteOutLoads DEF DeliveryNext, Worker, Writer
<1> QED BY <1>1, <1>2, <1>4, <1>5 DEF LoadInv

LEMMA LoadInit == DeliveryInit => LoadInv
<1> SUFFICES ASSUME DeliveryInit PROVE LoadInv
  OBVIOUS
<1>1. IInv /\ TargetsConnected
  BY ChatInit DEF DeliveryInit, ChatInv
<1>2. Loaded
  <2>1. <<>> \in Seq(HandedTasks) /\ <<>> \in Seq(ForRooms(Tasks)) /\ Len(<<>>) = 0
    BY EmptySeq
  <2> QED BY <2>1, DeliveryAssumption DEF DeliveryInit, Loaded
<1>3. DeliveryTypeOK
  <2>1. <<>> \in Seq(QueuedTasks) /\ <<>> \in Seq(Tasks) /\ Len(<<>>) = 0
    BY EmptySeq
  <2>2. /\ handed \in 0..MaxTasks /\ conn \in [Agents -> {"open", "closing", "closed"}]
        /\ socket \in [Agents -> {"up", "down"}] /\ crashed \in BOOLEAN
    <3>1. handed = 0 /\ MaxTasks \in Nat
      BY DeliveryAssumption DEF DeliveryInit
    <3>2. conn = [p \in Agents |-> "open"] /\ socket = [p \in Agents |-> "up"] /\ crashed = FALSE
      BY DEF DeliveryInit
    <3>3. handed \in 0..MaxTasks
      BY <3>1
    <3>4. crashed \in BOOLEAN
      BY <3>2, Zenon
    <3> QED BY <3>2, <3>3, <3>4
  <2>3. pipe \in [Agents -> Seq(QueuedTasks)] /\ got \in [Agents -> Seq(QueuedTasks)]
    BY <2>1 DEF DeliveryInit
  <2>4. \A k \in Keys : queue[k] = <<>> /\ Len(queue[k]) <= QueueCap
    BY <2>1, DeliveryAssumption DEF DeliveryInit
  <2>5. \A p \in Agents : pipe[p] = <<>> /\ Len(pipe[p]) <= WriteCap
    BY <2>1, DeliveryAssumption DEF DeliveryInit
  <2> QED BY <1>2, <2>2, <2>3, <2>4, <2>5, TypesOfHanded DEF HandedTypes, DeliveryTypeOK
<1> QED BY <1>1, <1>2, <1>3 DEF LoadInv

LEMMA LoadInvariant == DeliverySpec => []LoadInv
BY LoadInit, LoadStep, PTL DEF DeliverySpec

-----------------------------------------------------------------------------
(* Clients that log in once. *)

LEMMA NamedStep ==
    ASSUME LoginOnce, SeatInv, [Next]_vars
    PROVE  /\ Named \subseteq Named' /\ Named' \subseteq Connected
           /\ \A p \in Named : roomID'[p] = roomID[p]
<1> USE DEF connVars, seatVars
<1>1. /\ roomID \in [Agents -> 0..MaxRooms] /\ username \in [Agents -> NameSet]
      /\ Named \subseteq Connected /\ NoName \notin Names
  BY NamesAssumption DEF SeatInv, OnceInv, NamesInv, IInv, TypeOK, SeatTypeOK, ConnTypeOK, Named,
                         Connected
<1>2. CASE UNCHANGED <<username, roomID>>
  BY <1>1, <1>2 DEF Named
<1>3. ASSUME NEW p \in Agents, NEW n \in NameSet, Login(p, n)
      PROVE  /\ Named \subseteq Named' /\ Named' \subseteq Connected
             /\ \A q \in Named : roomID'[q] = roomID[q]
  <2>1. /\ Live(p) /\ username[p] = NoName /\ n # NoName
        /\ username' = [username EXCEPT ![p] = n]
        /\ roomID' = roomID \/ \E r \in RoomIds : roomID' = [roomID EXCEPT ![p] = r]
    <3>1. EnterRoom(p, n) => \E r \in RoomIds : roomID' = [roomID EXCEPT ![p] = r]
      BY NextRoomHasSpace DEF EnterRoom, SeatInv, IInv, TypeOK
    <3> QED BY <1>1, <1>3, <3>1, LoginOutcomes
  <2>2. p \in Connected /\ p \notin Named
    BY <2>1 DEF Live, Connected, Named
  <2> QED BY <1>1, <2>1, <2>2 DEF Named
<1>4. ASSUME NEW p \in Agents,
             \/ Connect(p) \/ Destroy(p) \/ JoinRoom(p) \/ Heartbeat(p) \/ RoomList(p)
             \/ Ignored(p) \/ RoomChat(p)
             \/ \E words \in 1..3, cmd \in Commands : RoomCommand(p, words, cmd)
             \/ \E n \in NameSet : Chat(p, n)
      PROVE  UNCHANGED <<username, roomID>>
  <2>1. ASSUME Destroy(p) PROVE UNCHANGED <<username, roomID>>
    BY <2>1 DEF Destroy, Leave, LeaveWith
  <2>2. ASSUME JoinRoom(p) PROVE UNCHANGED <<username, roomID>>
    BY <2>2, JoinRoomRefused
  <2> QED BY <1>4, <2>1, <2>2 DEF Connect, Heartbeat, RoomList, Ignored, RoomChat, RoomCommand, Chat
<1>5. ASSUME NEW r \in RoomIds, RunSubmitted(r) \/ FilterDone(r) \/ FilterLost(r)
      PROVE  UNCHANGED <<username, roomID>>
  BY <1>5 DEF RunSubmitted, FilterDone, FilterLost
<1>6. CASE PopularAnswered \/ UNCHANGED vars
  BY <1>2, <1>6 DEF PopularAnswered, vars
<1> QED BY <1>2, <1>3, <1>4, <1>5, <1>6 DEF Next, Request

\* Requests come from clients that have logged in, or do so now.
LEMMA NamedRequesters ==
    ASSUME LoginOnce, SeatInv, [Next]_vars, NEW p \in Agents, Request(p)
    PROVE  p \in Named' \/ out' = <<>>
<1>1. ASSUME NEW n \in NameSet, Login(p, n) PROVE p \in Named'
  <2>1. username' = [username EXCEPT ![p] = n] /\ n # NoName /\ username \in [Agents -> NameSet]
    BY <1>1 DEF Login, SeatInv, IInv, TypeOK, ConnTypeOK
  <2> QED BY <2>1 DEF Named
<1>2. ASSUME Ready(p) PROVE p \in Named'
  <2>1. p \in Named
    BY <1>2 DEF Ready, Named
  <2> QED BY <2>1, NamedStep
<1>3. ASSUME Ignored(p) PROVE out' = <<>>
  BY <1>3 DEF Ignored
<1> QED BY <1>1, <1>2, <1>3 DEF Request, JoinRoom, Heartbeat, RoomList, RoomChat, RoomCommand, Chat

\* A name is held by somebody who has logged in.
HeldByNamed == playersByName \in [NameSet -> Named \cup {NoAgent}]

LEMMA NamesHeld == SeatInv => HeldByNamed
<1> SUFFICES ASSUME SeatInv PROVE HeldByNamed
  OBVIOUS
<1>1. playersByName \in [NameSet -> Agents \cup {NoAgent}]
  BY DEF SeatInv, IInv, TypeOK, SeatTypeOK
<1>2. \A p \in Agents, n \in NameSet : username[p] = NoName => playersByName[n] # p
  BY Nameless
<1> QED BY <1>1, <1>2 DEF HeldByNamed, Named

LEMMA NamesHeldAfter == SeatInv' => HeldByNamed'
BY NamesHeld, PTL

LEMMA TargetsGrow ==
    ASSUME NEW C, NEW D, C \subseteq D, Targets(C)
    PROVE  Targets(D)
<1>1. JobsTo(C) \subseteq JobsTo(D) /\ JobsTo(C \cup {NoAgent}) \subseteq JobsTo(D \cup {NoAgent})
  BY DEF JobsTo
<1>2. /\ submitted \in [RoomIds -> Seq(JobsTo(D))]
      /\ checking \in [RoomIds -> Seq(JobsTo(D \cup {NoAgent}))]
  BY <1>1, QueuesGrow DEF Targets
<1> QED BY <1>2 DEF Targets

LEMMA NamedTargetsStep ==
    ASSUME LoginOnce, SeatInv, SeatInv', Targets(Named), [Next]_vars
    PROVE  Targets(Named)'
<1>1. PICK C, D : C = Named /\ D = Named'
  OBVIOUS
<1>2. C \subseteq D /\ C \in SUBSET Agents /\ D \in SUBSET Agents /\ Targets(C)
  BY <1>1, NamedStep DEF Named
<1>3. /\ submitted' \in [RoomIds -> Seq(JobsTo(D))]
      /\ checking' \in [RoomIds -> Seq(JobsTo(D \cup {NoAgent}))]
  BY <1>2, JobsStep DEF SeatInv
<1>4. playersByName' \in [NameSet -> D \cup {NoAgent}]
  BY <1>1, NamesHeldAfter DEF HeldByNamed
<1> QED BY <1>1, <1>3, <1>4 DEF Targets, JobsTo

\* What a handler gives to the workers is for those who have logged in, where
\* they stay.
LEMMA LoopPlaces ==
    ASSUME LoginOnce, SeatInv, Targets(Named), Next
    PROVE  out' \in Seq(Tasks) /\ \A t \in Elems(out') : Placed(t)'
<1>1. PICK D : D = Named'
  OBVIOUS
<1>2. Named \subseteq D /\ D \in SUBSET Connected
  BY <1>1, NamedStep
<1>3. Targets(D)
  BY <1>2, TargetsGrow
<1>4. \A p \in Agents : Request(p) => p \in D \/ out' = <<>>
  BY <1>1, NamedRequesters
<1>5. out' \in Seq(Told(D)')
  BY <1>2, <1>3, <1>4, ToldSteps DEF SeatInv
<1>6. out' \in Seq(Told(D)') => out' \in Seq(Tasks) /\ Elems(out') \subseteq Told(D)'
  <2>1. Told(D)' \subseteq Tasks
    BY DEF Told
  <2> QED BY <1>5, <2>1, SeqMonotonic, ElemsOf
<1>7. ASSUME NEW t \in Told(D)' PROVE Placed(t)'
  BY <1>1, <1>7 DEF Told, Placed
<1> QED BY <1>5, <1>6, <1>7

-----------------------------------------------------------------------------
(* Where the tasks are, and how they are numbered. *)

LEMMA SameRooms ==
    ASSUME UNCHANGED <<username, roomID>>
    PROVE  Named' = Named /\ roomID' = roomID /\ \A t : Placed(t)' <=> Placed(t)
BY DEF Named, Placed

\* What comes to a worker or a connection has a number and a worker's key.
LEMMA TaskTypes ==
    ASSUME LoadInv
    PROVE  /\ \A k \in Keys : \A t \in Elems(queue[k]) : t \in QueuedTasks
           /\ \A k \in Keys : busy[k] # Idle => busy[k].task \in QueuedTasks
           /\ \A p \in Agents : \A t \in Arrived(p) : t \in QueuedTasks
           /\ \A t \in QueuedTasks : t.no \in Nat /\ t.key \in Keys
           /\ \A p \in Agents : roomID[p] \in Keys
           /\ handed \in Nat
<1>1. ASSUME NEW k \in Keys, NEW t \in Elems(queue[k]) PROVE t \in QueuedTasks
  BY <1>1, ElemsOf DEF LoadInv, DeliveryTypeOK
<1>2. ASSUME NEW p \in Agents, NEW t \in Arrived(p) PROVE t \in QueuedTasks
  BY <1>2, ElemsOf DEF LoadInv, DeliveryTypeOK, Arrived
<1>3. \A t \in QueuedTasks : t.no \in Nat /\ t.key \in Keys
  BY DeliveryAssumption DEF QueuedTasks
<1>4. (\A p \in Agents : roomID[p] \in Keys) /\ handed \in Nat
  BY DeliveryAssumption DEF LoadInv, IInv, TypeOK, SeatTypeOK, Keys, DeliveryTypeOK
<1> QED BY <1>1, <1>2, <1>3, <1>4, AddresseesAreAgents

\* A handler moves nobody to whom something has come.
LEMMA HandlerKeeps ==
    ASSUME LoginOnce, DeliveryInv, [Next]_vars, UNCHANGED <<handed, queue, busy, pipe, got>>,
           \A t \in Elems(pending') : Placed(t)'
    PROVE  Places' /\ Numbered'
<1>1. /\ Named \subseteq Named' /\ \A p \in Named : roomID'[p] = roomID[p]
  BY NamedStep DEF DeliveryInv
<1>2. \A t : Placed(t) => Placed(t)'
  BY <1>1 DEF Placed
<1>3. \A p \in Agents : Arrived(p)' = Arrived(p)
  BY DEF Arrived
<1>4. \A p \in Agents : \A t \in Arrived(p) : p \in Named
  BY DEF DeliveryInv, Places
<1>5. Places'
  <2>1. \A k \in Keys : \A t \in Elems(queue'[k]) : Placed(t)' /\ t.key = k
    BY <1>2 DEF DeliveryInv, Places
  <2>2. ASSUME NEW k \in Keys PROVE WorkPlaced(k)'
    <3>1. WorkPlaced(k) /\ busy'[k] = busy[k]
      BY DEF DeliveryInv, Places
    <3> QED BY <1>1, <3>1 DEF WorkPlaced, Placed
  <2>3. \A p \in Agents : \A t \in Arrived(p)' : p \in Named' /\ t.key = roomID'[p]
    BY <1>1, <1>3 DEF DeliveryInv, Places
  <2> QED BY <2>1, <2>2, <2>3 DEF Places
<1>6. Numbered'
  <2>1. ASSUME NEW p \in Agents, NEW t \in Arrived(p)' PROVE roomID'[p] = roomID[p] /\ t \in Arrived(p)
    BY <1>1, <1>3, <1>4, <2>1
  <2> QED BY <2>1 DEF DeliveryInv, Numbered
<1> QED BY <1>5, <1>6

\* The task handed out is the newest.
LEMMA AddTaskKeeps ==
    ASSUME DeliveryInv, NEW t \in ForRooms(Tasks), AddTask(t), Placed(t), handed < MaxTasks,
           UNCHANGED <<username, roomID, busy, pipe, got>>,
           \A u \in Elems(pending') : u \in Elems(pending)
    PROVE  Places' /\ Numbered'
<1> DEFINE x == [no |-> handed + 1, key |-> t.key, to |-> t.to]
           S == QueuedTasks
<1>1. Named' = Named /\ roomID' = roomID /\ \A u : Placed(u)' <=> Placed(u)
  BY SameRooms
<1>2. /\ x \in S /\ Placed(x) /\ x.no = handed + 1 /\ x.key = t.key /\ x.key \in Keys
      /\ handed' = handed + 1 /\ handed \in Nat
  <2>1. handed \in Nat /\ handed + 1 \in 1..MaxTasks
    BY DeliveryAssumption DEF DeliveryInv, LoadInv, DeliveryTypeOK
  <2>2. t.key \in Keys /\ t.to \in Agents \cup {NoAgent}
    BY DEF ForRooms, Tasks, Keys
  <2> QED BY <2>1, <2>2 DEF QueuedTasks, Placed, AddTask
<1>3. /\ queue \in [Keys -> Seq(S)]
      /\ queue' = [queue EXCEPT ![x.key] = IF Len(@) >= QueueCap THEN @ ELSE Append(@, x)]
  BY DEF DeliveryInv, LoadInv, DeliveryTypeOK, AddTask
<1>4. \A k \in Keys : Rising(queue[k]) /\ \A u \in Elems(queue[k]) : u.no <= handed /\ u.no \in Nat
  BY TaskTypes DEF DeliveryInv, Numbered
<1> HIDE DEF x, S
<1>5. ASSUME NEW k \in Keys
      PROVE  /\ Rising(queue'[k])
             /\ \A u \in Elems(queue'[k]) : u \in Elems(queue[k]) \/ (u = x /\ k = x.key)
  <2>1. \/ queue'[k] = queue[k]
        \/ k = x.key /\ queue'[k] = Append(queue[k], x)
    BY <1>2, <1>3
  <2>2. queue[k] \in Seq(S)
    BY <1>3
  <2>3. Elems(Append(queue[k], x)) = Elems(queue[k]) \cup {x}
    BY <1>2, <2>2, ElemsAppended
  <2>4. \A u \in Elems(queue[k]) : u.no < x.no
    BY <1>2, <1>4
  <2>5. Rising(Append(queue[k], x))
    <3>1. x \in S /\ Rising(queue[k])
      BY <1>2, <1>4
    <3> QED BY <2>2, <2>4, <3>1, RisingAppended
  <2>6. CASE queue'[k] = queue[k]
    BY <1>4, <2>6
  <2>7. CASE k = x.key /\ queue'[k] = Append(queue[k], x)
    BY <2>3, <2>5, <2>7
  <2> QED BY <2>1, <2>6, <2>7
<1>6. \A p \in Agents : Arrived(p)' = Arrived(p)
  BY DEF Arrived
<1>7. Places'
  <2>1. \A k \in Keys : \A u \in Elems(queue'[k]) : Placed(u)' /\ u.key = k
    BY <1>1, <1>2, <1>5 DEF DeliveryInv, Places
  <2>2. \A u \in Elems(pending') : Placed(u)'
    BY <1>1 DEF DeliveryInv, Places
  <2>3. ASSUME NEW k \in Keys PROVE WorkPlaced(k)'
    <3>1. WorkPlaced(k) /\ busy'[k] = busy[k]
      BY DEF DeliveryInv, Places
    <3> QED BY <1>1, <3>1 DEF WorkPlaced, Placed
  <2> QED BY <1>1, <1>6, <2>1, <2>2, <2>3 DEF DeliveryInv, Places
<1>8. Numbered'
  <2>1. \A k \in Keys : Rising(queue'[k]) /\ \A u \in Elems(queue'[k]) : u.no <= handed'
    BY <1>2, <1>4, <1>5
  <2>2. ASSUME NEW k \in Keys, busy'[k] # Idle
        PROVE  busy'[k].task.no <= handed' /\ \A u \in Elems(queue'[k]) : busy'[k].task.no < u.no
    <3>1. /\ busy[k].task.no \in Nat /\ busy[k].task.no <= handed
          /\ \A u \in Elems(queue[k]) : busy[k].task.no < u.no
      BY <2>2, TaskTypes DEF DeliveryInv, Numbered
    <3> QED BY <1>2, <1>5, <3>1
  <2>3. ASSUME NEW p \in Agents, NEW u \in Arrived(p)
        PROVE  /\ u.no <= handed' /\ \A s \in Elems(queue'[roomID[p]]) : u.no < s.no
    <3>1. /\ u.no \in Nat /\ u.no <= handed /\ roomID[p] \in Keys
          /\ \A s \in Elems(queue[roomID[p]]) : u.no < s.no
      BY <2>3, TaskTypes DEF DeliveryInv, Numbered
    <3> QED BY <1>2, <1>5, <3>1
  <2> QED BY <1>1, <1>6, <2>1, <2>2, <2>3 DEF DeliveryInv, Numbered
<1> QED BY <1>7, <1>8

LEMMA TakeKeeps ==
    ASSUME DeliveryInv, NEW k \in Keys, Take(k)
    PROVE  Places' /\ Numbered'
<1>0. PICK t : t = Head(queue[k])
  OBVIOUS
<1> DEFINE S == QueuedTasks
           w == [task |-> t, seen |-> {}, at |-> NoAgent,
                 due |-> IF t.to = NoAgent THEN members[t.key] ELSE {t.to}]
<1>1. /\ Named' = Named /\ roomID' = roomID /\ \A u : Placed(u)' <=> Placed(u)
      /\ UNCHANGED <<pending, handed, pipe, got>>
  BY SameRooms DEF Take, vars, connVars, seatVars
<1>2. /\ queue \in [Keys -> Seq(S)] /\ queue[k] # <<>> /\ queue' = [queue EXCEPT ![k] = Tail(@)]
      /\ busy' = [busy EXCEPT ![k] = w] /\ busy \in [Keys -> Running \cup {Idle}]
  BY <1>0 DEF Take, DeliveryInv, LoadInv, DeliveryTypeOK
<1>3. busy'[k] = w /\ \A j \in Keys : j # k => busy'[j] = busy[j]
  BY <1>2
<1>4. w.task = t /\ w.seen = {} /\ w.at = NoAgent
  OBVIOUS
<1> HIDE DEF S, w
<1>5. /\ \A u \in Elems(Tail(queue[k])) : u \in Elems(queue[k]) /\ t.no < u.no
      /\ t \in Elems(queue[k]) /\ Rising(Tail(queue[k]))
  <2>1. queue[k] \in Seq(S) /\ Rising(queue[k])
    BY <1>2 DEF DeliveryInv, Numbered
  <2>2. \A u \in Elems(Tail(queue[k])) : t.no < u.no
    BY <1>0, <1>2, <2>1, RisingTaken
  <2>3. Rising(Tail(queue[k]))
    BY <1>2, <2>1, RisingTaken
  <2>4. Elems(Tail(queue[k])) \subseteq Elems(queue[k]) /\ t \in Elems(queue[k])
    BY <1>0, <1>2, <2>1, ElemsTaken
  <2> QED BY <2>2, <2>3, <2>4
<1>6. ASSUME NEW j \in Keys
      PROVE  /\ Rising(queue'[j])
             /\ \A u \in Elems(queue'[j]) : u \in Elems(queue[j]) /\ (j = k => t.no < u.no)
  <2>1. CASE j = k
    BY <1>2, <1>5, <2>1
  <2>2. CASE j # k
    BY <1>2, <2>2 DEF DeliveryInv, Numbered
  <2> QED BY <2>1, <2>2
<1>7. \A p \in Agents : Arrived(p)' = Arrived(p)
  BY <1>1 DEF Arrived
<1>8. Places'
  <2>1. ASSUME NEW j \in Keys PROVE WorkPlaced(j)'
    <3>1. CASE j = k
      <4>1. Placed(t) /\ t.key = k
        BY <1>5 DEF DeliveryInv, Places
      <4>2. Placed(t)' /\ busy'[j].task = t /\ busy'[j].at = NoAgent
        BY <1>1, <1>3, <1>4, <3>1, <4>1
      <4> QED BY <3>1, <4>1, <4>2 DEF WorkPlaced, Placed
    <3>2. CASE j # k
      <4>1. WorkPlaced(j) /\ busy'[j] = busy[j]
        BY <1>3, <3>2 DEF DeliveryInv, Places
      <4> QED BY <1>1, <4>1 DEF WorkPlaced, Placed
    <3> QED BY <3>1, <3>2
  <2>2. \A j \in Keys : \A u \in Elems(queue'[j]) : Placed(u)' /\ u.key = j
    BY <1>1, <1>6 DEF DeliveryInv, Places
  <2> QED BY <1>1, <1>7, <2>1, <2>2 DEF DeliveryInv, Places
<1>9. Numbered'
  <2>1. \A j \in Keys : Rising(queue'[j]) /\ \A u \in Elems(queue'[j]) : u.no <= handed'
    BY <1>1, <1>6 DEF DeliveryInv, Numbered
  <2>2. ASSUME NEW j \in Keys, busy'[j] # Idle
        PROVE  busy'[j].task.no <= handed' /\ \A u \in Elems(queue'[j]) : busy'[j].task.no < u.no
    <3>1. CASE j = k
      BY <1>1, <1>3, <1>4, <1>5, <1>6, <3>1 DEF DeliveryInv, Numbered
    <3>2. CASE j # k
      BY <1>1, <1>3, <1>6, <2>2, <3>2 DEF DeliveryInv, Numbered
    <3> QED BY <3>1, <3>2
  <2>3. ASSUME NEW p \in Agents, NEW u \in Arrived(p), NEW r \in Keys, r = roomID[p]
        PROVE  /\ u.no <= handed' /\ \A s \in Elems(queue'[r]) : u.no < s.no
               /\ busy'[r] # Idle =>
                     /\ u.no <= busy'[r].task.no
                     /\ p \notin busy'[r].seen \/ busy'[r].at = p => u.no < busy'[r].task.no
    <3>1. /\ u.no <= handed /\ \A s \in Elems(queue[r]) : u.no < s.no
          /\ busy[r] # Idle =>
               /\ u.no <= busy[r].task.no
               /\ p \notin busy[r].seen \/ busy[r].at = p => u.no < busy[r].task.no
      BY <2>3 DEF DeliveryInv, Numbered
    <3>2. CASE r = k
      <4>1. u.no < t.no /\ u.no \in Nat /\ t.no \in Nat
        BY <1>5, <2>3, <3>1, <3>2, TaskTypes DEF DeliveryInv
      <4> QED BY <1>1, <1>3, <1>4, <1>6, <3>1, <3>2, <4>1
    <3>3. CASE r # k
      BY <1>1, <1>3, <1>6, <3>1, <3>3
    <3> QED BY <3>2, <3>3
  <2>4. \A p \in Agents : roomID[p] \in Keys
    BY TaskTypes DEF DeliveryInv
  <2> QED BY <1>1, <1>7, <2>1, <2>2, <2>3, <2>4 DEF DeliveryInv, Numbered
<1> QED BY <1>8, <1>9

\* Whom a worker has found open is somebody in the room.
LEMMA VisitsItsRoom ==
    ASSUME DeliveryInv, NEW k \in Keys, busy[k] # Idle, NEW p \in Addressees(busy[k].task),
           p \in players \/ busy[k].task.to = p
    PROVE  p \in Named /\ roomID[p] = k
<1> DEFINE t == busy[k].task
<1>1. Placed(t) /\ t.key = k
  BY DEF DeliveryInv, Places, WorkPlaced
<1>2. t \in HandedTasks /\ p \in Agents
  BY AddresseesAreAgents DEF DeliveryInv, Work
<1>3. CASE t.to = NoAgent
  <2>1. k \in RoomIds /\ p \in members[k]
    BY <1>1, <1>2, <1>3 DEF HandedTasks, ForRooms, Addressees
  <2>2. p \in players /\ roomID[p] = k
    BY <2>1 DEF DeliveryInv, SeatInv, OnceInv, OneRoomPerPlayer
  <2>3. username[p] # NoName
    BY <1>2, <2>2, Nameless DEF DeliveryInv
  <2> QED BY <1>2, <2>2, <2>3 DEF Named
<1>4. CASE t.to # NoAgent
  BY <1>1, <1>4 DEF Placed, Addressees
<1> QED BY <1>3, <1>4

LEMMA VisitKeeps ==
    ASSUME DeliveryInv, NEW k \in Keys, Visit(k)
    PROVE  Places' /\ Numbered'
<1>1. /\ Named' = Named /\ roomID' = roomID /\ \A u : Placed(u)' <=> Placed(u)
      /\ UNCHANGED <<pending, handed, queue, pipe, got>>
  BY SameRooms DEF Visit, vars, connVars, seatVars
<1>2. PICK p \in Addressees(busy[k].task) \ busy[k].seen, a \in Agents \cup {NoAgent} :
         /\ busy' = [busy EXCEPT ![k].seen = @ \cup {p}, ![k].at = a]
         /\ a \in {p, NoAgent} /\ (a = p => p \in players \/ busy[k].task.to = p)
  <2>1. /\ busy[k] # Idle
        /\ \E p \in Addressees(busy[k].task) \ busy[k].seen :
             busy' = [busy EXCEPT ![k].seen = @ \cup {p},
                                  ![k].at = IF /\ p \in players \/ busy[k].task.to = p
                                               /\ conn[p] # "closed"
                                            THEN p ELSE NoAgent]
    BY DEF Visit
  <2>2. Addressees(busy[k].task) \subseteq Agents
    BY <2>1, AddresseesAreAgents DEF DeliveryInv
  <2>3. PICK p \in Addressees(busy[k].task) \ busy[k].seen :
          busy' = [busy EXCEPT ![k].seen = @ \cup {p},
                               ![k].at = IF /\ p \in players \/ busy[k].task.to = p
                                            /\ conn[p] # "closed"
                                         THEN p ELSE NoAgent]
    BY <2>1, Zenon
  <2>4. p \in Agents /\ p # NoAgent
    BY <2>2, AgentsAssumption
  <2>5. CASE (p \in players \/ busy[k].task.to = p) /\ conn[p] # "closed"
    BY <2>3, <2>4, <2>5
  <2>6. CASE ~((p \in players \/ busy[k].task.to = p) /\ conn[p] # "closed")
    BY <2>3, <2>4, <2>6
  <2> QED BY <2>5, <2>6
<1>3. /\ busy[k] # Idle /\ busy[k] \in Running /\ busy \in [Keys -> Running \cup {Idle}]
      /\ p \in Agents
  BY AddresseesAreAgents DEF Visit, DeliveryInv, LoadInv, DeliveryTypeOK, Work
<1>4. /\ busy'[k].task = busy[k].task /\ busy'[k].seen = busy[k].seen \cup {p}
      /\ busy'[k].at = a
      /\ \A j \in Keys : j # k => busy'[j] = busy[j]
  <2>1. busy'[k] = [busy[k] EXCEPT !.seen = @ \cup {p}, !.at = a]
    BY <1>2, <1>3
  <2>2. \A j \in Keys : j # k => busy'[j] = busy[j]
    BY <1>2, <1>3
  <2> QED BY <1>3, <2>1, <2>2 DEF Running
<1>5. \A q \in Agents : Arrived(q)' = Arrived(q)
  BY <1>1 DEF Arrived
<1>6. ASSUME NEW j \in Keys PROVE WorkPlaced(j)'
  <2>1. WorkPlaced(j)
    BY DEF DeliveryInv, Places
  <2>2. CASE j = k
    <3>1. Placed(busy[k].task) /\ busy[k].task.key = k
      BY <1>3, <2>1, <2>2 DEF WorkPlaced
    <3>2. a = p => p \in Named /\ roomID[p] = k
      BY <1>2, <1>3, VisitsItsRoom
    <3>3. PICK t : t = busy[k].task
      OBVIOUS
    <3>4. Placed(t)' /\ t.key = k /\ busy'[k].task = t
      BY <1>1, <1>4, <3>1, <3>3
    <3>5. a # NoAgent => a \in Named' \cap busy'[k].seen /\ roomID'[a] = k
      BY <1>1, <1>2, <1>4, <3>2
    <3> QED BY <1>4, <2>2, <3>4, <3>5 DEF WorkPlaced, Placed
  <2>3. CASE j # k
    BY <1>1, <1>4, <2>1, <2>3 DEF WorkPlaced, Placed
  <2> QED BY <2>2, <2>3
<1>7. Places'
  BY <1>1, <1>5, <1>6 DEF DeliveryInv, Places
<1>8. Numbered'
  <2>1. ASSUME NEW j \in Keys, busy'[j] # Idle
        PROVE  busy'[j].task.no <= handed' /\ \A u \in Elems(queue'[j]) : busy'[j].task.no < u.no
    BY <1>1, <1>3, <1>4, <2>1 DEF DeliveryInv, Numbered
  <2>2. ASSUME NEW q \in Agents, NEW u \in Arrived(q), NEW r \in Keys, r = roomID[q], busy'[r] # Idle
        PROVE  /\ u.no <= busy'[r].task.no
               /\ q \notin busy'[r].seen \/ busy'[r].at = q => u.no < busy'[r].task.no
    <3>1. busy[r] # Idle =>
             /\ u.no <= busy[r].task.no
             /\ q \notin busy[r].seen \/ busy[r].at = q => u.no < busy[r].task.no
      BY <2>2 DEF DeliveryInv, Numbered
    <3>2. CASE r = k
      BY <1>2, <1>3, <1>4, <3>1, <3>2, AgentsAssumption
    <3>3. CASE r # k
      BY <1>4, <2>2, <3>1, <3>3
    <3> QED BY <3>2, <3>3
  <2>3. \A q \in Agents : roomID[q] \in Keys
    BY TaskTypes DEF DeliveryInv
  <2> QED BY <1>1, <1>5, <2>1, <2>2, <2>3 DEF DeliveryInv, Numbered
<1> QED BY <1>7, <1>8

\* A send into an open channel: the message is added, or dropped.
LEMMA PutKeeps ==
    ASSUME DeliveryInv, NEW k \in Keys, Write(k), Put(k, busy[k].at)
    PROVE  Places' /\ Numbered'
<1> DEFINE S == QueuedTasks
<1>0. PICK t, p : t = busy[k].task /\ p = busy[k].at
  OBVIOUS
<1>1. /\ Named' = Named /\ roomID' = roomID /\ \A u : Placed(u)' <=> Placed(u)
      /\ UNCHANGED <<pending, handed, queue, got>>
  BY SameRooms DEF Write, vars, connVars, seatVars
<1>2. /\ busy[k] # Idle /\ busy \in [Keys -> Running \cup {Idle}] /\ p # NoAgent
      /\ pipe \in [Agents -> Seq(S)] /\ busy[k] \in Running /\ t \in S /\ p \in Agents
  <2>1. /\ busy[k] # Idle /\ p # NoAgent /\ busy \in [Keys -> Running \cup {Idle}]
        /\ pipe \in [Agents -> Seq(S)]
    BY <1>0 DEF Write, DeliveryInv, LoadInv, DeliveryTypeOK
  <2>2. busy[k] \in Running /\ t \in S
    BY <1>0, <2>1, AddresseesAreAgents DEF DeliveryInv
  <2> QED BY <1>0, <2>1, <2>2 DEF Running
<1>3. /\ busy'[k].task = t /\ busy'[k].seen = busy[k].seen /\ busy'[k].at = NoAgent
      /\ \A j \in Keys : j # k => busy'[j] = busy[j]
  <2>1. busy' = [busy EXCEPT ![k].at = NoAgent]
    BY DEF Put
  <2>2. busy'[k] = [busy[k] EXCEPT !.at = NoAgent]
    BY <1>2, <2>1
  <2>3. \A j \in Keys : j # k => busy'[j] = busy[j]
    BY <1>2, <2>1
  <2> QED BY <1>0, <1>2, <2>2, <2>3 DEF Running
<1>4. /\ Placed(t) /\ t.key = k /\ p \in Named /\ roomID[p] = k /\ p \in busy[k].seen
  BY <1>0, <1>2 DEF DeliveryInv, Places, WorkPlaced
<1>5. pipe'[p] = pipe[p] \/ pipe'[p] = Append(pipe[p], t)
  BY <1>0, <1>2 DEF Put
<1>6. \A q \in Agents : q # p => pipe'[q] = pipe[q]
  BY <1>0, <1>2 DEF Put
<1> HIDE DEF S
<1>7. /\ t.no <= handed /\ \A u \in Elems(queue[k]) : t.no < u.no
      /\ \A u \in Arrived(p) : u.no < t.no
  BY <1>0, <1>2, <1>4 DEF DeliveryInv, Numbered
<1>8. /\ Elems(pipe'[p]) \subseteq Elems(pipe[p]) \cup {t} /\ Rising(pipe'[p])
  <2>1. pipe[p] \in Seq(S) /\ Rising(pipe[p]) /\ \A u \in Elems(pipe[p]) : u.no < t.no
    BY <1>2, <1>7 DEF DeliveryInv, Numbered, Arrived
  <2>2. Elems(Append(pipe[p], t)) = Elems(pipe[p]) \cup {t}
    BY <1>2, <2>1, ElemsAppended
  <2>3. Rising(Append(pipe[p], t))
    BY <1>2, <2>1, RisingAppended
  <2>4. CASE pipe'[p] = pipe[p]
    BY <2>1, <2>4
  <2>5. CASE pipe'[p] = Append(pipe[p], t)
    BY <2>2, <2>3, <2>5
  <2> QED BY <1>5, <2>4, <2>5
<1>9. ASSUME NEW q \in Agents, NEW u \in Arrived(q)'
      PROVE  u \in Arrived(q) \/ (u = t /\ q = p)
  BY <1>1, <1>6, <1>8, <1>9 DEF Arrived
<1>10. Places'
  <2>1. ASSUME NEW j \in Keys PROVE WorkPlaced(j)'
    <3>1. CASE j = k
      BY <1>1, <1>3, <1>4, <3>1 DEF WorkPlaced, Placed
    <3>2. CASE j # k
      <4>1. WorkPlaced(j) /\ busy'[j] = busy[j]
        BY <1>3, <3>2 DEF DeliveryInv, Places
      <4> QED BY <1>1, <4>1 DEF WorkPlaced, Placed
    <3> QED BY <3>1, <3>2
  <2>2. ASSUME NEW q \in Agents, NEW u \in Arrived(q)' PROVE q \in Named' /\ u.key = roomID'[q]
    BY <1>1, <1>4, <1>9, <2>2 DEF DeliveryInv, Places
  <2> QED BY <1>1, <2>1, <2>2 DEF DeliveryInv, Places
<1>11. Numbered'
  <2>1. ASSUME NEW j \in Keys, busy'[j] # Idle
        PROVE  busy'[j].task.no <= handed' /\ \A u \in Elems(queue'[j]) : busy'[j].task.no < u.no
    BY <1>0, <1>1, <1>2, <1>3, <2>1 DEF DeliveryInv, Numbered
  <2>2. ASSUME NEW q \in Agents
        PROVE  /\ Rising(got'[q]) /\ Rising(pipe'[q])
               /\ \A s \in Elems(got'[q]), u \in Elems(pipe'[q]) : s.no < u.no
    <3>1. /\ Rising(got[q]) /\ Rising(pipe[q])
          /\ \A s \in Elems(got[q]), u \in Elems(pipe[q]) : s.no < u.no
      BY DEF DeliveryInv, Numbered
    <3>2. CASE q = p
      BY <1>1, <1>7, <1>8, <3>1, <3>2 DEF Arrived
    <3>3. CASE q # p
      BY <1>1, <1>6, <3>1, <3>3
    <3> QED BY <3>2, <3>3
  <2>3. ASSUME NEW q \in Agents, NEW u \in Arrived(q)', NEW r \in Keys, r = roomID[q]
        PROVE  /\ u.no <= handed' /\ \A s \in Elems(queue'[r]) : u.no < s.no
               /\ busy'[r] # Idle =>
                     /\ u.no <= busy'[r].task.no
                     /\ q \notin busy'[r].seen \/ busy'[r].at = q => u.no < busy'[r].task.no
    <3>1. CASE u = t /\ q = p
      <4>1. r = k /\ t.no \in Nat
        BY <1>2, <1>4, <2>3, <3>1, TaskTypes DEF DeliveryInv, S
      <4> QED BY <1>1, <1>2, <1>3, <1>4, <1>7, <3>1, <4>1
    <3>2. CASE u \in Arrived(q)
      <4>1. /\ u.no <= handed /\ \A s \in Elems(queue[r]) : u.no < s.no
            /\ busy[r] # Idle =>
                 /\ u.no <= busy[r].task.no
                 /\ q \notin busy[r].seen \/ busy[r].at = q => u.no < busy[r].task.no
        BY <2>3, <3>2 DEF DeliveryInv, Numbered
      <4>2. CASE r = k
        BY <1>0, <1>1, <1>2, <1>3, <4>1, <4>2, AgentsAssumption
      <4>3. CASE r # k
        BY <1>1, <1>3, <4>1, <4>3
      <4> QED BY <4>2, <4>3
    <3> QED BY <1>9, <2>3, <3>1, <3>2
  <2>4. \A q \in Agents : roomID[q] \in Keys
    BY TaskTypes DEF DeliveryInv
  <2> QED BY <1>1, <2>1, <2>2, <2>3, <2>4 DEF DeliveryInv, Numbered
<1> QED BY <1>10, <1>11

\* A worker gives its task up, or has done it.
LEMMA IdlingKeeps ==
    ASSUME DeliveryInv, NEW k \in Keys, busy' = [busy EXCEPT ![k] = Idle],
           UNCHANGED <<username, roomID, pending, handed, queue, pipe, got>>
    PROVE  Places' /\ Numbered'
<1>1. /\ Named' = Named /\ roomID' = roomID /\ \A u : Placed(u)' <=> Placed(u)
  BY SameRooms
<1>2. busy'[k] = Idle /\ \A j \in Keys : j # k => busy'[j] = busy[j]
  BY DEF DeliveryInv, LoadInv, DeliveryTypeOK
<1>3. \A q \in Agents : Arrived(q)' = Arrived(q)
  BY DEF Arrived
<1>4. ASSUME NEW j \in Keys PROVE WorkPlaced(j)'
  <2>1. WorkPlaced(j) /\ (busy'[j] = Idle \/ busy'[j] = busy[j])
    BY <1>2 DEF DeliveryInv, Places
  <2> QED BY <1>1, <2>1 DEF WorkPlaced, Placed
<1>5. Places'
  BY <1>1, <1>3, <1>4 DEF DeliveryInv, Places
<1>6. Numbered'
  <2>1. \A j \in Keys : busy'[j] # Idle => busy'[j] = busy[j] /\ busy[j] # Idle
    BY <1>2
  <2>2. \A q \in Agents : roomID[q] \in Keys
    BY TaskTypes DEF DeliveryInv
  <2> QED BY <1>1, <1>3, <2>1, <2>2 DEF DeliveryInv, Numbered
<1> QED BY <1>5, <1>6

\* The writer takes the oldest message: it is the client's newest, or lost.
LEMMA WriteOutKeeps ==
    ASSUME DeliveryInv, NEW p \in Agents, WriteOut(p)
    PROVE  Places' /\ Numbered'
<1> DEFINE S == QueuedTasks
<1>0. PICK h : h = Head(pipe[p])
  OBVIOUS
<1>1. /\ Named' = Named /\ roomID' = roomID /\ \A u : Placed(u)' <=> Placed(u)
      /\ UNCHANGED <<pending, handed, queue, busy>>
  BY SameRooms DEF WriteOut, vars, connVars, seatVars
<1>2. /\ pipe \in [Agents -> Seq(S)] /\ got \in [Agents -> Seq(S)] /\ pipe[p] # <<>>
      /\ pipe' = [pipe EXCEPT ![p] = Tail(@)] /\ got' \in {got, [got EXCEPT ![p] = Append(@, h)]}
  BY <1>0 DEF WriteOut, DeliveryInv, LoadInv, DeliveryTypeOK
<1> HIDE DEF S
<1>3. /\ pipe'[p] = Tail(pipe[p]) /\ (got'[p] = got[p] \/ got'[p] = Append(got[p], h))
      /\ \A q \in Agents : q # p => pipe'[q] = pipe[q] /\ got'[q] = got[q]
  BY <1>2
<1>4. /\ pipe[p] \in Seq(S) /\ got[p] \in Seq(S) /\ Rising(pipe[p]) /\ Rising(got[p])
      /\ \A s \in Elems(got[p]), u \in Elems(pipe[p]) : s.no < u.no
  BY <1>2 DEF DeliveryInv, Numbered
<1>5. /\ h \in S /\ h \in Elems(pipe[p]) /\ Elems(pipe'[p]) \subseteq Elems(pipe[p])
      /\ Rising(pipe'[p]) /\ \A u \in Elems(pipe'[p]) : h.no < u.no
  <2>1. h \in S /\ h \in Elems(pipe[p]) /\ Elems(Tail(pipe[p])) \subseteq Elems(pipe[p])
    BY <1>0, <1>2, <1>4, ElemsTaken
  <2>2. Rising(Tail(pipe[p]))
    BY <1>2, <1>4, RisingTaken
  <2>3. \A u \in Elems(Tail(pipe[p])) : h.no < u.no
    BY <1>0, <1>2, <1>4, RisingTaken
  <2> QED BY <1>3, <2>1, <2>2, <2>3
<1>6. Elems(got'[p]) \subseteq Elems(got[p]) \cup {h} /\ Rising(got'[p])
  <2>1. \A u \in Elems(got[p]) : u.no < h.no
    BY <1>4, <1>5
  <2>2. Elems(Append(got[p], h)) = Elems(got[p]) \cup {h}
    BY <1>4, <1>5, ElemsAppended
  <2>3. Rising(Append(got[p], h))
    BY <1>4, <1>5, <2>1, RisingAppended
  <2>4. CASE got'[p] = got[p]
    BY <1>4, <2>4
  <2>5. CASE got'[p] = Append(got[p], h)
    BY <2>2, <2>3, <2>5
  <2> QED BY <1>3, <2>4, <2>5
<1>7. ASSUME NEW q \in Agents PROVE Arrived(q)' \subseteq Arrived(q)
  <2>1. CASE q = p
    BY <1>5, <1>6, <2>1 DEF Arrived
  <2>2. CASE q # p
    BY <1>3, <2>2 DEF Arrived
  <2> QED BY <2>1, <2>2
<1>8. Places'
  <2>1. ASSUME NEW j \in Keys PROVE WorkPlaced(j)'
    <3>1. WorkPlaced(j) /\ busy'[j] = busy[j]
      BY <1>1 DEF DeliveryInv, Places
    <3> QED BY <1>1, <3>1 DEF WorkPlaced, Placed
  <2> QED BY <1>1, <1>7, <2>1 DEF DeliveryInv, Places
<1>9. Numbered'
  <2>1. ASSUME NEW q \in Agents
        PROVE  /\ Rising(got'[q]) /\ Rising(pipe'[q])
               /\ \A s \in Elems(got'[q]), u \in Elems(pipe'[q]) : s.no < u.no
    <3>1. CASE q = p
      BY <1>4, <1>5, <1>6, <3>1
    <3>2. CASE q # p
      BY <1>3, <3>2 DEF DeliveryInv, Numbered
    <3> QED BY <3>1, <3>2
  <2> QED BY <1>1, <1>7, <2>1 DEF DeliveryInv, Numbered
<1> QED BY <1>8, <1>9

-----------------------------------------------------------------------------
LEMMA DeliveryStep ==
    ASSUME LoginOnce, DeliveryInv, [DeliveryNext]_allVars
    PROVE  DeliveryInv'
<1>1. [Next]_vars
  BY ManagerSteps
<1>2. LoadInv' /\ SeatInv'
  BY <1>1, LoadStep, NextIInv, NextOnce DEF DeliveryInv, SeatInv
<1>3. Targets(Named)'
  BY <1>1, <1>2, NamedTargetsStep DEF DeliveryInv
<1>4. ASSUME LoopStep PROVE Places' /\ Numbered'
  <2>1. \A t \in Elems(pending') : Placed(t)'
    BY <1>4, LoopPlaces DEF LoopStep, Next, DeliveryInv
  <2> QED BY <1>1, <1>4, <2>1, HandlerKeeps DEF LoopStep
<1>5. ASSUME \/ Elsewhere \/ UNCHANGED allVars
             \/ \E p \in Agents : FinishClose(p) \/ HangUp(p)
      PROVE  Places' /\ Numbered'
  <2>1. UNCHANGED <<pending, handed, queue, busy, pipe, got>>
    BY <1>5 DEF Elsewhere, FinishClose, HangUp, allVars, deliveryVars
  <2>2. ASSUME NEW t \in Elems(pending') PROVE Placed(t)'
    <3>1. Placed(t)
      BY <2>1 DEF DeliveryInv, Places
    <3> QED BY <1>1, <3>1, NamedStep DEF DeliveryInv, Placed
  <2> QED BY <1>1, <2>1, <2>2, HandlerKeeps
<1>6. ASSUME HandOut PROVE Places' /\ Numbered'
  <2>1. pending \in Seq(ForRooms(Tasks)) /\ pending # <<>>
    BY <1>6 DEF HandOut, DeliveryInv, LoadInv, Loaded
  <2>2. /\ Head(pending) \in ForRooms(Tasks) /\ Head(pending) \in Elems(pending)
        /\ Elems(Tail(pending)) \subseteq Elems(pending) /\ Len(pending) \in Nat \ {0}
    BY <2>1, ElemsTaken, AfterFront
  <2>3. handed < MaxTasks
    BY <2>2, DeliveryAssumption DEF DeliveryInv, LoadInv, Loaded, DeliveryTypeOK
  <2>4. /\ AddTask(Head(pending)) /\ Placed(Head(pending)) /\ pending' = Tail(pending)
        /\ UNCHANGED <<username, roomID, busy, pipe, got>>
    BY <1>6, <2>2 DEF HandOut, vars, connVars, seatVars, DeliveryInv, Places
  <2> QED BY <2>2, <2>3, <2>4, AddTaskKeeps
<1>7. ASSUME CounterStep PROVE Places' /\ Numbered'
  <2>1. /\ PopularAnswered /\ AddTask(out'[1]) /\ handed + Len(pending) < MaxTasks
        /\ UNCHANGED <<username, roomID, pending, busy, pipe, got>>
    BY <1>7 DEF CounterStep, PopularAnswered, connVars, seatVars
  <2>2. out' \in Seq(ForRooms(Tasks)) /\ Len(out') = 1 /\ out'[1].to = NoAgent
    <3>1. out' \in Seq(ForRooms(Tasks))
      BY <2>1, LoopLoads DEF Next, DeliveryInv, LoadInv
    <3> QED BY <2>1, <3>1 DEF PopularAnswered, GMResult, Broadcast
  <2>3. out'[1] \in ForRooms(Tasks)
    BY <2>2, ElementOfSeq
  <2>4. handed < MaxTasks
    <3>1. Len(pending) \in Nat /\ handed \in Nat
      BY LenProperties, DeliveryAssumption DEF DeliveryInv, LoadInv, Loaded, DeliveryTypeOK
    <3> QED BY <2>1, <3>1, DeliveryAssumption
  <2>5. PICK t : t = out'[1]
    OBVIOUS
  <2>6. t \in ForRooms(Tasks) /\ AddTask(t) /\ Placed(t)
    BY <2>1, <2>2, <2>3, <2>5 DEF Placed
  <2> QED BY <2>1, <2>4, <2>6, AddTaskKeeps
<1>8. ASSUME NEW k \in Keys, Worker(k) PROVE Places' /\ Numbered'
  <2>1. CASE Write(k)
    <3>1. CASE Put(k, busy[k].at)
      BY <2>1, <3>1, PutKeeps
    <3>2. CASE Panic(k, busy[k].at)
      BY <2>1, <3>2, IdlingKeeps DEF Write, Panic, vars, connVars, seatVars
    <3> QED BY <2>1, <3>1, <3>2 DEF Write
  <2>2. CASE Finish(k)
    BY <2>2, IdlingKeeps DEF Finish, vars, connVars, seatVars
  <2> QED BY <1>8, <2>1, <2>2, TakeKeeps, VisitKeeps DEF Worker
<1>9. Places' /\ Numbered'
  BY <1>4, <1>5, <1>6, <1>7, <1>8, WriteOutKeeps DEF DeliveryNext, Writer
<1> QED BY <1>2, <1>3, <1>9 DEF DeliveryInv

LEMMA DeliveryStart == DeliveryInit => DeliveryInv
<1> SUFFICES ASSUME DeliveryInit PROVE DeliveryInv
  OBVIOUS
<1>1. LoadInv /\ SeatInv /\ Init
  BY LoadInit, InitIInv, InitOnce DEF SeatInv, DeliveryInit
<1>2. Targets(Named)
  <2>1. playersByName \in [NameSet -> Named \cup {NoAgent}]
    BY <1>1, NamesHeld DEF HeldByNamed
  <2>2. <<>> \in Seq(JobsTo(Named)) /\ <<>> \in Seq(JobsTo(Named \cup {NoAgent}))
    BY EmptySeq
  <2> QED BY <1>1, <2>1, <2>2 DEF Init, Targets
<1>3. /\ pending = <<>> /\ \A k \in Keys : queue[k] = <<>> /\ busy[k] = Idle
      /\ \A p \in Agents : pipe[p] = <<>> /\ got[p] = <<>>
  BY DEF DeliveryInit
<1>4. Elems(<<>>) = {} /\ Rising(<<>>)
  BY DEF Elems, Rising
<1>5. \A p \in Agents : Arrived(p) = {}
  BY <1>3, <1>4 DEF Arrived
<1>6. Places
  BY <1>3, <1>4, <1>5 DEF Places, WorkPlaced
<1>7. Numbered
  BY <1>3, <1>4, <1>5 DEF Numbered
<1> QED BY <1>1, <1>2, <1>6, <1>7 DEF DeliveryInv

LEMMA DeliveryInvariant ==
    ASSUME LoginOnce
    PROVE  DeliverySpec => []DeliveryInv
BY DeliveryStart, DeliveryStep, PTL DEF DeliverySpec

-----------------------------------------------------------------------------
(* The theorems. *)

\* Whatever the clients send, the queues hold what they should and never more
\* than they may: no channel is written beyond its capacity.
THEOREM DeliveryTypes == DeliverySpec => []DeliveryTypeOK
<1>1. LoadInv => DeliveryTypeOK
  BY DEF LoadInv
<1> QED BY <1>1, LoadInvariant, PTL

\* With the workers and writers at its side the room manager keeps to its own
\* specification, whatever the clients send: what is proved of Spec holds here.
THEOREM DeliveryImplementsManager == DeliverySpec => Spec
<1>1. DeliveryInit => Init
  BY DEF DeliveryInit
<1>2. [DeliveryNext]_allVars => [Next]_vars
  BY ManagerSteps
<1> QED BY <1>1, <1>2, PTL DEF DeliverySpec, Spec

\* A client that logs in once receives what the loop handed out in that order,
\* and nothing twice, whatever is dropped or abandoned on the way.
THEOREM OneLoginReceivesInOrder ==
    ASSUME LoginOnce
    PROVE  DeliverySpec => []ReceivedInOrder
<1>1. DeliveryInv => ReceivedInOrder
  BY DEF DeliveryInv, Numbered, Rising, ReceivedInOrder
<1> QED BY <1>1, DeliveryInvariant, PTL

\* A client that logs in once hears of its own room only.
THEOREM OneLoginHearsOneRoom ==
    ASSUME LoginOnce
    PROVE  DeliverySpec => []HearsOwnRoomOnly
<1>1. DeliveryInv => HearsOwnRoomOnly
  BY DEF DeliveryInv, Places, Arrived, Elems, HearsOwnRoomOnly
<1> QED BY <1>1, DeliveryInvariant, PTL

=============================================================================
