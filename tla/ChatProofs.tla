------------------------------ MODULE ChatProofs ------------------------------
(***************************************************************************)
(* What is proved of the chats that RoomManager carries, whatever the      *)
(* clients send: to whom they go, in which order they are remembered, and  *)
(* that a name never comes to mean somebody else.  The invariants say what *)
(* a job still carries when it comes back from the word filter, possibly   *)
(* long after it was made: a target that had connected by then, and a      *)
(* number that no chat made since has.                                     *)
(***************************************************************************)
EXTENDS RoomManagerProofs

\* Who answers to a name or is the target of a job: nobody before it connects.
Connected == {p \in Agents : status[p] # "absent"}
JobsTo(targets) == [by : Agents, to : targets, no : 1..MaxChats]

Targets(those) ==
    /\ playersByName \in [NameSet -> those \cup {NoAgent}]
    /\ submitted \in [RoomIds -> Seq(JobsTo(those))]
    /\ checking \in [RoomIds -> Seq(JobsTo(those \cup {NoAgent}))]

TargetsConnected == Targets(Connected)

\* Chats are numbered as they come.
NumbersTaken ==
    \A r \in RoomIds :
       /\ \A i \in 1..Len(history[r]) : history[r][i].no <= posted
       /\ \A i \in 1..Len(checking[r]) :
             checking[r][i].to = NoAgent => checking[r][i].no <= posted

ChatInv == IInv /\ TargetsConnected /\ NumbersTaken /\ HistoryInOrder

-----------------------------------------------------------------------------
(* Sequences. *)

LEMMA Together ==
    ASSUME NEW S, NEW s \in Seq(S), NEW t \in Seq(S)
    PROVE  s \o t \in Seq(S)
BY ConcatProperties

\* An element at the end of one of a family of queues, and a queue without its
\* first element.
LEMMA QueueAdded ==
    ASSUME NEW I, NEW S, NEW q \in [I -> Seq(S)], NEW r \in I, NEW x \in S
    PROVE  [q EXCEPT ![r] = Append(@, x)] \in [I -> Seq(S)]
<1>1. Append(q[r], x) \in Seq(S)
  BY AppendProperties
<1> QED BY <1>1

LEMMA QueueTaken ==
    ASSUME NEW I, NEW S, NEW q \in [I -> Seq(S)], NEW r \in I, q[r] # <<>>
    PROVE  /\ [q EXCEPT ![r] = Tail(@)] \in [I -> Seq(S)]
           /\ Head(q[r]) \in S
<1>1. Tail(q[r]) \in Seq(S) /\ Head(q[r]) \in S
  BY HeadTailProperties
<1> QED BY <1>1

LEMMA QueuesGrow ==
    ASSUME NEW I, NEW S, NEW T, S \subseteq T, NEW q \in [I -> Seq(S)]
    PROVE  q \in [I -> Seq(T)]
<1>1. \A r \in I : q[r] \in Seq(T)
  BY SeqMonotonic
<1> QED BY <1>1

-----------------------------------------------------------------------------
(* The targets of chats. *)

\* A connection that has been there is never absent again.
LEMMA ConnectedGrows ==
    ASSUME IInv, [Next]_vars
    PROVE  Connected \subseteq Connected'
<1>1. status \in [Agents -> {"absent", "live", "destroyed"}]
  BY DEF IInv, TypeOK, ConnTypeOK
<1>2. \/ status' = status
      \/ \E p \in Agents : status' = [status EXCEPT ![p] = "live"]
      \/ \E p \in Agents : status' = [status EXCEPT ![p] = "destroyed"]
  <2> USE DEF connVars
  <2>1. ASSUME NEW p \in Agents, Request(p) PROVE status' = status
    BY <2>1 DEF Request, Login, JoinRoom, Heartbeat, RoomList, Ignored, RoomChat, RoomCommand, Chat
  <2>2. ASSUME NEW p \in Agents, Connect(p) \/ Destroy(p)
        PROVE  \/ status' = [status EXCEPT ![p] = "live"]
               \/ status' = [status EXCEPT ![p] = "destroyed"]
    BY <2>2 DEF Connect, Destroy
  <2>3. ASSUME NEW r \in RoomIds, RunSubmitted(r) \/ FilterDone(r) \/ FilterLost(r)
        PROVE  status' = status
    BY <2>3 DEF RunSubmitted, FilterDone, FilterLost
  <2>4. CASE PopularAnswered \/ UNCHANGED vars
    BY <2>4 DEF PopularAnswered, vars
  <2> QED BY <2>1, <2>2, <2>3, <2>4 DEF Next
<1> QED BY <1>1, <1>2 DEF Connected

\* A name is given to a live agent, or loses its holder.
LEMMA NamesStep ==
    ASSUME IInv, [Next]_vars
    PROVE  \/ playersByName' = playersByName
           \/ \E n \in NameSet, p \in Agents :
                /\ Live(p) /\ n \notin names
                /\ playersByName' = [playersByName EXCEPT ![n] = p]
           \/ \E n \in NameSet : playersByName' = [playersByName EXCEPT ![n] = NoAgent]
<1> USE DEF seatVars
<1>1. ASSUME NEW p \in Agents, NEW n \in NameSet, NEW rsp, Live(p), Join(p, n, rsp)
      PROVE  \/ playersByName' = playersByName
             \/ n \notin names /\ playersByName' = [playersByName EXCEPT ![n] = p]
  BY <1>1 DEF Join, EnterRoom
<1>2. ASSUME NEW p \in Agents, NEW n \in NameSet, Login(p, n)
      PROVE  \/ playersByName' = playersByName
             \/ n \notin names /\ Live(p) /\ playersByName' = [playersByName EXCEPT ![n] = p]
  BY <1>1, <1>2 DEF Login
<1>3. ASSUME NEW p \in Agents, JoinRoom(p)
      PROVE  \/ playersByName' = playersByName
             \/ \E n \in NameSet : n \notin names /\ Live(p)
                                   /\ playersByName' = [playersByName EXCEPT ![n] = p]
  <2>1. username[p] \in NameSet
    BY DEF IInv, TypeOK, ConnTypeOK
  <2> QED BY <1>1, <1>3, <2>1 DEF JoinRoom, Ready
<1>4. ASSUME NEW p \in Agents, Destroy(p)
      PROVE  \/ playersByName' = playersByName
             \/ \E n \in NameSet : playersByName' = [playersByName EXCEPT ![n] = NoAgent]
  <2>1. username[p] \in NameSet
    BY DEF IInv, TypeOK, ConnTypeOK
  <2> QED BY <1>4, <2>1 DEF Destroy, Leave, LeaveWith, LeftNames
<1>5. ASSUME NEW p \in Agents,
             \/ Connect(p) \/ Heartbeat(p) \/ RoomList(p) \/ Ignored(p) \/ RoomChat(p)
             \/ \E words \in 1..3, cmd \in Commands : RoomCommand(p, words, cmd)
             \/ \E n \in NameSet : Chat(p, n)
      PROVE  playersByName' = playersByName
  BY <1>5 DEF Connect, Heartbeat, RoomList, Ignored, RoomChat, RoomCommand, Chat
<1>6. ASSUME NEW r \in RoomIds, RunSubmitted(r) \/ FilterDone(r) \/ FilterLost(r)
      PROVE  playersByName' = playersByName
  BY <1>6 DEF RunSubmitted, FilterDone, FilterLost
<1>7. CASE PopularAnswered \/ UNCHANGED vars
  BY <1>7 DEF PopularAnswered, vars
<1> QED BY <1>2, <1>3, <1>4, <1>5, <1>6, <1>7 DEF Next, Request

\* Jobs are made for those who answer to a name.
LEMMA JobsStep ==
    ASSUME IInv, NEW C \in SUBSET Agents, NEW D \in SUBSET Agents, C \subseteq D,
           Targets(C), [Next]_vars
    PROVE  /\ submitted' \in [RoomIds -> Seq(JobsTo(D))]
           /\ checking' \in [RoomIds -> Seq(JobsTo(D \cup {NoAgent}))]
<1> DEFINE Sub == JobsTo(C)
           Chk == JobsTo(C \cup {NoAgent})
<1>3. /\ submitted \in [RoomIds -> Seq(Sub)] /\ checking \in [RoomIds -> Seq(Chk)]
      /\ Sub \subseteq Chk /\ Sub \subseteq JobsTo(D) /\ Chk \subseteq JobsTo(D \cup {NoAgent})
  BY DEF Targets, JobsTo
<1>4. submitted' \in [RoomIds -> Seq(Sub)] /\ checking' \in [RoomIds -> Seq(Chk)]
  <2>1. CASE UNCHANGED <<submitted, checking>>
    BY <1>3, <2>1
  <2>2. ASSUME NEW p \in Agents, RoomChat(p)
        PROVE  submitted' \in [RoomIds -> Seq(Sub)] /\ checking' \in [RoomIds -> Seq(Chk)]
    <3> DEFINE job == [by |-> p, to |-> NoAgent, no |-> posted + 1]
    <3>1. posted + 1 \in 1..MaxChats
      BY <2>2, LimitsAssumption DEF RoomChat, IInv, TypeOK, ChatTypeOK
    <3>2. job \in Chk
      BY <3>1 DEF JobsTo
    <3>3. \/ checking' = checking
          \/ roomID[p] \in RoomIds /\ checking' = [checking EXCEPT ![roomID[p]] = Append(@, job)]
      BY <2>2 DEF RoomChat, IInv, TypeOK, SeatTypeOK
    <3>4. submitted' = submitted
      BY <2>2 DEF RoomChat
    <3> HIDE DEF job, Sub, Chk
    <3>5. ASSUME NEW r \in RoomIds PROVE [checking EXCEPT ![r] = Append(@, job)] \in [RoomIds -> Seq(Chk)]
      BY <1>3, <3>2, QueueAdded
    <3> QED BY <1>3, <3>3, <3>4, <3>5
  <2>3. ASSUME NEW p \in Agents, NEW n \in NameSet, Chat(p, n)
        PROVE  submitted' \in [RoomIds -> Seq(Sub)] /\ checking' \in [RoomIds -> Seq(Chk)]
    <3> DEFINE job == [by |-> p, to |-> playersByName[n], no |-> posted + 1]
    <3>1. posted + 1 \in 1..MaxChats /\ checking' = checking
      BY <2>3, LimitsAssumption DEF Chat, IInv, TypeOK, ChatTypeOK
    <3>2. \/ submitted' = submitted
          \/ /\ roomID[p] \in RoomIds /\ playersByName[n] # NoAgent
             /\ submitted' = [submitted EXCEPT ![roomID[p]] = Append(@, job)]
      BY <2>3 DEF Chat, ChatSent, ChatRefused, ChatTarget, IInv, TypeOK, SeatTypeOK
    <3>3. playersByName[n] # NoAgent => job \in Sub
      BY <3>1 DEF JobsTo, Targets
    <3> HIDE DEF job, Sub, Chk
    <3>4. ASSUME NEW r \in RoomIds, job \in Sub
          PROVE  [submitted EXCEPT ![r] = Append(@, job)] \in [RoomIds -> Seq(Sub)]
      BY <1>3, <3>4, QueueAdded
    <3> QED BY <1>3, <3>1, <3>2, <3>3, <3>4
  <2>4. ASSUME NEW r \in RoomIds, RunSubmitted(r)
        PROVE  submitted' \in [RoomIds -> Seq(Sub)] /\ checking' \in [RoomIds -> Seq(Chk)]
    <3> DEFINE job == Head(submitted[r])
    <3>1. /\ submitted[r] # <<>> /\ submitted' = [submitted EXCEPT ![r] = Tail(@)]
          /\ checking' = checking \/ checking' = [checking EXCEPT ![r] = Append(@, job)]
      BY <2>4 DEF RunSubmitted
    <3> HIDE DEF Sub, Chk
    <3>2. submitted' \in [RoomIds -> Seq(Sub)] /\ job \in Chk
      BY <1>3, <3>1, QueueTaken
    <3> HIDE DEF job
    <3>3. [checking EXCEPT ![r] = Append(@, job)] \in [RoomIds -> Seq(Chk)]
      BY <1>3, <3>2, QueueAdded
    <3> QED BY <1>3, <3>1, <3>2, <3>3
  <2>5. ASSUME NEW r \in RoomIds, FilterDone(r) \/ FilterLost(r)
        PROVE  submitted' \in [RoomIds -> Seq(Sub)] /\ checking' \in [RoomIds -> Seq(Chk)]
    <3>1. /\ checking[r] # <<>> /\ checking' = [checking EXCEPT ![r] = Tail(@)]
          /\ submitted' = submitted
      BY <2>5 DEF FilterDone, FilterLost
    <3> HIDE DEF Sub, Chk
    <3> QED BY <1>3, <3>1, QueueTaken
  <2>6. ASSUME NEW p \in Agents,
               \/ Connect(p) \/ Destroy(p) \/ (\E n \in NameSet : Login(p, n)) \/ JoinRoom(p)
               \/ Heartbeat(p) \/ RoomList(p) \/ Ignored(p)
               \/ \E words \in 1..3, cmd \in Commands : RoomCommand(p, words, cmd)
        PROVE  UNCHANGED <<submitted, checking>>
    BY <2>6 DEF Connect, Destroy, Login, JoinRoom, Heartbeat, RoomList, Ignored, RoomCommand, chatVars
  <2>7. CASE PopularAnswered \/ UNCHANGED vars
    BY <2>1, <2>7 DEF PopularAnswered, vars, chatVars
  <2> QED BY <2>1, <2>2, <2>3, <2>4, <2>5, <2>6, <2>7 DEF Next, Request
<1> HIDE DEF Sub, Chk
<1> QED BY <1>3, <1>4, QueuesGrow

LEMMA TargetsStep ==
    ASSUME IInv, TargetsConnected, [Next]_vars
    PROVE  TargetsConnected'
<1> DEFINE C == Connected
           D == Connected'
<1>1. C \subseteq D /\ C \subseteq Agents /\ D \subseteq Agents
  BY ConnectedGrows DEF Connected
<1>2. playersByName' \in [NameSet -> D \cup {NoAgent}]
  <2>1. \A p \in Agents : Live(p) => p \in C
    BY DEF Live, Connected
  <2>2. playersByName \in [NameSet -> C \cup {NoAgent}]
    BY DEF TargetsConnected, Targets
  <2> HIDE DEF C, D
  <2> QED BY <1>1, <2>1, <2>2, NamesStep
<1>3. Targets(C)
  BY DEF TargetsConnected
<1>4. submitted' \in [RoomIds -> Seq(JobsTo(D))] /\ checking' \in [RoomIds -> Seq(JobsTo(D \cup {NoAgent}))]
  <2> HIDE DEF C, D
  <2> QED BY <1>1, <1>3, JobsStep
<1> QED BY <1>2, <1>4 DEF TargetsConnected, Targets, JobsTo

-----------------------------------------------------------------------------
(* To whom a step's tasks go. *)

\* Tasks for a room, and tasks for one of those, sent where it is.
Told(those) ==
    {t \in Tasks : IF t.to = NoAgent THEN t.key \in RoomIds
                   ELSE t.to \in those /\ status[t.to] = "live" /\ t.key = roomID[t.to]}

\* Tasks that broadcast no player's chat, and those that do neither wrong.
Quiet(t) == \/ t.to # NoAgent
            \/ t.msg.kind # "ntf_room_chat"
            \/ t.msg.chats[1].no = 0
Mild(those) == {t \in Told(those) : Quiet(t)}

LEMMA ToldAreRight ==
    ASSUME NEW D, out' \in Seq(Told(D)')
    PROVE  OutReachesTheLiving'
<1>1. ASSUME NEW i \in 1..Len(out')
      PROVE  out'[i] \in Told(D)'
  BY ElementOfSeq
<1> QED BY <1>1 DEF OutReachesTheLiving, Told

LEMMA SendTold ==
    ASSUME NEW D \in SUBSET Agents, NEW q \in D, NEW r \in 0..MaxRooms, NEW m \in Messages,
           status[q] \in {"live", "destroyed"}, status' = status, roomID'[q] = r
    PROVE  Send(q, r, m) \in Seq(Mild(D)')
<1> DEFINE t == [key |-> r, to |-> q, msg |-> m]
<1>1. status[q] # "destroyed" => t \in Mild(D)'
  BY AgentsAssumption DEF Mild, Quiet, Told, Tasks
<1>2. Send(q, r, m) = IF status[q] = "destroyed" THEN <<>> ELSE <<t>>
  BY DEF Send
<1> HIDE DEF t
<1> QED BY <1>1, <1>2

LEMMA BroadcastTold ==
    ASSUME NEW D \in SUBSET Agents, NEW r \in RoomIds, NEW m \in Messages,
           m.kind # "ntf_room_chat" \/ m.chats[1].no = 0
    PROVE  Broadcast(r, m) \in Seq(Mild(D)')
<1> DEFINE t == [key |-> r, to |-> NoAgent, msg |-> m]
<1>1. t \in Mild(D)'
  BY LimitsAssumption DEF Mild, Quiet, Told, Tasks, RoomIds
<1>2. Broadcast(r, m) = <<t>>
  BY DEF Broadcast
<1> HIDE DEF t
<1> QED BY <1>1, <1>2

LEMMA GMResultTold ==
    ASSUME NEW D \in SUBSET Agents, NEW r \in RoomIds
    PROVE  GMResult(r) \in Seq(Mild(D)')
<1>1. Chat1(0, Guest, FALSE) \in Seq(Chats)
  <2>1. 0 \in 0..MaxChats
    BY LimitsAssumption
  <2> QED BY <2>1, ChatMessages, Zenon
<1>2. "ntf_room_chat" \in Kinds /\ r \in 0..MaxRooms
  BY LimitsAssumption DEF Kinds, RoomIds
<1> DEFINE m == Ntf("ntf_room_chat", Chat1(0, Guest, FALSE))
<1>3. m \in Messages /\ m.chats[1].no = 0
  BY <1>1, <1>2, MessageTypes DEF Ntf, Chat1
<1> HIDE DEF m
<1>4. Broadcast(r, m) \in Seq(Mild(D)')
  BY <1>2, <1>3, BroadcastTold
<1> QED BY <1>4 DEF GMResult, m

\* An answer goes to the room the agent stays in.
LEMMA AnswerTold ==
    ASSUME IInv, NEW D \in SUBSET Connected, NEW p \in D, NEW kind \in Kinds, NEW ok \in BOOLEAN,
           status' = status, roomID' = roomID
    PROVE  Send(p, roomID[p], Rsp(kind, ok)) \in Seq(Mild(D)')
<1>1. /\ roomID[p] \in 0..MaxRooms /\ status[p] \in {"live", "destroyed"}
      /\ roomID'[p] = roomID[p] /\ D \in SUBSET Agents
  BY DEF Connected, IInv, TypeOK, SeatTypeOK, ConnTypeOK
<1>2. Rsp(kind, ok) \in Messages
  BY MessageTypes
<1> QED BY <1>1, <1>2, SendTold

LEMMA JoinTold ==
    ASSUME IInv, NEW D \in SUBSET Connected, NEW p \in D, NEW n \in NameSet, NEW rsp \in Kinds,
           Join(p, n, rsp), status' = status
    PROVE  out' \in Seq(Mild(D)')
<1>1. p \in Agents /\ status[p] \in {"live", "destroyed"} /\ D \in SUBSET Agents
  BY DEF Connected, IInv, TypeOK, ConnTypeOK
<1>2. CASE UNCHANGED seatVars /\ out' = Send(p, roomID[p], Rsp(rsp, FALSE))
  BY <1>1, <1>2, AnswerTold DEF seatVars
<1>3. CASE /\ EnterRoom(p, n)
           /\ out' = Welcome(p, n, NextRoom) \o Send(p, NextRoom, Rsp(rsp, TRUE))
  <2>1. NextRoom \in RoomIds /\ NextRoom \in 0..MaxRooms
    BY <1>1, <1>3, NextRoomHasSpace DEF IInv, TypeOK, EnterRoom, RoomIds
  <2>2. roomID'[p] = NextRoom
    BY <1>1, <1>3 DEF EnterRoom, IInv, TypeOK, SeatTypeOK
  <2>3. Send(p, NextRoom, Rsp(rsp, TRUE)) \in Seq(Mild(D)')
    BY <1>1, <2>1, <2>2, SendTold, MessageTypes
  <2>4. Broadcast(NextRoom, Ntf("ntf_online", Chat1(0, n, FALSE))) \in Seq(Mild(D)')
    <3>1. Chat1(0, n, FALSE) \in Seq(Chats)
      <4>1. 0 \in 0..MaxChats
        BY LimitsAssumption
      <4> QED BY <4>1, ChatMessages, Zenon
    <3> DEFINE m == Ntf("ntf_online", Chat1(0, n, FALSE))
    <3>2. m \in Messages /\ m.kind # "ntf_room_chat"
      BY <3>1, MessageTypes DEF Kinds, Ntf
    <3> HIDE DEF m
    <3>3. Broadcast(NextRoom, m) \in Seq(Mild(D)')
      BY <1>1, <2>1, <3>2, BroadcastTold
    <3> QED BY <3>3 DEF m
  <2>5. Send(p, NextRoom, Ntf("ntf_history", history[NextRoom])) \in Seq(Mild(D)')
    <3>1. history[NextRoom] \in Seq(Chats)
      BY <2>1 DEF IInv, TypeOK, ChatTypeOK
    <3>2. Ntf("ntf_history", history[NextRoom]) \in Messages
      BY <3>1, MessageTypes DEF Kinds
    <3> QED BY <1>1, <2>1, <2>2, <3>2, SendTold
  <2>6. Welcome(p, n, NextRoom) \in Seq(Mild(D)')
    <3>1. <<>> \in Seq(Mild(D)')
      BY EmptySeq
    <3>2. (IF history[NextRoom] = <<>> THEN <<>>
           ELSE Send(p, NextRoom, Ntf("ntf_history", history[NextRoom]))) \in Seq(Mild(D)')
      BY <2>5, <3>1, Zenon
    <3> QED BY <2>4, <3>2, Together, Zenon DEF Welcome
  <2> QED BY <1>3, <2>3, <2>6, Together
<1> QED BY <1>2, <1>3 DEF Join

\* A chat that comes back from the filter is broadcast and remembered, or
\* goes to its target, whose room is looked up again.
LEMMA FilterDoneTold ==
    ASSUME IInv, NEW D \in SUBSET Connected, Targets(D), NEW r \in RoomIds, FilterDone(r)
    PROVE  \/ history' = history /\ out' \in Seq(Mild(D)')
           \/ \E x \in Chats, name \in NameSet \cup {Guest} :
                /\ x.no = Head(checking[r]).no /\ x.masked /\ name \in {x.from, Guest}
                /\ Head(checking[r]).to = NoAgent
                /\ AddMsg(r, <<x>>)
                /\ out' = <<[key |-> r, to |-> NoAgent,
                             msg |-> Ntf("ntf_room_chat", Chat1(x.no, name, TRUE))]>>
                /\ out' \in Seq(Told(D)')
<1> DEFINE job == Head(checking[r])
<1>1. status' = status /\ roomID' = roomID /\ checking[r] # <<>>
  BY DEF FilterDone, connVars, seatVars
<1>2. job \in JobsTo(D \cup {NoAgent}) /\ D \in SUBSET Agents
  <2> DEFINE S == JobsTo(D \cup {NoAgent})
  <2>1. checking \in [RoomIds -> Seq(S)] /\ checking[r] # <<>>
    BY <1>1 DEF Targets
  <2> HIDE DEF S
  <2>2. job \in S
    BY <2>1, QueueTaken
  <2>3. D \in SUBSET Agents
    BY DEF Connected
  <2> QED BY <2>2, <2>3 DEF S
<1>3. job.no \in 0..MaxChats /\ job.by \in Agents /\ username[job.by] \in NameSet
  BY <1>2, LimitsAssumption DEF JobsTo, IInv, TypeOK, ConnTypeOK
<1>4. \A name \in NameSet \cup {Guest}, kind \in Kinds :
         Ntf(kind, Chat1(job.no, name, TRUE)) \in Messages
  <2> HIDE DEF job
  <2>1. \A name \in NameSet \cup {Guest} : Chat1(job.no, name, TRUE) \in Seq(Chats)
    BY <1>3, ChatMessages, Zenon
  <2> QED BY <2>1, MessageTypes
<1>5. CASE /\ job.to = NoAgent
           /\ AddMsg(r, Chat1(job.no, username[job.by], TRUE))
           /\ out' = Broadcast(r, Ntf("ntf_room_chat", Chat1(job.no, ShownName(job.by), TRUE)))
  <2> DEFINE x == [no |-> job.no, from |-> username[job.by], masked |-> TRUE]
             name == ShownName(job.by)
             m == Ntf("ntf_room_chat", Chat1(job.no, name, TRUE))
             t == [key |-> r, to |-> NoAgent, msg |-> m]
  <2>1. name \in NameSet \cup {Guest} /\ name \in {username[job.by], Guest} /\ r \in 0..MaxRooms
    BY <1>3 DEF ShownName, RoomIds
  <2>2. x \in Chats /\ x.no = job.no /\ x.masked /\ x.from = username[job.by]
    BY <1>3 DEF Chats
  <2>3. AddMsg(r, <<x>>) /\ out' = <<t>>
    BY <1>5 DEF Chat1, Broadcast
  <2>4. m \in Messages
    BY <1>4, <2>1 DEF Kinds
  <2>5. t \in Told(D)'
    BY <2>1, <2>4 DEF Told, Tasks
  <2>6. out' \in Seq(Told(D)')
    <3> HIDE DEF t
    <3> QED BY <2>3, <2>5
  <2>7. out' = <<[key |-> r, to |-> NoAgent, msg |-> Ntf("ntf_room_chat", Chat1(x.no, name, TRUE))]>>
    BY <2>3
  <2> HIDE DEF name, x, m, t
  <2> QED BY <1>5, <2>1, <2>2, <2>3, <2>6, <2>7
<1>6. CASE /\ job.to # NoAgent
           /\ out' = Send(job.to, roomID[job.to],
                          Ntf("ntf_chat", Chat1(job.no, username[job.by], TRUE)))
           /\ UNCHANGED history
  <2>1. job.to \in D /\ status[job.to] \in {"live", "destroyed"} /\ roomID[job.to] \in 0..MaxRooms
    BY <1>2, <1>6 DEF JobsTo, Connected, IInv, TypeOK, ConnTypeOK, SeatTypeOK
  <2> HIDE DEF job
  <2>2. Ntf("ntf_chat", Chat1(job.no, username[job.by], TRUE)) \in Messages
    BY <1>3, <1>4 DEF Kinds
  <2>3. roomID'[job.to] = roomID[job.to]
    BY <1>1
  <2> QED BY <1>1, <1>2, <1>6, <2>1, <2>2, <2>3, SendTold
<1> QED BY <1>5, <1>6 DEF FilterDone

\* A private chat's target has been found in the agent's own room.
LEMMA ChatTold ==
    ASSUME IInv, NEW D \in SUBSET Connected, Targets(D), NEW p \in D, NEW n \in NameSet, Chat(p, n)
    PROVE  out' \in Seq(Mild(D)')
<1>1. status' = status /\ roomID' = roomID /\ p \in Agents /\ D \in SUBSET Agents
  BY DEF Chat, connVars, seatVars, Connected
<1>2. CASE ChatSent(p, n)
  <2> DEFINE q == playersByName[n]
             r == roomID[p]
  <2>1. /\ q \in D /\ r \in 0..MaxRooms /\ roomID[q] = r
        /\ status[q] \in {"live", "destroyed"}
    BY <1>1, <1>2 DEF ChatSent, ChatTarget, Targets, Connected, IInv, TypeOK, SeatTypeOK,
                ConnTypeOK
  <2>2. Chat1(posted + 1, username[p], FALSE) \in Seq(Chats)
    <3>1. posted + 1 \in 0..MaxChats /\ username[p] \in NameSet
      BY <1>1, LimitsAssumption DEF Chat, IInv, TypeOK, ConnTypeOK, ChatTypeOK
    <3> QED BY <3>1, ChatMessages, Zenon
  <2>3. Ntf("ntf_chat", Chat1(posted + 1, username[p], FALSE)) \in Messages
    BY <2>2, MessageTypes DEF Kinds
  <2>4. Send(q, r, Ntf("ntf_chat", Chat1(posted + 1, username[p], FALSE))) \in Seq(Mild(D)')
    BY <1>1, <2>1, <2>3, SendTold
  <2>5. Send(p, r, Rsp("rsp_chat", TRUE)) \in Seq(Mild(D)')
    BY <1>1, AnswerTold DEF Kinds
  <2> QED BY <1>2, <2>4, <2>5, Together DEF ChatSent
<1>3. CASE ChatRefused(p, n)
  BY <1>1, <1>3, AnswerTold DEF ChatRefused, Kinds
<1> QED BY <1>2, <1>3 DEF Chat

LEMMA CommandTold ==
    ASSUME IInv, NEW D \in SUBSET Connected, NEW p \in D, NEW words \in 1..3, NEW cmd \in Commands,
           RoomCommand(p, words, cmd)
    PROVE  out' \in Seq(Mild(D)')
<1>1. status' = status /\ roomID' = roomID /\ D \in SUBSET Agents /\ roomID[p] \in RoomIds
  BY DEF RoomCommand, connVars, seatVars, Connected, IInv, TypeOK, SeatTypeOK
<1>2. /\ GMResult(roomID[p]) \in Seq(Mild(D)') /\ <<>> \in Seq(Mild(D)')
      /\ Send(p, roomID[p], Rsp("rsp_room_chat", TRUE)) \in Seq(Mild(D)')
  BY <1>1, GMResultTold, EmptySeq, AnswerTold DEF Kinds
<1> DEFINE complaint == IF words = 2 THEN <<>> ELSE GMResult(roomID[p])
           answered  == \/ cmd.verb = "other"
                        \/ cmd.verb = "stats" /\ playersByName[cmd.arg] # NoAgent
           result    == IF answered THEN GMResult(roomID[p]) ELSE <<>>
<1>3. complaint \in Seq(Mild(D)') /\ result \in Seq(Mild(D)')
  BY <1>2, Zenon
<1>4. \/ out' = complaint
      \/ out' = complaint \o result \o Send(p, roomID[p], Rsp("rsp_room_chat", TRUE))
  BY Zenon DEF RoomCommand
<1> HIDE DEF complaint, result
<1>5. complaint \o result \in Seq(Mild(D)')
  BY <1>3, Together
<1>6. complaint \o result \o Send(p, roomID[p], Rsp("rsp_room_chat", TRUE)) \in Seq(Mild(D)')
  BY <1>2, <1>5, Together
<1> QED BY <1>3, <1>4, <1>6

\* Requests come from agents that are there; the others have no effect.
LEMMA Requesters ==
    \A p \in Agents : Request(p) => p \in Connected \/ out' = <<>>
<1> SUFFICES ASSUME NEW p \in Agents, Request(p) PROVE p \in Connected \/ out' = <<>>
  OBVIOUS
<1>1. status[p] = "live" => p \in Connected
  BY DEF Connected
<1>2. Ready(p) \/ Live(p) => status[p] = "live"
  BY DEF Ready, Live
<1>3. CASE Ignored(p)
  BY <1>1, <1>2, <1>3 DEF Ignored
<1>4. CASE RoomChat(p) \/ \E n \in NameSet : Chat(p, n)
  BY <1>1, <1>2, <1>4 DEF RoomChat, Chat
<1>5. CASE \E words \in 1..3, cmd \in Commands : RoomCommand(p, words, cmd)
  BY <1>1, <1>2, <1>5 DEF RoomCommand
<1>6. CASE JoinRoom(p) \/ Heartbeat(p) \/ RoomList(p) \/ \E n \in NameSet : Login(p, n)
  BY <1>1, <1>2, <1>6 DEF JoinRoom, Heartbeat, RoomList, Login
<1> QED BY <1>3, <1>4, <1>5, <1>6 DEF Request

\* Every other step broadcasts no player's chat and remembers none.
LEMMA MildSteps ==
    ASSUME IInv, NEW D \in SUBSET Connected, Targets(D), Next,
           \A p \in Agents : Request(p) => p \in D \/ out' = <<>>
    PROVE  \/ history' = history /\ out' \in Seq(Mild(D)')
           \/ \E r \in RoomIds : FilterDone(r)
<1>1. ASSUME NEW p \in Agents, Request(p) \/ Connect(p) \/ Destroy(p) PROVE history' = history
  BY <1>1 DEF Request, Connect, Destroy, Login, JoinRoom, Heartbeat, RoomList, Ignored, RoomChat,
              RoomCommand, Chat, chatVars
<1>2. ASSUME NEW p \in D, NEW n \in NameSet, Login(p, n) PROVE out' \in Seq(Mild(D)')
  BY <1>2, JoinTold DEF Login, Kinds
<1>3. ASSUME NEW p \in D, JoinRoom(p) PROVE out' \in Seq(Mild(D)')
  <2>1. username[p] \in NameSet
    BY DEF Connected, IInv, TypeOK, ConnTypeOK
  <2> QED BY <1>3, <2>1, JoinTold DEF JoinRoom, Ready, Kinds, connVars
<1>4. ASSUME NEW p \in D, Heartbeat(p) \/ RoomList(p) \/ RoomChat(p)
      PROVE  out' \in Seq(Mild(D)')
  <2>1. status' = status /\ roomID' = roomID
    BY <1>4 DEF Heartbeat, RoomList, RoomChat, connVars, seatVars
  <2>2. PICK kind \in Kinds : out' = Send(p, roomID[p], Rsp(kind, TRUE))
    BY <1>4 DEF Heartbeat, RoomList, RoomChat, Kinds
  <2> QED BY <2>1, <2>2, AnswerTold
<1>5. ASSUME out' = <<>> PROVE out' \in Seq(Mild(D)')
  BY <1>5, EmptySeq
<1>6. ASSUME NEW p \in Agents, Connect(p) \/ Destroy(p) \/ Ignored(p) PROVE out' = <<>>
  BY <1>6 DEF Connect, Destroy, Ignored
<1>7. ASSUME NEW r \in RoomIds, RunSubmitted(r) \/ FilterLost(r)
      PROVE  out' = <<>> /\ history' = history
  BY <1>7 DEF RunSubmitted, FilterLost
<1>8. ASSUME PopularAnswered PROVE history' = history /\ out' \in Seq(Mild(D)')
  <2>1. Head(queries) \in RoomIds
    BY <1>8 DEF PopularAnswered, IInv, TypeOK, ChatTypeOK
  <2>2. D \in SUBSET Agents
    BY DEF Connected
  <2> QED BY <1>8, <2>1, <2>2, GMResultTold DEF PopularAnswered
<1>9. ASSUME NEW p \in Agents, Request(p) PROVE out' \in Seq(Mild(D)')
  BY <1>2, <1>3, <1>4, <1>5, <1>6, <1>9, CommandTold, ChatTold DEF Request
<1> QED BY <1>1, <1>5, <1>6, <1>7, <1>8, <1>9 DEF Next

LEMMA MildIsTold ==
    ASSUME NEW D, out' \in Seq(Mild(D)')
    PROVE  out' \in Seq(Told(D)')
<1>1. Mild(D)' \subseteq Told(D)'
  BY DEF Mild
<1> QED BY <1>1, SeqMonotonic

\* Every step's tasks are for rooms, and for those of whom it is known that a
\* request comes from them and that names and jobs mean them.
LEMMA ToldSteps ==
    ASSUME IInv, NEW D \in SUBSET Connected, Targets(D), Next,
           \A p \in Agents : Request(p) => p \in D \/ out' = <<>>
    PROVE  out' \in Seq(Told(D)')
BY MildSteps, FilterDoneTold, MildIsTold

LEMMA OutStep ==
    ASSUME IInv, TargetsConnected, OutReachesTheLiving, [Next]_vars
    PROVE  OutReachesTheLiving'
<1>1. CASE UNCHANGED vars
  BY <1>1 DEF vars, connVars, seatVars, OutReachesTheLiving
<1>2. CASE Next
  <2>1. PICK C : C = Connected
    OBVIOUS
  <2>2. out' \in Seq(Told(C)')
    BY <1>2, <2>1, Requesters, ToldSteps DEF TargetsConnected
  <2> QED BY <2>2, ToldAreRight
<1> QED BY <1>1, <1>2

-----------------------------------------------------------------------------
(* The order of a room's chats. *)

\* What HistoryInOrder and NumbersTaken say of a room whose history is h and
\* whose filter has the jobs c, when n chats have been made.
InOrder(h, c, n) ==
    /\ Len(h) <= HistoryCap
    /\ \A i, j \in 1..Len(h) : i < j => h[i].no < h[j].no
    /\ \A i \in 1..Len(c) :
          c[i].to = NoAgent =>
             /\ \A j \in 1..Len(h) : h[j].no < c[i].no
             /\ \A j \in 1..i-1 : c[j].to = NoAgent => c[j].no < c[i].no
    /\ \A i \in 1..Len(h) : h[i].no <= n
    /\ \A i \in 1..Len(c) : c[i].to = NoAgent => c[i].no <= n

RoomsInOrder == \A r \in RoomIds : InOrder(history[r], checking[r], posted)

LEMMA RoomsInOrderIs == RoomsInOrder <=> HistoryInOrder /\ NumbersTaken
BY DEF RoomsInOrder, InOrder, HistoryInOrder, NumbersTaken

LEMMA RoomsInOrderAfter == RoomsInOrder' <=> HistoryInOrder' /\ NumbersTaken'
BY RoomsInOrderIs, PTL

\* A job that joins the queue: a room chat with a new number, or a private one.
LEMMA JobComes ==
    ASSUME NEW h \in Seq(Chats), NEW c \in Seq(Jobs), NEW n \in Nat, NEW job \in Jobs,
           InOrder(h, c, n), job.to = NoAgent => job.no = n + 1,
           NEW m \in Nat, n <= m, job.to = NoAgent => m = n + 1
    PROVE  InOrder(h, Append(c, job), m)
<1>1. /\ Len(c) \in Nat /\ Len(h) \in Nat /\ Len(Append(c, job)) = Len(c) + 1
      /\ \A i \in 1..Len(c) : Append(c, job)[i] = c[i] /\ c[i] \in Jobs
      /\ Append(c, job)[Len(c) + 1] = job
      /\ \A i \in 1..Len(h) : h[i] \in Chats
  BY AppendProperties, ElementOfSeq, LenProperties
<1>2. /\ \A i \in 1..Len(c) : c[i].no \in Nat
      /\ \A i \in 1..Len(h) : h[i].no \in Nat
      /\ job.no \in Nat
  BY <1>1, LimitsAssumption DEF Jobs, Chats
<1> DEFINE d == Append(c, job)
<1> HIDE DEF d
<1>3. /\ Len(d) = Len(c) + 1 /\ d[Len(c) + 1] = job
      /\ \A i \in 1..Len(c) : d[i] = c[i]
  BY <1>1 DEF d
<1>4. ASSUME NEW i \in 1..Len(d), d[i].to = NoAgent
      PROVE  /\ \A j \in 1..Len(h) : h[j].no < d[i].no
             /\ \A j \in 1..i-1 : d[j].to = NoAgent => d[j].no < d[i].no
             /\ d[i].no <= m
  <2>1. CASE i \in 1..Len(c)
    <3>1. d[i] = c[i] /\ \A j \in 1..i-1 : j \in 1..Len(c) /\ d[j] = c[j]
      BY <1>1, <1>3, <2>1
    <3>2. c[i].no <= n
      BY <1>4, <2>1, <3>1 DEF InOrder
    <3> QED BY <1>2, <1>4, <2>1, <3>1, <3>2 DEF InOrder
  <2>2. CASE i = Len(c) + 1
    <3>1. d[i] = job /\ job.no = n + 1 /\ m = n + 1
      BY <1>3, <1>4, <2>2
    <3>2. \A j \in 1..i-1 : j \in 1..Len(c) /\ d[j] = c[j]
      BY <1>1, <1>3, <2>2
    <3>3. \A j \in 1..Len(h) : h[j].no <= n
      BY DEF InOrder
    <3>4. \A j \in 1..Len(c) : c[j].to = NoAgent => c[j].no <= n
      BY DEF InOrder
    <3>5. \A j \in 1..Len(h) : h[j].no < n + 1
      BY <1>2, <3>3
    <3>6. ASSUME NEW j \in 1..i-1, d[j].to = NoAgent PROVE d[j].no < n + 1
      <4>1. j \in 1..Len(c) /\ c[j].to = NoAgent /\ d[j].no = c[j].no
        BY <3>2, <3>6
      <4> QED BY <1>2, <3>4, <4>1
    <3>7. d[i].no = n + 1
      BY <3>1
    <3> QED BY <3>1, <3>5, <3>6, <3>7
  <2> QED BY <1>1, <1>3, <2>1, <2>2
<1>5. \A i \in 1..Len(h) : h[i].no <= m
  BY <1>2 DEF InOrder
<1>6. InOrder(h, d, m)
  BY <1>4, <1>5 DEF InOrder
<1> QED BY <1>6 DEF d

\* More chats elsewhere.
LEMMA NumbersGrow ==
    ASSUME NEW h \in Seq(Chats), NEW c \in Seq(Jobs), NEW n \in Nat, NEW m \in Nat, n <= m,
           InOrder(h, c, n)
    PROVE  InOrder(h, c, m)
<1>1. /\ \A i \in 1..Len(c) : c[i] \in Jobs
      /\ \A i \in 1..Len(h) : h[i] \in Chats
  BY ElementOfSeq
<1>2. /\ \A i \in 1..Len(c) : c[i].no \in Nat
      /\ \A i \in 1..Len(h) : h[i].no \in Nat
  BY <1>1, LimitsAssumption DEF Jobs, Chats
<1> QED BY <1>2 DEF InOrder

\* The oldest job leaves the queue.
LEMMA JobGoes ==
    ASSUME NEW h \in Seq(Chats), NEW c \in Seq(Jobs), c # <<>>, NEW n \in Nat, InOrder(h, c, n)
    PROVE  InOrder(h, Tail(c), n)
<1> DEFINE d == Tail(c)
<1>1. /\ Len(c) \in Nat /\ Len(d) = Len(c) - 1
      /\ \A i \in 1..Len(d) : d[i] = c[i + 1]
  BY HeadTailProperties, LenProperties
<1> HIDE DEF d
<1>2. ASSUME NEW i \in 1..Len(d), d[i].to = NoAgent
      PROVE  /\ \A j \in 1..Len(h) : h[j].no < d[i].no
             /\ \A j \in 1..i-1 : d[j].to = NoAgent => d[j].no < d[i].no
             /\ d[i].no <= n
  <2>1. d[i] = c[i + 1] /\ i + 1 \in 1..Len(c)
    BY <1>1
  <2>2. ASSUME NEW j \in 1..i-1 PROVE d[j] = c[j + 1] /\ j + 1 \in 1..(i + 1) - 1
    <3>1. j \in 1..Len(d) /\ j + 1 \in 1..(i + 1) - 1
      BY <1>1
    <3> QED BY <1>1, <3>1
  <2> QED BY <1>2, <2>1, <2>2 DEF InOrder
<1>3. InOrder(h, d, n)
  BY <1>2 DEF InOrder
<1> QED BY <1>3 DEF d

\* What AddMsg keeps of a history: all of it, or all but the oldest.
Kept(h) == IF Len(h) >= HistoryCap THEN Tail(h) ELSE h

LEMMA KeptProperties ==
    ASSUME NEW h \in Seq(Chats), Len(h) <= HistoryCap, NEW x \in Chats
    PROVE  /\ Kept(h) \in Seq(Chats) /\ Kept(h) \o <<x>> = Append(Kept(h), x)
           /\ Len(Kept(h)) \in Nat /\ Len(Kept(h)) < HistoryCap
           /\ \E d \in {0, 1} : /\ Len(h) = Len(Kept(h)) + d
                                /\ \A i \in 1..Len(Kept(h)) : Kept(h)[i] = h[i + d]
<1>1. Len(h) \in Nat /\ HistoryCap \in Nat \ {0}
  BY LenProperties, LimitsAssumption
<1>2. CASE Len(h) >= HistoryCap
  <2>1. Kept(h) = Tail(h) /\ h # <<>>
    BY <1>1, <1>2, EmptySeq DEF Kept
  <2>2. /\ Tail(h) \in Seq(Chats) /\ Len(Tail(h)) = Len(h) - 1
        /\ \A i \in 1..Len(Tail(h)) : Tail(h)[i] = h[i + 1]
    BY <2>1, HeadTailProperties
  <2> QED BY <1>1, <2>1, <2>2, AppendIsConcat
<1>3. CASE ~(Len(h) >= HistoryCap)
  <2>1. Kept(h) = h
    BY <1>3 DEF Kept
  <2> QED BY <1>1, <1>3, <2>1, AppendIsConcat
<1> QED BY <1>2, <1>3

\* The oldest job is a room chat: it becomes the newest of the history.
LEMMA ChatShown ==
    ASSUME NEW h \in Seq(Chats), NEW c \in Seq(Jobs), c # <<>>, NEW n \in Nat, InOrder(h, c, n),
           NEW x \in Chats, Head(c).to = NoAgent, x.no = Head(c).no
    PROVE  InOrder(Kept(h) \o <<x>>, Tail(c), n)
<1>1. /\ Len(c) \in Nat \ {0} /\ Head(c) = c[1] /\ 1 \in 1..Len(c)
      /\ Len(Tail(c)) = Len(c) - 1 /\ \A i \in 1..Len(Tail(c)) : Tail(c)[i] = c[i + 1]
  BY AfterFront
<1>2. Len(h) <= HistoryCap /\ Len(h) \in Nat
  BY LenProperties DEF InOrder
<1> DEFINE k == Kept(h)
           g == Append(k, x)
<1>3. /\ k \in Seq(Chats) /\ k \o <<x>> = g /\ Len(k) \in Nat /\ Len(k) < HistoryCap
      /\ \E d \in {0, 1} : /\ Len(h) = Len(k) + d /\ \A i \in 1..Len(k) : k[i] = h[i + d]
  BY <1>2, KeptProperties
<1> HIDE DEF k
<1>4. PICK d \in {0, 1} : Len(h) = Len(k) + d /\ \A i \in 1..Len(k) : k[i] = h[i + d]
  BY <1>3
<1>5. /\ Len(g) = Len(k) + 1 /\ g[Len(k) + 1] = x
      /\ \A i \in 1..Len(k) : g[i] = k[i]
  BY <1>3, AppendProperties
<1> HIDE DEF g
<1>6. \A i \in 1..Len(k) : g[i] = h[i + d] /\ i + d \in 1..Len(h)
  BY <1>3, <1>4, <1>5
<1>7. \A i \in 1..Len(h) : h[i].no < x.no
  BY <1>1 DEF InOrder
<1>8. Len(g) <= HistoryCap
  BY <1>3, <1>5, LimitsAssumption
<1>9. \A i, j \in 1..Len(g) : i < j => g[i].no < g[j].no
  <2>1. ASSUME NEW i \in 1..Len(g), NEW j \in 1..Len(g), i < j PROVE g[i].no < g[j].no
    <3>1. i \in 1..Len(k)
      BY <1>3, <1>5, <2>1
    <3>2. CASE j \in 1..Len(k)
      <4>1. i + d < j + d
        BY <2>1, <3>1, <3>2
      <4> QED BY <1>6, <3>1, <3>2, <4>1 DEF InOrder
    <3>3. CASE j = Len(k) + 1
      BY <1>5, <1>6, <1>7, <3>1, <3>3
    <3> QED BY <1>3, <1>5, <3>2, <3>3
  <2> QED BY <2>1
<1>10. x.no <= n
  BY <1>1 DEF InOrder
<1>11. \A i \in 1..Len(g) : g[i].no <= n
  <2>1. \A i \in 1..Len(g) : i \in 1..Len(k) \/ i = Len(k) + 1
    BY <1>3, <1>5
  <2>2. \A i \in 1..Len(h) : h[i].no <= n
    BY DEF InOrder
  <2> QED BY <1>5, <1>6, <1>10, <2>1, <2>2
<1> DEFINE e == Tail(c)
<1> HIDE DEF e
<1>12. Len(e) = Len(c) - 1 /\ \A i \in 1..Len(e) : e[i] = c[i + 1] /\ i + 1 \in 1..Len(c)
  BY <1>1 DEF e
<1>13. ASSUME NEW i \in 1..Len(e), e[i].to = NoAgent
       PROVE  /\ \A j \in 1..Len(g) : g[j].no < e[i].no
              /\ \A j \in 1..i-1 : e[j].to = NoAgent => e[j].no < e[i].no
              /\ e[i].no <= n
  <2>1. e[i] = c[i + 1] /\ i + 1 \in 1..Len(c) /\ 1 \in 1..(i + 1) - 1
    BY <1>12
  <2>2. x.no < e[i].no
    BY <1>1, <1>13, <2>1 DEF InOrder
  <2>3. \A j \in 1..Len(g) : g[j].no < e[i].no
    <3>1. \A j \in 1..Len(g) : j \in 1..Len(k) \/ j = Len(k) + 1
      BY <1>3, <1>5
    <3>2. \A j \in 1..Len(h) : h[j].no < e[i].no
      BY <1>13, <2>1 DEF InOrder
    <3>3. ASSUME NEW j \in 1..Len(g) PROVE g[j].no < e[i].no
      <4>1. CASE j \in 1..Len(k)
        <5>1. g[j] = h[j + d] /\ j + d \in 1..Len(h)
          BY <1>6, <4>1
        <5> QED BY <3>2, <5>1
      <4>2. CASE j = Len(k) + 1
        BY <1>5, <2>2, <4>2
      <4> QED BY <3>1, <4>1, <4>2
    <3> QED BY <3>3
  <2>4. \A j \in 1..i-1 : e[j] = c[j + 1] /\ j + 1 \in 1..(i + 1) - 1
    BY <1>1, <1>12
  <2> QED BY <1>13, <2>1, <2>3, <2>4 DEF InOrder
<1>14. InOrder(g, e, n)
  BY <1>8, <1>9, <1>11, <1>13 DEF InOrder
<1> QED BY <1>3, <1>14 DEF e, k

\* What each step does to a room's history and to its filter's jobs.
LEMMA OrderStep ==
    ASSUME IInv, TargetsConnected, RoomsInOrder, [Next]_vars
    PROVE  RoomsInOrder'
<1>1. /\ history \in [RoomIds -> Seq(Chats)] /\ checking \in [RoomIds -> Seq(Jobs)]
      /\ submitted \in [RoomIds -> Seq(JobsTo(Connected))] /\ posted \in Nat
      /\ posted \in 0..MaxChats
  BY LimitsAssumption DEF IInv, TypeOK, ChatTypeOK, TargetsConnected, Targets
<1>2. \A r \in RoomIds : InOrder(history[r], checking[r], posted)
  BY DEF RoomsInOrder
<1>3. CASE UNCHANGED <<history, checking, posted>>
  BY <1>2, <1>3 DEF RoomsInOrder
<1>4. ASSUME NEW p \in Agents, RoomChat(p) PROVE RoomsInOrder'
  <2> DEFINE job == [by |-> p, to |-> NoAgent, no |-> posted + 1]
  <2>1. /\ posted + 1 \in 1..MaxChats /\ posted' = posted + 1 /\ history' = history
        /\ \/ checking' = checking
           \/ roomID[p] \in RoomIds /\ checking' = [checking EXCEPT ![roomID[p]] = Append(@, job)]
    BY <1>4, LimitsAssumption DEF RoomChat, IInv, TypeOK, ChatTypeOK, SeatTypeOK
  <2>2. job \in Jobs /\ job.to = NoAgent /\ job.no = posted + 1
    BY <2>1 DEF Jobs
  <2> HIDE DEF job
  <2>3. posted + 1 \in Nat /\ posted <= posted + 1
    BY <1>1
  <2>4. ASSUME NEW r \in RoomIds PROVE InOrder(history'[r], checking'[r], posted')
    <3>1. history[r] \in Seq(Chats) /\ checking[r] \in Seq(Jobs)
      BY <1>1
    <3>2. InOrder(history[r], checking[r], posted + 1)
      BY <1>1, <1>2, <2>3, <3>1, NumbersGrow
    <3>3. InOrder(history[r], Append(checking[r], job), posted + 1)
      BY <1>1, <1>2, <2>2, <2>3, <3>1, JobComes
    <3>4. checking'[r] = checking[r] \/ checking'[r] = Append(checking[r], job)
      BY <1>1, <2>1
    <3> QED BY <2>1, <3>2, <3>3, <3>4
  <2> QED BY <2>4 DEF RoomsInOrder
<1>5. ASSUME NEW p \in Agents, NEW n \in NameSet, Chat(p, n) PROVE RoomsInOrder'
  <2>1. posted' = posted + 1 /\ UNCHANGED <<history, checking>>
    BY <1>5 DEF Chat
  <2>2. ASSUME NEW r \in RoomIds PROVE InOrder(history'[r], checking'[r], posted')
    <3>1. history[r] \in Seq(Chats) /\ checking[r] \in Seq(Jobs)
      BY <1>1
    <3>2. InOrder(history[r], checking[r], posted + 1)
      BY <1>1, <1>2, <3>1, NumbersGrow
    <3> QED BY <2>1, <3>2
  <2> QED BY <2>2 DEF RoomsInOrder
<1>6. ASSUME NEW q \in RoomIds, RunSubmitted(q) PROVE RoomsInOrder'
  <2> DEFINE job == Head(submitted[q])
  <2>1. /\ submitted[q] # <<>> /\ UNCHANGED <<history, posted>>
        /\ checking' = checking \/ checking' = [checking EXCEPT ![q] = Append(@, job)]
    BY <1>6 DEF RunSubmitted
  <2>2. job \in JobsTo(Connected)
    BY <1>1, <2>1, QueueTaken
  <2>3. job \in Jobs /\ job.to # NoAgent
    BY <2>2, AgentsAssumption DEF JobsTo, Jobs, Connected
  <2> HIDE DEF job
  <2>4. ASSUME NEW r \in RoomIds PROVE InOrder(history'[r], checking'[r], posted')
    <3>1. history[r] \in Seq(Chats) /\ checking[r] \in Seq(Jobs)
      BY <1>1
    <3>2. posted <= posted
      BY <1>1
    <3>3. InOrder(history[r], Append(checking[r], job), posted)
      BY <1>1, <1>2, <2>3, <3>1, <3>2, JobComes
    <3>4. checking'[r] = checking[r] \/ checking'[r] = Append(checking[r], job)
      BY <1>1, <2>1
    <3> QED BY <1>2, <2>1, <3>3, <3>4
  <2> QED BY <2>4 DEF RoomsInOrder
<1>7. ASSUME NEW q \in RoomIds, FilterDone(q) \/ FilterLost(q) PROVE RoomsInOrder'
  <2> DEFINE job == Head(checking[q])
             x == [no |-> job.no, from |-> username[job.by], masked |-> TRUE]
  <2>1. /\ checking[q] # <<>> /\ posted' = posted
        /\ checking' = [checking EXCEPT ![q] = Tail(@)]
        /\ \/ history' = history
           \/ job.to = NoAgent /\ history' = [history EXCEPT ![q] = Kept(@) \o <<x>>]
    BY <1>7 DEF FilterDone, FilterLost, AddMsg, Kept, Chat1
  <2>2. job \in Jobs
    BY <1>1, <2>1, QueueTaken
  <2>3. x \in Chats /\ x.no = job.no
    BY <2>2, LimitsAssumption DEF Jobs, Chats, IInv, TypeOK, ConnTypeOK
  <2> HIDE DEF x
  <2>4. ASSUME NEW r \in RoomIds PROVE InOrder(history'[r], checking'[r], posted')
    <3>1. history[r] \in Seq(Chats) /\ checking[r] \in Seq(Jobs)
      BY <1>1
    <3>2. CASE r # q
      <4>1. history'[r] = history[r] /\ checking'[r] = checking[r]
        BY <1>1, <2>1, <3>2
      <4> QED BY <1>2, <2>1, <4>1
    <3>3. CASE r = q
      <4>1. checking'[r] = Tail(checking[r]) /\ checking[r] # <<>>
        BY <1>1, <2>1, <3>3
      <4>2. CASE history' = history
        <5>1. InOrder(history[r], Tail(checking[r]), posted)
          BY <1>1, <1>2, <3>1, <4>1, JobGoes
        <5> QED BY <2>1, <4>1, <4>2, <5>1
      <4>3. CASE job.to = NoAgent /\ history' = [history EXCEPT ![q] = Kept(@) \o <<x>>]
        <5>1. history'[r] = Kept(history[r]) \o <<x>>
          BY <1>1, <3>3, <4>3
        <5>2. Head(checking[r]).to = NoAgent /\ x.no = Head(checking[r]).no
          BY <2>3, <3>3, <4>3
        <5>3. InOrder(Kept(history[r]) \o <<x>>, Tail(checking[r]), posted)
          BY <1>1, <1>2, <2>3, <3>1, <4>1, <5>2, ChatShown
        <5> QED BY <2>1, <4>1, <5>1, <5>3
      <4> QED BY <2>1, <4>2, <4>3
    <3> QED BY <3>2, <3>3
  <2> QED BY <2>4 DEF RoomsInOrder
<1>8. ASSUME NEW p \in Agents,
             \/ Connect(p) \/ Destroy(p) \/ (\E n \in NameSet : Login(p, n)) \/ JoinRoom(p)
             \/ Heartbeat(p) \/ RoomList(p) \/ Ignored(p)
             \/ \E words \in 1..3, cmd \in Commands : RoomCommand(p, words, cmd)
      PROVE  UNCHANGED <<history, checking, posted>>
  BY <1>8 DEF Connect, Destroy, Login, JoinRoom, Heartbeat, RoomList, Ignored, RoomCommand, chatVars
<1>9. CASE PopularAnswered \/ UNCHANGED vars
  BY <1>3, <1>9 DEF PopularAnswered, vars, chatVars
<1> QED BY <1>3, <1>4, <1>5, <1>6, <1>7, <1>8, <1>9 DEF Next, Request

LEMMA ChatInit == Init => ChatInv /\ OutReachesTheLiving
<1> SUFFICES ASSUME Init PROVE ChatInv /\ OutReachesTheLiving
  OBVIOUS
<1>1. IInv
  BY InitIInv
<1>2. TargetsConnected
  BY EmptySeq DEF Init, TargetsConnected, Targets
<1>3. NumbersTaken /\ HistoryInOrder
  BY LimitsAssumption DEF Init, NumbersTaken, HistoryInOrder
<1>4. OutReachesTheLiving
  BY DEF Init, OutReachesTheLiving
<1> QED BY <1>1, <1>2, <1>3, <1>4 DEF ChatInv

LEMMA ChatStep == ChatInv /\ [Next]_vars => ChatInv'
BY NextIInv, TargetsStep, OrderStep, RoomsInOrderIs, RoomsInOrderAfter DEF ChatInv

LEMMA ChatAlways == Spec => [](ChatInv /\ OutReachesTheLiving)
<1>1. ChatInv /\ OutReachesTheLiving /\ [Next]_vars => ChatInv' /\ OutReachesTheLiving'
  BY ChatStep, OutStep DEF ChatInv
<1> QED BY <1>1, ChatInit, PTL DEF Spec

-----------------------------------------------------------------------------
(* What is broadcast is what is remembered. *)

\* The chats of players that a step broadcasts to a room, and what
\* BroadcastsAreRemembered says of it.
ToldTo(r) == {t \in {out'[i] : i \in 1..Len(out')} :
                /\ t.key = r /\ t.to = NoAgent
                /\ t.msg.kind = "ntf_room_chat" /\ t.msg.chats[1].no # 0}

Remembers(r) ==
    IF history'[r] = history[r] THEN ToldTo(r) = {}
    ELSE /\ history'[r] # <<>>
         /\ \E t \in ToldTo(r) :
              LET c == history'[r][Len(history'[r])]
              IN  /\ t.msg.chats[1].no = c.no
                  /\ t.msg.chats[1].from \in {c.from, Guest}
                  /\ c.masked /\ t.msg.chats[1].masked
LEMMA MildRemembers ==
    ASSUME NEW D, out' \in Seq(Mild(D)'), history' = history
    PROVE  \A r \in RoomIds : Remembers(r)
<1>1. \A i \in 1..Len(out') : out'[i] \in Mild(D)'
  BY ElementOfSeq
<1>2. \A i \in 1..Len(out') : Quiet(out'[i])
  BY <1>1 DEF Mild
<1> QED BY <1>2 DEF Quiet, Remembers, ToldTo

\* The chat that the filter has finished with is newer than all the room
\* remembers, so that the history does change.
LEMMA FilterDoneRemembers ==
    ASSUME IInv, TargetsConnected, RoomsInOrder, NEW q \in RoomIds, FilterDone(q)
    PROVE  \A r \in RoomIds : Remembers(r)
<1> PICK C : C = Connected
  OBVIOUS
<1>1. CASE history' = history /\ out' \in Seq(Mild(C)')
  BY <1>1, MildRemembers
<1>2. ASSUME NEW x \in Chats, NEW name \in NameSet \cup {Guest},
             x.no = Head(checking[q]).no, x.masked, name \in {x.from, Guest},
             Head(checking[q]).to = NoAgent, AddMsg(q, <<x>>),
             out' = <<[key |-> q, to |-> NoAgent,
                       msg |-> Ntf("ntf_room_chat", Chat1(x.no, name, TRUE))]>>
      PROVE  \A r \in RoomIds : Remembers(r)
  <2> DEFINE t == [key |-> q, to |-> NoAgent,
                   msg |-> Ntf("ntf_room_chat", Chat1(x.no, name, TRUE))]
             h == history[q]
             c == checking[q]
             g == Append(Kept(h), x)
  <2>1. /\ t.key = q /\ t.to = NoAgent /\ t.msg.kind = "ntf_room_chat"
        /\ t.msg.chats[1].no = x.no /\ t.msg.chats[1].from = name /\ t.msg.chats[1].masked = TRUE
    BY DEF Ntf, Chat1
  <2> HIDE DEF t
  <2>2. out' = <<t>>
    BY <1>2 DEF t
  <2>3. {out'[i] : i \in 1..Len(out')} = {t}
    BY <2>2
  <2>4. h \in Seq(Chats) /\ c \in Seq(Jobs) /\ c # <<>> /\ InOrder(h, c, posted)
    BY DEF IInv, TypeOK, ChatTypeOK, FilterDone, RoomsInOrder
  <2>5. Len(h) <= HistoryCap
    BY <2>4 DEF InOrder
  <2>6. history' = [history EXCEPT ![q] = Kept(h) \o <<x>>]
    BY <1>2 DEF AddMsg, Kept
  <2>7. Head(c) = c[1] /\ 1 \in 1..Len(c) /\ Head(c) \in Jobs
    BY <2>4, AfterFront
  <2> HIDE DEF h, c
  <2>8. /\ Kept(h) \o <<x>> = g /\ Kept(h) \in Seq(Chats)
        /\ Len(g) \in Nat \ {0} /\ g[Len(g)] = x /\ g # <<>> /\ g \in Seq(Chats)
    BY <2>4, <2>5, KeptProperties, AppendProperties, EmptySeq
  <2> HIDE DEF g
  <2>9. g # h
    <3>1. \A j \in 1..Len(h) : h[j].no < x.no
      BY <1>2, <2>7 DEF InOrder, c, h, RoomsInOrder
    <3>2. x.no \in Nat
      BY LimitsAssumption DEF Chats
    <3>3. ASSUME g = h PROVE FALSE
      <4>1. Len(g) \in 1..Len(h) /\ h[Len(g)] = x
        BY <2>8, <3>3
      <4>2. x.no < x.no
        BY <3>1, <4>1
      <4> QED BY <3>2, <4>2
    <3> QED BY <3>3
  <2>10. history \in [RoomIds -> Seq(Chats)]
    BY DEF IInv, TypeOK, ChatTypeOK
  <2>11. x.no # 0
    <3>1. Head(c).no \in 1..MaxChats
      BY <2>7 DEF Jobs
    <3> QED BY <1>2, <3>1 DEF c
  <2>12. ASSUME NEW r \in RoomIds, r # q PROVE Remembers(r)
    <3>1. history'[r] = history[r]
      BY <2>6, <2>10, <2>12
    <3>2. ToldTo(r) = {}
      BY <2>1, <2>3, <2>12 DEF ToldTo
    <3> QED BY <3>1, <3>2 DEF Remembers
  <2>13. Remembers(q)
    <3>1. history'[q] = g /\ history'[q] # history[q]
      BY <2>6, <2>8, <2>9, <2>10 DEF h
    <3>2. t \in ToldTo(q)
      BY <2>1, <2>3, <2>11 DEF ToldTo
    <3>3. /\ t.msg.chats[1].no = g[Len(g)].no
          /\ t.msg.chats[1].from \in {g[Len(g)].from, Guest}
          /\ g[Len(g)].masked /\ t.msg.chats[1].masked
      BY <1>2, <2>1, <2>8
    <3> QED BY <2>8, <3>1, <3>2, <3>3 DEF Remembers
  <2> QED BY <2>12, <2>13
<1> QED BY <1>1, <1>2, FilterDoneTold DEF TargetsConnected

LEMMA StepRemembers ==
    ASSUME ChatInv, [Next]_vars
    PROVE  (\A r \in RoomIds : Remembers(r)) \/ UNCHANGED vars
<1>1. IInv /\ TargetsConnected /\ RoomsInOrder
  BY RoomsInOrderIs DEF ChatInv
<1>2. PICK C : C = Connected
  OBVIOUS
<1>3. \/ UNCHANGED vars
      \/ history' = history /\ out' \in Seq(Mild(C)')
      \/ \E r \in RoomIds : FilterDone(r)
  BY <1>1, <1>2, Requesters, MildSteps DEF TargetsConnected
<1> QED BY <1>1, <1>3, MildRemembers, FilterDoneRemembers

\* A name is never taken over.
LEMMA StepKeepsNames ==
    ASSUME IInv, [Next]_vars
    PROVE  /\ names \subseteq names'
           /\ \A n \in names : playersByName'[n] \in {playersByName[n], NoAgent}
<1>1. names \subseteq NameSet /\ playersByName \in [NameSet -> Agents \cup {NoAgent}]
  BY DEF IInv, TypeOK, ConnTypeOK, SeatTypeOK
<1>2. names \subseteq names'
  <2>1. ASSUME NEW p \in Agents, NEW n, NEW rsp, Join(p, n, rsp)
        PROVE  names \subseteq names'
    BY <2>1 DEF Join
  <2>2. ASSUME NEW p \in Agents, (\E n \in NameSet : Login(p, n)) \/ JoinRoom(p)
        PROVE  names \subseteq names'
    BY <2>1, <2>2 DEF Login, JoinRoom
  <2>3. ASSUME NEW p \in Agents,
               \/ Connect(p) \/ Destroy(p) \/ Heartbeat(p) \/ RoomList(p) \/ Ignored(p)
               \/ RoomChat(p) \/ (\E n \in NameSet : Chat(p, n))
               \/ \E words \in 1..3, cmd \in Commands : RoomCommand(p, words, cmd)
        PROVE  names' = names
    BY <2>3 DEF Connect, Destroy, Heartbeat, RoomList, Ignored, RoomChat, Chat, RoomCommand
  <2>4. ASSUME NEW r \in RoomIds, RunSubmitted(r) \/ FilterDone(r) \/ FilterLost(r)
        PROVE  names' = names
    BY <2>4 DEF RunSubmitted, FilterDone, FilterLost
  <2>5. CASE PopularAnswered \/ UNCHANGED vars
    BY <2>5 DEF PopularAnswered, vars
  <2> QED BY <2>2, <2>3, <2>4, <2>5 DEF Next, Request
<1> QED BY <1>1, <1>2, NamesStep

-----------------------------------------------------------------------------
(* Theorems. *)

\* Whatever the clients send, and however long the filter takes, a task that
\* is addressed to one agent goes to a live agent and to the room it is in.
THEOREM OutAlwaysReachesTheLiving == Spec => []OutReachesTheLiving
BY ChatAlways, PTL

\* Histories stay in the order in which the chats were submitted.
THEOREM HistoryStaysInOrder == Spec => []HistoryInOrder
<1>1. ChatInv => HistoryInOrder
  BY DEF ChatInv
<1> QED BY <1>1, ChatAlways, PTL

\* A room remembers exactly what its members were told.
THEOREM BroadcastsAreAlwaysRemembered == Spec => BroadcastsAreRemembered
<1>1. ASSUME ChatInv, [Next]_vars
      PROVE  [\A r \in RoomIds :
          LET told == {t \in {out'[i] : i \in 1..Len(out')} :
                         /\ t.key = r /\ t.to = NoAgent
                         /\ t.msg.kind = "ntf_room_chat" /\ t.msg.chats[1].no # 0}
          IN  IF history'[r] = history[r] THEN told = {}
              ELSE /\ history'[r] # <<>>
                   /\ \E t \in told :
                        LET c == history'[r][Len(history'[r])]
                        IN  /\ t.msg.chats[1].no = c.no
                            /\ t.msg.chats[1].from \in {c.from, Guest}
                            /\ c.masked /\ t.msg.chats[1].masked]_vars
  BY <1>1, StepRemembers DEF Remembers, ToldTo
<1> QED BY <1>1, ChatAlways, PTL DEF Spec, BroadcastsAreRemembered

\* A name that has been used never comes to mean another connection.
THEOREM NamesAreNeverPassedOn == Spec => NamesNeverPassOn
<1>1. ASSUME IInv, [Next]_vars
      PROVE  [/\ names \subseteq names'
              /\ \A n \in names : playersByName'[n] \in {playersByName[n], NoAgent}]_vars
  BY <1>1, StepKeepsNames
<1> QED BY <1>1, InductiveInvariant, PTL DEF Spec, NamesNeverPassOn

=============================================================================
