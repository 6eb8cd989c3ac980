---------------------------- MODULE LobbyProofs ----------------------------
(***************************************************************************)
(* What is proved of RoomManager when every client logs in once, as the    *)
(* client in client/agent/agent.go does.  Then the names an agent brings   *)
(* are fresh when they are accepted, so no agent has a seat before its     *)
(* login, none gets a second one, and the room manager implements Lobby.   *)
(***************************************************************************)
EXTENDS RoomManagerProofs, FunctionTheorems

\* Who has a name: nobody before its login, everybody's name is used, the
\* empty name never is, and nobody without a name has a room.
NamesInv ==
    /\ NoName \notin names
    /\ \A p \in Agents :
          /\ status[p] = "absent" => username[p] = NoName
          /\ username[p] # NoName => username[p] \in names
          /\ username[p] = NoName => roomID[p] = 0

OnceInv == OneRoomPerPlayer /\ UnlistedRoomsAreFull /\ ReachableByName /\ NamesInv
SeatInv == IInv /\ OnceInv

\* An agent that has not logged in yet sits nowhere and answers to no name.
LEMMA Nameless ==
    ASSUME SeatInv, NEW p \in Agents, username[p] = NoName
    PROVE  /\ roomID[p] = 0 /\ p \notin players
           /\ \A r \in RoomIds : p \notin members[r]
           /\ \A n \in NameSet : playersByName[n] # p
BY DEF SeatInv, OnceInv, NamesInv, OneRoomPerPlayer, ReachableByName, IInv, RoomInv,
       RegistryMatchesRooms

\* Nobody who plays has a fresh name.
LEMMA FreshName ==
    ASSUME SeatInv, NEW n \in NameSet, n \notin names
    PROVE  \A p \in players : username[p] # n
BY DEF SeatInv, OnceInv, NamesInv, IInv, TypeOK, ConnTypeOK, SeatTypeOK, RoomInv,
       RegistryMatchesRooms

\* An accepted login keeps the seats and the names right.
LEMMA AdmittedOnce ==
    ASSUME SeatInv, NEW p \in Agents, Live(p), username[p] = NoName,
           NEW n \in Names, n \notin names, names' = names \cup {n},
           EnterRoom(p, n), username' = [username EXCEPT ![p] = n], status' = status
    PROVE  OnceInv'
<1> DEFINE r == NextRoom
<1> USE LimitsAssumption, AgentsAssumption, NamesAssumption
<1>1. n \in NameSet /\ n # NoName
  BY DEF NameSet
<1>2. /\ r \in RoomIds /\ r # 0 /\ Cardinality(members[r]) < RoomCap
      /\ rooms' = rooms \cup {r}
      /\ node' = [node EXCEPT ![r] = ~(JoinState(r) = "full")]
      /\ members' = IF JoinState(r) = "invalid" THEN members
                    ELSE [members EXCEPT ![r] = @ \cup {p}]
      /\ roomID' = [roomID EXCEPT ![p] = r]
      /\ players' = players \cup {p}
      /\ playersByName' = [playersByName EXCEPT ![n] = p]
  BY NextRoomHasSpace DEF EnterRoom, SeatInv, IInv, TypeOK, RoomIds
<1> HIDE DEF r
<1>3. /\ roomID[p] = 0 /\ p \notin players
      /\ \A q \in RoomIds : p \notin members[q]
      /\ \A m \in NameSet : playersByName[m] # p
  BY Nameless
<1>4. /\ Cardinality(members[r]) \in Nat /\ members[r] \in SUBSET Agents
      /\ Cardinality(members[r] \cup {p}) = Cardinality(members[r]) + 1
  BY <1>2, <1>3, FiniteMembers, FS_AddElement DEF SeatInv, IInv, TypeOK, SeatTypeOK
<1>5. /\ members' = [members EXCEPT ![r] = @ \cup {p}]
      /\ JoinState(r) = "full" <=> Cardinality(members[r]) + 1 = RoomCap
  BY <1>2, <1>4 DEF JoinState
<1>6. OneRoomPerPlayer'
  <2>1. ASSUME NEW q \in RoomIds
        PROVE  members'[q] = {x \in players' : roomID'[x] = q}
    <3>1. members[q] = {x \in players : roomID[x] = q} /\ players \subseteq Agents
      BY DEF SeatInv, OnceInv, OneRoomPerPlayer, IInv, TypeOK, SeatTypeOK
    <3>2. \A x \in players : roomID'[x] = roomID[x]
      BY <1>2, <1>3, <3>1 DEF SeatInv, IInv, TypeOK, SeatTypeOK
    <3>3. roomID'[p] = r
      BY <1>2 DEF SeatInv, IInv, TypeOK, SeatTypeOK
    <3>4. members'[q] = IF q = r THEN members[q] \cup {p} ELSE members[q]
      BY <1>5 DEF SeatInv, IInv, TypeOK, SeatTypeOK
    <3> QED BY <1>2, <1>3, <3>1, <3>2, <3>3, <3>4
  <2> QED BY <2>1 DEF OneRoomPerPlayer
<1>7. UnlistedRoomsAreFull'
  <2>1. ASSUME NEW q \in rooms', ~node'[q]
        PROVE  Cardinality(members'[q]) = RoomCap
    <3>1. CASE q = r
      <4>1. JoinState(r) = "full"
        BY <1>2, <2>1, <3>1 DEF SeatInv, IInv, TypeOK, SeatTypeOK
      <4>2. members'[r] = members[r] \cup {p}
        BY <1>2, <1>5 DEF SeatInv, IInv, TypeOK, SeatTypeOK
      <4> QED BY <1>4, <1>5, <3>1, <4>1, <4>2
    <3>2. CASE q # r
      <4>1. q \in rooms /\ q \in RoomIds /\ ~node[q] /\ members'[q] = members[q]
        BY <1>2, <1>5, <2>1, <3>2 DEF SeatInv, IInv, TypeOK, SeatTypeOK
      <4> QED BY <4>1 DEF SeatInv, OnceInv, UnlistedRoomsAreFull
    <3> QED BY <3>1, <3>2
  <2> QED BY <2>1 DEF UnlistedRoomsAreFull
<1>8. ReachableByName'
  <2>1. ASSUME NEW q \in Agents, NEW m \in NameSet
        PROVE  playersByName'[m] = q <=> q \in players' /\ username'[q] = m
    <3>1. /\ playersByName'[m] = IF m = n THEN p ELSE playersByName[m]
          /\ username'[q] = IF q = p THEN n ELSE username[q]
      BY <1>1, <1>2 DEF SeatInv, IInv, TypeOK, SeatTypeOK, ConnTypeOK
    <3>2. playersByName[m] = q <=> q \in players /\ username[q] = m
      BY DEF SeatInv, OnceInv, ReachableByName
    <3>3. q \in players => username[q] # n
      BY <1>1, FreshName
    <3> QED BY <1>2, <1>3, <3>1, <3>2, <3>3
  <2> QED BY <2>1 DEF ReachableByName
<1>9. NamesInv'
  BY <1>1, <1>2 DEF SeatInv, OnceInv, NamesInv, IInv, TypeOK, ConnTypeOK, SeatTypeOK, Live
<1> QED BY <1>6, <1>7, <1>8, <1>9 DEF OnceInv

\* A refused login leaves the seats alone; the name it burns is now used.
LEMMA RefusedOnce ==
    ASSUME SeatInv, NEW p \in Agents, Live(p), username[p] = NoName,
           NEW n \in Names, names' = names \cup {n}, UNCHANGED seatVars,
           username' = [username EXCEPT ![p] = n], status' = status
    PROVE  OnceInv'
<1> USE NamesAssumption
<1>1. n \in NameSet /\ n # NoName
  BY DEF NameSet
<1>2. p \notin players /\ \A m \in NameSet : playersByName[m] # p
  BY Nameless
<1>3. OneRoomPerPlayer' /\ UnlistedRoomsAreFull'
  BY DEF seatVars, SeatInv, OnceInv, OneRoomPerPlayer, UnlistedRoomsAreFull
<1>4. ReachableByName'
  <2>1. ASSUME NEW q \in Agents, NEW m \in NameSet
        PROVE  playersByName'[m] = q <=> q \in players' /\ username'[q] = m
    <3>1. username'[q] = IF q = p THEN n ELSE username[q]
      BY DEF SeatInv, IInv, TypeOK, ConnTypeOK
    <3> QED BY <1>2, <3>1 DEF seatVars, SeatInv, OnceInv, ReachableByName
  <2> QED BY <2>1 DEF ReachableByName
<1>5. NamesInv'
  BY <1>1 DEF SeatInv, OnceInv, NamesInv, IInv, TypeOK, ConnTypeOK, seatVars, Live
<1> QED BY <1>3, <1>4, <1>5 DEF OnceInv

\* An agent that leaves frees exactly its own seat and its own name.
LEMMA LeaveOnce ==
    ASSUME SeatInv, NEW p \in Agents, Destroy(p)
    PROVE  OnceInv'
<1> USE LimitsAssumption, AgentsAssumption
<1>1. Live(p) /\ Leave(p) /\ UNCHANGED <<username, names>>
      /\ status' = [status EXCEPT ![p] = "destroyed"]
  BY DEF Destroy
<1>2. NamesInv'
  <2>1. roomID' = roomID
    BY <1>1 DEF Leave, LeaveWith, seatVars
  <2> QED BY <1>1, <2>1 DEF SeatInv, OnceInv, NamesInv, IInv, TypeOK, ConnTypeOK
<1>3. CASE roomID[p] \notin rooms
  <2>1. UNCHANGED seatVars
    BY <1>1, <1>3 DEF Leave
  <2> QED BY <1>1, <1>2, <2>1 DEF seatVars, SeatInv, OnceInv, OneRoomPerPlayer,
                                  UnlistedRoomsAreFull, ReachableByName
<1>4. CASE roomID[p] \in rooms
  <2>1. p \in players /\ roomID[p] \in RoomIds
    BY <1>1, <1>4 DEF SeatInv, IInv, TypeOK, SeatTypeOK, RoomInv, RegistryMatchesRooms, Live, RoomIds
  <2>2. /\ members' = [members EXCEPT ![roomID[p]] = @ \ {p}]
        /\ node' = [node EXCEPT ![roomID[p]] = TRUE]
        /\ players' = players \ {p}
        /\ playersByName' = [playersByName EXCEPT ![username[p]] = NoAgent]
        /\ UNCHANGED <<roomID, rooms, roomIDBase>>
    BY <1>1, <1>4, <2>1 DEF Leave, LeaveWith, LeftMembers, Relisted, RelistedNode, LeftNames
  <2>3. OneRoomPerPlayer'
    BY <2>1, <2>2 DEF OneRoomPerPlayer, SeatInv, OnceInv, IInv, TypeOK, SeatTypeOK
  <2>4. UnlistedRoomsAreFull'
    <3>1. \A q \in RoomIds : q # roomID[p] => members'[q] = members[q] /\ node'[q] = node[q]
      BY <2>1, <2>2 DEF SeatInv, IInv, TypeOK, SeatTypeOK
    <3>2. node'[roomID[p]]
      BY <2>1, <2>2 DEF SeatInv, IInv, TypeOK, SeatTypeOK
    <3> QED BY <2>2, <3>1, <3>2 DEF UnlistedRoomsAreFull, SeatInv, OnceInv, IInv, TypeOK, SeatTypeOK
  <2>5. ReachableByName'
    <3>1. ASSUME NEW q \in Agents, NEW m \in NameSet
          PROVE  playersByName'[m] = q <=> q \in players' /\ username'[q] = m
      <4>1. playersByName'[m] = IF m = username[p] THEN NoAgent ELSE playersByName[m]
        BY <2>2 DEF SeatInv, IInv, TypeOK, SeatTypeOK
      <4>2. \A x \in Agents : playersByName[m] = x <=> x \in players /\ username[x] = m
        BY DEF SeatInv, OnceInv, ReachableByName
      <4> QED BY <1>1, <2>1, <2>2, <4>1, <4>2
    <3> QED BY <3>1 DEF ReachableByName
  <2> QED BY <1>2, <2>3, <2>4, <2>5 DEF OnceInv
<1> QED BY <1>3, <1>4

\* JoinRoom is always refused: the agent's own name is already used.
LEMMA JoinRoomRefused ==
    ASSUME SeatInv, LoginOnce, NEW p \in Agents, JoinRoom(p)
    PROVE  UNCHANGED <<connVars, names, seatVars>>
BY DEF JoinRoom, Ready, Join, SeatInv, OnceInv, NamesInv

\* What a login does, when it is the agent's only one.
LEMMA LoginOutcomes ==
    ASSUME SeatInv, LoginOnce, NEW p \in Agents, NEW n \in NameSet, Login(p, n)
    PROVE  /\ Live(p) /\ username[p] = NoName /\ n \in Names
           /\ username' = [username EXCEPT ![p] = n] /\ status' = status
           /\ \/ n \in names /\ names' = names /\ UNCHANGED seatVars
              \/ n \notin names /\ names' = names \cup {n} /\ NoRoomLeft /\ UNCHANGED seatVars
              \/ n \notin names /\ names' = names \cup {n} /\ EnterRoom(p, n)
BY DEF Login, Join, NameSet

LEMMA RestOfOnce ==
    ASSUME SeatInv, UNCHANGED <<connVars, names, seatVars>>
    PROVE  OnceInv'
BY DEF connVars, seatVars, SeatInv, OnceInv, OneRoomPerPlayer, UnlistedRoomsAreFull,
       ReachableByName, NamesInv

LEMMA NextOnce ==
    ASSUME LoginOnce, SeatInv, [Next]_vars
    PROVE  OnceInv'
<1>1. ASSUME NEW p \in Agents, Connect(p) PROVE OnceInv'
  <2>1. UNCHANGED <<username, names, seatVars>> /\ status[p] = "absent"
        /\ status' = [status EXCEPT ![p] = "live"]
    BY <1>1 DEF Connect
  <2>2. NamesInv'
    BY <2>1 DEF seatVars, SeatInv, OnceInv, NamesInv, IInv, TypeOK, ConnTypeOK
  <2> QED BY <2>1, <2>2 DEF seatVars, SeatInv, OnceInv, OneRoomPerPlayer,
                            UnlistedRoomsAreFull, ReachableByName
<1>2. ASSUME NEW p \in Agents, NEW n \in NameSet, Login(p, n) PROVE OnceInv'
  <2>1. CASE n \in names
    <3>1. names' = names \cup {n} /\ UNCHANGED seatVars
      BY <1>2, <2>1, LoginOutcomes
    <3> QED BY <1>2, <3>1, LoginOutcomes, RefusedOnce
  <2>2. CASE n \notin names
    BY <1>2, <2>2, LoginOutcomes, RefusedOnce, AdmittedOnce
  <2> QED BY <2>1, <2>2
<1>3. ASSUME NEW p \in Agents, Destroy(p) PROVE OnceInv'
  BY <1>3, LeaveOnce
<1>4. ASSUME NEW p \in Agents, JoinRoom(p) PROVE OnceInv'
  BY <1>4, JoinRoomRefused, RestOfOnce
<1>5. CASE UNCHANGED vars
  BY <1>5, RestOfOnce DEF vars
<1>6. CASE PopularAnswered
  BY <1>6, RestOfOnce DEF PopularAnswered
<1>7. ASSUME NEW p \in Agents,
             \/ Heartbeat(p) \/ RoomList(p) \/ Ignored(p) \/ RoomChat(p)
             \/ \E words \in 1..3, cmd \in Commands : RoomCommand(p, words, cmd)
             \/ \E n \in NameSet : Chat(p, n)
      PROVE  OnceInv'
  <2>1. UNCHANGED <<connVars, names, seatVars>>
    BY <1>7 DEF Heartbeat, RoomList, Ignored, RoomChat, RoomCommand, Chat
  <2> QED BY <2>1, RestOfOnce
<1>8. ASSUME NEW r \in RoomIds, RunSubmitted(r) \/ FilterDone(r) \/ FilterLost(r)
      PROVE  OnceInv'
  BY <1>8, RestOfOnce DEF RunSubmitted, FilterDone, FilterLost
<1> QED BY <1>1, <1>2, <1>3, <1>4, <1>5, <1>6, <1>7, <1>8 DEF Next, Request

LEMMA InitOnce == Init => OnceInv
<1> USE NamesAssumption, AgentsAssumption, LimitsAssumption
<1> SUFFICES ASSUME Init PROVE OnceInv
  OBVIOUS
<1>1. OneRoomPerPlayer /\ UnlistedRoomsAreFull
  BY DEF Init, OneRoomPerPlayer, UnlistedRoomsAreFull
<1>2. ReachableByName /\ NamesInv
  BY DEF Init, ReachableByName, NamesInv
<1> QED BY <1>1, <1>2 DEF OnceInv

LEMMA SeatInvariant ==
    ASSUME LoginOnce
    PROVE  Spec => []SeatInv
<1>1. Init => SeatInv
  BY InitIInv, InitOnce DEF SeatInv
<1>2. SeatInv /\ [Next]_vars => SeatInv'
  BY NextIInv, NextOnce DEF SeatInv
<1> QED BY <1>1, <1>2, PTL DEF Spec

-----------------------------------------------------------------------------
(* The room manager implements the lobby. *)

Seat == [p \in Agents |-> IF p \in players THEN roomID[p] ELSE 0]

\* The lobby's people in a room are the room's members, so the two agree on
\* which rooms have space.
LEMMA SpaceIsMembers ==
    ASSUME SeatInv, NEW r \in RoomIds
    PROVE  LobbyView!HasSpace(r) <=> Cardinality(members[r]) < RoomCap
<1>1. r # 0 /\ members[r] = {p \in players : roomID[p] = r} /\ players \subseteq Agents
  BY LimitsAssumption DEF RoomIds, SeatInv, OnceInv, OneRoomPerPlayer, IInv, TypeOK, SeatTypeOK
<1>2. {p \in Agents : Seat[p] = r} = members[r]
  BY <1>1 DEF Seat
<1>3. LobbyView!Cardinality(members[r]) = Cardinality(members[r])
  BY DEF LobbyView!Cardinality, Cardinality
<1>4. LobbyView!Seated(r) = members[r]
  BY <1>2 DEF LobbyView!Seated, Seat
<1> QED BY <1>3, <1>4 DEF LobbyView!HasSpace

\* An empty list means that every open room is full.
LEMMA NoListNoSpace ==
    ASSUME SeatInv, validRooms = <<>>
    PROVE  LobbyView!EveryRoomFull
<1>1. ASSUME NEW r \in 1..roomIDBase PROVE ~LobbyView!HasSpace(r)
  <2>1. r \in rooms /\ r \in RoomIds /\ ~node[r]
    BY DEF SeatInv, IInv, TypeOK, SeatTypeOK, RoomInv, ListMatchesNodes
  <2>2. Cardinality(members[r]) = RoomCap
    BY <2>1 DEF SeatInv, OnceInv, UnlistedRoomsAreFull
  <2> QED BY <2>1, <2>2, SpaceIsMembers, LimitsAssumption
<1> QED BY <1>1 DEF LobbyView!EveryRoomFull

LEMMA AdmitStep ==
    ASSUME SeatInv, NEW p \in Agents, username[p] = NoName,
           NEW n \in NameSet, n \notin names, names' = names \cup {n}, EnterRoom(p, n),
           NEW r, r = NextRoom
    PROVE  LobbyView!Admit(p, n, r) /\ r \in 1..MaxRooms
<1>1. /\ r \in RoomIds /\ Cardinality(members[r]) < RoomCap
      /\ rooms \cup {r} = 1..(IF validRooms = <<>> THEN r ELSE roomIDBase)
      /\ validRooms = <<>> => r \notin rooms /\ r = roomIDBase + 1
  BY NextRoomHasSpace DEF EnterRoom, SeatInv, IInv, TypeOK
<1>2. /\ roomIDBase' = IF validRooms = <<>> THEN r ELSE roomIDBase
      /\ roomID' = [roomID EXCEPT ![p] = r]
      /\ players' = players \cup {p}
      /\ playersByName' = [playersByName EXCEPT ![n] = p]
  BY DEF EnterRoom
<1>3. p \notin players
  BY Nameless
<1>4. Seat' = [Seat EXCEPT ![p] = r]
  BY <1>2 DEF Seat, SeatInv, IInv, TypeOK, SeatTypeOK
<1>5. \/ r \in 1..roomIDBase /\ LobbyView!HasSpace(r) /\ roomIDBase' = roomIDBase
      \/ /\ LobbyView!EveryRoomFull /\ roomIDBase < MaxRooms
         /\ r = roomIDBase + 1 /\ roomIDBase' = r
  <2>1. CASE validRooms = <<>>
    <3>1. roomIDBase < MaxRooms
      BY <1>1, <2>1, LimitsAssumption DEF RoomIds, SeatInv, IInv, TypeOK, SeatTypeOK
    <3> QED BY <1>1, <1>2, <2>1, <3>1, NoListNoSpace
  <2>2. CASE validRooms # <<>>
    <3>1. LobbyView!HasSpace(r)
      BY <1>1, SpaceIsMembers
    <3> QED BY <1>1, <1>2, <2>2, <3>1
  <2> QED BY <2>1, <2>2
<1> QED BY <1>1, <1>2, <1>3, <1>4, <1>5 DEF LobbyView!Admit, Seat, RoomIds

LEMMA TurnAwayStep ==
    ASSUME SeatInv, NEW n \in NameSet, n \notin names, names' = names \cup {n},
           NoRoomLeft, UNCHANGED seatVars
    PROVE  LobbyView!TurnAway(n)
<1>1. roomIDBase = MaxRooms
  <2>1. rooms = 1..roomIDBase /\ roomIDBase \in 0..MaxRooms
    BY DEF SeatInv, IInv, TypeOK, SeatTypeOK, RoomInv, ListMatchesNodes
  <2>2. Cardinality(rooms) = roomIDBase
    BY <2>1, FS_Interval, LimitsAssumption
  <2> QED BY <2>1, <2>2, LimitsAssumption DEF NoRoomLeft
<1>2. LobbyView!EveryRoomFull
  BY NoListNoSpace DEF NoRoomLeft
<1> QED BY <1>1, <1>2 DEF LobbyView!TurnAway, seatVars

LEMMA LeaveStep ==
    ASSUME SeatInv, NEW p \in Agents, Destroy(p)
    PROVE  \/ \E n \in NameSet : LobbyView!Leave(p, n)
           \/ UNCHANGED LobbyView!vars
<1>1. Live(p) /\ Leave(p) /\ names' = names
  BY DEF Destroy
<1>2. CASE roomID[p] \notin rooms
  BY <1>1, <1>2 DEF Leave, seatVars, LobbyView!vars
<1>3. CASE roomID[p] \in rooms
  <2>1. /\ p \in players /\ roomID[p] # 0 /\ username[p] \in NameSet
        /\ playersByName[username[p]] = p
    BY <1>1, <1>3 DEF SeatInv, OnceInv, ReachableByName, IInv, TypeOK, ConnTypeOK, SeatTypeOK,
                      RoomInv, RegistryMatchesRooms, Live, RoomIds
  <2>2. /\ players' = players \ {p}
        /\ playersByName' = [playersByName EXCEPT ![username[p]] = NoAgent]
        /\ UNCHANGED <<roomID, rooms, roomIDBase>>
    BY <1>1, <1>3, <2>1 DEF Leave, LeaveWith, LeftNames
  <2>3. Seat' = [Seat EXCEPT ![p] = 0] /\ Seat[p] # 0
    BY <2>1, <2>2 DEF Seat
  <2>4. ASSUME NEW n \in NameSet, n = username[p] PROVE LobbyView!Leave(p, n)
    BY <1>1, <2>1, <2>2, <2>3, <2>4 DEF LobbyView!Leave, Seat
  <2> QED BY <2>1, <2>4
<1> QED BY <1>2, <1>3

LEMMA LobbyStutters ==
    ASSUME UNCHANGED <<names, seatVars>>
    PROVE  UNCHANGED LobbyView!vars
BY DEF seatVars, LobbyView!vars

LEMMA LobbyNext ==
    ASSUME LoginOnce, SeatInv, [Next]_vars
    PROVE  [LobbyView!Next]_(LobbyView!vars)
<1>1. ASSUME NEW p \in Agents, NEW n \in NameSet, Login(p, n)
      PROVE  LobbyView!Next \/ UNCHANGED LobbyView!vars
  <2>1. username[p] = NoName
    BY <1>1, LoginOutcomes
  <2>2. CASE names' = names /\ UNCHANGED seatVars
    BY <2>2, LobbyStutters
  <2>3. CASE n \notin names /\ names' = names \cup {n} /\ NoRoomLeft /\ UNCHANGED seatVars
    BY <2>3, TurnAwayStep DEF LobbyView!Next
  <2>4. CASE n \notin names /\ names' = names \cup {n} /\ EnterRoom(p, n)
    <3>1. PICK r : r = NextRoom
      OBVIOUS
    <3>2. LobbyView!Admit(p, n, r) /\ r \in 1..MaxRooms
      BY <2>1, <2>4, <3>1, AdmitStep
    <3> QED BY <3>2 DEF LobbyView!Next
  <2> QED BY <1>1, <2>2, <2>3, <2>4, LoginOutcomes
<1>2. ASSUME NEW p \in Agents, Destroy(p)
      PROVE  LobbyView!Next \/ UNCHANGED LobbyView!vars
  BY <1>2, LeaveStep DEF LobbyView!Next
<1>3. ASSUME NEW p \in Agents, JoinRoom(p) PROVE UNCHANGED LobbyView!vars
  BY <1>3, JoinRoomRefused, LobbyStutters
<1>4. ASSUME NEW p \in Agents,
             \/ Connect(p) \/ Heartbeat(p) \/ RoomList(p) \/ Ignored(p) \/ RoomChat(p)
             \/ \E words \in 1..3, cmd \in Commands : RoomCommand(p, words, cmd)
             \/ \E n \in NameSet : Chat(p, n)
      PROVE  UNCHANGED LobbyView!vars
  <2>1. UNCHANGED <<names, seatVars>>
    BY <1>4 DEF Connect, Heartbeat, RoomList, Ignored, RoomChat, RoomCommand, Chat
  <2> QED BY <2>1, LobbyStutters
<1>5. ASSUME NEW r \in RoomIds, RunSubmitted(r) \/ FilterDone(r) \/ FilterLost(r)
      PROVE  UNCHANGED LobbyView!vars
  BY <1>5, LobbyStutters DEF RunSubmitted, FilterDone, FilterLost
<1>6. CASE PopularAnswered \/ UNCHANGED vars
  BY <1>6, LobbyStutters DEF PopularAnswered, vars
<1> QED BY <1>1, <1>2, <1>3, <1>4, <1>5, <1>6 DEF Next, Request

LEMMA LobbyInit == Init => LobbyView!Init
BY DEF Init, LobbyView!Init

-----------------------------------------------------------------------------
(* Counting the seats. *)

\* When there is no room left, numbering the members of each room numbers the
\* players by pairs of a room and a seat.
LEMMA EverySeatTaken ==
    ASSUME SeatInv, NoRoomLeft
    PROVE  Cardinality(players) = MaxRooms * RoomCap
<1> USE LimitsAssumption
<1> DEFINE Seats == 1..RoomCap
           g == [r \in RoomIds |-> CHOOSE f : f \in Bijection(Seats, members[r])]
           F == [s \in RoomIds \X Seats |-> g[s[1]][s[2]]]
<1>1. rooms = RoomIds
  <2>1. rooms = 1..roomIDBase /\ roomIDBase \in 0..MaxRooms
    BY DEF SeatInv, IInv, TypeOK, SeatTypeOK, RoomInv, ListMatchesNodes
  <2>2. Cardinality(rooms) = roomIDBase
    BY <2>1, FS_Interval
  <2> QED BY <2>1, <2>2 DEF NoRoomLeft, RoomIds
<1>2. ASSUME NEW r \in RoomIds
      PROVE  /\ g[r] \in Bijection(Seats, members[r])
             /\ members[r] = {p \in players : roomID[p] = r}
  <2>1. ~node[r]
    BY DEF NoRoomLeft, SeatInv, IInv, RoomInv, ListMatchesNodes
  <2>2. Cardinality(members[r]) = RoomCap
    BY <1>1, <2>1 DEF SeatInv, OnceInv, UnlistedRoomsAreFull
  <2>3. members[r] \in SUBSET Agents
    BY DEF SeatInv, IInv, TypeOK, SeatTypeOK
  <2>4. ExistsBijection(1..Cardinality(members[r]), members[r])
    BY <2>3, FiniteMembers, FS_CardinalityType
  <2>5. \E f : f \in Bijection(Seats, members[r])
    BY <2>2, <2>4 DEF ExistsBijection
  <2>6. g[r] = CHOOSE f : f \in Bijection(Seats, members[r])
    OBVIOUS
  <2> HIDE DEF g
  <2> QED BY <2>5, <2>6 DEF SeatInv, OnceInv, OneRoomPerPlayer
<1> HIDE DEF g, Seats
<1>3. ASSUME NEW r \in RoomIds
      PROVE  /\ g[r] \in [Seats -> members[r]]
             /\ \A i, j \in Seats : g[r][i] = g[r][j] => i = j
             /\ \A p \in members[r] : \E i \in Seats : g[r][i] = p
  BY <1>2, Fun_BijectionProperties
<1>4. F \in [RoomIds \X Seats -> players]
  BY <1>2, <1>3
<1>5. ASSUME NEW a \in RoomIds \X Seats, NEW b \in RoomIds \X Seats, F[a] = F[b]
      PROVE  a = b
  <2>1. PICK r \in RoomIds, i \in Seats : a = <<r, i>>
    OBVIOUS
  <2>2. PICK q \in RoomIds, j \in Seats : b = <<q, j>>
    OBVIOUS
  <2>3. F[a] = g[r][i] /\ F[b] = g[q][j]
    BY <2>1, <2>2
  <2>4. roomID[g[r][i]] = r /\ roomID[g[q][j]] = q
    <3>1. g[r][i] \in members[r] /\ g[q][j] \in members[q]
      BY <1>3
    <3> QED BY <1>2, <3>1
  <2> HIDE DEF F
  <2>5. g[r][i] = g[q][j]
    BY <1>5, <2>3
  <2>6. r = q
    BY <2>4, <2>5
  <2>7. i = j
    BY <1>3, <2>5, <2>6
  <2> QED BY <2>1, <2>2, <2>6, <2>7
<1>6. ASSUME NEW p \in players
      PROVE  \E s \in RoomIds \X Seats : F[s] = p
  <2>1. roomID[p] \in RoomIds
    BY <1>1 DEF SeatInv, IInv, RoomInv, RegistryMatchesRooms
  <2>2. p \in members[roomID[p]]
    BY <1>2, <2>1
  <2>3. PICK i \in Seats : g[roomID[p]][i] = p
    BY <1>3, <2>1, <2>2
  <2>4. <<roomID[p], i>> \in RoomIds \X Seats /\ F[<<roomID[p], i>>] = p
    BY <2>1, <2>3
  <2> QED BY <2>4
<1>7. F \in Bijection(RoomIds \X Seats, players)
  <2> HIDE DEF F
  <2> QED BY <1>4, <1>5, <1>6, Fun_IsBij
<1>8. /\ IsFiniteSet(RoomIds) /\ Cardinality(RoomIds) = MaxRooms
      /\ IsFiniteSet(Seats) /\ Cardinality(Seats) = RoomCap
  BY FS_Interval DEF RoomIds, Seats
<1>9. /\ IsFiniteSet(RoomIds \X Seats)
      /\ Cardinality(RoomIds \X Seats) = MaxRooms * RoomCap
  BY <1>8, FS_Product
<1>10. ExistsBijection(RoomIds \X Seats, players)
  BY <1>7 DEF ExistsBijection
<1> QED BY <1>9, <1>10, FS_Bijection

\* A fresh name is refused in one way only: Join finds no room.
LEMMA RefusalStep ==
    ASSUME LoginOnce, SeatInv, [Next]_vars, names' # names, players' = players
    PROVE  NoRoomLeft
<1>1. ASSUME NEW p \in Agents, NEW n \in NameSet, Login(p, n) PROVE NoRoomLeft
  <2>1. p \notin players
    BY <1>1, LoginOutcomes, Nameless
  <2>2. EnterRoom(p, n) => p \in players'
    BY DEF EnterRoom
  <2> QED BY <1>1, <2>1, <2>2, LoginOutcomes
<1>2. ASSUME NEW p \in Agents, JoinRoom(p) PROVE FALSE
  BY <1>2, JoinRoomRefused
<1>3. ASSUME NEW p \in Agents,
             \/ Connect(p) \/ Destroy(p) \/ Heartbeat(p) \/ RoomList(p) \/ Ignored(p)
             \/ RoomChat(p) \/ (\E n \in NameSet : Chat(p, n))
             \/ \E words \in 1..3, cmd \in Commands : RoomCommand(p, words, cmd)
      PROVE  FALSE
  BY <1>3 DEF Connect, Destroy, Heartbeat, RoomList, Ignored, RoomChat, Chat, RoomCommand
<1>4. ASSUME NEW r \in RoomIds, RunSubmitted(r) \/ FilterDone(r) \/ FilterLost(r)
      PROVE  FALSE
  BY <1>4 DEF RunSubmitted, FilterDone, FilterLost
<1>5. CASE PopularAnswered \/ UNCHANGED vars
  BY <1>5 DEF PopularAnswered, vars
<1> QED BY <1>1, <1>2, <1>3, <1>4, <1>5 DEF Next, Request

-----------------------------------------------------------------------------
(* Theorems. *)

\* A player sits in one room only: the members of a room are the registered
\* players whose room it is.
THEOREM NoSecondSeat ==
    ASSUME LoginOnce
    PROVE  Spec => []OneRoomPerPlayer
<1>1. SeatInv => OneRoomPerPlayer
  BY DEF SeatInv, OnceInv
<1> QED BY <1>1, SeatInvariant, PTL

\* No seat is lost: whatever has come and gone, a room that is not listed has
\* all its seats taken.
THEOREM NoSeatLost ==
    ASSUME LoginOnce
    PROVE  Spec => []UnlistedRoomsAreFull
<1>1. SeatInv => UnlistedRoomsAreFull
  BY DEF SeatInv, OnceInv
<1> QED BY <1>1, SeatInvariant, PTL

\* A name finds the player that has it and nobody else.
THEOREM NamesFindPlayers ==
    ASSUME LoginOnce
    PROVE  Spec => []ReachableByName
<1>1. SeatInv => ReachableByName
  BY DEF SeatInv, OnceInv
<1> QED BY <1>1, SeatInvariant, PTL

\* A player with a fresh name is refused only when every seat of every room
\* the manager may open is taken.
THEOREM FreshNamesFindSeats ==
    ASSUME LoginOnce
    PROVE  Spec => RefusedOnlyWhenFull
<1>1. ASSUME SeatInv, [Next]_vars
      PROVE  [names' # names /\ players' = players
                 => Cardinality(players) = MaxRooms * RoomCap]_vars
  BY <1>1, RefusalStep, EverySeatTaken
<1> QED BY <1>1, SeatInvariant, PTL DEF Spec, RefusedOnlyWhenFull

\* Every behaviour of the room manager is, seen through its registries, one of
\* the lobby.
THEOREM RoomManagerImplementsLobby ==
    ASSUME LoginOnce
    PROVE  Spec => ImplementsLobby
<1>1. SeatInv /\ [Next]_vars => [LobbyView!Next]_(LobbyView!vars)
  BY LobbyNext
<1> QED BY <1>1, LobbyInit, SeatInvariant, PTL DEF Spec, ImplementsLobby, LobbyView!Spec
=============================================================================
