------------------------- MODULE RoomManagerProofs -------------------------
(***************************************************************************)
(* What is proved of RoomManager for every set of agents and names and     *)
(* every limit.  The inductive invariant is the conjunction of the type    *)
(* invariant and the three room invariants: each of the three needs the    *)
(* others (a listed room has space because a full one is not listed; a     *)
(* room that is relisted has space because the agent that leaves was one   *)
(* of its members; it was, because the registries agree).                  *)
(***************************************************************************)
EXTENDS RoomManager, SequenceTheorems, FiniteSetTheorems, TLAPS

RoomInv == ListMatchesNodes /\ ListedRoomsHaveSpace /\ RegistryMatchesRooms
IInv == TypeOK /\ RoomInv

-----------------------------------------------------------------------------
(* Sets of agents. *)

\* A set of agents is finite, and its size a natural number.
LEMMA FiniteMembers ==
    ASSUME NEW S \in SUBSET Agents
    PROVE  IsFiniteSet(S) /\ Cardinality(S) \in Nat
BY AgentsAssumption, FS_Subset, FS_CardinalityType

\* An agent added to a set makes it at most one larger, one taken out of it
\* exactly one smaller: what Room.Join and Room.Leave do to a room's size.
LEMMA MembersAfterJoin ==
    ASSUME NEW S \in SUBSET Agents, NEW p \in Agents
    PROVE  Cardinality(S \cup {p}) <= Cardinality(S) + 1
BY FiniteMembers, FS_AddElement

LEMMA MembersAfterLeave ==
    ASSUME NEW S \in SUBSET Agents, NEW p \in S
    PROVE  Cardinality(S \ {p}) = Cardinality(S) - 1
BY FiniteMembers, FS_RemoveElement

-----------------------------------------------------------------------------
(* The room that Join picks. *)

\* Join's next room is either the front of the list, an open room with space,
\* or the next number, which no room has yet.
LEMMA NextRoomHasSpace ==
    ASSUME SeatTypeOK, RoomInv, ~NoRoomLeft
    PROVE  /\ NextRoom \in RoomIds
           /\ Cardinality(members[NextRoom]) < RoomCap
           /\ rooms \cup {NextRoom} = 1..(IF validRooms = <<>> THEN NextRoom ELSE roomIDBase)
           /\ validRooms = <<>> => NextRoom \notin rooms /\ NextRoom = roomIDBase + 1
<1> USE LimitsAssumption DEF RoomIds
<1>1. CASE validRooms = <<>>
  <2>1. Cardinality(rooms) = roomIDBase
    BY FS_Interval DEF SeatTypeOK, RoomInv, ListMatchesNodes
  <2>2. roomIDBase < MaxRooms
    BY <1>1, <2>1 DEF NoRoomLeft, SeatTypeOK
  <2>3. NextRoom = roomIDBase + 1 /\ NextRoom \in RoomIds
    BY <1>1, <2>2 DEF NextRoom, SeatTypeOK
  <2>4. NextRoom \notin rooms /\ rooms \cup {NextRoom} = 1..NextRoom
    BY <2>3 DEF RoomInv, ListMatchesNodes, SeatTypeOK
  <2>5. Cardinality(members[NextRoom]) < RoomCap
    <3>1. members[NextRoom] = {}
      BY <2>3, <2>4 DEF RoomInv, RegistryMatchesRooms
    <3> QED BY <3>1, FS_EmptySet
  <2> QED BY <1>1, <2>3, <2>4, <2>5
<1>2. CASE validRooms # <<>>
  <2>1. NextRoom = validRooms[1] /\ 1 \in 1..Len(validRooms)
    BY <1>2 DEF NextRoom, SeatTypeOK
  <2>2. NextRoom \in rooms /\ Cardinality(members[NextRoom]) < RoomCap
    BY <2>1 DEF RoomInv, ListMatchesNodes, ListedRoomsHaveSpace
  <2> QED BY <1>2, <2>2 DEF RoomInv, ListMatchesNodes, SeatTypeOK
<1> QED BY <1>1, <1>2

-----------------------------------------------------------------------------
(* The list of rooms with space. *)

\* What taking the front off a list leaves.
LEMMA AfterFront ==
    ASSUME NEW S, NEW s \in Seq(S), s # <<>>
    PROVE  /\ Len(s) \in Nat \ {0} /\ s[1] = Head(s) /\ s[1] \in S
           /\ Tail(s) \in Seq(S) /\ Len(Tail(s)) = Len(s) - 1
           /\ \A i \in 1..Len(Tail(s)) : Tail(s)[i] = s[i + 1]
BY HeadTailProperties

\* Manager.Join, from the choice of the room on, keeps the registries right.
LEMMA EnterRoomKeepsRooms ==
    ASSUME ConnTypeOK, SeatTypeOK, RoomInv,
           NEW p \in Agents, Live(p), NEW n \in NameSet,
           EnterRoom(p, n), status' = status
    PROVE  SeatTypeOK' /\ RoomInv'
<1> DEFINE r == NextRoom
           listed == IF validRooms = <<>> THEN <<r>> ELSE validRooms
           full == JoinState(r) = "full"
<1> USE LimitsAssumption, AgentsAssumption
<1>1. /\ r \in RoomIds
      /\ Cardinality(members[r]) < RoomCap
      /\ rooms \cup {r} = 1..(IF validRooms = <<>> THEN r ELSE roomIDBase)
      /\ validRooms = <<>> => r \notin rooms /\ r = roomIDBase + 1
  BY NextRoomHasSpace DEF EnterRoom
<1>2. Cardinality(members[r]) \in Nat
  BY <1>1, FiniteMembers DEF SeatTypeOK
<1>3. JoinState(r) # "invalid" /\ (full <=> Cardinality(members[r]) + 1 = RoomCap)
  BY <1>1, <1>2 DEF JoinState
<1>4. /\ rooms' = rooms \cup {r}
      /\ roomIDBase' = IF validRooms = <<>> THEN r ELSE roomIDBase
      /\ validRooms' = IF full THEN Tail(listed) ELSE listed
      /\ node' = [node EXCEPT ![r] = ~full]
      /\ members' = [members EXCEPT ![r] = @ \cup {p}]
      /\ roomID' = [roomID EXCEPT ![p] = r]
      /\ players' = players \cup {p}
      /\ playersByName' = [playersByName EXCEPT ![n] = p]
  BY <1>3 DEF EnterRoom
<1>5. /\ listed \in Seq(RoomIds) /\ listed # <<>> /\ listed[1] = r
      /\ \A i, j \in 1..Len(listed) : listed[i] = listed[j] => i = j
      /\ \A i \in 1..Len(listed) : /\ listed[i] \in rooms \cup {r}
                                   /\ Cardinality(members[listed[i]]) < RoomCap
      /\ \A q \in RoomIds : node[q] \/ q = r <=> \E i \in 1..Len(listed) : listed[i] = q
  <2>1. CASE validRooms = <<>>
    <3>1. listed = <<r>> /\ Len(listed) = 1 /\ listed[1] = r
      BY <2>1
    <3>2. \A q \in RoomIds : ~node[q]
      BY <2>1 DEF RoomInv, ListMatchesNodes
    <3> HIDE DEF r, listed
    <3>3. \A i \in 1..Len(listed) : i = 1 /\ listed[i] = r
      BY <3>1
    <3>4. 1 \in 1..Len(listed) /\ listed \in Seq(RoomIds) /\ listed # <<>>
      BY <1>1, <3>1
    <3>5. \A q \in RoomIds : node[q] \/ q = r <=> \E i \in 1..Len(listed) : listed[i] = q
      BY <3>2, <3>3, <3>4
    <3> QED BY <1>1, <3>1, <3>3, <3>4, <3>5
  <2>2. CASE validRooms # <<>>
    <3>1. listed = validRooms /\ validRooms \in Seq(RoomIds)
      BY <2>2 DEF SeatTypeOK
    <3>2. listed[1] = r /\ 1 \in 1..Len(listed)
      BY <2>2, <3>1, AfterFront DEF NextRoom
    <3>3. node[r]
      BY <1>1, <3>1, <3>2 DEF RoomInv, ListMatchesNodes
    <3> QED BY <2>2, <3>1, <3>2, <3>3 DEF RoomInv, ListMatchesNodes, ListedRoomsHaveSpace
  <2> QED BY <2>1, <2>2
<1> HIDE DEF r, listed, full
<1>6. /\ Len(listed) \in Nat \ {0}
      /\ Tail(listed) \in Seq(RoomIds) /\ Len(Tail(listed)) = Len(listed) - 1
      /\ \A i \in 1..Len(Tail(listed)) : Tail(listed)[i] = listed[i + 1]
  BY <1>5, AfterFront
<1>7. SeatTypeOK'
  <2>1. roomIDBase' \in 0..MaxRooms /\ rooms' \subseteq RoomIds
    BY <1>1, <1>4 DEF SeatTypeOK, RoomIds
  <2>2. validRooms' \in Seq(RoomIds)
    BY <1>4, <1>5, <1>6
  <2>3. node' \in [RoomIds -> BOOLEAN]
    <3>1. CASE full
      BY <1>4, <3>1 DEF SeatTypeOK
    <3>2. CASE ~full
      BY <1>4, <3>2 DEF SeatTypeOK
    <3> QED BY <3>1, <3>2
  <2>4. members' \in [RoomIds -> SUBSET Agents]
    BY <1>4 DEF SeatTypeOK
  <2>5. /\ roomID' \in [Agents -> 0..MaxRooms]
        /\ players' \subseteq Agents
        /\ playersByName' \in [NameSet -> Agents \cup {NoAgent}]
    BY <1>1, <1>4 DEF SeatTypeOK, RoomIds
  <2> QED BY <2>1, <2>2, <2>3, <2>4, <2>5 DEF SeatTypeOK
<1>8. ListMatchesNodes'
  <2>1. rooms' = 1..roomIDBase'
    BY <1>1, <1>4
  <2>2. CASE full
    <3>1. validRooms' = Tail(listed) /\ node' = [node EXCEPT ![r] = FALSE]
      BY <1>4, <2>2
    <3>2. \A i, j \in 1..Len(validRooms') : validRooms'[i] = validRooms'[j] => i = j
      BY <1>5, <1>6, <3>1
    <3>3. \A i \in 1..Len(validRooms') : validRooms'[i] \in rooms'
      BY <1>4, <1>5, <1>6, <3>1
    <3>4. ASSUME NEW q \in RoomIds
          PROVE  node'[q] <=> \E i \in 1..Len(validRooms') : validRooms'[i] = q
      <4>1. node'[q] <=> node[q] /\ q # r
        BY <3>1 DEF SeatTypeOK
      <4>2. ASSUME NEW i \in 1..Len(validRooms'), validRooms'[i] = q
            PROVE  node[q] /\ q # r
        BY <1>5, <1>6, <3>1, <4>2
      <4>3. ASSUME node[q], q # r
            PROVE  \E i \in 1..Len(validRooms') : validRooms'[i] = q
        <5>1. PICK j \in 1..Len(listed) : listed[j] = q
          BY <1>5, <4>3
        <5>2. j # 1 /\ j - 1 \in 1..Len(validRooms') /\ validRooms'[j - 1] = q
          BY <1>5, <1>6, <3>1, <4>3, <5>1
        <5> QED BY <5>2
      <4> QED BY <4>1, <4>2, <4>3
    <3> QED BY <2>1, <3>2, <3>3, <3>4 DEF ListMatchesNodes
  <2>3. CASE ~full
    <3>1. validRooms' = listed /\ node' = [node EXCEPT ![r] = TRUE]
      BY <1>4, <2>3
    <3>2. \A q \in RoomIds : node'[q] <=> node[q] \/ q = r
      BY <3>1 DEF SeatTypeOK
    <3> QED BY <1>4, <1>5, <2>1, <3>1, <3>2 DEF ListMatchesNodes
  <2> QED BY <2>2, <2>3
<1>9. ListedRoomsHaveSpace'
  <2>1. /\ Cardinality(members'[r]) <= Cardinality(members[r]) + 1
        /\ Cardinality(members'[r]) \in Nat
    <3>1. members'[r] = members[r] \cup {p} /\ members[r] \in SUBSET Agents
      BY <1>1, <1>4 DEF SeatTypeOK
    <3> QED BY <3>1, MembersAfterJoin, FiniteMembers
  <2>2. \A q \in RoomIds \ {r} : members'[q] = members[q]
    BY <1>4 DEF SeatTypeOK
  <2>3. \A q \in RoomIds : Cardinality(members'[q]) <= RoomCap
    BY <1>1, <1>2, <2>1, <2>2 DEF RoomInv, ListedRoomsHaveSpace
  <2>4. ASSUME NEW i \in 1..Len(validRooms')
        PROVE  Cardinality(members'[validRooms'[i]]) < RoomCap
    <3>1. CASE full
      <4>1. /\ validRooms'[i] = listed[i + 1]
            /\ i + 1 \in 1..Len(listed) /\ listed[i + 1] # r
        BY <1>4, <1>5, <1>6, <3>1
      <4>2. listed[i + 1] \in RoomIds
        BY <4>1, <1>5
      <4> QED BY <1>5, <2>2, <4>1, <4>2
    <3>2. CASE ~full
      <4>1. validRooms'[i] = listed[i] /\ i \in 1..Len(listed) /\ listed[i] \in RoomIds
        BY <1>4, <1>5, <3>2
      <4>2. Cardinality(members'[r]) < RoomCap
        BY <1>1, <1>2, <1>3, <2>1, <3>2
      <4> QED BY <1>5, <2>2, <4>1, <4>2
    <3> QED BY <3>1, <3>2
  <2> QED BY <2>3, <2>4 DEF ListedRoomsHaveSpace
<1>10. RegistryMatchesRooms'
  <2>1. r # 0 /\ status[p] = "live"
    BY <1>1 DEF RoomIds, Live
  <2>2. players' = {q \in Agents : status'[q] = "live" /\ roomID'[q] # 0}
    BY <1>4, <2>1 DEF RoomInv, RegistryMatchesRooms, SeatTypeOK
  <2>3. \A q \in players' : roomID'[q] \in rooms' /\ q \in members'[roomID'[q]]
    <3>1. p \in members'[r] /\ \A q \in RoomIds : members[q] \subseteq members'[q]
      BY <1>1, <1>4 DEF SeatTypeOK
    <3>2. \A q \in players : q \in Agents /\ roomID[q] \in RoomIds
      BY DEF SeatTypeOK, RoomInv, RegistryMatchesRooms
    <3> QED BY <1>1, <1>4, <3>1, <3>2 DEF RoomInv, RegistryMatchesRooms, SeatTypeOK
  <2>4. \A q \in Agents : status'[q] = "absent" => roomID'[q] = 0
    BY <1>4, <2>1 DEF RoomInv, RegistryMatchesRooms, SeatTypeOK
  <2>5. \A q \in RoomIds \ rooms' : members'[q] = {}
    BY <1>4 DEF RoomInv, RegistryMatchesRooms, SeatTypeOK
  <2> QED BY <2>2, <2>3, <2>4, <2>5 DEF RegistryMatchesRooms
<1> QED BY <1>7, <1>8, <1>9, <1>10 DEF RoomInv

\* What putting a value at the end of a list makes.
LEMMA AfterAppend ==
    ASSUME NEW S, NEW s \in Seq(S), NEW x \in S
    PROVE  /\ Append(s, x) \in Seq(S) /\ Len(s) \in Nat
           /\ Len(Append(s, x)) = Len(s) + 1
           /\ \A i \in 1..Len(s) : Append(s, x)[i] = s[i]
           /\ Append(s, x)[Len(s) + 1] = x
BY AppendProperties

\* Manager.Leave, with the agent's destruction, keeps the registries right.
LEMMA LeaveKeepsRooms ==
    ASSUME ConnTypeOK, SeatTypeOK, RoomInv,
           NEW p \in Agents, Live(p), Leave(p),
           status' = [status EXCEPT ![p] = "destroyed"]
    PROVE  SeatTypeOK' /\ RoomInv'
<1> DEFINE r == roomID[p]
<1> USE LimitsAssumption, AgentsAssumption
<1>1. CASE r \notin rooms
  <2>1. r = 0 /\ p \notin players
    BY <1>1 DEF RoomInv, RegistryMatchesRooms, SeatTypeOK, Live
  <2>2. UNCHANGED seatVars
    BY <1>1 DEF Leave
  <2>3. RegistryMatchesRooms'
    <3>1. players' = {q \in Agents : status'[q] = "live" /\ roomID'[q] # 0}
      BY <2>1, <2>2 DEF seatVars, RoomInv, RegistryMatchesRooms, ConnTypeOK
    <3>2. \A q \in Agents : status'[q] = "absent" => roomID'[q] = 0
      BY <2>2 DEF seatVars, RoomInv, RegistryMatchesRooms, ConnTypeOK
    <3> QED BY <2>2, <3>1, <3>2 DEF seatVars, RoomInv, RegistryMatchesRooms
  <2> QED BY <2>2, <2>3 DEF seatVars, SeatTypeOK, RoomInv, ListMatchesNodes,
                            ListedRoomsHaveSpace
<1>2. CASE r \in rooms
  <2>1. r \in RoomIds /\ r # 0 /\ p \in players /\ p \in members[r]
    BY <1>2 DEF RoomInv, RegistryMatchesRooms, SeatTypeOK, Live, RoomIds
  <2>2. /\ members' = [members EXCEPT ![r] = @ \ {p}]
        /\ validRooms' = IF node[r] THEN validRooms ELSE Append(validRooms, r)
        /\ node' = [node EXCEPT ![r] = TRUE]
        /\ players' = players \ {p}
        /\ playersByName' = [playersByName EXCEPT ![username[p]] = NoAgent]
        /\ UNCHANGED <<roomID, rooms, roomIDBase>>
    BY <1>2, <2>1 DEF Leave, LeaveWith, LeftMembers, Relisted, RelistedNode, LeftNames
  <2> HIDE DEF r
  <2>3. /\ Append(validRooms, r) \in Seq(RoomIds) /\ Len(validRooms) \in Nat
        /\ Len(Append(validRooms, r)) = Len(validRooms) + 1
        /\ \A i \in 1..Len(validRooms) : Append(validRooms, r)[i] = validRooms[i]
        /\ Append(validRooms, r)[Len(validRooms) + 1] = r
    BY <2>1, AfterAppend DEF SeatTypeOK
  <2>4. SeatTypeOK'
    <3>1. validRooms' \in Seq(RoomIds)
      BY <2>2, <2>3 DEF SeatTypeOK
    <3>2. members' \in [RoomIds -> SUBSET Agents] /\ node' \in [RoomIds -> BOOLEAN]
      BY <2>2 DEF SeatTypeOK
    <3> QED BY <2>2, <3>1, <3>2 DEF SeatTypeOK
  <2>5. ListMatchesNodes'
    <3>1. \A q \in RoomIds : node'[q] <=> node[q] \/ q = r
      BY <2>2 DEF SeatTypeOK
    <3>2. CASE node[r]
      BY <1>2, <2>2, <3>1, <3>2 DEF RoomInv, ListMatchesNodes
    <3>3. CASE ~node[r]
      <4>1. validRooms' = Append(validRooms, r)
        BY <2>2, <3>3
      <4>2. \A i \in 1..Len(validRooms) : validRooms[i] # r
        BY <2>1, <3>3 DEF RoomInv, ListMatchesNodes
      <4>3. \A i, j \in 1..Len(validRooms') : validRooms'[i] = validRooms'[j] => i = j
        BY <2>3, <4>1, <4>2 DEF RoomInv, ListMatchesNodes
      <4>4. \A i \in 1..Len(validRooms') : validRooms'[i] \in rooms'
        BY <1>2, <2>2, <2>3, <4>1 DEF RoomInv, ListMatchesNodes
      <4>5. ASSUME NEW q \in RoomIds
            PROVE  node'[q] <=> \E i \in 1..Len(validRooms') : validRooms'[i] = q
        <5>1. CASE q = r
          <6>1. Len(validRooms) + 1 \in 1..Len(validRooms')
            BY <2>3, <4>1
          <6> QED BY <2>3, <3>1, <4>1, <5>1, <6>1
        <5>2. CASE q # r
          <6>1. node[q] <=> \E i \in 1..Len(validRooms) : validRooms[i] = q
            BY DEF RoomInv, ListMatchesNodes
          <6>2. (\E i \in 1..Len(validRooms) : validRooms[i] = q)
                <=> \E i \in 1..Len(validRooms') : validRooms'[i] = q
            BY <2>3, <4>1, <5>2
          <6> QED BY <3>1, <5>2, <6>1, <6>2
        <5> QED BY <5>1, <5>2
      <4> QED BY <2>2, <4>3, <4>4, <4>5 DEF RoomInv, ListMatchesNodes
    <3> QED BY <3>2, <3>3
  <2>6. ListedRoomsHaveSpace'
    <3>1. /\ members'[r] = members[r] \ {p} /\ members[r] \in SUBSET Agents
          /\ \A q \in RoomIds \ {r} : members'[q] = members[q]
      BY <2>1, <2>2 DEF SeatTypeOK
    <3>2. Cardinality(members'[r]) < RoomCap
      <4>1. Cardinality(members'[r]) = Cardinality(members[r]) - 1
        BY <2>1, <3>1, MembersAfterLeave
      <4>2. Cardinality(members[r]) \in Nat /\ Cardinality(members[r]) <= RoomCap
        BY <2>1, <3>1, FiniteMembers DEF RoomInv, ListedRoomsHaveSpace
      <4> QED BY <4>1, <4>2
    <3>3. \A q \in RoomIds : Cardinality(members'[q]) <= RoomCap
      <4>1. Cardinality(members'[r]) <= RoomCap
        BY <2>1, <3>1, <3>2, FiniteMembers
      <4> QED BY <3>1, <4>1 DEF RoomInv, ListedRoomsHaveSpace
    <3>4. ASSUME NEW i \in 1..Len(validRooms')
          PROVE  Cardinality(members'[validRooms'[i]]) < RoomCap
      <4>1. CASE i \in 1..Len(validRooms)
        <5>1. validRooms'[i] = validRooms[i] /\ validRooms[i] \in RoomIds
          BY <2>2, <2>3, <4>1 DEF SeatTypeOK
        <5> QED BY <3>1, <3>2, <4>1, <5>1 DEF RoomInv, ListedRoomsHaveSpace
      <4>2. CASE i \notin 1..Len(validRooms)
        <5>1. validRooms'[i] = r
          BY <2>2, <2>3, <4>2
        <5> QED BY <3>2, <5>1
      <4> QED BY <4>1, <4>2
    <3> QED BY <3>3, <3>4 DEF ListedRoomsHaveSpace
  <2>7. RegistryMatchesRooms'
    <3>1. players' = {q \in Agents : status'[q] = "live" /\ roomID'[q] # 0}
      BY <2>2 DEF RoomInv, RegistryMatchesRooms, ConnTypeOK
    <3>2. \A q \in players' : roomID'[q] \in rooms' /\ q \in members'[roomID'[q]]
      <4>1. ASSUME NEW q \in players'
            PROVE  roomID'[q] \in rooms' /\ q \in members'[roomID'[q]]
        <5>1. q \in players /\ q # p /\ roomID'[q] = roomID[q] /\ rooms' = rooms
          BY <2>2
        <5>2. roomID[q] \in rooms /\ q \in members[roomID[q]] /\ roomID[q] \in RoomIds
          BY <5>1 DEF RoomInv, RegistryMatchesRooms, SeatTypeOK
        <5>3. q \in members'[roomID[q]]
          BY <2>2, <5>1, <5>2 DEF SeatTypeOK
        <5> QED BY <5>1, <5>2, <5>3
      <4> QED BY <4>1
    <3>3. \A q \in Agents : status'[q] = "absent" => roomID'[q] = 0
      BY <2>2 DEF RoomInv, RegistryMatchesRooms, ConnTypeOK
    <3>4. \A q \in RoomIds \ rooms' : members'[q] = {}
      BY <1>2, <2>2 DEF RoomInv, RegistryMatchesRooms, SeatTypeOK
    <3> QED BY <3>1, <3>2, <3>3, <3>4 DEF RegistryMatchesRooms
  <2> QED BY <2>4, <2>5, <2>6, <2>7 DEF RoomInv
<1> QED BY <1>1, <1>2

-----------------------------------------------------------------------------
(* The tasks a handler gives out are well formed. *)

LEMMA ChatMessages ==
    ASSUME NEW no \in 0..MaxChats, NEW from \in NameSet \cup {Guest}, NEW masked \in BOOLEAN
    PROVE  Chat1(no, from, masked) \in Seq(Chats)
BY DEF Chat1, Chats

LEMMA MessageTypes ==
    /\ \A kind \in Kinds, ok \in BOOLEAN : Rsp(kind, ok) \in Messages
    /\ \A kind \in Kinds, chats \in Seq(Chats) : Ntf(kind, chats) \in Messages
BY DEF Rsp, Ntf, Messages

LEMMA SendType ==
    ASSUME NEW p \in Agents, NEW r \in 0..MaxRooms, NEW m \in Messages
    PROVE  Send(p, r, m) \in Seq(Tasks)
<1>1. [key |-> r, to |-> p, msg |-> m] \in Tasks
  BY DEF Tasks
<1> QED BY <1>1 DEF Send

LEMMA BroadcastType ==
    ASSUME NEW r \in 0..MaxRooms, NEW m \in Messages
    PROVE  Broadcast(r, m) \in Seq(Tasks)
<1>1. [key |-> r, to |-> NoAgent, msg |-> m] \in Tasks
  BY DEF Tasks
<1> QED BY <1>1 DEF Broadcast

LEMMA TasksTogether ==
    ASSUME NEW s \in Seq(Tasks), NEW t \in Seq(Tasks)
    PROVE  s \o t \in Seq(Tasks)
OBVIOUS

LEMMA GMResultType ==
    ASSUME NEW r \in RoomIds
    PROVE  GMResult(r) \in Seq(Tasks)
<1>1. Chat1(0, Guest, FALSE) \in Seq(Chats)
  <2>1. 0 \in 0..MaxChats
    BY LimitsAssumption
  <2> QED BY <2>1, ChatMessages, Zenon
<1>2. "ntf_room_chat" \in Kinds /\ r \in 0..MaxRooms
  BY LimitsAssumption DEF Kinds, RoomIds
<1>3. Ntf("ntf_room_chat", Chat1(0, Guest, FALSE)) \in Messages
  BY <1>1, <1>2, MessageTypes
<1> QED BY <1>2, <1>3, BroadcastType DEF GMResult

-----------------------------------------------------------------------------
(* Steps. *)

\* A step that leaves the registries alone keeps what is known of them.
LEMMA RoomsUntouched ==
    ASSUME IInv, UNCHANGED <<connVars, names, seatVars>>
    PROVE  ConnTypeOK' /\ SeatTypeOK' /\ RoomInv'
BY DEF IInv, TypeOK, connVars, seatVars, ConnTypeOK, SeatTypeOK, RoomInv, ListMatchesNodes,
       ListedRoomsHaveSpace, RegistryMatchesRooms

LEMMA ChatsUntouched ==
    ASSUME IInv, UNCHANGED chatVars
    PROVE  ChatTypeOK'
BY DEF IInv, TypeOK, chatVars, ChatTypeOK

\* An answer to an agent, by way of the room it is in.
LEMMA AnswerType ==
    ASSUME IInv, NEW p \in Agents, NEW kind \in Kinds, NEW ok \in BOOLEAN
    PROVE  Send(p, roomID[p], Rsp(kind, ok)) \in Seq(Tasks)
BY SendType, MessageTypes DEF IInv, TypeOK, SeatTypeOK

\* Manager.Join and its caller's answer.
LEMMA JoinStep ==
    ASSUME IInv, NEW p \in Agents, Live(p), NEW n \in NameSet, NEW rsp \in Kinds,
           Join(p, n, rsp), status' = status
    PROVE  names' \subseteq NameSet /\ SeatTypeOK' /\ RoomInv' /\ out' \in Seq(Tasks)
<1>1. names' \subseteq NameSet
  BY DEF Join, IInv, TypeOK, ConnTypeOK
<1>2. CASE UNCHANGED seatVars /\ out' = Send(p, roomID[p], Rsp(rsp, FALSE))
  <2>1. SeatTypeOK' /\ RoomInv'
    BY <1>2 DEF IInv, TypeOK, seatVars, SeatTypeOK, RoomInv, ListMatchesNodes,
                ListedRoomsHaveSpace, RegistryMatchesRooms
  <2> QED BY <1>1, <1>2, <2>1, AnswerType
<1>3. CASE /\ EnterRoom(p, n)
           /\ out' = Welcome(p, n, NextRoom) \o Send(p, NextRoom, Rsp(rsp, TRUE))
  <2>1. SeatTypeOK' /\ RoomInv'
    BY <1>3, EnterRoomKeepsRooms DEF IInv, TypeOK
  <2>2. NextRoom \in RoomIds /\ NextRoom \in 0..MaxRooms
    BY <1>3, NextRoomHasSpace DEF IInv, TypeOK, EnterRoom, RoomIds
  <2>3. Send(p, NextRoom, Rsp(rsp, TRUE)) \in Seq(Tasks)
    BY <2>2, SendType, MessageTypes
  <2>4. Broadcast(NextRoom, Ntf("ntf_online", Chat1(0, n, FALSE))) \in Seq(Tasks)
    <3>1. Chat1(0, n, FALSE) \in Seq(Chats)
      <4>1. 0 \in 0..MaxChats
        BY LimitsAssumption
      <4> QED BY <4>1, ChatMessages, Zenon
    <3>2. Ntf("ntf_online", Chat1(0, n, FALSE)) \in Messages
      BY <3>1, MessageTypes DEF Kinds
    <3> QED BY <2>2, <3>2, BroadcastType
  <2>5. Send(p, NextRoom, Ntf("ntf_history", history[NextRoom])) \in Seq(Tasks)
    <3>1. history[NextRoom] \in Seq(Chats)
      BY <2>2 DEF IInv, TypeOK, ChatTypeOK
    <3>2. Ntf("ntf_history", history[NextRoom]) \in Messages
      BY <3>1, MessageTypes DEF Kinds
    <3> QED BY <2>2, <3>2, SendType
  <2>6. Welcome(p, n, NextRoom) \in Seq(Tasks)
    <3>1. <<>> \in Seq(Tasks)
      OBVIOUS
    <3>2. (IF history[NextRoom] = <<>> THEN <<>>
           ELSE Send(p, NextRoom, Ntf("ntf_history", history[NextRoom]))) \in Seq(Tasks)
      BY <2>5, <3>1, Zenon
    <3> QED BY <2>4, <3>2, TasksTogether, Zenon DEF Welcome
  <2> QED BY <1>1, <1>3, <2>1, <2>3, <2>6, TasksTogether
<1> QED BY <1>1, <1>2, <1>3 DEF Join

\* What the actions of the loop do, one step per action.
LEMMA ConnectionSteps ==
    ASSUME IInv, NEW p \in Agents
    PROVE  /\ Connect(p) => IInv'
           /\ Destroy(p) => IInv'
           /\ \A n \in NameSet : Login(p, n) => IInv'
           /\ JoinRoom(p) => IInv'
<1>1. ASSUME Connect(p) PROVE IInv'
  <2>1. SeatTypeOK' /\ ChatTypeOK' /\ out' \in Seq(Tasks)
    BY <1>1 DEF Connect, IInv, TypeOK, SeatTypeOK, ChatTypeOK, seatVars, chatVars
  <2>2. ConnTypeOK'
    BY <1>1 DEF Connect, IInv, TypeOK, ConnTypeOK
  <2>3. ListMatchesNodes' /\ ListedRoomsHaveSpace'
    BY <1>1 DEF Connect, IInv, RoomInv, seatVars, ListMatchesNodes, ListedRoomsHaveSpace
  <2>4. RegistryMatchesRooms'
    <3>1. roomID[p] = 0
      BY <1>1 DEF Connect, IInv, RoomInv, RegistryMatchesRooms
    <3>2. players' = {q \in Agents : status'[q] = "live" /\ roomID'[q] # 0}
      BY <1>1, <3>1 DEF Connect, IInv, TypeOK, ConnTypeOK, RoomInv, RegistryMatchesRooms, seatVars
    <3> QED BY <1>1, <3>2 DEF Connect, IInv, TypeOK, ConnTypeOK, RoomInv,
                              RegistryMatchesRooms, seatVars
  <2> QED BY <2>1, <2>2, <2>3, <2>4 DEF IInv, TypeOK, RoomInv
<1>2. ASSUME Destroy(p) PROVE IInv'
  <2>1. SeatTypeOK' /\ RoomInv'
    BY <1>2, LeaveKeepsRooms DEF Destroy, IInv, TypeOK
  <2>2. ConnTypeOK' /\ ChatTypeOK' /\ out' \in Seq(Tasks)
    BY <1>2 DEF Destroy, IInv, TypeOK, ConnTypeOK, ChatTypeOK, chatVars
  <2> QED BY <2>1, <2>2 DEF IInv, TypeOK
<1>3. ASSUME NEW n \in NameSet, Login(p, n) PROVE IInv'
  <2>1. Live(p) /\ Join(p, n, "rsp_login") /\ UNCHANGED <<status, agentSet, chatVars>>
    BY <1>3 DEF Login
  <2>2. names' \subseteq NameSet /\ SeatTypeOK' /\ RoomInv' /\ out' \in Seq(Tasks)
    BY <2>1, JoinStep DEF Kinds
  <2>3. ConnTypeOK'
    BY <1>3, <2>1, <2>2 DEF Login, IInv, TypeOK, ConnTypeOK
  <2> QED BY <2>1, <2>2, <2>3, ChatsUntouched DEF IInv, TypeOK
<1>4. ASSUME JoinRoom(p) PROVE IInv'
  <2>1. Live(p) /\ Join(p, username[p], "rsp_join_room") /\ UNCHANGED <<connVars, chatVars>>
    BY <1>4 DEF JoinRoom, Ready
  <2>2. username[p] \in NameSet /\ status' = status
    BY <2>1 DEF IInv, TypeOK, ConnTypeOK, connVars
  <2>3. names' \subseteq NameSet /\ SeatTypeOK' /\ RoomInv' /\ out' \in Seq(Tasks)
    BY <2>1, <2>2, JoinStep DEF Kinds
  <2>4. ConnTypeOK'
    BY <2>1, <2>3 DEF IInv, TypeOK, ConnTypeOK, connVars
  <2> QED BY <2>1, <2>3, <2>4, ChatsUntouched DEF IInv, TypeOK
<1> QED BY <1>1, <1>2, <1>3, <1>4

\* Requests that only answer.
LEMMA AnswerSteps ==
    ASSUME IInv, NEW p \in Agents
    PROVE  /\ Heartbeat(p) => IInv'
           /\ RoomList(p) => IInv'
           /\ Ignored(p) => IInv'
<1>1. {"rsp_heartbeat", "rsp_room_list"} \subseteq Kinds
  BY DEF Kinds
<1>2. ASSUME Heartbeat(p) PROVE IInv'
  BY <1>1, <1>2, RoomsUntouched, ChatsUntouched, AnswerType DEF Heartbeat, IInv, TypeOK
<1>3. ASSUME RoomList(p) PROVE IInv'
  BY <1>1, <1>3, RoomsUntouched, ChatsUntouched, AnswerType DEF RoomList, IInv, TypeOK
<1>4. ASSUME Ignored(p) PROVE IInv'
  <2>1. <<>> \in Seq(Tasks)
    OBVIOUS
  <2> QED BY <1>4, <2>1, RoomsUntouched, ChatsUntouched DEF Ignored, IInv, TypeOK
<1> QED BY <1>2, <1>3, <1>4

\* A job at the end of a room's queue, and a queue without its first job.
LEMMA JobAdded ==
    ASSUME NEW q \in [RoomIds -> Seq(Jobs)], NEW r \in RoomIds, NEW job \in Jobs
    PROVE  [q EXCEPT ![r] = Append(@, job)] \in [RoomIds -> Seq(Jobs)]
<1>1. Append(q[r], job) \in Seq(Jobs)
  OBVIOUS
<1> QED BY <1>1

LEMMA JobTaken ==
    ASSUME NEW q \in [RoomIds -> Seq(Jobs)], NEW r \in RoomIds, q[r] # <<>>
    PROVE  /\ [q EXCEPT ![r] = Tail(@)] \in [RoomIds -> Seq(Jobs)]
           /\ Head(q[r]) \in Jobs
OBVIOUS

LEMMA RoomChatSteps ==
    ASSUME IInv, NEW p \in Agents
    PROVE  /\ RoomChat(p) => IInv'
           /\ \A words \in 1..3, cmd \in Commands : RoomCommand(p, words, cmd) => IInv'
<1>1. ASSUME RoomChat(p) PROVE IInv'
  <2>1. ConnTypeOK' /\ SeatTypeOK' /\ RoomInv'
    BY <1>1, RoomsUntouched DEF RoomChat
  <2>2. posted + 1 \in 1..MaxChats /\ posted' = posted + 1
    BY <1>1, LimitsAssumption DEF RoomChat, IInv, TypeOK, ChatTypeOK
  <2>3. [by |-> p, to |-> NoAgent, no |-> posted + 1] \in Jobs
    BY <2>2 DEF Jobs
  <2>4. checking' \in [RoomIds -> Seq(Jobs)]
    <3>1. CASE checking' = checking
      BY <3>1 DEF IInv, TypeOK, ChatTypeOK
    <3>2. CASE /\ roomID[p] \in rooms
               /\ checking' = [checking EXCEPT ![roomID[p]] =
                     Append(@, [by |-> p, to |-> NoAgent, no |-> posted + 1])]
      BY <2>3, <3>2, JobAdded DEF IInv, TypeOK, ChatTypeOK, SeatTypeOK
    <3> QED BY <1>1, <3>1, <3>2 DEF RoomChat
  <2>5. ChatTypeOK'
    BY <1>1, <2>2, <2>4 DEF RoomChat, IInv, TypeOK, ChatTypeOK
  <2>6. out' \in Seq(Tasks)
    BY <1>1, AnswerType DEF RoomChat, Kinds
  <2> QED BY <2>1, <2>5, <2>6 DEF IInv, TypeOK
<1>2. ASSUME NEW words \in 1..3, NEW cmd \in Commands, RoomCommand(p, words, cmd)
      PROVE  IInv'
  <2>1. ConnTypeOK' /\ SeatTypeOK' /\ RoomInv'
    BY <1>2, RoomsUntouched DEF RoomCommand
  <2>2. roomID[p] \in RoomIds
    BY <1>2 DEF RoomCommand, IInv, TypeOK, SeatTypeOK
  <2>3. ChatTypeOK'
    <3>1. queries' \in Seq(RoomIds)
      <4>1. queries' = queries \/ queries' = Append(queries, roomID[p])
        BY <1>2, Zenon DEF RoomCommand
      <4>2. queries \in Seq(RoomIds)
        BY DEF IInv, TypeOK, ChatTypeOK
      <4> QED BY <2>2, <4>1, <4>2
    <3> QED BY <1>2, <3>1 DEF RoomCommand, IInv, TypeOK, ChatTypeOK
  <2>4. out' \in Seq(Tasks)
    <3>1. GMResult(roomID[p]) \in Seq(Tasks) /\ <<>> \in Seq(Tasks)
      BY <2>2, GMResultType
    <3>2. Send(p, roomID[p], Rsp("rsp_room_chat", TRUE)) \in Seq(Tasks)
      BY AnswerType DEF Kinds
    <3>3. PICK complaint \in Seq(Tasks), result \in Seq(Tasks) :
            out' = complaint
            \/ out' = complaint \o result \o Send(p, roomID[p], Rsp("rsp_room_chat", TRUE))
      <4> DEFINE complaint == IF words = 2 THEN <<>> ELSE GMResult(roomID[p])
                 answered  == \/ cmd.verb = "other"
                              \/ cmd.verb = "stats" /\ playersByName[cmd.arg] # NoAgent
                 result    == IF answered THEN GMResult(roomID[p]) ELSE <<>>
      <4>1. complaint \in Seq(Tasks) /\ result \in Seq(Tasks)
        BY <3>1, Zenon
      <4>2. \/ out' = complaint
            \/ out' = complaint \o result \o Send(p, roomID[p], Rsp("rsp_room_chat", TRUE))
        BY <1>2, Zenon DEF RoomCommand
      <4> QED BY <4>1, <4>2
    <3> QED BY <3>2, <3>3, TasksTogether
  <2> QED BY <2>1, <2>3, <2>4 DEF IInv, TypeOK
<1> QED BY <1>1, <1>2

LEMMA PrivateChatSteps ==
    ASSUME IInv, NEW p \in Agents, NEW n \in NameSet, Chat(p, n)
    PROVE  IInv'
<1>1. ConnTypeOK' /\ SeatTypeOK' /\ RoomInv'
  BY RoomsUntouched DEF Chat
<1>2. posted + 1 \in 1..MaxChats /\ posted + 1 \in 0..MaxChats /\ posted' = posted + 1
  BY LimitsAssumption DEF Chat, IInv, TypeOK, ChatTypeOK
<1>3. submitted' \in [RoomIds -> Seq(Jobs)] /\ out' \in Seq(Tasks)
  <2>1. CASE ChatSent(p, n)
    <3> DEFINE q == playersByName[n]
               r == roomID[p]
    <3>1. q \in Agents /\ r \in RoomIds /\ r \in 0..MaxRooms
      BY <2>1 DEF ChatSent, ChatTarget, IInv, TypeOK, SeatTypeOK
    <3>2. [by |-> p, to |-> q, no |-> posted + 1] \in Jobs
      BY <1>2, <3>1 DEF Jobs
    <3>3. submitted' \in [RoomIds -> Seq(Jobs)]
      <4>1. \/ submitted' = submitted
            \/ submitted' = [submitted EXCEPT ![r] =
                                Append(@, [by |-> p, to |-> q, no |-> posted + 1])]
        BY <2>1 DEF ChatSent
      <4>2. submitted \in [RoomIds -> Seq(Jobs)]
        BY DEF IInv, TypeOK, ChatTypeOK
      <4> DEFINE job == [by |-> p, to |-> q, no |-> posted + 1]
      <4>3. job \in Jobs
        BY <3>2
      <4>4. submitted' = submitted \/ submitted' = [submitted EXCEPT ![r] = Append(@, job)]
        BY <4>1
      <4> HIDE DEF q, r, job
      <4>5. [submitted EXCEPT ![r] = Append(@, job)] \in [RoomIds -> Seq(Jobs)]
        BY <3>1, <4>2, <4>3, JobAdded, Zenon
      <4> QED BY <4>2, <4>4, <4>5, Zenon
    <3>4. Chat1(posted + 1, username[p], FALSE) \in Seq(Chats)
      <4>1. username[p] \in NameSet
        BY DEF IInv, TypeOK, ConnTypeOK
      <4> QED BY <1>2, <4>1, ChatMessages, Zenon
    <3>5. Ntf("ntf_chat", Chat1(posted + 1, username[p], FALSE)) \in Messages
      BY <3>4, MessageTypes DEF Kinds
    <3>6. Send(q, r, Ntf("ntf_chat", Chat1(posted + 1, username[p], FALSE))) \in Seq(Tasks)
      BY <3>1, <3>5, SendType
    <3>7. Send(p, r, Rsp("rsp_chat", TRUE)) \in Seq(Tasks)
      BY AnswerType DEF Kinds
    <3> QED BY <2>1, <3>3, <3>6, <3>7, TasksTogether DEF ChatSent
  <2>2. CASE ChatRefused(p, n)
    BY <2>2, AnswerType DEF ChatRefused, Kinds, IInv, TypeOK, ChatTypeOK
  <2> QED BY <2>1, <2>2 DEF Chat
<1>4. ChatTypeOK'
  BY <1>2, <1>3 DEF Chat, IInv, TypeOK, ChatTypeOK
<1> QED BY <1>1, <1>3, <1>4 DEF IInv, TypeOK

\* The results that come back from the filter and from the word counter.
LEMMA FilterSteps ==
    ASSUME IInv, NEW r \in RoomIds
    PROVE  /\ RunSubmitted(r) => IInv'
           /\ FilterDone(r) => IInv'
           /\ FilterLost(r) => IInv'
<1>1. ASSUME RunSubmitted(r) PROVE IInv'
  <2>1. ConnTypeOK' /\ SeatTypeOK' /\ RoomInv'
    BY <1>1, RoomsUntouched DEF RunSubmitted
  <2>2. submitted \in [RoomIds -> Seq(Jobs)] /\ checking \in [RoomIds -> Seq(Jobs)]
    BY DEF IInv, TypeOK, ChatTypeOK
  <2>3. submitted' \in [RoomIds -> Seq(Jobs)] /\ Head(submitted[r]) \in Jobs
    BY <1>1, <2>2, JobTaken DEF RunSubmitted
  <2>4. \/ checking' = checking
        \/ checking' = [checking EXCEPT ![r] = Append(@, Head(submitted[r]))]
    BY <1>1 DEF RunSubmitted
  <2>5. checking' \in [RoomIds -> Seq(Jobs)]
    <3> DEFINE job == Head(submitted[r])
    <3>1. job \in Jobs /\ (checking' = checking \/ checking' = [checking EXCEPT ![r] = Append(@, job)])
      BY <2>3, <2>4
    <3> HIDE DEF job
    <3>2. [checking EXCEPT ![r] = Append(@, job)] \in [RoomIds -> Seq(Jobs)]
      BY <2>2, <3>1, JobAdded
    <3> QED BY <2>2, <3>1, <3>2
  <2> QED BY <1>1, <2>1, <2>3, <2>5 DEF RunSubmitted, IInv, TypeOK, ChatTypeOK
<1>2. ASSUME FilterDone(r) PROVE IInv'
  <2> DEFINE job == Head(checking[r])
  <2>1. ConnTypeOK' /\ SeatTypeOK' /\ RoomInv'
    BY <1>2, RoomsUntouched DEF FilterDone
  <2>2. job \in Jobs /\ checking' \in [RoomIds -> Seq(Jobs)]
    BY <1>2, JobTaken DEF FilterDone, IInv, TypeOK, ChatTypeOK
  <2>3. job.no \in 0..MaxChats /\ job.by \in Agents /\ username[job.by] \in NameSet
    BY <2>2, LimitsAssumption DEF Jobs, IInv, TypeOK, ConnTypeOK
  <2>4. \A name \in NameSet \cup {Guest} : Chat1(job.no, name, TRUE) \in Seq(Chats)
    <3> HIDE DEF job
    <3> QED BY <2>3, ChatMessages, Zenon
  <2>5. \A name \in NameSet \cup {Guest}, kind \in Kinds :
           Ntf(kind, Chat1(job.no, name, TRUE)) \in Messages
    BY <2>4, MessageTypes
  <2>6. history' \in [RoomIds -> Seq(Chats)] /\ out' \in Seq(Tasks)
    <3>1. CASE /\ AddMsg(r, Chat1(job.no, username[job.by], TRUE))
               /\ out' = Broadcast(r, Ntf("ntf_room_chat",
                                          Chat1(job.no, ShownName(job.by), TRUE)))
      <4>1. ShownName(job.by) \in NameSet \cup {Guest} /\ r \in 0..MaxRooms
        BY <2>3 DEF ShownName, RoomIds
      <4>2. out' \in Seq(Tasks)
        BY <2>5, <3>1, <4>1, BroadcastType DEF Kinds
      <4>3. (IF Len(history[r]) >= HistoryCap THEN Tail(history[r]) ELSE history[r])
              \in Seq(Chats)
        BY LimitsAssumption DEF IInv, TypeOK, ChatTypeOK
      <4>4. (IF Len(history[r]) >= HistoryCap THEN Tail(history[r]) ELSE history[r])
              \o Chat1(job.no, username[job.by], TRUE) \in Seq(Chats)
        <5> DEFINE kept == IF Len(history[r]) >= HistoryCap THEN Tail(history[r]) ELSE history[r]
                   added == Chat1(job.no, username[job.by], TRUE)
        <5>1. kept \in Seq(Chats) /\ added \in Seq(Chats)
          BY <2>3, <2>4, <4>3
        <5> HIDE DEF kept, added
        <5>2. kept \o added \in Seq(Chats)
          BY <5>1
        <5> QED BY <5>2 DEF kept, added
      <4> QED BY <3>1, <4>2, <4>4 DEF AddMsg, IInv, TypeOK, ChatTypeOK
    <3>2. CASE /\ job.to # NoAgent
               /\ out' = Send(job.to, roomID[job.to],
                              Ntf("ntf_chat", Chat1(job.no, username[job.by], TRUE)))
               /\ UNCHANGED history
      <4>1. job.to \in Agents /\ roomID[job.to] \in 0..MaxRooms
        BY <2>2, <3>2 DEF Jobs, IInv, TypeOK, SeatTypeOK
      <4>2. Ntf("ntf_chat", Chat1(job.no, username[job.by], TRUE)) \in Messages
        BY <2>3, <2>5 DEF Kinds
      <4> QED BY <3>2, <4>1, <4>2, SendType DEF IInv, TypeOK, ChatTypeOK
    <3> QED BY <1>2, <3>1, <3>2 DEF FilterDone
  <2> QED BY <1>2, <2>1, <2>2, <2>6 DEF FilterDone, IInv, TypeOK, ChatTypeOK
<1>3. ASSUME FilterLost(r) PROVE IInv'
  <2>1. ConnTypeOK' /\ SeatTypeOK' /\ RoomInv'
    BY <1>3, RoomsUntouched DEF FilterLost
  <2>2. checking' \in [RoomIds -> Seq(Jobs)]
    BY <1>3, JobTaken DEF FilterLost, IInv, TypeOK, ChatTypeOK
  <2> QED BY <1>3, <2>1, <2>2 DEF FilterLost, IInv, TypeOK, ChatTypeOK
<1> QED BY <1>1, <1>2, <1>3

LEMMA PopularStep ==
    ASSUME IInv, PopularAnswered
    PROVE  IInv'
<1>1. ConnTypeOK' /\ SeatTypeOK' /\ RoomInv'
  BY RoomsUntouched DEF PopularAnswered
<1>2. Head(queries) \in RoomIds /\ queries' \in Seq(RoomIds)
  BY DEF PopularAnswered, IInv, TypeOK, ChatTypeOK
<1> QED BY <1>1, <1>2, GMResultType DEF PopularAnswered, IInv, TypeOK, ChatTypeOK

-----------------------------------------------------------------------------
(* Theorems. *)

LEMMA InitIInv == Init => IInv
<1> SUFFICES ASSUME Init PROVE IInv
  OBVIOUS
<1> USE LimitsAssumption, AgentsAssumption DEF Init
<1>1. ConnTypeOK
  BY DEF ConnTypeOK, NameSet
<1>2. SeatTypeOK
  BY DEF SeatTypeOK
<1>3. ChatTypeOK /\ out \in Seq(Tasks)
  BY DEF ChatTypeOK
<1>4. ListMatchesNodes
  BY DEF ListMatchesNodes
<1>5. ListedRoomsHaveSpace
  BY FS_EmptySet DEF ListedRoomsHaveSpace
<1>6. RegistryMatchesRooms
  BY DEF RegistryMatchesRooms
<1> QED BY <1>1, <1>2, <1>3, <1>4, <1>5, <1>6 DEF IInv, TypeOK, RoomInv

LEMMA NextIInv == IInv /\ [Next]_vars => IInv'
<1> SUFFICES ASSUME IInv, [Next]_vars PROVE IInv'
  OBVIOUS
<1>1. CASE UNCHANGED vars
  BY <1>1, RoomsUntouched, ChatsUntouched DEF vars, IInv, TypeOK
<1>2. ASSUME NEW p \in Agents, Connect(p) \/ Destroy(p) PROVE IInv'
  BY <1>2, ConnectionSteps
<1>3. ASSUME NEW p \in Agents, Request(p) PROVE IInv'
  BY <1>3, ConnectionSteps, AnswerSteps, RoomChatSteps, PrivateChatSteps DEF Request
<1>4. ASSUME NEW r \in RoomIds, RunSubmitted(r) \/ FilterDone(r) \/ FilterLost(r)
      PROVE  IInv'
  BY <1>4, FilterSteps
<1>5. CASE PopularAnswered
  BY <1>5, PopularStep
<1> QED BY <1>1, <1>2, <1>3, <1>4, <1>5 DEF Next

LEMMA InductiveInvariant == Spec => []IInv
BY InitIInv, NextIInv, PTL DEF Spec

\* Every reachable state is well typed: in particular roomIDBase stays within
\* the rooms that may exist and every queue holds what it is meant to hold.
THEOREM TypeCorrect == Spec => []TypeOK
<1>1. IInv => TypeOK
  BY DEF IInv
<1> QED BY <1>1, InductiveInvariant, PTL

\* The list of rooms with space and the node pointers never disagree.
THEOREM ListAlwaysMatchesNodes == Spec => []ListMatchesNodes
<1>1. IInv => ListMatchesNodes
  BY DEF IInv, RoomInv
<1> QED BY <1>1, InductiveInvariant, PTL

\* No room is over its capacity and Join never meets a full room, whatever the
\* clients send and however often they log in again.
THEOREM RoomsNeverOverfull == Spec => []ListedRoomsHaveSpace
<1>1. IInv => ListedRoomsHaveSpace
  BY DEF IInv, RoomInv
<1> QED BY <1>1, InductiveInvariant, PTL

\* The players map, the agents' room numbers and the member maps agree.
THEOREM RegistriesAlwaysAgree == Spec => []RegistryMatchesRooms
<1>1. IInv => RegistryMatchesRooms
  BY DEF IInv, RoomInv
<1> QED BY <1>1, InductiveInvariant, PTL
=============================================================================
