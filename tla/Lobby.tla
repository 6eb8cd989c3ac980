------------------------------- MODULE Lobby -------------------------------
(***************************************************************************)
(* What the room manager promises to players who log in once: a player who *)
(* is admitted gets one seat in one room, no room seats more than its      *)
(* capacity, a room is opened only when every open room is full, and a     *)
(* name belongs to the first player who brings it, for ever.               *)
(* RoomManager is shown to implement this specification.                   *)
(***************************************************************************)
EXTENDS Integers, FiniteSets

CONSTANTS People, Nobody, Names, RoomCap, MaxRooms

VARIABLES
    seat,       \* the room each person sits in, 0 for none
    opened,     \* how many rooms have been opened; rooms are never closed
    used,       \* the names that have ever been brought to the lobby
    holder      \* the person now answering to a name, or Nobody

vars == <<seat, opened, used, holder>>

Seated(r) == {p \in People : seat[p] = r}
HasSpace(r) == Cardinality(Seated(r)) < RoomCap
EveryRoomFull == \A r \in 1..opened : ~HasSpace(r)

Init ==
    /\ seat = [p \in People |-> 0]
    /\ opened = 0
    /\ used = {}
    /\ holder = [n \in Names |-> Nobody]

\* p brings the fresh name n and takes a seat in an open room, or in a new
\* room when no open one has space.
Admit(p, n, r) ==
    /\ seat[p] = 0
    /\ n \notin used
    /\ \/ r \in 1..opened /\ HasSpace(r) /\ opened' = opened
       \/ EveryRoomFull /\ opened < MaxRooms /\ r = opened + 1 /\ opened' = r
    /\ seat' = [seat EXCEPT ![p] = r]
    /\ used' = used \cup {n}
    /\ holder' = [holder EXCEPT ![n] = p]

\* Every seat of every room is taken: the name is used up all the same.
TurnAway(n) ==
    /\ EveryRoomFull
    /\ opened = MaxRooms
    /\ n \notin used
    /\ used' = used \cup {n}
    /\ UNCHANGED <<seat, opened, holder>>

\* p stands up; the name p holds stays used.
Leave(p, n) ==
    /\ seat[p] # 0
    /\ holder[n] = p
    /\ seat' = [seat EXCEPT ![p] = 0]
    /\ holder' = [holder EXCEPT ![n] = Nobody]
    /\ UNCHANGED <<opened, used>>

Next ==
    \/ \E p \in People, n \in Names, r \in 1..MaxRooms : Admit(p, n, r)
    \/ \E n \in Names : TurnAway(n)
    \/ \E p \in People, n \in Names : Leave(p, n)

Spec == Init /\ [][Next]_vars
=============================================================================
