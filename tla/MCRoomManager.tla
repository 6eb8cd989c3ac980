--------------------------- MODULE MCRoomManager ---------------------------
(* Model values for checking RoomManager with TLC. *)
EXTENDS RoomManager, TLC

\* Agents and names are interchangeable: nothing in RoomManager orders them.
Symmetry == Permutations(Agents) \cup Permutations(Names)
=============================================================================
