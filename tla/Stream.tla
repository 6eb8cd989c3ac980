------------------------------- MODULE Stream -------------------------------
(***************************************************************************)
(* What a connection promises its two ends: packets are handled one by     *)
(* one, in the order in which they were written, each once and whole,      *)
(* until the connection is lost or its reader refuses the packet whose     *)
(* turn it is.  Framing implements it over bytes.                          *)
(***************************************************************************)
EXTENDS Naturals, Sequences

CONSTANTS
    Packets,    \* packets that can be written
    Refused,    \* those no reader takes
    Unreadable  \* those a reader takes without reading, or refuses

VARIABLES written, handled, state

streamVars == <<written, handled, state>>

StreamInit == written = <<>> /\ handled = <<>> /\ state = "open"

Write ==
    /\ \E p \in Packets : written' = Append(written, p)
    /\ UNCHANGED <<handled, state>>

Turn == written[Len(handled) + 1]

Handle ==
    /\ state = "open"
    /\ Len(handled) < Len(written)
    /\ Turn \notin Refused
    /\ handled' = Append(handled, Turn)
    /\ UNCHANGED <<written, state>>

\* A packet that is refused for what it holds has been taken first.
Refuse ==
    /\ state = "open"
    /\ Len(handled) < Len(written)
    /\ Turn \in Refused \cup Unreadable
    /\ state' = "refused"
    /\ UNCHANGED <<written, handled>>

Lose ==
    /\ state = "open"
    /\ state' = "lost"
    /\ UNCHANGED <<written, handled>>

StreamNext == Write \/ Handle \/ Refuse \/ Lose
StreamSpec == StreamInit /\ [][StreamNext]_streamVars
=============================================================================
