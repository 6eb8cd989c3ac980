---------------------------- MODULE MCLifeCycle ----------------------------
(* Model values for checking LifeCycle with TLC. *)
EXTENDS LifeCycle, Naturals

\* Connections are interchangeable, and only Accept looks at the backlog: they
\* may as well be numbered in the order in which they are dialled, and each be
\* dialled when the loop is there to accept it.
Numbered ==
    \A d \in Conns : net[d] = "none" /\ net'[d] # "none" =>
       /\ run = "accepting"
       /\ \A c \in Conns : c < d => net[c] \in {"open", "closed"}

\* Only Accept looks at the limiter's count: the ticker may as well clear it when
\* there is a connection to accept.
Timely ==
    NumberOfConn' < NumberOfConn =>
       run = "accepting" /\ \E c \in Conns : net[c] = "backlog"

WholeSpec == LifeInit /\ [][LifeNext /\ Numbered /\ Timely]_allVars /\ Fairness
=============================================================================
