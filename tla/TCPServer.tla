----------------------------- MODULE TCPServer -----------------------------
(***************************************************************************)
(* framework/network/tcpserver.go: the accept loop run, the limiter's      *)
(* ticker tick, one goroutine per connection served (newAgent), and Close. *)
(* They meet in two wait groups, one lock, and the unbuffered channel      *)
(* offChan, which tick makes and run sends on when it ends.  LifeCycle     *)
(* composes this with its caller, the gate module.                         *)
(*                                                                         *)
(* run and tick add themselves to wgLn once they run, not before Start     *)
(* returns, and Close may be called at any time after Start.  Temporary    *)
(* errors of Accept only make the code sleep and try again, and are left   *)
(* out.                                                                    *)
(***************************************************************************)
EXTENDS Integers, FiniteSets

CONSTANTS
    Conns,              \* connections clients may make
    NoConn,
    MaxConnNum,         \* connections served at a time
    ConnNumberPerSecond \* the limiter, 0 for none

ASSUME ConnsAssumption == IsFiniteSet(Conns) /\ NoConn \notin Conns
ASSUME BoundsAssumption ==
    MaxConnNum \in Nat \ {0} /\ ConnNumberPerSecond \in Nat

VARIABLES
    ln,            \* the listener
    run, cur,      \* where the accept loop is, and the connection in its hands
    tick, offChan, \* where the ticker is, and whether offChan has been made
    NumberOfConn,  \* connections counted in this second
    conns,         \* TCPServer.conns
    isNil,         \* whether Close has set conns to nil
    wgLn, wgConns, \* the wait groups' counters
    net,           \* each connection as the network has it
    agent,         \* where the goroutine serving each connection is
    closer         \* where Close is

vars == <<ln, run, cur, tick, offChan, NumberOfConn, conns, isNil, wgLn, wgConns,
          net, agent, closer>>
loopVars == <<run, cur>>
tickVars == <<tick, offChan>>

Limited == ConnNumberPerSecond > 0

Init ==
    /\ ln = "none"
    /\ run = "none" /\ cur = NoConn
    /\ tick = "none" /\ offChan = FALSE
    /\ NumberOfConn = 0
    /\ conns = {} /\ isNil = FALSE
    /\ wgLn = 0 /\ wgConns = 0
    /\ net = [c \in Conns |-> "none"]
    /\ agent = [c \in Conns |-> "none"]
    /\ closer = "idle"

\* Start, when Listen succeeds at once or when tried again.
Start ==
    /\ ln = "none"
    /\ ln' = "open"
    /\ run' = "new"
    /\ tick' = IF Limited THEN "new" ELSE "none"
    /\ UNCHANGED <<cur, offChan, NumberOfConn, conns, isNil, wgLn, wgConns, net, agent,
                   closer>>

-----------------------------------------------------------------------------
(* The clients. *)

Dial(c) ==
    /\ net[c] = "none"
    /\ ln = "open"
    /\ net' = [net EXCEPT ![c] = "backlog"]
    /\ UNCHANGED <<ln, loopVars, tickVars, NumberOfConn, conns, isNil, wgLn, wgConns,
                   agent, closer>>

\* The client closes, the connection breaks, or the program's loop has it closed
\* (Delivery), with its goroutine reading or gone.
HangUp(c) ==
    /\ net[c] = "open"
    /\ net' = [net EXCEPT ![c] = "closed"]
    /\ UNCHANGED <<ln, loopVars, tickVars, NumberOfConn, conns, isNil, wgLn, wgConns,
                   agent, closer>>

-----------------------------------------------------------------------------
(* The accept loop. *)

RunStarts ==
    /\ run = "new"
    /\ run' = "accepting"
    /\ wgLn' = wgLn + 1
    /\ UNCHANGED <<ln, cur, tickVars, NumberOfConn, conns, isNil, wgConns, net, agent,
                   closer>>

\* Accept succeeds; the limiter counts the connection and may turn it away.
Accept(c) ==
    LET num     == NumberOfConn + 1
        tooMany == Limited /\ num >= ConnNumberPerSecond
    IN  /\ run = "accepting"
        /\ ln = "open"
        /\ net[c] = "backlog"
        /\ NumberOfConn' = IF Limited THEN num ELSE NumberOfConn
        /\ net' = [net EXCEPT ![c] = IF tooMany THEN "closed" ELSE "open"]
        /\ run' = IF tooMany THEN "accepting" ELSE "registering"
        /\ cur' = IF tooMany THEN NoConn ELSE c
        /\ UNCHANGED <<ln, tickVars, conns, isNil, wgLn, wgConns, agent, closer>>

\* Wrong variant: one connection more than allowed.
RegisterOneMore ==
    /\ run = "registering"
    /\ \/ /\ Cardinality(conns) > MaxConnNum
          /\ net' = [net EXCEPT ![cur] = "closed"]
          /\ run' = "accepting"
          /\ cur' = NoConn
          /\ conns' = conns
       \/ /\ Cardinality(conns) <= MaxConnNum
          /\ run' = IF isNil THEN "panicked" ELSE "serving"
          /\ conns' = IF isNil THEN conns ELSE conns \cup {cur}
          /\ UNCHANGED <<net, cur>>
    /\ UNCHANGED <<ln, tickVars, NumberOfConn, isNil, wgLn, wgConns, agent, closer>>

\* The part under the lock.  Writing a nil map panics.
Register ==
    /\ run = "registering"
    /\ \/ /\ Cardinality(conns) >= MaxConnNum
          /\ net' = [net EXCEPT ![cur] = "closed"]
          /\ run' = "accepting"
          /\ cur' = NoConn
          /\ conns' = conns
       \/ /\ Cardinality(conns) < MaxConnNum
          /\ run' = IF isNil THEN "panicked" ELSE "serving"
          /\ conns' = IF isNil THEN conns ELSE conns \cup {cur}
          /\ UNCHANGED <<net, cur>>
    /\ UNCHANGED <<ln, tickVars, NumberOfConn, isNil, wgLn, wgConns, agent, closer>>

\* Wrong variant: the goroutine counts itself, as run and tick do.
ServeUncounted ==
    /\ run = "serving"
    /\ agent' = [agent EXCEPT ![cur] = "reading"]
    /\ run' = "accepting"
    /\ cur' = NoConn
    /\ UNCHANGED <<ln, tickVars, NumberOfConn, conns, isNil, wgLn, wgConns, net, closer>>

\* wgConns.Add and the start of newAgent.
Serve ==
    /\ run = "serving"
    /\ wgConns' = wgConns + 1
    /\ agent' = [agent EXCEPT ![cur] = "reading"]
    /\ run' = "accepting"
    /\ cur' = NoConn
    /\ UNCHANGED <<ln, tickVars, NumberOfConn, conns, isNil, wgLn, net, closer>>

\* Accept fails on the closed listener; the deferred function begins.  A send
\* on the nil offChan blocks for ever.
AcceptFails ==
    /\ run = "accepting"
    /\ ln = "closed"
    /\ run' = IF ~Limited THEN "leaving" ELSE IF offChan THEN "sending" ELSE "stuck"
    /\ UNCHANGED <<ln, cur, tickVars, NumberOfConn, conns, isNil, wgLn, wgConns, net,
                   agent, closer>>

\* The send on offChan meets tick's receive.
SendOff ==
    /\ run = "sending"
    /\ tick = "ticking"
    /\ run' = "leaving"
    /\ tick' = "leaving"
    /\ UNCHANGED <<ln, cur, offChan, NumberOfConn, conns, isNil, wgLn, wgConns, net,
                   agent, closer>>

RunEnds ==
    /\ run = "leaving"
    /\ run' = "done"
    /\ wgLn' = wgLn - 1
    /\ UNCHANGED <<ln, cur, tickVars, NumberOfConn, conns, isNil, wgConns, net, agent,
                   closer>>

-----------------------------------------------------------------------------
(* The ticker. *)

TickStarts ==
    /\ tick = "new"
    /\ tick' = "counted"
    /\ wgLn' = wgLn + 1
    /\ UNCHANGED <<ln, loopVars, offChan, NumberOfConn, conns, isNil, wgConns, net, agent,
                   closer>>

MakeOffChan ==
    /\ tick = "counted"
    /\ tick' = "ticking"
    /\ offChan' = TRUE
    /\ UNCHANGED <<ln, loopVars, NumberOfConn, conns, isNil, wgLn, wgConns, net, agent,
                   closer>>

\* A second has passed.
Tick ==
    /\ tick = "ticking"
    /\ NumberOfConn' = 0
    /\ UNCHANGED <<ln, loopVars, tickVars, conns, isNil, wgLn, wgConns, net, agent, closer>>

TickEnds ==
    /\ tick = "leaving"
    /\ tick' = "done"
    /\ wgLn' = wgLn - 1
    /\ UNCHANGED <<ln, loopVars, offChan, NumberOfConn, conns, isNil, wgConns, net, agent,
                   closer>>

-----------------------------------------------------------------------------
(* newAgent. *)

\* NewAgent returns: its read has failed, or it refuses a packet (Framing) and
\* leaves the connection open.
AgentReturns(c) ==
    /\ agent[c] = "reading"
    /\ agent' = [agent EXCEPT ![c] = "returned"]
    /\ UNCHANGED <<ln, loopVars, tickVars, NumberOfConn, conns, isNil, wgLn, wgConns, net,
                   closer>>

\* The delete under the lock; deleting from a nil map does nothing.
AgentUnregisters(c) ==
    /\ agent[c] = "returned"
    /\ agent' = [agent EXCEPT ![c] = "unregistered"]
    /\ conns' = conns \ {c}
    /\ UNCHANGED <<ln, loopVars, tickVars, NumberOfConn, isNil, wgLn, wgConns, net, closer>>

AgentDone(c) ==
    /\ agent[c] = "unregistered"
    /\ agent' = [agent EXCEPT ![c] = "done"]
    /\ wgConns' = wgConns - 1
    /\ UNCHANGED <<ln, loopVars, tickVars, NumberOfConn, conns, isNil, wgLn, net, closer>>

-----------------------------------------------------------------------------
(* Close. *)

CloseListener ==
    /\ closer = "idle"
    /\ ln = "open"
    /\ ln' = "closed"
    /\ closer' = "waiting"
    /\ UNCHANGED <<loopVars, tickVars, NumberOfConn, conns, isNil, wgLn, wgConns, net, agent>>

\* Wrong variant: Close does not wait for the accept loop.
CloseConnsAtOnce ==
    /\ closer = "waiting"
    /\ net' = [c \in Conns |-> IF c \in conns THEN "closed" ELSE net[c]]
    /\ conns' = {}
    /\ isNil' = TRUE
    /\ closer' = "draining"
    /\ UNCHANGED <<ln, loopVars, tickVars, NumberOfConn, wgLn, wgConns, agent>>

\* wgLn.Wait returns, and the connections are closed under the lock.
CloseConns ==
    /\ closer = "waiting"
    /\ wgLn = 0
    /\ net' = [c \in Conns |-> IF c \in conns THEN "closed" ELSE net[c]]
    /\ conns' = {}
    /\ isNil' = TRUE
    /\ closer' = "draining"
    /\ UNCHANGED <<ln, loopVars, tickVars, NumberOfConn, wgLn, wgConns, agent>>

\* wgConns.Wait returns.
CloseReturned ==
    /\ closer = "draining"
    /\ wgConns = 0
    /\ closer' = "done"
    /\ UNCHANGED <<ln, loopVars, tickVars, NumberOfConn, conns, isNil, wgLn, wgConns, net,
                   agent>>

-----------------------------------------------------------------------------
Run == RunStarts \/ (\E c \in Conns : Accept(c)) \/ Register \/ Serve \/ AcceptFails
       \/ SendOff \/ RunEnds
Ticker == TickStarts \/ MakeOffChan \/ TickEnds
Agent(c) == AgentReturns(c) \/ AgentUnregisters(c) \/ AgentDone(c)
Close == CloseConns \/ CloseReturned

Next ==
    \/ Start \/ Run \/ Ticker \/ Tick \/ CloseListener \/ Close
    \/ \E c \in Conns : Dial(c) \/ HangUp(c) \/ Agent(c)

Spec == Init /\ [][Next]_vars

-----------------------------------------------------------------------------
TypeOK ==
    /\ ln \in {"none", "open", "closed"} /\ offChan \in BOOLEAN /\ isNil \in BOOLEAN
    /\ run \in {"none", "new", "accepting", "registering", "serving", "panicked", "sending",
                "stuck", "leaving", "done"}
    /\ cur \in Conns \cup {NoConn}
    /\ tick \in {"none", "new", "counted", "ticking", "leaving", "done"}
    /\ NumberOfConn \in Nat
    /\ conns \subseteq Conns
    /\ wgLn \in 0..2 /\ wgConns \in 0..Cardinality(Conns)
    /\ net \in [Conns -> {"none", "backlog", "open", "closed"}]
    /\ agent \in [Conns -> {"none", "reading", "returned", "unregistered", "done"}]
    /\ closer \in {"idle", "waiting", "draining", "done"}

Served == {c \in Conns : agent[c] \in {"reading", "returned", "unregistered"}}

\* Close meets no accept loop that still writes the map it sets to nil,
\* although the loop starts uncounted (run, Close).  When Close goes on to wait
\* for the connections' goroutines, none of them reads from an open connection,
\* which could keep it waiting: what is open by then are connections whose
\* goroutine has refused a packet and taken them off the map, and they are the
\* game loop's to close.  When it returns no goroutine is left, although the
\* count is raised after the lock is given back (tcpserver.go:165-168).
NothingLeftOpen ==
    /\ run # "panicked"
    /\ closer \in {"draining", "done"} =>
          \A c \in Conns : net[c] = "open" => agent[c] \in {"unregistered", "done"}
    /\ closer = "done" => Served = {}

\* The map holds what is served, so that Close finds every connection to
\* close, and no more connections than allowed are served at a time.
MapHoldsServed ==
    /\ ~isNil => {c \in Conns : agent[c] \in {"reading", "returned"}} \subseteq conns
    /\ Cardinality({c \in Conns : agent[c] \in {"reading", "returned"}}) <= MaxConnNum
=============================================================================
