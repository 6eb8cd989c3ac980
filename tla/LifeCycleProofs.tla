-------------------------- MODULE LifeCycleProofs ---------------------------
(***************************************************************************)
(* What is proved of TCPServer and of LifeCycle, which composes it with    *)
(* its caller, for every set of connections and every limit.  LifeCycle    *)
(* implements TCPServer: whatever main and the two modules do, the server  *)
(* sees only the steps its own specification allows, so that what is       *)
(* proved of the server alone holds of the whole program.                  *)
(***************************************************************************)
EXTENDS LifeCycle, FiniteSetTheorems, TLAPS

-----------------------------------------------------------------------------
(* The server's inductive invariant. *)

RunCounted ==
    IF run \in {"accepting", "registering", "serving", "panicked", "sending", "stuck", "leaving"}
    THEN 1 ELSE 0

TickCounted == IF tick \in {"counted", "ticking", "leaving"} THEN 1 ELSE 0

\* The wait groups count the goroutines that have begun and have not ended.
Counted == wgLn = RunCounted + TickCounted /\ wgConns = Cardinality(Served)

\* An open connection is in the map or in the accept loop's hands, unless the
\* goroutine that read from it has taken it off the map; and only an accepted
\* connection has such a goroutine.
Handled ==
    /\ run \in {"registering", "serving"} <=> cur # NoConn
    /\ cur # NoConn => cur \in Conns /\ agent[cur] = "none" /\ net[cur] \in {"open", "closed"}
    /\ run = "serving" => cur \in conns
    /\ \A c \in Conns :
          /\ net[c] \in {"none", "backlog"} => agent[c] = "none"
          /\ net[c] = "open" => c \in conns \/ c = cur \/ agent[c] \in {"unregistered", "done"}

\* Nothing begins before Start, and once Close has set the map to nil the accept
\* loop, which finds the listener closed, writes it no more.
Ordered ==
    /\ ln = "none" => run = "none" /\ tick = "none" /\ Served = {}
    /\ closer # "idle" => ln = "closed"
    /\ isNil <=> closer \in {"draining", "done"}
    /\ isNil => cur = NoConn /\ conns = {}
    /\ closer = "done" => Served = {}
    /\ run # "panicked"

ServerInv ==
    TypeOK /\ Counted /\ Handled /\ Ordered /\ MapHoldsServed /\ Cardinality(conns) <= MaxConnNum

\* What a goroutine of a connection counts for.
LEMMA ServedCounts ==
    ASSUME TypeOK
    PROVE  /\ IsFiniteSet(Served) /\ Cardinality(Served) \in Nat
           /\ Cardinality(Served) <= Cardinality(Conns)
           /\ IsFiniteSet(conns) /\ Cardinality(conns) \in Nat
           /\ IsFiniteSet(Conns) /\ Cardinality(Conns) \in Nat
<1>1. Served \in SUBSET Conns /\ conns \in SUBSET Conns /\ IsFiniteSet(Conns)
  BY ConnsAssumption DEF Served, TypeOK
<1> QED BY <1>1, FS_Subset, FS_CardinalityType

\* Serve starts a goroutine and AgentDone ends one; nothing else changes how
\* many there are.
LEMMA ServedSteps ==
    ASSUME ServerInv, [Next]_vars
    PROVE  \/ /\ Serve /\ cur \in Conns \ Served
              /\ Served' = Served \cup {cur}
           \/ \E c \in Served : AgentDone(c) /\ Served' = Served \ {c}
           \/ Served' = Served /\ wgConns' = wgConns
<1>1. CASE Serve
  <2>1. cur \in Conns /\ cur \notin Served
    BY <1>1 DEF Serve, ServerInv, Handled, Served
  <2>2. Served' = Served \cup {cur}
    BY <1>1, <2>1 DEF Serve, Served, ServerInv, TypeOK
  <2> QED BY <1>1, <2>1, <2>2
<1>2. ASSUME NEW c \in Conns, AgentDone(c)
      PROVE  c \in Served /\ Served' = Served \ {c}
  BY <1>2 DEF AgentDone, Served, ServerInv, TypeOK
<1>3. ASSUME NEW c \in Conns, AgentReturns(c) \/ AgentUnregisters(c)
      PROVE  Served' = Served /\ wgConns' = wgConns
  BY <1>3 DEF AgentReturns, AgentUnregisters, Served, ServerInv, TypeOK
<1>4. CASE \/ Start \/ RunStarts \/ (\E c \in Conns : Accept(c)) \/ Register \/ AcceptFails
           \/ SendOff \/ RunEnds \/ Ticker \/ Tick \/ CloseListener \/ Close
           \/ (\E c \in Conns : Dial(c) \/ HangUp(c)) \/ UNCHANGED vars
  <2>1. agent' = agent /\ wgConns' = wgConns
    BY <1>4 DEF Start, RunStarts, Accept, Register, AcceptFails, SendOff, RunEnds, Ticker,
                TickStarts, MakeOffChan, TickEnds, Tick, CloseListener, Close, CloseConns,
                CloseReturned, Dial, HangUp, vars
  <2> QED BY <2>1 DEF Served
<1> QED BY <1>1, <1>2, <1>3, <1>4 DEF Next, Run, Agent

LEMMA CountedStep == ServerInv /\ [Next]_vars => Counted'
<1> SUFFICES ASSUME ServerInv, [Next]_vars PROVE Counted'
  OBVIOUS
<1>1. IsFiniteSet(Served) /\ Cardinality(Served) \in Nat /\ wgConns = Cardinality(Served)
  BY ServedCounts DEF ServerInv, Counted
<1>2. wgConns' = Cardinality(Served')
  <2>1. CASE Serve /\ cur \notin Served /\ Served' = Served \cup {cur}
    <3>1. Cardinality(Served') = Cardinality(Served) + 1
      BY <1>1, <2>1, FS_AddElement
    <3> QED BY <1>1, <2>1, <3>1 DEF Serve
  <2>2. ASSUME NEW c \in Served, AgentDone(c), Served' = Served \ {c}
        PROVE  wgConns' = Cardinality(Served')
    <3>1. Cardinality(Served') = Cardinality(Served) - 1
      BY <1>1, <2>2, FS_RemoveElement
    <3> QED BY <1>1, <2>2, <3>1 DEF AgentDone
  <2> QED BY <1>1, <2>1, <2>2, ServedSteps
<1>3. wgLn' = RunCounted' + TickCounted'
  <2> USE DEF ServerInv, Counted, RunCounted, TickCounted, TypeOK
  <2>1. CASE Start
    BY <2>1 DEF Start, Ordered
  <2>2. CASE RunStarts \/ Register \/ Serve \/ (\E c \in Conns : Accept(c))
    BY <2>2 DEF RunStarts, Register, Serve, Accept, tickVars
  <2>3. CASE AcceptFails \/ SendOff \/ RunEnds
    BY <2>3 DEF AcceptFails, SendOff, RunEnds, tickVars
  <2>4. CASE Ticker \/ Tick
    BY <2>4 DEF Ticker, TickStarts, MakeOffChan, TickEnds, Tick, tickVars, loopVars
  <2>5. CASE \/ CloseListener \/ Close \/ UNCHANGED vars
             \/ \E c \in Conns : Dial(c) \/ HangUp(c) \/ Agent(c)
    BY <2>5 DEF CloseListener, Close, CloseConns, CloseReturned, Dial, HangUp, Agent,
                AgentReturns, AgentUnregisters, AgentDone, vars, tickVars, loopVars
  <2> QED BY <2>1, <2>2, <2>3, <2>4, <2>5 DEF Next, Run
<1> QED BY <1>2, <1>3 DEF Counted, Served

LEMMA ServerTypeStep == ServerInv /\ [Next]_vars => TypeOK'
<1> SUFFICES ASSUME ServerInv, [Next]_vars PROVE TypeOK'
  OBVIOUS
<1> USE ConnsAssumption, BoundsAssumption
<1>1. /\ wgLn' \in 0..2
  BY CountedStep DEF Counted, RunCounted, TickCounted
<1>2. wgConns' \in 0..Cardinality(Conns)
  <2>1. Served' \in SUBSET Conns /\ IsFiniteSet(Conns)
    BY DEF Served
  <2>2. Cardinality(Served') \in Nat /\ Cardinality(Served') <= Cardinality(Conns)
        /\ Cardinality(Conns) \in Nat
    BY <2>1, FS_Subset, FS_CardinalityType
  <2>3. wgConns' = Cardinality(Served')
    BY CountedStep DEF Counted, Served
  <2> QED BY <2>2, <2>3
<1> USE DEF Next, Start, Run, RunStarts, Accept, Register, Serve, AcceptFails, SendOff,
            RunEnds, Ticker, TickStarts, MakeOffChan, TickEnds, Tick, CloseListener, Close,
            CloseConns, CloseReturned, Dial, HangUp, Agent, AgentReturns, AgentUnregisters,
            AgentDone, vars, loopVars, tickVars, ServerInv, TypeOK
<1>3. /\ ln' \in {"none", "open", "closed"}
      /\ closer' \in {"idle", "waiting", "draining", "done"}
  OBVIOUS
<1>10. offChan' \in BOOLEAN /\ isNil' \in BOOLEAN
  OBVIOUS
<1>11. NumberOfConn' \in Nat
  OBVIOUS
<1>7. tick' \in {"none", "new", "counted", "ticking", "leaving", "done"}
  OBVIOUS
<1>8. cur' \in Conns \cup {NoConn}
  OBVIOUS
<1>9. run' \in {"none", "new", "accepting", "registering", "serving", "panicked", "sending",
               "stuck", "leaving", "done"}
  OBVIOUS
<1>4. conns' \subseteq Conns
  BY DEF Handled
<1>5. net' \in [Conns -> {"none", "backlog", "open", "closed"}]
  OBVIOUS
<1>6. agent' \in [Conns -> {"none", "reading", "returned", "unregistered", "done"}]
  OBVIOUS
<1> QED BY <1>1, <1>2, <1>3, <1>4, <1>5, <1>6, <1>7, <1>8, <1>9, <1>10, <1>11
       DEF TypeOK
LEMMA HandledStep == ServerInv /\ [Next]_vars => Handled'
<1> SUFFICES ASSUME ServerInv, [Next]_vars PROVE Handled'
  OBVIOUS
<1> USE ConnsAssumption DEF ServerInv, Handled, TypeOK
<1>1. ASSUME NEW c \in Conns, Accept(c) PROVE Handled'
  BY <1>1 DEF Accept
<1>2. CASE Register
  BY <1>2 DEF Register, Ordered
<1>3. CASE Serve
  BY <1>3 DEF Serve
<1>4. CASE Start \/ RunStarts \/ AcceptFails \/ SendOff \/ RunEnds
  BY <1>4 DEF Start, RunStarts, AcceptFails, SendOff, RunEnds, Ordered
<1>5. ASSUME NEW c \in Conns, Dial(c) \/ HangUp(c) PROVE Handled'
  BY <1>5 DEF Dial, HangUp, loopVars
<1>6. ASSUME NEW c \in Conns, Agent(c) PROVE Handled'
  BY <1>6 DEF Agent, AgentReturns, AgentUnregisters, AgentDone, loopVars
<1>7. CASE CloseConns
  <2>1. run \notin {"registering", "serving"}
    BY <1>7 DEF CloseConns, Counted, RunCounted, TickCounted
  <2> QED BY <1>7, <2>1 DEF CloseConns, loopVars
<1>8. CASE Ticker \/ Tick \/ CloseListener \/ CloseReturned \/ UNCHANGED vars
  BY <1>8 DEF Ticker, TickStarts, MakeOffChan, TickEnds, Tick, CloseListener, CloseReturned,
              vars, loopVars
<1> QED BY <1>1, <1>2, <1>3, <1>4, <1>5, <1>6, <1>7, <1>8 DEF Next, Run, Close

LEMMA OrderedStep == ServerInv /\ [Next]_vars => Ordered'
<1> SUFFICES ASSUME ServerInv, [Next]_vars PROVE Ordered'
  OBVIOUS
<1> USE ConnsAssumption DEF ServerInv, Ordered, TypeOK
<1>1. Served' \subseteq Served \cup {cur} /\ (Served' # Served => ln # "none")
  BY ServedSteps DEF Serve, AgentDone, Served, Handled
<1>2. ASSUME NEW c \in Conns, Accept(c) PROVE Ordered'
  <2>1. UNCHANGED <<agent, closer, isNil, ln, tick>> /\ run' # "panicked" /\ ~isNil /\ ln = "open"
    BY <1>2 DEF Accept, tickVars
  <2> QED BY <2>1 DEF Served
<1>3. CASE Register
  <2>1. UNCHANGED <<agent, closer, isNil, ln, tick>> /\ run' # "panicked" /\ ~isNil /\ ln # "none"
    BY <1>3 DEF Register, Handled, tickVars
  <2> QED BY <2>1 DEF Served
<1>4. CASE Serve
  <2>1. UNCHANGED <<closer, isNil, ln, tick>> /\ run' # "panicked" /\ ~isNil /\ ln # "none"
    BY <1>4 DEF Serve, Handled, tickVars
  <2> QED BY <2>1
<1>5. CASE Start \/ RunStarts \/ AcceptFails \/ SendOff \/ RunEnds \/ Ticker \/ Tick
  <2>1. UNCHANGED <<agent, closer, isNil, cur, conns>> /\ run' # "panicked"
    BY <1>5 DEF Start, RunStarts, AcceptFails, SendOff, RunEnds, Ticker, TickStarts,
                MakeOffChan, TickEnds, Tick, loopVars
  <2>2. (ln' = "none" => ln = "none" /\ run' = run /\ tick' = tick) /\ (ln = "closed" => ln' = ln)
    BY <1>5 DEF Start, RunStarts, AcceptFails, SendOff, RunEnds, Ticker, TickStarts,
                MakeOffChan, TickEnds, Tick, loopVars, tickVars
  <2> QED BY <2>1, <2>2 DEF Served
<1>6. CASE CloseListener
  BY <1>6 DEF CloseListener, Served, loopVars, tickVars
<1>7. CASE CloseConns
  <2>1. run \notin {"registering", "serving"}
    BY <1>7 DEF CloseConns, Counted, RunCounted, TickCounted
  <2> QED BY <1>7, <2>1 DEF CloseConns, Handled, Served, loopVars, tickVars
<1>8. CASE CloseReturned
  <2>1. Served = {}
    BY <1>8, ServedCounts, FS_EmptySet DEF CloseReturned, Counted
  <2> QED BY <1>8, <2>1 DEF CloseReturned, Served, loopVars, tickVars
<1>9. CASE UNCHANGED vars \/ \E c \in Conns : Dial(c) \/ HangUp(c) \/ Agent(c)
  <2>1. UNCHANGED <<ln, loopVars, tickVars, isNil, closer>>
    BY <1>9 DEF Dial, HangUp, Agent, AgentReturns, AgentUnregisters, AgentDone, vars,
                loopVars, tickVars
  <2>2. Served' \subseteq Served /\ conns' \subseteq conns
    BY <1>9, <2>1, ServedSteps DEF Served, Dial, HangUp, Agent, AgentReturns,
       AgentUnregisters, AgentDone, vars
  <2> QED BY <2>1, <2>2 DEF loopVars, tickVars
<1> QED BY <1>2, <1>3, <1>4, <1>5, <1>6, <1>7, <1>8, <1>9 DEF Next, Run, Close

\* The steps that touch the map, or what is served.
LEMMA MapSteps ==
    ASSUME [Next]_vars
    PROVE  \/ Serve
           \/ \E c \in Conns : Agent(c)
           \/ CloseConns /\ agent' = agent /\ isNil' /\ conns' = {}
           \/ /\ UNCHANGED <<agent, isNil>>
              /\ Cardinality(conns) < MaxConnNum /\ conns' = conns \cup {cur}
           \/ UNCHANGED <<agent, isNil, conns>>
BY DEF Next, Start, Run, RunStarts, Accept, Register, AcceptFails, SendOff, RunEnds, Ticker,
       TickStarts, MakeOffChan, TickEnds, Tick, CloseListener, Close, CloseConns,
       CloseReturned, Dial, HangUp, vars

\* The map grows in Register only, which finds room in it, and what is served
\* comes out of it; once it is nil the connections' goroutines only get fewer.
LEMMA MapStep ==
    ServerInv /\ [Next]_vars => MapHoldsServed' /\ Cardinality(conns') <= MaxConnNum
<1> SUFFICES ASSUME ServerInv, [Next]_vars
             PROVE  MapHoldsServed' /\ Cardinality(conns') <= MaxConnNum
  OBVIOUS
<1> DEFINE Reading == {c \in Conns : agent[c] \in {"reading", "returned"}}
<1> USE ConnsAssumption, BoundsAssumption
<1>1. Cardinality(conns') <= MaxConnNum /\ IsFiniteSet(conns') /\ Cardinality(conns') \in Nat
  <2>1. IsFiniteSet(conns) /\ Cardinality(conns) \in Nat /\ Cardinality(conns) <= MaxConnNum
    BY ServedCounts DEF ServerInv
  <2>2. CASE conns' \in SUBSET conns
    <3>1. IsFiniteSet(conns') /\ Cardinality(conns') <= Cardinality(conns)
          /\ Cardinality(conns') \in Nat
      BY <2>1, <2>2, FS_Subset, FS_CardinalityType
    <3> QED BY <2>1, <3>1
  <2>3. CASE Cardinality(conns) < MaxConnNum /\ conns' = conns \cup {cur}
    <3>1. /\ IsFiniteSet(conns')
          /\ Cardinality(conns') \in {Cardinality(conns), Cardinality(conns) + 1}
      BY <2>1, <2>3, FS_AddElement
    <3> QED BY <2>1, <2>3, <3>1
  <2>4. conns' \subseteq conns \/ (Cardinality(conns) < MaxConnNum /\ conns' = conns \cup {cur})
    BY MapSteps DEF Serve, Agent, AgentReturns, AgentUnregisters, AgentDone
  <2> QED BY <2>2, <2>3, <2>4
<1>2. ~isNil' => Reading' \subseteq conns'
  <2>1. ~isNil' => ~isNil
    BY MapSteps DEF Serve, Agent, AgentReturns, AgentUnregisters, AgentDone
  <2>2. ~isNil => Reading \subseteq conns
    BY DEF ServerInv, MapHoldsServed
  <2>3. CASE Serve
    BY <2>1, <2>2, <2>3 DEF Serve, ServerInv, TypeOK, Handled
  <2>4. ASSUME NEW c \in Conns, Agent(c) PROVE ~isNil' => Reading' \subseteq conns'
    BY <2>1, <2>2, <2>4 DEF Agent, AgentReturns, AgentUnregisters, AgentDone, ServerInv, TypeOK
  <2>5. CASE agent' = agent /\ (isNil' \/ conns \subseteq conns')
    BY <2>1, <2>2, <2>5
  <2> QED BY <2>3, <2>4, <2>5, MapSteps
<1>3. isNil => Reading' \subseteq Reading
  <2>1. isNil => ~Serve
    BY DEF ServerInv, Ordered, Handled, Serve
  <2>2. ASSUME NEW c \in Conns, Agent(c) PROVE Reading' \subseteq Reading
    BY <2>2 DEF Agent, AgentReturns, AgentUnregisters, AgentDone, ServerInv, TypeOK
  <2> QED BY <2>1, <2>2, MapSteps
<1>4. ~isNil /\ isNil' => Reading' = Reading
  BY MapSteps DEF Serve, Agent, AgentReturns, AgentUnregisters, AgentDone
<1>5. Cardinality(Reading) <= MaxConnNum /\ IsFiniteSet(Reading) /\ Cardinality(Reading) \in Nat
  <2>1. Reading \in SUBSET Conns
    OBVIOUS
  <2> QED BY <2>1, FS_Subset, FS_CardinalityType DEF ServerInv, MapHoldsServed
<1>6. Cardinality(Reading') <= MaxConnNum
  <2>1. CASE isNil'
    <3>1. Reading' \in SUBSET Reading
      BY <1>3, <1>4, <2>1
    <3>2. Cardinality(Reading') <= Cardinality(Reading) /\ Cardinality(Reading') \in Nat
      BY <1>5, <3>1, FS_Subset, FS_CardinalityType
    <3> QED BY <1>5, <3>2
  <2>2. CASE ~isNil'
    <3>1. Cardinality(Reading') <= Cardinality(conns') /\ Cardinality(Reading') \in Nat
      BY <1>1, <1>2, <2>2, FS_Subset, FS_CardinalityType
    <3> QED BY <1>1, <3>1
  <2> QED BY <2>1, <2>2
<1> QED BY <1>1, <1>2, <1>6 DEF MapHoldsServed
LEMMA ServerInitially == Init => ServerInv
<1> SUFFICES ASSUME Init PROVE ServerInv
  OBVIOUS
<1> USE ConnsAssumption, BoundsAssumption
<1>1. Served = {} /\ conns = {} /\ {c \in Conns : agent[c] \in {"reading", "returned"}} = {}
  BY DEF Init, Served
<1>2. Cardinality({}) = 0 /\ Cardinality(Conns) \in Nat
  BY FS_EmptySet, FS_CardinalityType
<1>3. TypeOK
  <2>1. /\ net \in [Conns -> {"none", "backlog", "open", "closed"}]
        /\ agent \in [Conns -> {"none", "reading", "returned", "unregistered", "done"}]
    BY DEF Init
  <2>2. 0 \in Nat /\ 0 \in 0..2 /\ 0 \in 0..Cardinality(Conns)
    BY <1>2
  <2> QED BY <2>1, <2>2 DEF Init, TypeOK
<1>4. Counted
  BY <1>1, <1>2 DEF Init, Counted, RunCounted, TickCounted
<1>5. Handled /\ Ordered
  BY <1>1 DEF Init, Handled, Ordered
<1>6. MapHoldsServed /\ Cardinality(conns) <= MaxConnNum
  BY <1>1, <1>2 DEF MapHoldsServed
<1> QED BY <1>3, <1>4, <1>5, <1>6 DEF ServerInv

LEMMA ServerStep == ServerInv /\ [Next]_vars => ServerInv'
BY CountedStep, ServerTypeStep, HandledStep, OrderedStep, MapStep DEF ServerInv

LEMMA ServerAlways == Spec => []ServerInv
BY ServerInitially, ServerStep, PTL DEF Spec

\* When Close has closed the connections of the map no goroutine reads from an
\* open one, whichever were being accepted or registered; when it returns nothing
\* is served.
LEMMA NothingOpen == ServerInv => NothingLeftOpen
<1> SUFFICES ASSUME ServerInv PROVE NothingLeftOpen
  OBVIOUS
<1>1. run # "panicked" /\ (closer = "done" => Served = {})
  BY DEF ServerInv, Ordered
<1>2. ASSUME closer \in {"draining", "done"}, NEW c \in Conns, net[c] = "open",
             agent[c] \notin {"unregistered", "done"}
      PROVE  FALSE
  <2>1. isNil /\ cur = NoConn
    BY <1>2 DEF ServerInv, Ordered
  <2>2. c \in conns
    BY <1>2, <2>1, ConnsAssumption DEF ServerInv, Handled
  <2>3. conns = {}
    BY <2>1 DEF ServerInv, Ordered
  <2> QED BY <2>2, <2>3
<1> QED BY <1>1, <1>2 DEF NothingLeftOpen

-----------------------------------------------------------------------------
(* The life cycle. *)

\* A step of the program is a step of the server, or leaves it alone.
LEMMA LifeStepIsServerStep == [LifeNext]_allVars => [Next]_vars
BY DEF LifeNext, Main, RunModule, Signalled, SendCloseSig, WaitReturns, OnDestroy, CloseEnded,
       Exit, FatalExits, Module, ModuleStarts, GateMakesServer, GateStarts, RunReturns,
       ModuleDone, Connection, NewPlayer, PlayerReturns, Server, allVars, Next, Agent

\* What a module's wait group says of its goroutine.
Waited ==
    /\ \A m \in Mods :
          wg[m] = IF goro[m] \in {"running", "listening", "returned"} THEN 1 ELSE 0
    /\ \A m \in Mods : goro[m] = "none" => main = "starting" /\ (m = Gate => at = Gate)
    /\ main = "starting" => goro[Self] = "none" /\ goro[at] = "none"

\* The listener is the gate goroutine's to open and main's to close, which comes
\* to it when that goroutine has ended, or has not begun.
Closing ==
    /\ goro[Gate] \in {"none", "new", "running"} => ln = "none"
    /\ goro[Gate] \in {"listening", "returned", "done"} => tcpServer
    /\ ln = "closed" => main \in {"closing", "ended"}
    /\ main \in {"destroying", "closing", "ended"} /\ at = Gate /\ Gate \notin missed
          => goro[Gate] = "done"
    /\ main = "closing" => at = Gate
    /\ main = "ended" => at = Gate
    /\ main = "ended" /\ Gate \notin missed => ln = "none" \/ closer = "done"

LifeInv == ServerInv /\ LifeTypeOK /\ Waited /\ Closing

LEMMA WaitedStep == LifeInv /\ [LifeNext]_allVars => Waited'
<1> SUFFICES ASSUME LifeInv, [LifeNext]_allVars PROVE Waited'
  OBVIOUS
<1> USE DEF LifeInv, LifeTypeOK, Waited, Mods, Gate, Self
<1>1. CASE RunModule
  BY <1>1 DEF RunModule
<1>2. CASE OnDestroy \/ CloseEnded
  BY <1>2 DEF OnDestroy, CloseEnded, NextModule, modVars
<1>3. ASSUME NEW m \in Mods, Module(m) PROVE Waited'
  BY <1>3 DEF Module, ModuleStarts, GateMakesServer, GateStarts, RunReturns, ModuleDone,
              mainVars, modVars
<1>4. CASE SendCloseSig \/ WaitReturns \/ Signalled
  BY <1>4 DEF SendCloseSig, WaitReturns, Signalled, modVars
<1>5. CASE UNCHANGED <<mainVars, goro, wg>>
  BY <1>5 DEF mainVars
<1>6. ASSUME ~(\/ RunModule \/ OnDestroy \/ CloseEnded \/ SendCloseSig \/ WaitReturns \/ Signalled
               \/ \E m \in Mods : Module(m))
      PROVE  UNCHANGED <<mainVars, goro, wg>>
  BY <1>6 DEF LifeNext, Main, Exit, FatalExits, Connection, NewPlayer, Server, lifeVars,
              modVars, allVars
<1> QED BY <1>1, <1>2, <1>3, <1>4, <1>5, <1>6

LEMMA LifeTypeStep == LifeInv /\ [LifeNext]_allVars => LifeTypeOK'
<1> SUFFICES ASSUME LifeInv, [LifeNext]_allVars PROVE LifeTypeOK'
  OBVIOUS
<1>1. TypeOK'
  BY LifeStepIsServerStep, ServerStep DEF LifeInv, ServerInv
<1>2. Waited'
  BY WaitedStep
<1> USE DEF LifeInv, LifeTypeOK, Mods, Gate, Self, LifeNext, Main, RunModule, Signalled,
            SendCloseSig, WaitReturns, OnDestroy, NextModule, CloseEnded, Exit, FatalExits,
            Module, ModuleStarts, GateMakesServer, GateStarts, RunReturns, ModuleDone,
            Connection, NewPlayer, Server, lifeVars, mainVars, modVars, allVars
<1>3. proc' \in {"up", "crashed", "exited"}
  OBVIOUS
<1>4. main' \in {"starting", "serving", "signalling", "waiting", "destroying", "closing",
                 "ended"}
  OBVIOUS
<1>5. at' \in Mods
  OBVIOUS
<1>6. goro' \in [Mods -> {"none", "new", "running", "listening", "returned", "done"}]
  OBVIOUS
<1>7. closeSig' \in [Mods -> 0..1]
  OBVIOUS
<1>8. wg' \in [Mods -> 0..1]
  <2>1. wg' \in [Mods -> Int]
    OBVIOUS
  <2> QED BY <1>2, <2>1 DEF Waited
<1>9. tcpServer' \in BOOLEAN /\ ready' \in BOOLEAN
  OBVIOUS
<1>10. fatal' \in BOOLEAN
  OBVIOUS
<1>11. players' \subseteq Conns /\ missed' \subseteq Mods
  OBVIOUS
<1> QED BY <1>1, <1>3, <1>4, <1>5, <1>6, <1>7, <1>8, <1>9, <1>10, <1>11

LEMMA ClosingStep == LifeInv /\ [LifeNext]_allVars => Closing'
<1> SUFFICES ASSUME LifeInv, [LifeNext]_allVars PROVE Closing'
  OBVIOUS
<1> USE DEF LifeInv, LifeTypeOK, Closing, Mods, Gate, Self
<1>1. CASE RunModule \/ SendCloseSig \/ Signalled
  BY <1>1 DEF RunModule, SendCloseSig, Signalled, Waited, vars, modVars
<1>2. CASE WaitReturns
  BY <1>2 DEF WaitReturns, Waited, vars, modVars
<1>3. CASE OnDestroy
  BY <1>3 DEF OnDestroy, NextModule, CloseListener, TypeOK, vars, modVars
<1>4. CASE CloseEnded
  BY <1>4 DEF CloseEnded, NextModule, vars, modVars
<1>5. CASE GateStarts
  BY <1>5 DEF GateStarts, Start, ServerInv, Ordered, vars, mainVars
<1>6. ASSUME NEW m \in Mods, ModuleStarts(m) \/ RunReturns(m) \/ ModuleDone(m) PROVE Closing'
  BY <1>6 DEF ModuleStarts, RunReturns, ModuleDone, vars, mainVars
<1>7. CASE GateMakesServer
  BY <1>7 DEF GateMakesServer, vars, mainVars, modVars
<1>8. CASE /\ UNCHANGED <<mainVars, goro, tcpServer, missed, ln>>
           /\ closer = "done" => closer' = "done"
  BY <1>8 DEF mainVars
<1>9. ASSUME ~(\/ RunModule \/ SendCloseSig \/ Signalled \/ WaitReturns \/ OnDestroy
               \/ CloseEnded \/ \E m \in Mods : Module(m))
      PROVE  /\ UNCHANGED <<mainVars, goro, tcpServer, missed, ln>>
             /\ closer = "done" => closer' = "done"
  <2>1. CASE Server(Run) \/ Server(Ticker) \/ Server(Tick) \/ Server(Close)
    BY <2>1 DEF Server, Run, RunStarts, Accept, Register, Serve, AcceptFails, SendOff, RunEnds,
                Ticker, TickStarts, MakeOffChan, TickEnds, Tick, Close, CloseConns,
                CloseReturned, lifeVars, modVars
  <2>2. CASE \E c \in Conns : Server(Dial(c)) \/ Server(HangUp(c)) \/ Connection(c)
    BY <2>2 DEF Server, Dial, HangUp, Connection, NewPlayer, PlayerReturns, AgentReturns,
                AgentUnregisters, AgentDone, lifeVars, modVars, vars
  <2>3. CASE Exit \/ FatalExits \/ UNCHANGED allVars
    BY <2>3 DEF Exit, FatalExits, allVars, lifeVars, modVars, vars
  <2> QED BY <1>9, <2>1, <2>2, <2>3 DEF LifeNext, Main
<1> QED BY <1>1, <1>2, <1>3, <1>4, <1>5, <1>6, <1>7, <1>8, <1>9 DEF Module

LEMMA LifeAlways == LifeSpec => []LifeInv
<1>1. LifeInit => LifeInv
  <2> SUFFICES ASSUME LifeInit PROVE LifeInv
    OBVIOUS
  <2>1. ServerInv
    BY ServerInitially DEF LifeInit
  <2>2. LifeTypeOK
    <3>1. /\ goro \in [Mods -> {"none", "new", "running", "listening", "returned", "done"}]
          /\ wg \in [Mods -> 0..1] /\ closeSig \in [Mods -> 0..1]
      BY DEF LifeInit
    <3>2. TypeOK /\ at \in Mods
      BY <2>1 DEF ServerInv, LifeInit, Mods
    <3> QED BY <3>1, <3>2 DEF LifeInit, LifeTypeOK
  <2>3. Waited /\ Closing
    BY DEF LifeInit, Init, Waited, Closing, Mods, Gate, Self
  <2> QED BY <2>1, <2>2, <2>3 DEF LifeInv
<1>2. LifeInv /\ [LifeNext]_allVars => LifeInv'
  <2>1. LifeInv /\ [LifeNext]_allVars => ServerInv'
    BY LifeStepIsServerStep, ServerStep DEF LifeInv
  <2> QED BY <2>1, LifeTypeStep, WaitedStep, ClosingStep DEF LifeInv
<1> QED BY <1>1, <1>2, PTL DEF LifeSpec

-----------------------------------------------------------------------------
(* The theorems. *)

\* Whatever its caller does, the program's server takes the steps that its own
\* specification allows: the modules and main call Start once, before Close.
THEOREM LifeCycleImplementsTCPServer == LifeSpec => Spec
<1>1. LifeInit => Init
  BY DEF LifeInit
<1> QED BY <1>1, LifeStepIsServerStep, PTL DEF LifeSpec, Spec

\* run never writes the map that Close has set to nil; when Close waits for the
\* connections' goroutines, none of them reads from an open connection, so that
\* what is still open has been taken off the map by a goroutine that refused a
\* packet; and when Close returns no goroutine is left (TCPServer.run, newAgent,
\* TCPServer.Close).
THEOREM ServerNothingLeftOpen == Spec => []NothingLeftOpen
BY ServerAlways, NothingOpen, PTL

\* TCPServer.conns holds every connection that is read from, until Close empties
\* it, and they are never more than MaxConnNum (run, newAgent).
THEOREM ServerMapHoldsServed == Spec => []MapHoldsServed
BY ServerAlways, PTL DEF ServerInv

\* Both hold of the program as a whole.
THEOREM ProgramServesSafely == LifeSpec => []NothingLeftOpen /\ []MapHoldsServed
BY LifeCycleImplementsTCPServer, ServerNothingLeftOpen, ServerMapHoldsServed, PTL

\* The wait groups and signal channels of the modules stay within their bounds:
\* sync.WaitGroup panics when it is counted below zero (mod.go).
THEOREM LifeTypes == LifeSpec => []LifeTypeOK
BY LifeAlways, PTL DEF LifeInv

\* When main ends the server listens no more and serves nobody, unless Destroy
\* came to the gate's wait before the gate's goroutine had begun (module.Destroy).
THEOREM LifeClosedAtTheEnd == LifeSpec => []ClosedAtTheEnd
<1>1. LifeInv => ClosedAtTheEnd
  BY DEF LifeInv, Closing, ServerInv, Ordered, ClosedAtTheEnd
<1> QED BY <1>1, LifeAlways, PTL

=============================================================================
