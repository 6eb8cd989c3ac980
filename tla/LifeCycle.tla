----------------------------- MODULE LifeCycle ------------------------------
(***************************************************************************)
(* The program from main to exit: framework/factory Run on the main        *)
(* goroutine, framework/module Run and Destroy with one goroutine for each *)
(* of the two modules, the gate module with its TCPServer, and the self    *)
(* module with game.Init, which makes what NewPlayer uses.                 *)
(*                                                                         *)
(* The gate is run first, so it may listen and serve before self.OnInit    *)
(* has made that.  A module's goroutine counts itself, so Destroy may come *)
(* to its wait before that.                                                *)
(*                                                                         *)
(* Signalled is the signal the code waits for, os.Kill.  Which systems     *)
(* deliver it is not modelled; Unix systems do not.                        *)
(***************************************************************************)
EXTENDS TCPServer

Gate == 1
Self == 2
Mods == {Gate, Self} \* in the order main gives them to Run

VARIABLES
    proc,      \* the process: "up", "crashed" by a panic, or "exited"
    main, at,  \* where the main goroutine is, and the module it is at
    goro,      \* where each module's goroutine is
    wg,        \* each module's wait group
    closeSig,  \* how many signals its channel holds
    tcpServer, \* whether Gate.tcpServer is set
    ready,     \* whether self.OnInit has returned
    players,   \* connections whose NewPlayer has got its id
    fatal,     \* log.Fatal has queued the end of the process
    missed     \* modules Destroy did not wait for: history

mainVars == <<main, at>>
modVars == <<goro, wg, closeSig>>
lifeVars == <<proc, mainVars, modVars, tcpServer, ready,
              players, fatal, missed>>
allVars == <<vars, lifeVars>>

LifeInit ==
    /\ Init
    /\ proc = "up"
    /\ main = "starting" /\ at = Gate
    /\ goro = [m \in Mods |-> "none"]
    /\ wg = [m \in Mods |-> 0]
    /\ closeSig = [m \in Mods |-> 0]
    /\ tcpServer = FALSE /\ ready = FALSE /\ fatal = FALSE
    /\ players = {} /\ missed = {}

-----------------------------------------------------------------------------
(* The main goroutine. *)

\* module.Run: OnInit, and a goroutine for the module.
RunModule ==
    /\ main = "starting"
    /\ ready' = (ready \/ at = Self)
    /\ goro' = [goro EXCEPT ![at] = "new"]
    /\ IF at = Self THEN main' = "serving" /\ at' = at ELSE at' = at + 1 /\ main' = main
    /\ UNCHANGED <<vars, proc, wg, closeSig, tcpServer, players, fatal, missed>>

Signalled ==
    /\ main = "serving"
    /\ main' = "signalling"
    /\ UNCHANGED <<vars, proc, at, modVars, tcpServer, ready, players, fatal, missed>>

SendCloseSig ==
    /\ main = "signalling"
    /\ closeSig[at] = 0
    /\ closeSig' = [closeSig EXCEPT ![at] = 1]
    /\ main' = "waiting"
    /\ UNCHANGED <<vars, proc, at, goro, wg, tcpServer, ready, players, fatal, missed>>

\* Wrong variant: Destroy does not wait.
WaitNever ==
    /\ main = "waiting"
    /\ main' = "destroying"
    /\ missed' = IF goro[at] = "new" THEN missed \cup {at} ELSE missed
    /\ UNCHANGED <<vars, proc, at, modVars, tcpServer, ready, players, fatal>>

\* m.wg.Wait returns: at once when the module's goroutine has not begun.
WaitReturns ==
    /\ main = "waiting"
    /\ wg[at] = 0
    /\ main' = "destroying"
    /\ missed' = IF goro[at] = "new" THEN missed \cup {at} ELSE missed
    /\ UNCHANGED <<vars, proc, at, modVars, tcpServer, ready, players, fatal>>

NextModule ==
    IF at = Gate THEN main' = "ended" /\ at' = at ELSE main' = "signalling" /\ at' = at - 1

\* OnDestroy: that of self only logs; that of the gate closes the server if there
\* is one.  A server that does not listen yet has no ln, and the panic is recovered.
OnDestroy ==
    /\ main = "destroying"
    /\ \/ /\ at = Gate /\ tcpServer /\ ln = "open"
          /\ CloseListener
          /\ main' = "closing"
          /\ at' = at
       \/ /\ ~(at = Gate /\ tcpServer /\ ln = "open")
          /\ NextModule
          /\ UNCHANGED vars
    /\ UNCHANGED <<proc, modVars, tcpServer, ready, players, fatal, missed>>

CloseEnded ==
    /\ main = "closing"
    /\ closer = "done"
    /\ NextModule
    /\ UNCHANGED <<vars, proc, modVars, tcpServer, ready, players, fatal, missed>>

\* The last lines are logged, and main returns.
Exit ==
    /\ main = "ended"
    /\ proc' = "exited"
    /\ UNCHANGED <<vars, mainVars, modVars, tcpServer, ready, players, fatal, missed>>

\* The logger comes to the empty line Fatal has queued.
FatalExits ==
    /\ fatal
    /\ proc' = "exited"
    /\ UNCHANGED <<vars, mainVars, modVars, tcpServer, ready, players, fatal, missed>>

-----------------------------------------------------------------------------
(* The modules' goroutines. *)

ModuleStarts(m) ==
    /\ goro[m] = "new"
    /\ goro' = [goro EXCEPT ![m] = "running"]
    /\ wg' = [wg EXCEPT ![m] = @ + 1]
    /\ UNCHANGED <<vars, proc, mainVars, closeSig, tcpServer, ready, players, fatal, missed>>

\* Gate.Run makes the server.
GateMakesServer ==
    /\ goro[Gate] = "running"
    /\ ~tcpServer
    /\ tcpServer' = TRUE
    /\ UNCHANGED <<vars, proc, mainVars, goro, wg, closeSig, ready, players, fatal, missed>>

\* Its Start returns, without listening if the address stays refused.
GateStarts ==
    /\ goro[Gate] = "running"
    /\ tcpServer
    /\ goro' = [goro EXCEPT ![Gate] = "listening"]
    /\ \/ Start /\ fatal' = fatal
       \/ UNCHANGED vars /\ fatal' = TRUE
    /\ UNCHANGED <<proc, mainVars, wg, closeSig, tcpServer, ready, players, missed>>

\* Run returns: Gate.Run takes the signal; the loop of ServerMod.Run takes it and
\* closes its rpc server (Skeleton).
RunReturns(m) ==
    /\ goro[m] = IF m = Gate THEN "listening" ELSE "running"
    /\ closeSig[m] = 1
    /\ goro' = [goro EXCEPT ![m] = "returned"]
    /\ closeSig' = [closeSig EXCEPT ![m] = 0]
    /\ UNCHANGED <<vars, proc, mainVars, wg, tcpServer, ready, players, fatal, missed>>

\* Wrong variant: without wg.Done.
ModuleLeaves(m) ==
    /\ goro[m] = "returned"
    /\ goro' = [goro EXCEPT ![m] = "done"]
    /\ UNCHANGED <<vars, proc, mainVars, wg, closeSig, tcpServer, ready, players, fatal,
                   missed>>

ModuleDone(m) ==
    /\ goro[m] = "returned"
    /\ goro' = [goro EXCEPT ![m] = "done"]
    /\ wg' = [wg EXCEPT ![m] = @ - 1]
    /\ UNCHANGED <<vars, proc, mainVars, closeSig, tcpServer, ready, players, fatal, missed>>

-----------------------------------------------------------------------------
(* The goroutine of a connection. *)

\* NewPlayer asks the UUID for an id and hands a call to SM; before game.Init
\* both are nil.
NewPlayer(c) ==
    /\ agent[c] = "reading"
    /\ c \notin players
    /\ IF ready THEN players' = players \cup {c} /\ proc' = proc
       ELSE proc' = "crashed" /\ players' = players
    /\ UNCHANGED <<vars, mainVars, modVars, tcpServer, ready, fatal, missed>>

\* It reads only then.
PlayerReturns(c) == c \in players /\ AgentReturns(c)

Server(A) == A /\ UNCHANGED lifeVars

-----------------------------------------------------------------------------
Main == RunModule \/ SendCloseSig \/ WaitReturns \/ OnDestroy \/ CloseEnded \/ Exit
Module(m) == ModuleStarts(m) \/ RunReturns(m) \/ ModuleDone(m)
             \/ (m = Gate /\ (GateMakesServer \/ GateStarts))
Connection(c) == NewPlayer(c) \/ Server(PlayerReturns(c)) \/ Server(AgentUnregisters(c))
                 \/ Server(AgentDone(c))

LifeNext ==
    /\ proc = "up"
    /\ \/ Main \/ Signalled \/ FatalExits
       \/ Server(Run) \/ Server(Ticker) \/ Server(Tick) \/ Server(Close)
       \/ \E m \in Mods : Module(m)
       \/ \E c \in Conns : Server(Dial(c)) \/ Server(HangUp(c)) \/ Connection(c)

LifeSpec == LifeInit /\ [][LifeNext]_allVars

\* What a connection's goroutine does whatever its client sends: it reads on
\* until the connection is closed, for a packet to refuse may never come.
GoesOn(c) ==
    (agent[c] = "reading" /\ c \in players => net[c] = "closed") /\ Connection(c)

\* Goroutines that can go on do.  Nothing is assumed of the clients, of the
\* clock, of the signal, or of the logger.
Fairness ==
    /\ WF_allVars(proc = "up" /\ Main)
    /\ \A m \in Mods : WF_allVars(proc = "up" /\ Module(m))
    /\ WF_allVars(proc = "up" /\ Server(Run))
    /\ WF_allVars(proc = "up" /\ Server(Ticker))
    /\ WF_allVars(proc = "up" /\ Server(Close))
    /\ \A c \in Conns : WF_allVars(proc = "up" /\ GoesOn(c))

LifeFairSpec == LifeSpec /\ Fairness

-----------------------------------------------------------------------------
LifeTypeOK ==
    /\ TypeOK
    /\ proc \in {"up", "crashed", "exited"}
    /\ main \in {"starting", "serving", "signalling", "waiting", "destroying", "closing",
                 "ended"}
    /\ at \in Mods
    /\ goro \in [Mods -> {"none", "new", "running", "listening", "returned", "done"}]
    /\ wg \in [Mods -> 0..1] /\ closeSig \in [Mods -> 0..1]
    /\ tcpServer \in BOOLEAN /\ ready \in BOOLEAN /\ fatal \in BOOLEAN
    /\ players \subseteq Conns /\ missed \subseteq Mods

\* When main ends, the server listens no more and serves nobody, unless Destroy
\* came to the gate's wait before the gate's goroutine had begun (mod.go:35, 45):
\* such a gate still opens the listener, and nobody closes it.
ClosedAtTheEnd ==
    main = "ended" /\ Gate \notin missed => ln # "open" /\ Served = {}

\* After the signal the process ends, whatever the clients do, unless the accept
\* loop comes to its end before the ticker has made offChan: it then waits on the
\* nil channel, TCPServer.Close for it, and main for Close (tcpserver.go:114, 180).
ShutdownEnds == main = "signalling" ~> proc # "up" \/ run = "stuck"
=============================================================================
