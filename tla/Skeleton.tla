------------------------------ MODULE Skeleton ------------------------------
(***************************************************************************)
(* The game loop and what is handed to it: framework/module/server.go,     *)
(* framework/rpc/rpc.go, framework/timer/timer.go, with the connections'   *)
(* reader goroutines (NewPlayer, readTask, OnClose of game/player.go).     *)
(*                                                                         *)
(* Readers post calls to ChanCall, which drops them when it is full.  The  *)
(* loop runs calls and expired timers one at a time under a watchdog that  *)
(* ends the process.  One rpc client, on a goroutine of its own, makes     *)
(* synchronous and asynchronous calls; handlers and callbacks arm and stop *)
(* timers on the loop.  The program itself has no rpc client and no timer: *)
(* both are modelled as the framework offers them.                         *)
(*                                                                         *)
(* What a handler does is Lobby's and RoomManager's matter: here it may    *)
(* return, panic, use timers or never return.                              *)
(***************************************************************************)
EXTENDS Integers, Sequences, FiniteSets

CONSTANTS
    Conns,        \* connections
    Client,       \* the rpc client
    Nobody,       \* who posts an expired timer
    Timers,       \* timers there may be at a time
    Tickers,      \* those NewTicker makes, anew at each tick; AfterFunc makes the others
    MaxRequests,  \* bound on the requests of a connection
    MaxCalls,     \* bound on the client's calls
    CallCap,      \* calls ChanCall holds: 10000 in self.go
    RetCap,       \* answers ChanAsynRet holds: Open's argument
    TimerCap      \* timers ChanTimer holds: TimerDispatcherLen

ASSUME SkeletonAssumption ==
    /\ IsFiniteSet(Conns) /\ Client \notin Conns /\ Nobody \notin Conns \cup {Client}
    /\ Tickers \subseteq Timers
    /\ MaxRequests \in Nat /\ MaxCalls \in Nat
    /\ CallCap \in Nat \ {0} /\ RetCap \in Nat \ {0} /\ TimerCap \in Nat \ {0}

VARIABLES
    reader,           \* where each connection's reader goroutine is
    posted,           \* how many calls each goroutine has posted: they are numbered
    player,           \* what the loop knows of each connection
    ChanCall, isOpen, \* the queue of calls, and whether it is still open
    dropped,          \* calls a full ChanCall has dropped
    loop, current,    \* where ServerMod.Run is, and the call or timer in its hands
    ran,              \* the number of each goroutine's call that ran last
    client,           \* where the client is
    chanSyncRet, ChanAsynRet, pendingAsynCall,
    timers, ChanTimer,
    halted,           \* timers not made yet, or stopped since
    exited            \* the process has ended

readerVars == <<reader, posted>>
callVars == <<ChanCall, isOpen, dropped>>
loopVars == <<player, loop, current, ran>>
retVars == <<chanSyncRet, ChanAsynRet, pendingAsynCall>>
timerVars == <<timers, ChanTimer, halted>>
vars == <<readerVars, callVars, loopVars, client, retVars, timerVars, exited>>

Posters == Conns \cup {Client}

\* CallInfo: whose call it is, its number, what it runs, where its answer goes.
CallInfo(by, what, ret) == [by |-> by, no |-> posted[by] + 1, what |-> what, ret |-> ret]
Nothing == [by |-> Nobody, no |-> 0, what |-> "nothing", ret |-> "none"]
RetInfos == {"ret", "err"}

\* A Timer that AfterFunc has just made, and one that is done with.
NewTimer == [at |-> "armed", cb |-> TRUE]
OverTimer == [at |-> "over", cb |-> FALSE]

Init ==
    /\ reader = [c \in Conns |-> "none"]
    /\ posted = [x \in Posters |-> 0]
    /\ player = [c \in Conns |-> "none"]
    /\ ChanCall = <<>> /\ isOpen = TRUE /\ dropped = {}
    /\ loop = "select" /\ current = Nothing
    /\ ran = [x \in Posters |-> 0]
    /\ client = "idle"
    /\ chanSyncRet = <<>> /\ ChanAsynRet = <<>> /\ pendingAsynCall = 0
    /\ timers = [t \in Timers |-> OverTimer] /\ ChanTimer = <<>> /\ halted = Timers
    /\ exited = FALSE

-----------------------------------------------------------------------------
(* Posting. *)

\* Wrong variant: nothing is dropped.
AddChanCallUnbounded(ci) ==
    /\ posted' = [posted EXCEPT ![ci.by] = ci.no]
    /\ ChanCall' = IF isOpen THEN Append(ChanCall, ci) ELSE ChanCall
    /\ UNCHANGED <<isOpen, dropped>>

\* A send on the closed channel panics, and Go, GoFunc and call recover.
AddChanCall(ci) ==
    /\ posted' = [posted EXCEPT ![ci.by] = ci.no]
    /\ ChanCall' = IF isOpen /\ Len(ChanCall) < CallCap THEN Append(ChanCall, ci)
                   ELSE ChanCall
    /\ dropped' = IF isOpen /\ Len(ChanCall) >= CallCap THEN dropped \cup {ci} ELSE dropped
    /\ UNCHANGED isOpen

\* NewPlayer registers the connection and reads from it.
ReaderStarts(c) ==
    /\ ~exited /\ reader[c] = "none"
    /\ reader' = [reader EXCEPT ![c] = "reading"]
    /\ AddChanCall(CallInfo(c, "gate.new.agent", "none"))
    /\ UNCHANGED <<loopVars, client, retVars, timerVars, exited>>

\* readTask's msgHandler: a packet has come.
PostRequest(c) ==
    /\ ~exited /\ reader[c] = "reading"
    /\ posted[c] <= MaxRequests
    /\ AddChanCall(CallInfo(c, "request", "none"))
    /\ UNCHANGED <<reader, loopVars, client, retVars, timerVars, exited>>

\* Wrong variant: a connection that sent nothing is not reported.
ReaderEndsSilently(c) ==
    /\ ~exited /\ reader[c] = "reading"
    /\ reader' = [reader EXCEPT ![c] = "gone"]
    /\ IF posted[c] > 1 THEN AddChanCall(CallInfo(c, "gate.p.close", "none"))
       ELSE UNCHANGED <<posted, callVars>>
    /\ UNCHANGED <<loopVars, client, retVars, timerVars, exited>>

\* The read has failed, or a packet was refused: readTask ends with OnClose.
ReaderEnds(c) ==
    /\ ~exited /\ reader[c] = "reading"
    /\ reader' = [reader EXCEPT ![c] = "gone"]
    /\ AddChanCall(CallInfo(c, "gate.p.close", "none"))
    /\ UNCHANGED <<loopVars, client, retVars, timerVars, exited>>

-----------------------------------------------------------------------------
(* The rpc client. *)

\* Call0, Call1 and CallN, before the send, which blocks while ChanCall is full.
SyncCall ==
    /\ ~exited /\ client = "idle"
    /\ posted[Client] < MaxCalls
    /\ client' = "sending"
    /\ UNCHANGED <<readerVars, callVars, loopVars, retVars, timerVars, exited>>

Send ==
    /\ ~exited /\ client = "sending"
    /\ \/ /\ isOpen /\ Len(ChanCall) < CallCap
          /\ AddChanCall(CallInfo(Client, "call", "sync"))
          /\ client' = "waiting"
       \/ /\ ~isOpen  \* the send panics, and call returns the error
          /\ client' = "idle"
          /\ UNCHANGED <<posted, callVars>>
    /\ UNCHANGED <<reader, loopVars, retVars, timerVars, exited>>

\* An error has no slice to return: the conversion in CallN, as in Cb for a
\* callback that takes a slice, panics, and nothing recovers.
Receive ==
    /\ ~exited /\ client = "waiting"
    /\ chanSyncRet # <<>>
    /\ exited' \in {FALSE, Head(chanSyncRet) = "err"}
    /\ chanSyncRet' = Tail(chanSyncRet)
    /\ client' = "idle"
    /\ UNCHANGED <<readerVars, callVars, loopVars, ChanAsynRet, pendingAsynCall,
                   timerVars>>

\* AsynCall counts the call also when AddChanCall has dropped it; on the closed
\* channel it runs the callback with the error at once.
AsynCall ==
    /\ ~exited /\ client = "idle"
    /\ posted[Client] < MaxCalls
    /\ AddChanCall(CallInfo(Client, "call", "asyn"))
    /\ pendingAsynCall' = IF isOpen THEN pendingAsynCall + 1 ELSE pendingAsynCall
    /\ UNCHANGED <<reader, loopVars, client, chanSyncRet, ChanAsynRet, timerVars, exited>>

\* Cb, on an answer the client has received; CloseClient calls it too.
Cb ==
    /\ ~exited /\ client \in {"idle", "closing"}
    /\ ChanAsynRet # <<>>
    /\ client = "closing" => pendingAsynCall > 0
    /\ exited' \in {FALSE, Head(ChanAsynRet) = "err"}
    /\ ChanAsynRet' = Tail(ChanAsynRet)
    /\ pendingAsynCall' = pendingAsynCall - 1
    /\ UNCHANGED <<readerVars, callVars, loopVars, client, chanSyncRet, timerVars>>

CloseClient ==
    /\ ~exited /\ client = "idle"
    /\ client' = "closing"
    /\ UNCHANGED <<readerVars, callVars, loopVars, retVars, timerVars, exited>>

\* Wrong variant: Close takes the answers that are there, and waits for none.
ClientClosedAtOnce ==
    /\ ~exited /\ client = "closing"
    /\ ChanAsynRet = <<>>
    /\ client' = "closed"
    /\ UNCHANGED <<readerVars, callVars, loopVars, retVars, timerVars, exited>>

ClientClosed ==
    /\ ~exited /\ client = "closing"
    /\ pendingAsynCall = 0
    /\ client' = "closed"
    /\ UNCHANGED <<readerVars, callVars, loopVars, retVars, timerVars, exited>>

-----------------------------------------------------------------------------
(* Timers. *)

\* Wrong variant: Stop stops the clock and leaves the callback.
StopClock(t) ==
    /\ timers' = [timers EXCEPT ![t].at = IF @ = "armed" THEN "over" ELSE @]
    /\ halted' = halted \cup {t}

\* Timer.Stop and Ticker.Stop: an expiry already on its way finds no callback.
Stop(t) ==
    /\ timers' = [timers EXCEPT ![t] =
          [at |-> IF @.at = "armed" THEN "over" ELSE @.at, cb |-> FALSE]]
    /\ halted' = halted \cup {t}

\* AfterFunc and NewTicker.
MakeTimer(t) ==
    /\ timers[t].at = "over"
    /\ timers' = [timers EXCEPT ![t] = NewTimer]
    /\ halted' = halted \ {t}

\* What a handler or a callback may do with timers while it runs.
UseTimers ==
    \/ \E t \in Timers : MakeTimer(t) \/ Stop(t)
    \/ UNCHANGED <<timers, halted>>

\* The duration has passed; the runtime's goroutine sends the timer, and waits
\* while ChanTimer is full.
Expire(t) ==
    /\ ~exited /\ timers[t].at = "armed"
    /\ timers' = [timers EXCEPT ![t].at = "sending"]
    /\ UNCHANGED <<readerVars, callVars, loopVars, client, retVars, ChanTimer, halted,
                   exited>>

SendTimer(t) ==
    /\ ~exited /\ timers[t].at = "sending"
    /\ Len(ChanTimer) < TimerCap
    /\ ChanTimer' = Append(ChanTimer, t)
    /\ timers' = [timers EXCEPT ![t].at = "queued"]
    /\ UNCHANGED <<readerVars, callVars, loopVars, client, retVars, halted, exited>>

-----------------------------------------------------------------------------
(* The loop. *)

\* Wrong variant: the newest call is taken.
TakeNewest ==
    /\ ~exited /\ loop = "select"
    /\ ChanCall # <<>>
    /\ current' = ChanCall[Len(ChanCall)]
    /\ ChanCall' = SubSeq(ChanCall, 1, Len(ChanCall) - 1)
    /\ loop' = "running"
    /\ UNCHANGED <<readerVars, isOpen, dropped, player, ran, client, retVars, timerVars,
                   exited>>

TakeCall ==
    /\ ~exited /\ loop = "select"
    /\ ChanCall # <<>>
    /\ current' = Head(ChanCall)
    /\ ChanCall' = Tail(ChanCall)
    /\ loop' = "running"
    /\ UNCHANGED <<readerVars, isOpen, dropped, player, ran, client, retVars, timerVars,
                   exited>>

\* Exec up to the answer.  A panic is recovered, and the answer is an error.
Exec ==
    /\ ~exited /\ loop = "running"
    /\ ran' = [ran EXCEPT ![current.by] = current.no]
    /\ \/ /\ current.what = "gate.new.agent"
          /\ player' = [player EXCEPT ![current.by] = "registered"]
          /\ UNCHANGED <<timers, halted>>
       \/ /\ current.what = "gate.p.close"
          /\ player' = [player EXCEPT ![current.by] = "destroyed"]
          /\ UNCHANGED <<timers, halted>>
       \/ /\ current.what \in {"request", "call"}
          /\ UseTimers
          /\ UNCHANGED player
    /\ IF current.ret = "none" THEN loop' = "select" /\ current' = Nothing
       ELSE loop' \in {"returned", "panicked"} /\ UNCHANGED current
    /\ UNCHANGED <<readerVars, callVars, client, retVars, ChanTimer, exited>>

\* Server.ret: the send waits while the channel is full.
Ret(ci, ri) ==
    \/ /\ ci.ret = "sync"
       /\ chanSyncRet = <<>>
       /\ chanSyncRet' = <<ri>>
       /\ UNCHANGED <<ChanAsynRet, pendingAsynCall>>
    \/ /\ ci.ret = "asyn"
       /\ Len(ChanAsynRet) < RetCap
       /\ ChanAsynRet' = Append(ChanAsynRet, ri)
       /\ UNCHANGED <<chanSyncRet, pendingAsynCall>>
    \/ /\ ci.ret = "none"
       /\ UNCHANGED retVars

RetBlocked(ci) ==
    \/ ci.ret = "sync" /\ chanSyncRet # <<>>
    \/ ci.ret = "asyn" /\ Len(ChanAsynRet) >= RetCap

\* Wrong variant: no answer after a panic.
AnswerReturned ==
    /\ ~exited /\ loop \in {"returned", "panicked"}
    /\ IF loop = "returned" THEN Ret(current, "ret") ELSE UNCHANGED retVars
    /\ loop' = "select"
    /\ current' = Nothing
    /\ UNCHANGED <<readerVars, callVars, player, ran, client, timerVars, exited>>

Answer ==
    /\ ~exited /\ loop \in {"returned", "panicked"}
    /\ Ret(current, IF loop = "panicked" THEN "err" ELSE "ret")
    /\ loop' = "select"
    /\ current' = Nothing
    /\ UNCHANGED <<readerVars, callVars, player, ran, client, timerVars, exited>>

TakeTimer ==
    /\ ~exited /\ loop = "select"
    /\ ChanTimer # <<>>
    /\ current' = [Nothing EXCEPT !.what = Head(ChanTimer)]
    /\ ChanTimer' = Tail(ChanTimer)
    /\ loop' = "firing"
    /\ UNCHANGED <<readerVars, callVars, player, ran, client, retVars, timers, halted,
                   exited>>

\* Wrong variant: a ticker ticks once.
CBOnce ==
    /\ ~exited /\ loop = "firing"
    /\ timers' = [timers EXCEPT ![current.what] = OverTimer]
    /\ IF timers[current.what].cb THEN loop' = "calling" /\ UNCHANGED current
       ELSE loop' = "select" /\ current' = Nothing
    /\ UNCHANGED <<readerVars, callVars, player, ran, client, retVars, ChanTimer, halted,
                   exited>>

\* Timer.CB: a stopped timer has no callback.  A ticker's callback makes its
\* next timer before it runs the user's.
CB ==
    /\ ~exited /\ loop = "firing"
    /\ LET t == current.what
       IN  IF timers[t].cb
           THEN /\ timers' = [timers EXCEPT ![t] = IF t \in Tickers THEN NewTimer ELSE OverTimer]
                /\ loop' = "calling"
                /\ UNCHANGED current
           ELSE /\ timers' = [timers EXCEPT ![t] = OverTimer]
                /\ loop' = "select"
                /\ current' = Nothing
    /\ UNCHANGED <<readerVars, callVars, player, ran, client, retVars, ChanTimer,
                   halted, exited>>

\* The user's callback returns or panics, which CB recovers.
CBReturns ==
    /\ ~exited /\ loop = "calling"
    /\ UseTimers
    /\ loop' = "select"
    /\ current' = Nothing
    /\ UNCHANGED <<readerVars, callVars, player, ran, client, retVars, ChanTimer,
                   exited>>

\* A handler or callback does not return.
Hang ==
    /\ ~exited /\ loop \in {"running", "calling"}
    /\ loop' = "hung"
    /\ UNCHANGED <<readerVars, callVars, player, current, ran, client, retVars, timerVars,
                   exited>>

\* runFunc's watchdog: what the loop runs, the answer included, has taken 1000
\* seconds; the three seconds before the exit are left out.
Watchdog ==
    /\ ~exited
    /\ \/ loop = "hung"
       \/ loop \in {"returned", "panicked"} /\ RetBlocked(current)
    /\ exited' = TRUE
    /\ UNCHANGED <<readerVars, callVars, loopVars, client, retVars, timerVars>>

\* closeSig: Server.Close closes ChanCall and answers what is left in it, which
\* no watchdog covers.
CloseServer ==
    /\ ~exited /\ loop = "select"
    /\ isOpen' = FALSE
    /\ loop' = "draining"
    /\ UNCHANGED <<readerVars, ChanCall, dropped, player, current, ran, client, retVars,
                   timerVars, exited>>

\* Wrong variant: what is left is not answered.
DrainSilently ==
    /\ ~exited /\ loop = "draining"
    /\ ChanCall # <<>>
    /\ ChanCall' = Tail(ChanCall)
    /\ UNCHANGED <<readerVars, isOpen, dropped, loopVars, client, retVars, timerVars, exited>>

Drain ==
    /\ ~exited /\ loop = "draining"
    /\ ChanCall # <<>>
    /\ Ret(Head(ChanCall), "err")
    /\ ChanCall' = Tail(ChanCall)
    /\ UNCHANGED <<readerVars, isOpen, dropped, loopVars, client, timerVars, exited>>

ServerClosed ==
    /\ ~exited /\ loop = "draining"
    /\ ChanCall = <<>>
    /\ loop' = "closed"
    /\ UNCHANGED <<readerVars, callVars, player, current, ran, client, retVars, timerVars,
                   exited>>

-----------------------------------------------------------------------------
Reader(c) == ReaderStarts(c) \/ PostRequest(c) \/ ReaderEnds(c)
RpcClient == SyncCall \/ Send \/ Receive \/ AsynCall \/ Cb \/ CloseClient \/ ClientClosed
Clock(t) == Expire(t) \/ SendTimer(t)
Run == TakeCall \/ Exec \/ Answer \/ TakeTimer \/ CB \/ CBReturns \/ Hang \/ CloseServer
       \/ Drain \/ ServerClosed

Next ==
    \/ \E c \in Conns : Reader(c)
    \/ RpcClient
    \/ \E t \in Timers : Clock(t)
    \/ Run \/ Watchdog

Spec == Init /\ [][Next]_vars

\* The loop and the runtime's goroutines go on when they can; time passes; a
\* client that waits, or closes, goes on when there is an answer.  A select with
\* several ready cases takes one at random, so that each is taken in the end.
\* Nothing is assumed of connections, of closeSig, or of a client that is idle.
Fairness ==
    /\ SF_vars(TakeCall) /\ WF_vars(TakeTimer)
    /\ WF_vars(Exec) /\ WF_vars(Answer) /\ WF_vars(CB) /\ WF_vars(CBReturns)
    /\ WF_vars(Watchdog) /\ WF_vars(Drain \/ ServerClosed)
    /\ WF_vars(Send \/ Receive \/ ClientClosed \/ (client = "closing" /\ Cb))
    /\ \A t \in Timers : WF_vars(Clock(t))

FairSpec == Spec /\ Fairness

-----------------------------------------------------------------------------
CallInfos ==
    [by : Posters, no : Nat, ret : {"none", "sync", "asyn"},
     what : {"gate.new.agent", "request", "gate.p.close", "call"}]

TypeOK ==
    /\ reader \in [Conns -> {"none", "reading", "gone"}]
    /\ posted \in [Posters -> Nat] /\ ran \in [Posters -> Nat]
    /\ player \in [Conns -> {"none", "registered", "destroyed"}]
    /\ ChanCall \in Seq(CallInfos) /\ Len(ChanCall) <= CallCap
    /\ isOpen \in BOOLEAN /\ exited \in BOOLEAN
    /\ dropped \subseteq CallInfos
    /\ loop \in {"select", "running", "returned", "panicked", "firing", "calling", "hung",
                 "draining", "closed"}
    /\ loop \in {"running", "returned", "panicked"} => current \in CallInfos
    /\ loop \in {"firing", "calling"} => current.what \in Timers
    /\ client \in {"idle", "sending", "waiting", "closing", "closed"}
    /\ chanSyncRet \in Seq(RetInfos) /\ Len(chanSyncRet) <= 1
    /\ ChanAsynRet \in Seq(RetInfos) /\ Len(ChanAsynRet) <= RetCap
    /\ pendingAsynCall \in Nat
    /\ timers \in [Timers -> [at : {"armed", "sending", "queued", "over"}, cb : BOOLEAN]]
    /\ ChanTimer \in Seq(Timers) /\ Len(ChanTimer) <= TimerCap
    /\ halted \subseteq Timers

\* The calls still to run.
Ahead == IF loop = "running" THEN <<current>> \o ChanCall ELSE ChanCall

\* Each goroutine's calls run in the order in which it posted them, and once,
\* whichever are dropped in between: a player is registered before its requests
\* run, and none of them runs after its destruction (ServerMod.Run).
CallsRunInOrder ==
    /\ \A i \in DOMAIN Ahead :
          /\ Ahead[i].no > ran[Ahead[i].by]
          /\ \A j \in 1..i - 1 : Ahead[j].by = Ahead[i].by => Ahead[j].no < Ahead[i].no
    /\ \A c \in Conns : player[c] = "destroyed" => \A i \in DOMAIN Ahead : Ahead[i].by # c

Asyn(s) == {i \in DOMAIN s : s[i].ret = "asyn"}

\* Client.Close never returns too early: when it has returned, none of the
\* client's asynchronous calls is in the queue, at the loop or among the answers,
\* so that the loop never comes to a call, or to the send of an answer, that
\* nobody waits for any more.  That takes a count which no panic, no answer by
\* Server.Close and no send on the closed channel puts out (rpc.go:321, 371, 374).
ClosedOwesNothing ==
    client = "closed" =>
       /\ Asyn(ChanCall) = {}
       /\ ChanAsynRet = <<>>
       /\ loop \in {"running", "returned", "panicked", "hung"} => current.ret # "asyn"

\* A callback never runs after Stop, wherever the expiry was by then: in the
\* runtime's goroutine, in ChanTimer or at the loop; nor a ticker's after a
\* Stop in its own callback, by when the next tick is armed (timer.go:29, 96).
StoppedNeverFires == loop = "calling" => current.what \notin halted

\* What makes a synchronous call wait for ever: Server.Close has no watchdog,
\* and waits to answer an asynchronous call of the client that is waiting.
CloseStuck ==
    loop = "draining" /\ ChanCall # <<>> /\ Head(ChanCall).ret = "asyn"
    /\ Len(ChanAsynRet) >= RetCap

\* A synchronous call comes to an end, with an answer, an error, or the end of
\* the process, whether its handler returns, panics or hangs and wherever the
\* close of the server finds it, except when Server.Close is stuck.
SyncCallsEnd == client \in {"sending", "waiting"} ~> client = "idle" \/ exited \/ CloseStuck

\* Client.Close returns if none of the client's calls was dropped.
ClientCloseReturns ==
    client = "closing" ~> client = "closed" \/ exited \/ \E ci \in dropped : ci.ret = "asyn"

\* The loop learns that a connection is gone, unless ChanCall is full at that
\* moment: OnClose does not try again (AddChanCall, rpc.go:146).
DeparturesAreSeen ==
    \A c \in Conns :
       reader[c] = "gone" ~> \/ player[c] = "destroyed" \/ ~isOpen \/ exited
                             \/ \E ci \in dropped : ci.by = c /\ ci.what = "gate.p.close"

\* A ticker that nobody stops goes on ticking: a panic in its callback does not
\* end it, since the next tick is armed before (NewTicker).
TickerGoesOn ==
    \A t \in Tickers :
       []<>((loop = "calling" /\ current.what = t) \/ t \in halted \/ ~isOpen \/ exited)
=============================================================================
