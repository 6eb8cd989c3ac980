--------------------------- MODULE SkeletonProofs ---------------------------
(***************************************************************************)
(* What is proved of Skeleton for every number of connections, timers and  *)
(* calls and every queue length: calls run in order and once, a client     *)
(* that has closed has no call left, and a stopped timer stays silent.     *)
(***************************************************************************)
EXTENDS Skeleton, SequenceTheorems, FiniteSetTheorems, FunctionTheorems, TLAPS

-----------------------------------------------------------------------------
(* The inductive invariant. *)

\* A timer that was stopped has no callback, wherever its expiry is.
HaltedSilent == \A t \in halted : ~timers[t].cb

\* Numbers are given out in order: what is ahead has a number that was given
\* out and has not run, and a connection's close is the last it posts.
NumbersInOrder ==
    /\ \A x \in Posters : ran[x] <= posted[x]
    /\ \A i \in DOMAIN Ahead :
          /\ Ahead[i].no > ran[Ahead[i].by] /\ Ahead[i].no <= posted[Ahead[i].by]
          /\ \A j \in 1..i - 1 : Ahead[j].by = Ahead[i].by => Ahead[j].no < Ahead[i].no
          /\ Ahead[i].what = "gate.p.close" =>
                /\ Ahead[i].by \in Conns /\ reader[Ahead[i].by] = "gone"
                /\ Ahead[i].no = posted[Ahead[i].by]
    /\ \A c \in Conns : player[c] = "destroyed" =>
          reader[c] = "gone" /\ \A i \in DOMAIN Ahead : Ahead[i].by # c

\* The call in the loop's hands, also when its handler does not return.
InHand == IF loop \in {"running", "returned", "panicked", "hung"} /\ current.ret = "asyn"
          THEN 1 ELSE 0

\* The asynchronous calls among those dropped: nobody will answer them.
Lost(calls) == {ci \in calls : ci.ret = "asyn"}

\* What the client counts: its calls in the queue, at the loop and among the
\* answers, and those that were dropped.
PendingExact ==
    /\ IsFiniteSet(dropped)
    /\ \A ci \in dropped : ci.no <= posted[ci.by]
    /\ loop \in {"firing", "calling"} => current.ret = "none"
    /\ pendingAsynCall = Cardinality(Asyn(ChanCall)) + Len(ChanAsynRet)
          + Cardinality(Lost(dropped)) + InHand

\* A client that has closed counts nothing, then and later.
ClosedCountsNothing == client = "closed" => pendingAsynCall = 0

IInv ==
    TypeOK /\ HaltedSilent /\ StoppedNeverFires /\ NumbersInOrder /\ PendingExact
    /\ ClosedCountsNothing

-----------------------------------------------------------------------------
(* Sequences of calls. *)

\* What taking the front off a queue leaves.
LEMMA AfterHead ==
    ASSUME NEW S, NEW s \in Seq(S), s # <<>>
    PROVE  /\ Len(s) \in Nat \ {0} /\ Head(s) = s[1] /\ Head(s) \in S
           /\ Tail(s) \in Seq(S) /\ Len(Tail(s)) = Len(s) - 1
           /\ DOMAIN s = 1..Len(s) /\ DOMAIN Tail(s) = 1..Len(s) - 1
           /\ \A i \in 1..Len(s) - 1 : Tail(s)[i] = s[i + 1]
BY HeadTailProperties, LenProperties

\* What putting a value at the end of a queue makes.
LEMMA AfterAppend ==
    ASSUME NEW S, NEW s \in Seq(S), NEW x \in S
    PROVE  /\ Append(s, x) \in Seq(S) /\ Len(s) \in Nat
           /\ Len(Append(s, x)) = Len(s) + 1
           /\ DOMAIN s = 1..Len(s) /\ DOMAIN Append(s, x) = 1..Len(s) + 1
           /\ \A i \in 1..Len(s) : Append(s, x)[i] = s[i]
           /\ Append(s, x)[Len(s) + 1] = x
BY AppendProperties, LenProperties

-----------------------------------------------------------------------------
(* Types. *)

\* The calls that are made are calls, numbered after the last.
LEMMA NewCall ==
    ASSUME TypeOK, NEW by \in Posters,
           NEW what \in {"gate.new.agent", "request", "gate.p.close", "call"},
           NEW ret \in {"none", "sync", "asyn"}
    PROVE  /\ CallInfo(by, what, ret) \in CallInfos
           /\ CallInfo(by, what, ret).by = by /\ CallInfo(by, what, ret).what = what
           /\ CallInfo(by, what, ret).ret = ret
           /\ CallInfo(by, what, ret).no = posted[by] + 1
           /\ posted[by] \in Nat
BY DEF TypeOK, CallInfo, CallInfos

\* AddChanCall keeps the queue within its limit.
LEMMA PostingTyped ==
    ASSUME TypeOK, NEW ci \in CallInfos, AddChanCall(ci)
    PROVE  /\ posted' \in [Posters -> Nat]
           /\ ChanCall' \in Seq(CallInfos) /\ Len(ChanCall') <= CallCap
           /\ dropped' \subseteq CallInfos
           /\ isOpen' = isOpen
<1> USE SkeletonAssumption
<1>1. posted' \in [Posters -> Nat]
  BY DEF AddChanCall, TypeOK, CallInfos
<1>2. ChanCall' \in Seq(CallInfos) /\ Len(ChanCall') <= CallCap
  BY AfterAppend DEF AddChanCall, TypeOK
<1> QED BY <1>1, <1>2 DEF AddChanCall, TypeOK

\* The timers stay timers whatever a handler does with them.
LEMMA UseTimersTyped ==
    ASSUME TypeOK, UseTimers
    PROVE  /\ timers' \in [Timers -> [at : {"armed", "sending", "queued", "over"}, cb : BOOLEAN]]
           /\ halted' \subseteq Timers
<1>1. ASSUME NEW t \in Timers, MakeTimer(t)
      PROVE  timers' \in [Timers -> [at : {"armed", "sending", "queued", "over"}, cb : BOOLEAN]]
             /\ halted' \subseteq Timers
  BY <1>1 DEF MakeTimer, NewTimer, TypeOK
<1>2. ASSUME NEW t \in Timers, Stop(t)
      PROVE  timers' \in [Timers -> [at : {"armed", "sending", "queued", "over"}, cb : BOOLEAN]]
             /\ halted' \subseteq Timers
  <2>1. timers[t].at \in {"armed", "sending", "queued", "over"}
    BY DEF TypeOK
  <2> QED BY <1>2, <2>1 DEF Stop, TypeOK
<1>3. CASE UNCHANGED <<timers, halted>>
  BY <1>3 DEF TypeOK
<1> QED BY <1>1, <1>2, <1>3 DEF UseTimers

\* An answer goes to a channel with room for it.
LEMMA RetTyped ==
    ASSUME TypeOK, NEW ci, NEW ri \in RetInfos, Ret(ci, ri)
    PROVE  /\ chanSyncRet' \in Seq(RetInfos) /\ Len(chanSyncRet') <= 1
           /\ ChanAsynRet' \in Seq(RetInfos) /\ Len(ChanAsynRet') <= RetCap
           /\ pendingAsynCall' = pendingAsynCall
<1> USE SkeletonAssumption
<1>1. CASE ci.ret = "sync" /\ chanSyncRet' = <<ri>> /\ UNCHANGED <<ChanAsynRet, pendingAsynCall>>
  BY <1>1 DEF TypeOK
<1>2. CASE Len(ChanAsynRet) < RetCap /\ ChanAsynRet' = Append(ChanAsynRet, ri)
           /\ UNCHANGED <<chanSyncRet, pendingAsynCall>>
  BY <1>2, AfterAppend DEF TypeOK
<1>3. CASE UNCHANGED retVars
  BY <1>3 DEF retVars, TypeOK
<1> QED BY <1>1, <1>2, <1>3 DEF Ret

-----------------------------------------------------------------------------
(* What is counted. *)

\* The asynchronous calls of a queue are finitely many, and so are the dropped.
LEMMA CountsAreNatural ==
    ASSUME TypeOK, IsFiniteSet(dropped)
    PROVE  /\ Cardinality(Asyn(ChanCall)) \in Nat
           /\ IsFiniteSet(Lost(dropped)) /\ Cardinality(Lost(dropped)) \in Nat
           /\ InHand \in 0..1
           /\ Len(ChanAsynRet) \in Nat
<1>1. ChanCall \in Seq(CallInfos) /\ ChanAsynRet \in Seq(RetInfos)
  BY DEF TypeOK
<1>2. DOMAIN ChanCall = 1..Len(ChanCall) /\ Len(ChanCall) \in Nat /\ Len(ChanAsynRet) \in Nat
  BY <1>1, LenProperties
<1>3. IsFiniteSet(DOMAIN ChanCall)
  BY <1>2, FS_Interval
<1>4. Asyn(ChanCall) \in SUBSET DOMAIN ChanCall
  BY DEF Asyn
<1>5. IsFiniteSet(Asyn(ChanCall)) /\ Cardinality(Asyn(ChanCall)) \in Nat
  BY <1>3, <1>4, FS_Subset, FS_CardinalityType
<1>6. IsFiniteSet(Lost(dropped))
  BY FS_Subset DEF Lost
<1> QED BY <1>2, <1>5, <1>6, FS_CardinalityType DEF InHand

\* Every step keeps the types.  Cb counts down, which needs that what is
\* counted is there.
LEMMA TypeStep ==
    ASSUME TypeOK, PendingExact, [Next]_vars
    PROVE  TypeOK'
<1> USE SkeletonAssumption
<1> DEFINE States == [at : {"armed", "sending", "queued", "over"}, cb : BOOLEAN]
<1>1. ASSUME NEW c \in Conns, Reader(c)
      PROVE  TypeOK'
  <2>1. PICK what \in {"gate.new.agent", "request", "gate.p.close"} :
           AddChanCall(CallInfo(c, what, "none"))
    BY <1>1 DEF Reader, ReaderStarts, PostRequest, ReaderEnds
  <2>2. CallInfo(c, what, "none") \in CallInfos
    BY NewCall DEF Posters
  <2>3. reader' \in [Conns -> {"none", "reading", "gone"}]
    BY <1>1 DEF Reader, ReaderStarts, PostRequest, ReaderEnds, TypeOK
  <2>4. UNCHANGED <<loopVars, client, retVars, timerVars, exited>>
    BY <1>1 DEF Reader, ReaderStarts, PostRequest, ReaderEnds
  <2> QED BY <2>1, <2>2, <2>3, <2>4, PostingTyped
          DEF TypeOK, loopVars, retVars, timerVars
<1>2. CASE SyncCall \/ CloseClient \/ ClientClosed
  BY <1>2 DEF SyncCall, CloseClient, ClientClosed, TypeOK, readerVars, callVars, loopVars,
              retVars, timerVars
<1>3. CASE Send
  <2>1. CallInfo(Client, "call", "sync") \in CallInfos
    BY NewCall DEF Posters
  <2>2. /\ posted' \in [Posters -> Nat]
        /\ ChanCall' \in Seq(CallInfos) /\ Len(ChanCall') <= CallCap
        /\ dropped' \subseteq CallInfos
        /\ isOpen' = isOpen
    <3>1. CASE AddChanCall(CallInfo(Client, "call", "sync"))
      BY <2>1, <3>1, PostingTyped
    <3>2. CASE UNCHANGED <<posted, callVars>>
      BY <3>2 DEF callVars, TypeOK
    <3> QED BY <1>3, <3>1, <3>2 DEF Send
  <2> QED BY <1>3, <2>2 DEF Send, TypeOK, loopVars, retVars, timerVars
<1>4. CASE Receive
  <2>1. chanSyncRet' \in Seq(RetInfos) /\ Len(chanSyncRet') <= 1
    BY <1>4, AfterHead DEF Receive, TypeOK
  <2> QED BY <1>4, <2>1 DEF Receive, TypeOK, readerVars, callVars, loopVars, timerVars
<1>5. CASE AsynCall
  <2>1. CallInfo(Client, "call", "asyn") \in CallInfos
    BY NewCall DEF Posters
  <2>2. AddChanCall(CallInfo(Client, "call", "asyn"))
    BY <1>5 DEF AsynCall
  <2>3. pendingAsynCall' \in Nat
    BY <1>5 DEF AsynCall, TypeOK
  <2> QED BY <1>5, <2>1, <2>2, <2>3, PostingTyped
          DEF AsynCall, TypeOK, loopVars, retVars, timerVars
<1>6. CASE Cb
  <2>1. /\ ChanAsynRet' \in Seq(RetInfos) /\ Len(ChanAsynRet') = Len(ChanAsynRet) - 1
        /\ Len(ChanAsynRet) \in Nat \ {0}
    BY <1>6, AfterHead DEF Cb, TypeOK
  <2>2. pendingAsynCall >= Len(ChanAsynRet)
    BY <2>1, CountsAreNatural DEF PendingExact
  <2>3. pendingAsynCall' \in Nat /\ Len(ChanAsynRet') <= RetCap
    BY <1>6, <2>1, <2>2 DEF Cb, TypeOK
  <2>4. exited' \in BOOLEAN
    BY <1>6 DEF Cb
  <2> QED BY <1>6, <2>1, <2>3, <2>4 DEF Cb, TypeOK, readerVars, callVars, loopVars, timerVars
<1>7. ASSUME NEW t \in Timers, Clock(t)
      PROVE  TypeOK'
  <2>1. timers' \in [Timers -> States]
    <3>1. PICK at \in {"sending", "queued"} : timers' = [timers EXCEPT ![t].at = at]
      BY <1>7 DEF Clock, Expire, SendTimer
    <3> QED BY <3>1 DEF TypeOK
  <2>2. ChanTimer' \in Seq(Timers) /\ Len(ChanTimer') <= TimerCap
    <3>1. ChanTimer \in Seq(Timers) /\ Len(ChanTimer) \in Nat /\ Len(ChanTimer) <= TimerCap
      BY LenProperties DEF TypeOK
    <3>2. \/ ChanTimer' = ChanTimer
          \/ Len(ChanTimer) < TimerCap /\ ChanTimer' = Append(ChanTimer, t)
      BY <1>7, Zenon DEF Clock, Expire, SendTimer
    <3>3. /\ Append(ChanTimer, t) \in Seq(Timers)
          /\ Len(Append(ChanTimer, t)) = Len(ChanTimer) + 1
      BY <3>1, AfterAppend, Zenon
    <3>4. Len(ChanTimer) < TimerCap => Len(ChanTimer) + 1 <= TimerCap
      BY <3>1, SkeletonAssumption
    <3> QED BY <3>1, <3>2, <3>3, <3>4
  <2> QED BY <1>7, <2>1, <2>2
          DEF Clock, Expire, SendTimer, TypeOK, readerVars, callVars, loopVars, retVars
<1>8. CASE TakeCall
  <2>1. Head(ChanCall) \in CallInfos /\ Tail(ChanCall) \in Seq(CallInfos)
        /\ Len(Tail(ChanCall)) <= CallCap
    BY <1>8, AfterHead DEF TakeCall, TypeOK
  <2> QED BY <1>8, <2>1 DEF TakeCall, TypeOK, readerVars, retVars, timerVars
<1>9. CASE Exec
  <2>1. current.by \in Posters /\ current.no \in Nat /\ current \in CallInfos
    BY <1>9 DEF Exec, TypeOK, CallInfos
  <2>2. ran' \in [Posters -> Nat] /\ player' \in [Conns -> {"none", "registered", "destroyed"}]
    BY <1>9, <2>1 DEF Exec, TypeOK
  <2>3. timers' \in [Timers -> States] /\ halted' \subseteq Timers
    BY <1>9, UseTimersTyped DEF Exec, TypeOK
  <2>4. loop' \in {"select", "returned", "panicked"} /\ (loop' # "select" => current' = current)
    BY <1>9 DEF Exec
  <2> QED BY <1>9, <2>1, <2>2, <2>3, <2>4 DEF Exec, TypeOK, readerVars, callVars, retVars
<1>10. CASE Answer
  <2>1. /\ chanSyncRet' \in Seq(RetInfos) /\ Len(chanSyncRet') <= 1
        /\ ChanAsynRet' \in Seq(RetInfos) /\ Len(ChanAsynRet') <= RetCap
        /\ pendingAsynCall' = pendingAsynCall
    BY <1>10, RetTyped DEF Answer, RetInfos
  <2> QED BY <1>10, <2>1 DEF Answer, TypeOK, readerVars, callVars, timerVars
<1>11. CASE TakeTimer
  <2>1. Head(ChanTimer) \in Timers /\ Tail(ChanTimer) \in Seq(Timers)
        /\ Len(Tail(ChanTimer)) <= TimerCap
    BY <1>11, AfterHead DEF TakeTimer, TypeOK
  <2>2. current'.what = Head(ChanTimer)
    BY <1>11 DEF TakeTimer, Nothing
  <2> QED BY <1>11, <2>1, <2>2 DEF TakeTimer, TypeOK, readerVars, callVars, retVars
<1>12. CASE CB
  <2>1. PICK new \in {NewTimer, OverTimer} : timers' = [timers EXCEPT ![current.what] = new]
    <3>1. CASE timers[current.what].cb /\ current.what \in Tickers
      BY <1>12, <3>1 DEF CB
    <3>2. CASE timers[current.what].cb /\ current.what \notin Tickers
      BY <1>12, <3>2 DEF CB
    <3>3. CASE ~timers[current.what].cb
      BY <1>12, <3>3 DEF CB
    <3> QED BY <3>1, <3>2, <3>3
  <2>2. NewTimer \in States /\ OverTimer \in States
    BY DEF NewTimer, OverTimer
  <2>3. timers' \in [Timers -> States]
    BY <2>1, <2>2 DEF TypeOK
  <2> QED BY <1>12, <2>3 DEF CB, TypeOK, readerVars, callVars, retVars
<1>13. CASE CBReturns
  <2>1. timers' \in [Timers -> States] /\ halted' \subseteq Timers
    BY <1>13, UseTimersTyped DEF CBReturns
  <2> QED BY <1>13, <2>1 DEF CBReturns, TypeOK, readerVars, callVars, retVars
<1>14. CASE Hang \/ CloseServer \/ ServerClosed \/ Watchdog
  BY <1>14 DEF Hang, CloseServer, ServerClosed, Watchdog, TypeOK, readerVars, callVars,
               loopVars, retVars, timerVars
<1>15. CASE Drain
  <2>1. /\ chanSyncRet' \in Seq(RetInfos) /\ Len(chanSyncRet') <= 1
        /\ ChanAsynRet' \in Seq(RetInfos) /\ Len(ChanAsynRet') <= RetCap
        /\ pendingAsynCall' = pendingAsynCall
    BY <1>15, RetTyped DEF Drain, RetInfos
  <2>2. ChanCall' \in Seq(CallInfos) /\ Len(ChanCall') <= CallCap
    BY <1>15, AfterHead DEF Drain, TypeOK
  <2> QED BY <1>15, <2>1, <2>2 DEF Drain, TypeOK, readerVars, loopVars, timerVars
<1>16. CASE UNCHANGED vars
  BY <1>16 DEF vars, TypeOK, readerVars, callVars, loopVars, retVars, timerVars
<1> QED BY <1>1, <1>2, <1>3, <1>4, <1>5, <1>6, <1>7, <1>8, <1>9, <1>10, <1>11, <1>12, <1>13,
           <1>14, <1>15, <1>16 DEF Next, RpcClient, Run

-----------------------------------------------------------------------------
(* Timers. *)

\* AfterFunc gives a timer a callback and takes it off the halted; Stop takes
\* the callback away.
LEMMA UseTimersSilent ==
    ASSUME TypeOK, HaltedSilent, UseTimers
    PROVE  HaltedSilent'
<1>1. ASSUME NEW t \in Timers, MakeTimer(t)
      PROVE  HaltedSilent'
  BY <1>1 DEF MakeTimer, HaltedSilent, TypeOK
<1>2. ASSUME NEW t \in Timers, Stop(t)
      PROVE  HaltedSilent'
  <2>1. ~timers'[t].cb /\ \A u \in Timers \ {t} : timers'[u] = timers[u]
    BY <1>2 DEF Stop, TypeOK
  <2> QED BY <1>2, <2>1 DEF Stop, HaltedSilent, TypeOK
<1>3. CASE UNCHANGED <<timers, halted>>
  BY <1>3 DEF HaltedSilent
<1> QED BY <1>1, <1>2, <1>3 DEF UseTimers

\* No step gives a halted timer its callback back, or runs the callback of one.
LEMMA TimerStep ==
    ASSUME TypeOK, HaltedSilent, StoppedNeverFires, [Next]_vars
    PROVE  HaltedSilent' /\ StoppedNeverFires'
<1>1. ASSUME NEW t \in Timers, Clock(t)
      PROVE  HaltedSilent' /\ StoppedNeverFires'
  <2>1. PICK at \in {"sending", "queued"} : timers' = [timers EXCEPT ![t].at = at]
    BY <1>1 DEF Clock, Expire, SendTimer
  <2>2. \A u \in Timers : timers'[u].cb = timers[u].cb
    BY <2>1 DEF TypeOK
  <2>3. UNCHANGED <<halted, loop, current>>
    BY <1>1 DEF Clock, Expire, SendTimer, loopVars
  <2> QED BY <2>2, <2>3 DEF HaltedSilent, StoppedNeverFires, TypeOK
<1>2. CASE Exec \/ CBReturns
  <2>1. UseTimers /\ loop' # "calling"
    BY <1>2 DEF Exec, CBReturns, UseTimers
  <2> QED BY <2>1, UseTimersSilent DEF StoppedNeverFires
<1>3. CASE CB
  <2> DEFINE t == current.what
  <2>1. t \in Timers /\ halted' = halted
    BY <1>3 DEF CB, TypeOK
  <2>2. CASE timers[t].cb
    <3>1. t \notin halted
      BY <2>2 DEF HaltedSilent
    <3>2. loop' = "calling" /\ current' = current
          /\ \A u \in Timers \ {t} : timers'[u] = timers[u]
      BY <1>3, <2>2 DEF CB, TypeOK
    <3> QED BY <2>1, <3>1, <3>2 DEF HaltedSilent, StoppedNeverFires, TypeOK
  <2>3. CASE ~timers[t].cb
    <3>1. loop' = "select" /\ timers' = [timers EXCEPT ![t] = OverTimer]
      BY <1>3, <2>3 DEF CB
    <3>2. ~timers'[t].cb /\ \A u \in Timers \ {t} : timers'[u] = timers[u]
      BY <2>1, <3>1 DEF TypeOK, OverTimer
    <3> QED BY <2>1, <3>1, <3>2 DEF HaltedSilent, StoppedNeverFires, TypeOK
  <2> QED BY <2>2, <2>3
<1>4. CASE \/ \E c \in Conns : Reader(c)
           \/ RpcClient
           \/ TakeCall \/ Answer \/ TakeTimer \/ Hang \/ CloseServer \/ Drain \/ ServerClosed
           \/ Watchdog
           \/ UNCHANGED vars
  <2>1. UNCHANGED <<timers, halted>>
    BY <1>4 DEF Reader, ReaderStarts, PostRequest, ReaderEnds, RpcClient, SyncCall, Send,
                Receive, AsynCall, Cb, CloseClient, ClientClosed, TakeCall, Answer,
                TakeTimer, Hang, CloseServer, Drain, ServerClosed, Watchdog, vars, timerVars
  <2>2. loop' = "calling" => loop = "calling" /\ current' = current
    BY <1>4 DEF Reader, ReaderStarts, PostRequest, ReaderEnds, RpcClient, SyncCall, Send,
                Receive, AsynCall, Cb, CloseClient, ClientClosed, TakeCall, Answer,
                TakeTimer, Hang, CloseServer, Drain, ServerClosed, Watchdog, vars, loopVars
  <2> QED BY <2>1, <2>2 DEF HaltedSilent, StoppedNeverFires
<1> QED BY <1>1, <1>2, <1>3, <1>4 DEF Next, Run

-----------------------------------------------------------------------------
(* The order of the calls. *)

LEMMA AheadIsASequence ==
    ASSUME TypeOK
    PROVE  /\ Ahead \in Seq(CallInfos) /\ DOMAIN Ahead = 1..Len(Ahead) /\ Len(Ahead) \in Nat
           /\ \A i \in DOMAIN Ahead : Ahead[i].by \in Posters /\ Ahead[i].no \in Nat
<1>1. Ahead \in Seq(CallInfos)
  BY ConcatProperties DEF Ahead, TypeOK
<1>2. DOMAIN Ahead = 1..Len(Ahead) /\ Len(Ahead) \in Nat
  BY <1>1, LenProperties
<1>3. \A i \in DOMAIN Ahead : Ahead[i] \in CallInfos
  BY <1>1, <1>2, ElementOfSeq
<1> QED BY <1>1, <1>2, <1>3 DEF CallInfos

\* A step that leaves the calls ahead and their numbers alone.
LEMMA OrderUntouched ==
    ASSUME NumbersInOrder, Ahead' = Ahead, UNCHANGED <<reader, posted, player, ran>>
    PROVE  NumbersInOrder'
BY DEF NumbersInOrder

\* The front of the queue has run, or was answered without running.
LEMMA OrderAfterFront ==
    ASSUME TypeOK, NumbersInOrder, Ahead # <<>>, Ahead' = Tail(Ahead),
           UNCHANGED <<reader, posted>>,
           ran' \in {ran, [ran EXCEPT ![Ahead[1].by] = Ahead[1].no]},
           \A c \in Conns : player'[c] = "destroyed" =>
              player[c] = "destroyed" \/ (Ahead[1].by = c /\ Ahead[1].what = "gate.p.close")
    PROVE  NumbersInOrder'
<1>1. /\ Len(Ahead) \in Nat \ {0}
      /\ DOMAIN Ahead = 1..Len(Ahead) /\ DOMAIN Ahead' = 1..Len(Ahead) - 1
      /\ \A i \in 1..Len(Ahead) - 1 : Ahead'[i] = Ahead[i + 1]
  BY AheadIsASequence, AfterHead
<1>2. \A i \in DOMAIN Ahead : Ahead[i].by \in Posters /\ Ahead[i].no \in Nat
  BY AheadIsASequence
<1>3. 1 \in DOMAIN Ahead /\ \A i \in DOMAIN Ahead' : i + 1 \in DOMAIN Ahead /\ i \in Nat
  BY <1>1
<1>4. \A x \in Posters : /\ ran'[x] <= posted'[x]
                         /\ ran'[x] = IF ran' # ran /\ x = Ahead[1].by THEN Ahead[1].no
                                      ELSE ran[x]
  BY <1>2, <1>3 DEF NumbersInOrder, TypeOK
<1>5. ASSUME NEW i \in DOMAIN Ahead'
      PROVE  /\ Ahead'[i].no > ran'[Ahead'[i].by] /\ Ahead'[i].no <= posted'[Ahead'[i].by]
             /\ \A j \in 1..i - 1 : Ahead'[j].by = Ahead'[i].by => Ahead'[j].no < Ahead'[i].no
             /\ Ahead'[i].what = "gate.p.close" =>
                   /\ Ahead'[i].by \in Conns /\ reader'[Ahead'[i].by] = "gone"
                   /\ Ahead'[i].no = posted'[Ahead'[i].by]
  <2>1. Ahead'[i] = Ahead[i + 1] /\ 1 \in 1..(i + 1) - 1
    BY <1>1
  <2>2. \A j \in 1..i - 1 : Ahead'[j] = Ahead[j + 1] /\ j + 1 \in 1..(i + 1) - 1
    BY <1>1
  <2> QED BY <1>2, <1>3, <1>4, <2>1, <2>2 DEF NumbersInOrder
<1>6. ASSUME NEW c \in Conns, player'[c] = "destroyed"
      PROVE  reader'[c] = "gone" /\ \A i \in DOMAIN Ahead' : Ahead'[i].by # c
  <2>1. CASE player[c] = "destroyed"
    BY <1>1, <1>3, <2>1 DEF NumbersInOrder
  <2>2. CASE Ahead[1].by = c /\ Ahead[1].what = "gate.p.close"
    <3>1. reader[c] = "gone" /\ Ahead[1].no = posted[c]
      BY <1>3, <2>2 DEF NumbersInOrder
    <3>2. ASSUME NEW i \in DOMAIN Ahead', Ahead'[i].by = c
          PROVE  FALSE
      <4>1. Ahead'[i] = Ahead[i + 1] /\ 1 \in 1..(i + 1) - 1
        BY <1>1
      <4>2. Ahead[1].no < Ahead[i + 1].no /\ Ahead[i + 1].no <= posted[c]
        BY <1>3, <2>2, <3>2, <4>1 DEF NumbersInOrder
      <4> QED BY <1>2, <1>3, <3>1, <4>2
    <3> QED BY <3>1, <3>2
  <2> QED BY <1>6, <2>1, <2>2
<1> QED BY <1>4, <1>5, <1>6 DEF NumbersInOrder

\* A call was posted, by the client or by a connection that is still read.
LEMMA OrderAfterPost ==
    ASSUME TypeOK, NumbersInOrder, NEW ci \in CallInfos,
           ci.no = posted[ci.by] + 1, posted' = [posted EXCEPT ![ci.by] = ci.no],
           Ahead' \in {Ahead, Append(Ahead, ci)}, UNCHANGED <<player, ran>>,
           \A c \in Conns \ {ci.by} : reader'[c] = reader[c],
           ci.by \in Conns => reader[ci.by] # "gone",
           ci.what = "gate.p.close" => ci.by \in Conns /\ reader'[ci.by] = "gone"
    PROVE  NumbersInOrder'
<1>1. ci.by \in Posters /\ posted[ci.by] \in Nat /\ ran[ci.by] \in Nat
  BY DEF TypeOK, CallInfos
<1>2. \A x \in Posters : posted'[x] = IF x = ci.by THEN posted[x] + 1 ELSE posted[x]
  BY <1>1 DEF TypeOK
<1>3. \A i \in DOMAIN Ahead : Ahead[i].by \in Posters /\ Ahead[i].no \in Nat
  BY AheadIsASequence
<1>4. /\ Len(Ahead) \in Nat /\ DOMAIN Ahead = 1..Len(Ahead)
      /\ DOMAIN Ahead' = 1..Len(Ahead) \/ DOMAIN Ahead' = 1..Len(Ahead) + 1
      /\ \A i \in 1..Len(Ahead) : Ahead'[i] = Ahead[i]
      /\ DOMAIN Ahead' = 1..Len(Ahead) + 1 => Ahead'[Len(Ahead) + 1] = ci
  BY AheadIsASequence, AfterAppend
<1>5. \A x \in Posters : ran'[x] <= posted'[x] /\ posted[x] <= posted'[x] /\ posted[x] \in Nat
                         /\ ran[x] \in Nat
  BY <1>2 DEF NumbersInOrder, TypeOK
<1>6. ASSUME NEW i \in DOMAIN Ahead'
      PROVE  /\ Ahead'[i].no > ran'[Ahead'[i].by] /\ Ahead'[i].no <= posted'[Ahead'[i].by]
             /\ \A j \in 1..i - 1 : Ahead'[j].by = Ahead'[i].by => Ahead'[j].no < Ahead'[i].no
             /\ Ahead'[i].what = "gate.p.close" =>
                   /\ Ahead'[i].by \in Conns /\ reader'[Ahead'[i].by] = "gone"
                   /\ Ahead'[i].no = posted'[Ahead'[i].by]
  <2>1. CASE i \in DOMAIN Ahead
    <3>1. Ahead'[i] = Ahead[i] /\ \A j \in 1..i - 1 : Ahead'[j] = Ahead[j]
      BY <1>4, <2>1
    <3>2. Ahead[i].what = "gate.p.close" => Ahead[i].by # ci.by
      BY <2>1 DEF NumbersInOrder
    <3> QED BY <1>2, <1>3, <1>5, <2>1, <3>1, <3>2 DEF NumbersInOrder
  <2>2. CASE i \notin DOMAIN Ahead
    <3>1. i = Len(Ahead) + 1 /\ Ahead'[i] = ci
          /\ \A j \in 1..i - 1 : Ahead'[j] = Ahead[j] /\ j \in DOMAIN Ahead
      BY <1>4, <2>2
    <3>2. \A j \in DOMAIN Ahead : Ahead[j].no <= posted[Ahead[j].by]
      BY DEF NumbersInOrder
    <3>3. ran[ci.by] <= posted[ci.by]
      BY <1>1 DEF NumbersInOrder
    <3> QED BY <1>1, <1>2, <1>3, <3>1, <3>2, <3>3
  <2> QED BY <2>1, <2>2
<1>7. ASSUME NEW c \in Conns, player'[c] = "destroyed"
      PROVE  reader'[c] = "gone" /\ \A i \in DOMAIN Ahead' : Ahead'[i].by # c
  <2>1. reader[c] = "gone" /\ \A i \in DOMAIN Ahead : Ahead[i].by # c
    BY <1>7 DEF NumbersInOrder
  <2>2. c # ci.by
    BY <2>1
  <2> QED BY <1>4, <2>1, <2>2
<1> QED BY <1>5, <1>6, <1>7 DEF NumbersInOrder

\* What the steps that move calls do to those ahead.
LEMMA AheadAfterPost ==
    ASSUME TypeOK, NEW ci \in CallInfos, AddChanCall(ci), UNCHANGED <<loop, current>>
    PROVE  Ahead' \in {Ahead, Append(Ahead, ci)}
<1>1. ChanCall \in Seq(CallInfos) /\ ChanCall' \in {ChanCall, Append(ChanCall, ci)}
  BY DEF AddChanCall, TypeOK
<1>2. CASE loop = "running"
  <2>1. <<current>> \in Seq(CallInfos) /\ <<ci>> \in Seq(CallInfos)
    BY <1>2 DEF TypeOK
  <2>2. /\ Append(ChanCall, ci) = ChanCall \o <<ci>>
        /\ (<<current>> \o ChanCall) \o <<ci>> = <<current>> \o (ChanCall \o <<ci>>)
        /\ <<current>> \o ChanCall \in Seq(CallInfos)
    BY <1>1, <2>1, AppendIsConcat, ConcatAssociative, ConcatProperties
  <2>3. Append(<<current>> \o ChanCall, ci) = <<current>> \o Append(ChanCall, ci)
    BY <2>2, AppendIsConcat
  <2>4. Ahead = <<current>> \o ChanCall /\ Ahead' = <<current>> \o ChanCall'
    BY <1>2 DEF Ahead
  <2> QED BY <1>1, <2>3, <2>4
<1>3. CASE loop # "running"
  BY <1>1, <1>3 DEF Ahead
<1> QED BY <1>2, <1>3

LEMMA AheadAfterTake ==
    ASSUME TypeOK, TakeCall
    PROVE  Ahead' = Ahead
<1>1. ChanCall \in Seq(CallInfos) /\ ChanCall # <<>>
  BY DEF TypeOK, TakeCall
<1>2. Ahead = ChanCall /\ Ahead' = <<Head(ChanCall)>> \o Tail(ChanCall)
  BY DEF TakeCall, Ahead
<1>3. /\ Len(ChanCall) \in Nat \ {0} /\ Head(ChanCall) = ChanCall[1]
      /\ Tail(ChanCall) \in Seq(CallInfos) /\ Len(Tail(ChanCall)) = Len(ChanCall) - 1
      /\ \A i \in 1..Len(ChanCall) - 1 : Tail(ChanCall)[i] = ChanCall[i + 1]
      /\ <<Head(ChanCall)>> \in Seq(CallInfos) /\ Len(<<Head(ChanCall)>>) = 1
      /\ <<Head(ChanCall)>>[1] = Head(ChanCall)
  BY <1>1, AfterHead
<1>4. /\ Ahead' \in Seq(CallInfos) /\ Len(Ahead') = Len(ChanCall)
      /\ \A i \in 1..Len(ChanCall) :
            Ahead'[i] = IF i <= 1 THEN <<Head(ChanCall)>>[i] ELSE Tail(ChanCall)[i - 1]
  BY <1>2, <1>3, ConcatProperties
<1>5. \A i \in 1..Len(ChanCall) : Ahead'[i] = ChanCall[i]
  BY <1>3, <1>4
<1> QED BY <1>1, <1>2, <1>4, <1>5, SeqEqual

\* When the loop has a call in its hands that has not run, it is the first.
LEMMA AheadOfRunning ==
    ASSUME TypeOK, loop = "running"
    PROVE  /\ current \in CallInfos
           /\ Ahead # <<>> /\ Ahead[1] = current /\ Tail(Ahead) = ChanCall
<1>1. /\ Ahead = <<current>> \o ChanCall /\ ChanCall \in Seq(CallInfos)
      /\ <<current>> \in Seq(CallInfos) /\ current \in CallInfos
      /\ Len(<<current>>) = 1 /\ <<current>>[1] = current /\ Len(ChanCall) \in Nat
  BY LenProperties DEF Ahead, TypeOK
<1>2. /\ Ahead \in Seq(CallInfos) /\ Len(Ahead) = 1 + Len(ChanCall)
      /\ \A i \in 1..1 + Len(ChanCall) :
            Ahead[i] = IF i <= 1 THEN <<current>>[i] ELSE ChanCall[i - 1]
  BY <1>1, ConcatProperties
<1>3. Ahead # <<>> /\ Ahead[1] = current
  BY <1>1, <1>2
<1>4. /\ Tail(Ahead) \in Seq(CallInfos) /\ Len(Tail(Ahead)) = Len(ChanCall)
      /\ \A i \in 1..Len(ChanCall) : Tail(Ahead)[i] = Ahead[i + 1]
  BY <1>1, <1>2, <1>3, AfterHead
<1>5. \A i \in 1..Len(ChanCall) : Tail(Ahead)[i] = ChanCall[i]
  BY <1>1, <1>2, <1>4
<1> QED BY <1>1, <1>3, <1>4, <1>5, SeqEqual

\* Every step keeps the calls in order.
LEMMA OrderStep ==
    ASSUME TypeOK, NumbersInOrder, [Next]_vars
    PROVE  NumbersInOrder'
<1>1. ASSUME NEW c \in Conns, Reader(c)
      PROVE  NumbersInOrder'
  <2>1. PICK what \in {"gate.new.agent", "request", "gate.p.close"} :
           /\ AddChanCall(CallInfo(c, what, "none"))
           /\ what = "gate.p.close" => reader' = [reader EXCEPT ![c] = "gone"]
    BY <1>1 DEF Reader, ReaderStarts, PostRequest, ReaderEnds
  <2> DEFINE ci == CallInfo(c, what, "none")
  <2>2. ci \in CallInfos /\ ci.by = c /\ ci.what = what /\ ci.no = posted[c] + 1
    BY NewCall DEF Posters
  <2>3. UNCHANGED <<loop, current, player, ran>>
    BY <1>1 DEF Reader, ReaderStarts, PostRequest, ReaderEnds, loopVars
  <2>4. reader[c] # "gone" /\ \A d \in Conns \ {c} : reader'[d] = reader[d]
    BY <1>1 DEF Reader, ReaderStarts, PostRequest, ReaderEnds, TypeOK
  <2>5. what = "gate.p.close" => reader'[c] = "gone"
    BY <2>1 DEF TypeOK
  <2>6. posted' = [posted EXCEPT ![ci.by] = ci.no] /\ AddChanCall(ci)
    BY <2>1 DEF AddChanCall
  <2>7. Ahead' \in {Ahead, Append(Ahead, ci)}
    BY <2>2, <2>3, <2>6, AheadAfterPost
  <2> HIDE DEF ci
  <2> QED BY <2>2, <2>3, <2>4, <2>5, <2>6, <2>7, OrderAfterPost
<1>2. ASSUME NEW ret \in {"sync", "asyn"}, AddChanCall(CallInfo(Client, "call", ret)),
             UNCHANGED <<reader, loop, current, player, ran>>
      PROVE  NumbersInOrder'
  <2> DEFINE ci == CallInfo(Client, "call", ret)
  <2>1. ci \in CallInfos /\ ci.by = Client /\ ci.what = "call" /\ ci.no = posted[Client] + 1
    BY NewCall DEF Posters
  <2>2. posted' = [posted EXCEPT ![ci.by] = ci.no] /\ AddChanCall(ci)
    BY <1>2 DEF AddChanCall
  <2> HIDE DEF ci
  <2>3. Ahead' \in {Ahead, Append(Ahead, ci)}
    BY <1>2, <2>1, <2>2, AheadAfterPost
  <2>4. Client \notin Conns
    BY SkeletonAssumption
  <2> QED BY <1>2, <2>1, <2>2, <2>3, <2>4, OrderAfterPost
<1>3. CASE Send
  <2>1. CASE AddChanCall(CallInfo(Client, "call", "sync"))
    BY <1>2, <1>3, <2>1 DEF Send, loopVars
  <2>2. CASE UNCHANGED <<posted, callVars>>
    <3>1. Ahead' = Ahead
      BY <1>3, <2>2 DEF Send, Ahead, callVars, loopVars
    <3> QED BY <1>3, <2>2, <3>1, OrderUntouched DEF Send, loopVars
  <2> QED BY <1>3, <2>1, <2>2 DEF Send
<1>4. CASE AsynCall
  BY <1>2, <1>4 DEF AsynCall, loopVars
<1>5. CASE TakeCall
  <2>1. UNCHANGED <<reader, posted, player, ran>>
    BY <1>5 DEF TakeCall, readerVars
  <2> QED BY <1>5, <2>1, AheadAfterTake, OrderUntouched
<1>6. CASE Exec
  <2>1. Ahead # <<>> /\ Ahead[1] = current /\ Tail(Ahead) = ChanCall
    BY <1>6, AheadOfRunning DEF Exec
  <2>2. Ahead' = ChanCall /\ UNCHANGED <<reader, posted>>
    BY <1>6 DEF Exec, Ahead, readerVars, callVars
  <2>3. ran' = [ran EXCEPT ![current.by] = current.no]
    BY <1>6 DEF Exec
  <2>4. ASSUME NEW c \in Conns, player'[c] = "destroyed", player[c] # "destroyed"
        PROVE  current.by = c /\ current.what = "gate.p.close"
    BY <1>6, <2>4 DEF Exec, TypeOK
  <2> QED BY <2>1, <2>2, <2>3, <2>4, OrderAfterFront
<1>7. CASE Drain
  <2>1. Ahead = ChanCall /\ Ahead # <<>> /\ Ahead' = Tail(ChanCall)
    BY <1>7 DEF Drain, Ahead, loopVars
  <2>2. UNCHANGED <<reader, posted, player, ran>>
    BY <1>7 DEF Drain, readerVars, loopVars
  <2> QED BY <2>1, <2>2, OrderAfterFront
<1>8. CASE Hang
  <2>1. UNCHANGED <<reader, posted, player, ran>>
    BY <1>8 DEF Hang, readerVars
  <2>2. Ahead' = ChanCall
    BY <1>8 DEF Hang, Ahead, callVars
  <2>3. CASE loop = "running"
    BY <2>1, <2>2, <2>3, AheadOfRunning, OrderAfterFront
  <2>4. CASE loop # "running"
    BY <2>1, <2>2, <2>4, OrderUntouched DEF Ahead
  <2> QED BY <2>3, <2>4
<1>9. CASE \/ SyncCall \/ Receive \/ Cb \/ CloseClient \/ ClientClosed
           \/ \E t \in Timers : Clock(t)
           \/ Answer \/ TakeTimer \/ CB \/ CBReturns \/ CloseServer \/ ServerClosed
           \/ Watchdog
           \/ UNCHANGED vars
  <2>1. UNCHANGED <<reader, posted, player, ran, ChanCall>>
    BY <1>9 DEF SyncCall, Receive, Cb, CloseClient, ClientClosed, Clock, Expire, SendTimer,
                Answer, TakeTimer, CB, CBReturns, CloseServer, ServerClosed, Watchdog, vars,
                readerVars, callVars, loopVars
  <2>2. (loop = "running" <=> loop' = "running") /\ (loop = "running" => current' = current)
    BY <1>9 DEF SyncCall, Receive, Cb, CloseClient, ClientClosed, Clock, Expire, SendTimer,
                Answer, TakeTimer, CB, CBReturns, CloseServer, ServerClosed, Watchdog, vars,
                loopVars
  <2>3. Ahead' = Ahead
    BY <2>1, <2>2 DEF Ahead
  <2> QED BY <2>1, <2>3, OrderUntouched
<1> QED BY <1>1, <1>3, <1>4, <1>5, <1>6, <1>7, <1>8, <1>9 DEF Next, RpcClient, Run

-----------------------------------------------------------------------------
(* The calls the client counts. *)

LEMMA AsynAfterAppend ==
    ASSUME NEW s \in Seq(CallInfos), NEW ci \in CallInfos
    PROVE  /\ IsFiniteSet(Asyn(s)) /\ Cardinality(Asyn(s)) \in Nat
           /\ Cardinality(Asyn(Append(s, ci))) =
                 Cardinality(Asyn(s)) + (IF ci.ret = "asyn" THEN 1 ELSE 0)
<1>1. /\ Len(s) \in Nat /\ DOMAIN s = 1..Len(s) /\ DOMAIN Append(s, ci) = 1..Len(s) + 1
      /\ \A i \in 1..Len(s) : Append(s, ci)[i] = s[i]
      /\ Append(s, ci)[Len(s) + 1] = ci
  BY AfterAppend
<1>2. IsFiniteSet(DOMAIN s) /\ Asyn(s) \in SUBSET DOMAIN s
  BY <1>1, FS_Interval DEF Asyn
<1>3. IsFiniteSet(Asyn(s)) /\ Cardinality(Asyn(s)) \in Nat
  BY <1>2, FS_Subset, FS_CardinalityType
<1>4. CASE ci.ret = "asyn"
  <2>1. Asyn(Append(s, ci)) = Asyn(s) \cup {Len(s) + 1} /\ Len(s) + 1 \notin Asyn(s)
    BY <1>1, <1>4 DEF Asyn
  <2> QED BY <1>3, <1>4, <2>1, FS_AddElement
<1>5. CASE ci.ret # "asyn"
  <2>1. Asyn(Append(s, ci)) = Asyn(s)
    BY <1>1, <1>5 DEF Asyn
  <2> QED BY <1>3, <1>5, <2>1
<1> QED BY <1>3, <1>4, <1>5

LEMMA AsynAfterHead ==
    ASSUME NEW s \in Seq(CallInfos), s # <<>>
    PROVE  /\ Cardinality(Asyn(s)) \in Nat /\ Cardinality(Asyn(Tail(s))) \in Nat
           /\ Cardinality(Asyn(s)) =
                 Cardinality(Asyn(Tail(s))) + (IF Head(s).ret = "asyn" THEN 1 ELSE 0)
<1> DEFINE F == [i \in Asyn(Tail(s)) |-> i + 1]
<1>1. /\ Len(s) \in Nat \ {0} /\ Head(s) = s[1] /\ Head(s) \in CallInfos
      /\ Tail(s) \in Seq(CallInfos)
      /\ DOMAIN s = 1..Len(s) /\ DOMAIN Tail(s) = 1..Len(s) - 1
      /\ \A i \in 1..Len(s) - 1 : Tail(s)[i] = s[i + 1]
  BY AfterHead
<1>2. /\ IsFiniteSet(Asyn(s)) /\ IsFiniteSet(Asyn(Tail(s)))
      /\ Cardinality(Asyn(s)) \in Nat /\ Cardinality(Asyn(Tail(s))) \in Nat
  BY <1>1, AsynAfterAppend
<1>3. Asyn(Tail(s)) \subseteq Nat /\ \A i \in Asyn(Tail(s)) : i + 1 \in Asyn(s) \ {1}
  BY <1>1 DEF Asyn
<1>4. \A i \in Asyn(s) \ {1} : i - 1 \in Asyn(Tail(s)) /\ (i - 1) + 1 = i
  BY <1>1 DEF Asyn
<1>5. /\ F \in [Asyn(Tail(s)) -> Asyn(s) \ {1}]
      /\ \A i, j \in Asyn(Tail(s)) : F[i] = F[j] => i = j
      /\ \A k \in Asyn(s) \ {1} : \E i \in Asyn(Tail(s)) : F[i] = k
  BY <1>3, <1>4
<1>6. F \in Bijection(Asyn(Tail(s)), Asyn(s) \ {1})
  BY <1>5, Fun_IsBij
<1>7. Cardinality(Asyn(s) \ {1}) = Cardinality(Asyn(Tail(s)))
  BY <1>2, <1>6, FS_Bijection, Fun_ExistsBij
<1>8. 1 \in Asyn(s) <=> Head(s).ret = "asyn"
  BY <1>1 DEF Asyn
<1>9. /\ 1 \in Asyn(s) => Cardinality(Asyn(s) \ {1}) = Cardinality(Asyn(s)) - 1
      /\ 1 \notin Asyn(s) => Cardinality(Asyn(s) \ {1}) = Cardinality(Asyn(s))
  BY <1>2, FS_RemoveElement
<1> HIDE DEF F
<1> QED BY <1>2, <1>7, <1>8, <1>9

\* A posted call is in the queue or among the dropped, once, while the channel
\* is open.
LEMMA PostedIsCounted ==
    ASSUME TypeOK, PendingExact, NEW ci \in CallInfos, ci.no = posted[ci.by] + 1,
           AddChanCall(ci)
    PROVE  /\ IsFiniteSet(dropped')
           /\ \A d \in dropped' : d.no <= posted'[d.by]
           /\ Cardinality(Asyn(ChanCall')) + Cardinality(Lost(dropped')) =
                 Cardinality(Asyn(ChanCall)) + Cardinality(Lost(dropped))
                 + (IF isOpen /\ ci.ret = "asyn" THEN 1 ELSE 0)
<1>1. /\ ChanCall \in Seq(CallInfos) /\ IsFiniteSet(dropped)
      /\ \A d \in dropped : d \in CallInfos /\ d.no <= posted[d.by]
  BY DEF TypeOK, PendingExact
<1>2. /\ ci.by \in Posters /\ posted[ci.by] \in Nat /\ posted \in [Posters -> Nat]
      /\ posted' = [posted EXCEPT ![ci.by] = ci.no]
  BY DEF TypeOK, AddChanCall, CallInfos
<1>3. \A x \in Posters : posted[x] \in Nat /\ posted'[x] = IF x = ci.by THEN posted[x] + 1 ELSE posted[x]
  BY <1>2
<1>4. ci \notin dropped
  BY <1>1, <1>2
<1>5. \A d \in dropped \cup {ci} : d.by \in Posters /\ d.no \in Nat
  BY <1>1 DEF CallInfos
<1>6. \A d \in dropped \cup {ci} : d.no <= posted'[d.by]
  BY <1>1, <1>3, <1>5
<1>7. /\ IsFiniteSet(Lost(dropped)) /\ Cardinality(Lost(dropped)) \in Nat
      /\ IsFiniteSet(dropped \cup {ci})
      /\ Cardinality(Asyn(ChanCall)) \in Nat
  BY <1>1, FS_Subset, FS_CardinalityType, FS_AddElement, AsynAfterAppend DEF Lost
<1>8. CASE isOpen /\ Len(ChanCall) < CallCap
  <2>1. ChanCall' = Append(ChanCall, ci) /\ dropped' = dropped
    BY <1>1, <1>8, SkeletonAssumption DEF AddChanCall
  <2> QED BY <1>1, <1>6, <1>7, <1>8, <2>1, AsynAfterAppend
<1>9. CASE isOpen /\ Len(ChanCall) >= CallCap
  <2>1. ChanCall' = ChanCall /\ dropped' = dropped \cup {ci}
    <3>1. ~(Len(ChanCall) < CallCap)
      BY <1>1, <1>9, LenProperties, SkeletonAssumption
    <3> QED BY <1>9, <3>1 DEF AddChanCall
  <2>2. CASE ci.ret = "asyn"
    <3>1. Lost(dropped') = Lost(dropped) \cup {ci} /\ ci \notin Lost(dropped)
      BY <1>4, <2>1, <2>2 DEF Lost
    <3>2. Cardinality(Lost(dropped')) = Cardinality(Lost(dropped)) + 1
      BY <1>7, <3>1, FS_AddElement
    <3> QED BY <1>6, <1>7, <1>9, <2>1, <2>2, <3>2
  <2>3. CASE ci.ret # "asyn"
    <3>1. Lost(dropped') = Lost(dropped)
      BY <2>1, <2>3 DEF Lost
    <3> QED BY <1>6, <1>7, <2>1, <2>3, <3>1
  <2> QED BY <2>2, <2>3
<1>10. CASE ~isOpen
  <2>1. ChanCall' = ChanCall /\ dropped' = dropped
    BY <1>10 DEF AddChanCall
  <2> QED BY <1>1, <1>6, <1>7, <1>10, <2>1
<1>11. Len(ChanCall) < CallCap \/ Len(ChanCall) >= CallCap
  BY <1>1, LenProperties, SkeletonAssumption
<1> QED BY <1>8, <1>9, <1>10, <1>11

\* An answer goes to whom it is for: only an asynchronous call's is counted.
LEMMA RetIsCounted ==
    ASSUME TypeOK, NEW ci, NEW ri \in RetInfos, Ret(ci, ri)
    PROVE  /\ pendingAsynCall' = pendingAsynCall
           /\ Len(ChanAsynRet) \in Nat
           /\ Len(ChanAsynRet') = Len(ChanAsynRet) + (IF ci.ret = "asyn" THEN 1 ELSE 0)
<1>1. ChanAsynRet \in Seq(RetInfos) /\ Len(ChanAsynRet) \in Nat
  BY LenProperties DEF TypeOK
<1>2. CASE ci.ret = "asyn" /\ ChanAsynRet' = Append(ChanAsynRet, ri)
  BY <1>1, <1>2, AfterAppend DEF Ret, retVars
<1>3. CASE ci.ret # "asyn" /\ ChanAsynRet' = ChanAsynRet
  BY <1>1, <1>3 DEF Ret, retVars
<1> QED BY <1>1, <1>2, <1>3 DEF Ret, retVars

\* What none of the counted things depends on leaves the count alone.
LEMMA PendingUntouched ==
    ASSUME PendingExact, UNCHANGED <<posted, ChanCall, dropped>>,
           loop' \in {"firing", "calling"} => current'.ret = "none",
           InHand' = InHand,
           pendingAsynCall' - Len(ChanAsynRet') = pendingAsynCall - Len(ChanAsynRet),
           pendingAsynCall \in Int, pendingAsynCall' \in Int,
           Len(ChanAsynRet) \in Nat, Len(ChanAsynRet') \in Nat,
           Cardinality(Asyn(ChanCall)) \in Nat, Cardinality(Lost(dropped)) \in Nat,
           InHand \in Nat
    PROVE  PendingExact'
<1>1. Asyn(ChanCall)' = Asyn(ChanCall) /\ Lost(dropped)' = Lost(dropped)
  BY DEF Asyn, Lost
<1>2. pendingAsynCall = Cardinality(Asyn(ChanCall)) + Len(ChanAsynRet)
         + Cardinality(Lost(dropped)) + InHand
  BY DEF PendingExact
<1>3. pendingAsynCall' = Cardinality(Asyn(ChanCall)) + Len(ChanAsynRet')
         + Cardinality(Lost(dropped)) + InHand
  <2> DEFINE p == pendingAsynCall
             q == pendingAsynCall'
             l == Len(ChanAsynRet)
             m == Len(ChanAsynRet')
             a == Cardinality(Asyn(ChanCall))
             b == Cardinality(Lost(dropped))
             h == InHand
  <2>1. /\ p \in Int /\ q \in Int /\ l \in Int /\ m \in Int
        /\ a \in Int /\ b \in Int /\ h \in Int
        /\ q - m = p - l /\ p = a + l + b + h
    BY <1>2
  <2> HIDE DEF p, q, l, m, a, b, h
  <2>2. q = a + m + b + h
    BY <2>1
  <2> QED BY <2>2 DEF p, q, l, m, a, b, h
<1> QED BY <1>1, <1>3 DEF PendingExact

\* What the client counts stays accounted for.
LEMMA PendingStep == TypeOK /\ PendingExact /\ [Next]_vars => PendingExact'
<1> SUFFICES ASSUME TypeOK, PendingExact, [Next]_vars PROVE PendingExact'
  OBVIOUS
<1>0. /\ TypeOK' /\ pendingAsynCall \in Nat /\ pendingAsynCall' \in Nat
      /\ ChanCall \in Seq(CallInfos) /\ Cardinality(Asyn(ChanCall)) \in Nat
      /\ Len(ChanAsynRet) \in Nat /\ Len(ChanAsynRet') \in Nat
      /\ InHand \in 0..1 /\ Cardinality(Lost(dropped)) \in Nat
  <2>1. TypeOK'
    BY TypeStep
  <2>2. ChanAsynRet' \in Seq(RetInfos) /\ ChanCall \in Seq(CallInfos)
    BY <2>1 DEF TypeOK
  <2>3. Len(ChanAsynRet') \in Nat
    BY <2>2, LenProperties
  <2>4. IsFiniteSet(dropped)
    BY DEF PendingExact
  <2> QED BY <2>1, <2>2, <2>3, <2>4, CountsAreNatural DEF TypeOK
<1>1. ASSUME NEW by \in Posters,
             NEW what \in {"gate.new.agent", "request", "gate.p.close", "call"},
             NEW ret \in {"none", "sync", "asyn"}, AddChanCall(CallInfo(by, what, ret)),
             UNCHANGED <<loop, current, ChanAsynRet>>,
             pendingAsynCall' = pendingAsynCall + (IF isOpen /\ ret = "asyn" THEN 1 ELSE 0)
      PROVE  PendingExact'
  <2> DEFINE ci == CallInfo(by, what, ret)
  <2>1. ci \in CallInfos /\ ci.no = posted[ci.by] + 1 /\ ci.ret = ret /\ AddChanCall(ci)
    BY <1>1, NewCall
  <2> HIDE DEF ci
  <2>2. /\ IsFiniteSet(dropped')
        /\ \A d \in dropped' : d.no <= posted'[d.by]
        /\ Cardinality(Asyn(ChanCall')) + Cardinality(Lost(dropped')) =
              Cardinality(Asyn(ChanCall)) + Cardinality(Lost(dropped))
              + (IF isOpen /\ ci.ret = "asyn" THEN 1 ELSE 0)
    BY <2>1, PostedIsCounted
  <2>3. InHand' = InHand
    BY <1>1 DEF InHand
  <2>4. Cardinality(Asyn(ChanCall')) \in Nat /\ Cardinality(Lost(dropped')) \in Nat
    <3>1. Lost(dropped') \in SUBSET dropped'
      BY DEF Lost
    <3>2. Cardinality(Lost(dropped')) \in Nat
      BY <2>2, <3>1, FS_Subset, FS_CardinalityType
    <3>3. ChanCall' \in Seq(CallInfos)
      BY <1>0 DEF TypeOK
    <3>4. Cardinality(Asyn(ChanCall')) \in Nat
      BY <2>1, <3>3, AsynAfterAppend
    <3> QED BY <3>2, <3>4
  <2>5. pendingAsynCall = Cardinality(Asyn(ChanCall)) + Len(ChanAsynRet)
           + Cardinality(Lost(dropped)) + InHand
    BY DEF PendingExact
  <2>6. pendingAsynCall' = Cardinality(Asyn(ChanCall')) + Len(ChanAsynRet')
           + Cardinality(Lost(dropped')) + InHand'
    <3> DEFINE n == IF isOpen /\ ret = "asyn" THEN 1 ELSE 0
    <3>1. n \in Int /\ pendingAsynCall' = pendingAsynCall + n
      BY <1>1
    <3>2. Cardinality(Asyn(ChanCall')) + Cardinality(Lost(dropped')) =
             Cardinality(Asyn(ChanCall)) + Cardinality(Lost(dropped)) + n
      BY <2>1, <2>2
    <3>3. ChanAsynRet' = ChanAsynRet
      BY <1>1
    <3> HIDE DEF n
    <3> DEFINE a == Cardinality(Asyn(ChanCall))
    <3> DEFINE b == Cardinality(Lost(dropped))
    <3> DEFINE c == Cardinality(Asyn(ChanCall'))
    <3> DEFINE d == Cardinality(Lost(dropped'))
    <3> DEFINE l == Len(ChanAsynRet)
    <3> DEFINE h == InHand
    <3> DEFINE p == pendingAsynCall
    <3> DEFINE q == pendingAsynCall'
    <3>4. /\ a \in Int /\ b \in Int /\ c \in Int /\ d \in Int
          /\ l \in Int /\ h \in Int /\ p \in Int /\ q \in Int
      BY <1>0, <2>4
    <3>5. q = p + n /\ c + d = a + b + n /\ p = a + l + b + h
      BY <2>5, <3>1, <3>2
    <3>6. n \in Int
      BY <3>1
    <3> HIDE DEF a, b, c, d, l, h, p, q
    <3>7. q = c + l + d + h
      BY <3>4, <3>5, <3>6
    <3>8. q = c + Len(ChanAsynRet') + d + InHand'
      BY <2>3, <3>3, <3>7 DEF l, h
    <3> QED BY <3>8 DEF c, d, q
  <2>7. loop' \in {"firing", "calling"} => current'.ret = "none"
    BY <1>1 DEF PendingExact
  <2>8. Asyn(ChanCall)' = Asyn(ChanCall') /\ Lost(dropped)' = Lost(dropped')
    BY DEF Asyn, Lost
  <2> QED BY <2>2, <2>6, <2>7, <2>8 DEF PendingExact
<1>2. ASSUME NEW c \in Conns, Reader(c) PROVE PendingExact'
  <2>1. PICK what \in {"gate.new.agent", "request", "gate.p.close"} :
           AddChanCall(CallInfo(c, what, "none"))
    BY <1>2 DEF Reader, ReaderStarts, PostRequest, ReaderEnds
  <2>2. UNCHANGED <<loop, current, ChanAsynRet, pendingAsynCall>>
    BY <1>2 DEF Reader, ReaderStarts, PostRequest, ReaderEnds, loopVars, retVars
  <2> QED BY <1>0, <1>1, <2>1, <2>2 DEF Posters
<1>3. CASE Send
  <2>1. UNCHANGED <<loop, current, ChanAsynRet, pendingAsynCall>>
    BY <1>3 DEF Send, loopVars, retVars
  <2>2. CASE AddChanCall(CallInfo(Client, "call", "sync"))
    BY <1>0, <1>1, <2>1, <2>2 DEF Posters
  <2>3. CASE UNCHANGED <<posted, callVars>>
    BY <1>0, <2>1, <2>3, PendingUntouched DEF callVars, InHand, PendingExact
  <2> QED BY <1>3, <2>2, <2>3 DEF Send
<1>4. CASE AsynCall
  BY <1>0, <1>1, <1>4 DEF AsynCall, loopVars, Posters
<1>5. CASE Cb
  <2>1. Len(ChanAsynRet') = Len(ChanAsynRet) - 1 /\ pendingAsynCall' = pendingAsynCall - 1
    BY <1>5, AfterHead DEF Cb, TypeOK
  <2>2. UNCHANGED <<posted, ChanCall, dropped, loop, current>>
    BY <1>5 DEF Cb, readerVars, callVars, loopVars
  <2> QED BY <1>0, <2>1, <2>2, PendingUntouched DEF InHand, PendingExact
<1>6. CASE TakeCall
  <2>1. ChanCall # <<>> /\ ChanCall' = Tail(ChanCall) /\ current' = Head(ChanCall)
    BY <1>6 DEF TakeCall
  <2>2. Cardinality(Asyn(ChanCall)) =
           Cardinality(Asyn(ChanCall')) + (IF current'.ret = "asyn" THEN 1 ELSE 0)
        /\ Cardinality(Asyn(ChanCall')) \in Nat
    BY <1>0, <2>1, AsynAfterHead
  <2>3. InHand = 0 /\ InHand' = IF current'.ret = "asyn" THEN 1 ELSE 0
    BY <1>6 DEF TakeCall, InHand
  <2>4. /\ UNCHANGED <<posted, dropped, pendingAsynCall, ChanAsynRet>>
        /\ loop' \notin {"firing", "calling"}
    BY <1>6 DEF TakeCall, readerVars, retVars
  <2>5. Asyn(ChanCall)' = Asyn(ChanCall') /\ Lost(dropped)' = Lost(dropped)
    BY <2>4 DEF Asyn, Lost
  <2> QED BY <1>0, <2>2, <2>3, <2>4, <2>5 DEF PendingExact
<1>7. CASE Exec
  <2>1. UNCHANGED <<posted, ChanCall, dropped, pendingAsynCall, ChanAsynRet>>
    BY <1>7 DEF Exec, readerVars, callVars, retVars
  <2>2. InHand' = InHand /\ loop' \notin {"firing", "calling"}
    BY <1>7 DEF Exec, InHand
  <2> QED BY <1>0, <2>1, <2>2, PendingUntouched
<1>8. CASE Answer
  <2>1. PICK ri \in RetInfos : Ret(current, ri)
    BY <1>8 DEF Answer, RetInfos
  <2>2. /\ pendingAsynCall' = pendingAsynCall
        /\ Len(ChanAsynRet') = Len(ChanAsynRet) + (IF current.ret = "asyn" THEN 1 ELSE 0)
    BY <2>1, RetIsCounted
  <2>3. /\ InHand = (IF current.ret = "asyn" THEN 1 ELSE 0) /\ InHand' = 0
        /\ loop' \notin {"firing", "calling"}
    BY <1>8 DEF Answer, InHand
  <2>4. UNCHANGED <<posted, ChanCall, dropped>>
    BY <1>8 DEF Answer, readerVars, callVars
  <2>5. Asyn(ChanCall)' = Asyn(ChanCall) /\ Lost(dropped)' = Lost(dropped)
    BY <2>4 DEF Asyn, Lost
  <2> QED BY <1>0, <2>2, <2>3, <2>4, <2>5 DEF PendingExact
<1>9. CASE Drain
  <2>1. ChanCall # <<>> /\ ChanCall' = Tail(ChanCall) /\ Ret(Head(ChanCall), "err")
    BY <1>9 DEF Drain
  <2>2. /\ pendingAsynCall' = pendingAsynCall
        /\ Len(ChanAsynRet') = Len(ChanAsynRet) + (IF Head(ChanCall).ret = "asyn" THEN 1 ELSE 0)
    BY <2>1, RetIsCounted DEF RetInfos
  <2>3. Cardinality(Asyn(ChanCall)) =
           Cardinality(Asyn(ChanCall')) + (IF Head(ChanCall).ret = "asyn" THEN 1 ELSE 0)
        /\ Cardinality(Asyn(ChanCall')) \in Nat
    BY <1>0, <2>1, AsynAfterHead
  <2>4. InHand = 0 /\ InHand' = 0 /\ loop' \notin {"firing", "calling"}
    BY <1>9 DEF Drain, InHand, loopVars
  <2>5. UNCHANGED <<posted, dropped>>
    BY <1>9 DEF Drain, readerVars
  <2>6. Asyn(ChanCall)' = Asyn(ChanCall') /\ Lost(dropped)' = Lost(dropped)
    BY <2>5 DEF Asyn, Lost
  <2> QED BY <1>0, <2>2, <2>3, <2>4, <2>5, <2>6 DEF PendingExact
<1>10. CASE TakeTimer \/ CB \/ CBReturns
  <2>1. UNCHANGED <<posted, ChanCall, dropped, pendingAsynCall, ChanAsynRet>>
    BY <1>10 DEF TakeTimer, CB, CBReturns, readerVars, callVars, retVars
  <2>2. InHand = 0 /\ InHand' = 0
    BY <1>10 DEF TakeTimer, CB, CBReturns, InHand
  <2>3. loop' \in {"firing", "calling"} => current'.ret = "none"
    BY <1>10 DEF TakeTimer, CB, CBReturns, Nothing, PendingExact
  <2> QED BY <1>0, <2>1, <2>2, <2>3, PendingUntouched
<1>11. CASE Hang
  <2>1. UNCHANGED <<posted, ChanCall, dropped, pendingAsynCall, ChanAsynRet>>
    BY <1>11 DEF Hang, readerVars, callVars, retVars
  <2>2. InHand' = InHand /\ loop' \notin {"firing", "calling"}
    BY <1>11 DEF Hang, InHand, PendingExact
  <2> QED BY <1>0, <2>1, <2>2, PendingUntouched
<1>12. CASE \/ SyncCall \/ Receive \/ CloseClient \/ ClientClosed
            \/ \E t \in Timers : Clock(t)
            \/ CloseServer \/ ServerClosed \/ Watchdog \/ UNCHANGED vars
  <2>1. UNCHANGED <<posted, ChanCall, dropped, pendingAsynCall, ChanAsynRet>>
    BY <1>12 DEF SyncCall, Receive, CloseClient, ClientClosed, Clock, Expire, SendTimer,
                 CloseServer, ServerClosed, Watchdog, vars, readerVars, callVars, retVars
  <2>2. InHand' = InHand /\ (loop' \in {"firing", "calling"} => current'.ret = "none")
    BY <1>12 DEF SyncCall, Receive, CloseClient, ClientClosed, Clock, Expire, SendTimer,
                 CloseServer, ServerClosed, Watchdog, vars, loopVars, InHand, PendingExact
  <2> QED BY <1>0, <2>1, <2>2, PendingUntouched
<1> QED BY <1>2, <1>3, <1>4, <1>5, <1>6, <1>7, <1>8, <1>9, <1>10, <1>11, <1>12
        DEF Next, RpcClient, Run

\* Only an idle or a closing client counts up or down.
LEMMA ClosedStep == ClosedCountsNothing /\ [Next]_vars => ClosedCountsNothing'
<1> SUFFICES ASSUME ClosedCountsNothing, [Next]_vars PROVE ClosedCountsNothing'
  OBVIOUS
<1>1. CASE SyncCall \/ Send \/ Receive \/ AsynCall \/ Cb \/ CloseClient \/ ClientClosed
  BY <1>1 DEF SyncCall, Send, Receive, AsynCall, Cb, CloseClient, ClientClosed, retVars,
              ClosedCountsNothing
<1>2. CASE \/ \E c \in Conns : Reader(c)
           \/ \E t \in Timers : Clock(t)
           \/ Run \/ Watchdog \/ UNCHANGED vars
  <2>1. ASSUME NEW ci, NEW ri, Ret(ci, ri) PROVE pendingAsynCall' = pendingAsynCall
    BY <2>1 DEF Ret, retVars
  <2>2. client' = client /\ pendingAsynCall' = pendingAsynCall
    BY <1>2, <2>1 DEF Reader, ReaderStarts, PostRequest, ReaderEnds, Clock, Expire, SendTimer,
       Run, TakeCall, Exec, Answer, TakeTimer, CB, CBReturns, Hang, CloseServer, Drain,
       ServerClosed, Watchdog, vars, retVars
  <2> QED BY <2>2 DEF ClosedCountsNothing
<1> QED BY <1>1, <1>2 DEF Next, RpcClient

\* What counts for nothing is not there.
LEMMA NothingOwed == IInv => ClosedOwesNothing
<1> SUFFICES ASSUME IInv, client = "closed" PROVE /\ Asyn(ChanCall) = {}
                                                  /\ ChanAsynRet = <<>>
                                                  /\ InHand = 0
  BY DEF ClosedOwesNothing, InHand
<1> DEFINE a == Cardinality(Asyn(ChanCall))
           b == Len(ChanAsynRet)
           c == Cardinality(Lost(dropped))
<1>1. TypeOK /\ ChanCall \in Seq(CallInfos) /\ ChanAsynRet \in Seq(RetInfos) /\ IsFiniteSet(dropped)
  BY DEF IInv, TypeOK, PendingExact
<1>2. a \in Nat /\ b \in Nat /\ c \in Nat /\ InHand \in 0..1
  BY <1>1, CountsAreNatural, LenProperties
<1>3. a + b + c + InHand = 0
  BY DEF IInv, PendingExact, ClosedCountsNothing
<1>4. IsFiniteSet(Asyn(ChanCall))
  <2>1. DOMAIN ChanCall = 1..Len(ChanCall) /\ Len(ChanCall) \in Nat
    BY <1>1, LenProperties
  <2>2. Asyn(ChanCall) \in SUBSET (1..Len(ChanCall))
    BY <2>1 DEF Asyn
  <2>3. IsFiniteSet(1..Len(ChanCall))
    BY <2>1, FS_Interval
  <2> QED BY <2>2, <2>3, FS_Subset
<1> HIDE DEF c
<1>5. Cardinality(Asyn(ChanCall)) = 0 /\ Len(ChanAsynRet) = 0 /\ InHand = 0
  <2> HIDE DEF a, b
  <2>1. a = 0 /\ b = 0 /\ InHand = 0
    BY <1>2, <1>3
  <2> QED BY <2>1 DEF a, b
<1>6. Asyn(ChanCall) = {}
  BY <1>4, <1>5, FS_EmptySet
<1>7. ChanAsynRet = <<>>
  BY <1>1, <1>5, EmptySeq
<1> QED BY <1>5, <1>6, <1>7

-----------------------------------------------------------------------------
(* The theorems. *)

LEMMA InitIInv == Init => IInv
<1> SUFFICES ASSUME Init PROVE IInv
  OBVIOUS
<1> USE SkeletonAssumption
<1>1. TypeOK
  <2>1. /\ ChanCall \in Seq(CallInfos) /\ Len(ChanCall) = 0
        /\ chanSyncRet \in Seq(RetInfos) /\ Len(chanSyncRet) = 0
        /\ ChanAsynRet \in Seq(RetInfos) /\ Len(ChanAsynRet) = 0
        /\ ChanTimer \in Seq(Timers) /\ Len(ChanTimer) = 0
    BY DEF Init
  <2>2. /\ timers \in [Timers -> [at : {"armed", "sending", "queued", "over"}, cb : BOOLEAN]]
        /\ reader \in [Conns -> {"none", "reading", "gone"}]
        /\ posted \in [Posters -> Nat] /\ ran \in [Posters -> Nat]
        /\ player \in [Conns -> {"none", "registered", "destroyed"}]
    BY DEF Init, OverTimer
  <2>3. /\ isOpen = TRUE /\ exited = FALSE /\ dropped = {} /\ loop = "select"
        /\ client = "idle" /\ pendingAsynCall = 0 /\ halted = Timers
    BY DEF Init
  <2>4. 0 <= CallCap /\ 0 <= RetCap /\ 0 <= TimerCap /\ 0 <= 1
    OBVIOUS
  <2> QED BY <2>1, <2>2, <2>3, <2>4 DEF TypeOK
<1>2. HaltedSilent /\ StoppedNeverFires
  BY DEF Init, HaltedSilent, StoppedNeverFires, OverTimer
<1>3. NumbersInOrder
  BY DEF Init, NumbersInOrder, Ahead
<1>4. PendingExact
  <2>1. Asyn(ChanCall) = {} /\ Lost(dropped) = {} /\ dropped = {}
    BY DEF Init, Asyn, Lost
  <2>2. Cardinality({}) = 0 /\ IsFiniteSet({})
    BY FS_EmptySet
  <2>3. /\ pendingAsynCall = 0 /\ Len(ChanAsynRet) = 0 /\ InHand = 0
        /\ loop \notin {"firing", "calling"}
    BY DEF Init, InHand
  <2> QED BY <2>1, <2>2, <2>3 DEF PendingExact
<1>5. ClosedCountsNothing
  BY DEF Init, ClosedCountsNothing
<1> QED BY <1>1, <1>2, <1>3, <1>4, <1>5 DEF IInv

LEMMA StepIInv == IInv /\ [Next]_vars => IInv'
BY TypeStep, TimerStep, OrderStep, PendingStep, ClosedStep DEF IInv

LEMMA AlwaysIInv == Spec => []IInv
BY InitIInv, StepIInv, PTL DEF Spec

\* Every state of the loop is well formed, and its three queues never hold more
\* than ChanCall, ChanAsynRet and ChanTimer were made for (rpc.NewServer,
\* rpc.NewClient, timer.NewDispatcher).
THEOREM SkeletonTypeOK == Spec => []TypeOK
BY AlwaysIInv, PTL DEF IInv

\* However many calls AddChanCall drops, each goroutine's run in the order in
\* which it posted them, each once, and a player's never after its destruction
\* (ServerMod.Run takes from one channel).
THEOREM SkeletonCallsRunInOrder == Spec => []CallsRunInOrder
<1>1. IInv => CallsRunInOrder
  BY DEF IInv, NumbersInOrder, CallsRunInOrder
<1> QED BY <1>1, AlwaysIInv, PTL

\* When Client.Close has returned, none of the client's asynchronous calls waits
\* in ChanCall, is in the loop's hands, or has an answer nobody has taken.
THEOREM SkeletonClosedOwesNothing == Spec => []ClosedOwesNothing
BY NothingOwed, AlwaysIInv, PTL

\* After Timer.Stop or Ticker.Stop no callback of that timer runs, wherever its
\* expiry was at that moment.
THEOREM SkeletonStoppedNeverFires == Spec => []StoppedNeverFires
BY AlwaysIInv, PTL DEF IInv

=============================================================================
