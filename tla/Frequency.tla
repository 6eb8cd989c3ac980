----------------------------- MODULE Frequency ------------------------------
(***************************************************************************)
(* The word counter: common/word/frequency with wordsbysec and wordmeta.   *)
(* One goroutine, update, owns a list with one node for each of the last   *)
(* seconds.  It takes words and queries from two bounded channels, in no   *)
(* order between the two, and starts a node at each tick of its ticker.    *)
(*                                                                         *)
(* Time is the clock's second.  The ticker ticks once in every second, at  *)
(* some point of it, and drops a tick when update has not taken the last.  *)
(* Queries come from the popular command (RoomManager); words come from    *)
(* Add, which nothing in the program but a test calls.                     *)
(***************************************************************************)
EXTENDS Integers, Sequences, FiniteSets

CONSTANTS
    Words,      \* the words sentences are made of
    NoWord,
    MaxSecs,    \* seconds kept, and the longest window: 60
    MaxWordNum, \* different words counted in a second: 1000
    WordCap,    \* words wordChan holds: 3500
    TaskCap,    \* queries sortTasks holds: 10000
    MaxTime,    \* bound on the clock
    MaxAdds     \* bound on the words said

ASSUME FrequencyAssumption ==
    /\ NoWord \notin Words
    /\ MaxSecs \in Nat \ {0} /\ MaxWordNum \in Nat \ {0} /\ WordCap \in Nat \ {0}
    /\ TaskCap \in Nat \ {0} /\ MaxTime \in Nat /\ MaxAdds \in Nat

VARIABLES
    now, ticked, \* the second, and whether the ticker has ticked in it
    tickDue,     \* a tick waits in ticker.C
    frqBySec,    \* the list, oldest first
    wordChan, sortTasks,
    said,        \* how many words have been said
    answer       \* the last answer given to a query's callback

vars == <<now, ticked, tickDue, frqBySec, wordChan, sortTasks, said, answer>>
clockVars == <<now, ticked, tickDue>>

NoMax == [Word |-> NoWord, Count |-> 0]
newSecWords == [TS |-> now, words |-> [w \in Words |-> 0], MaxWord |-> NoMax]

Init ==
    /\ now = 0 /\ ticked = FALSE /\ tickDue = FALSE
    /\ frqBySec = <<newSecWords>>
    /\ wordChan = <<>> /\ sortTasks = <<>>
    /\ said = 0
    /\ answer = NoMax

-----------------------------------------------------------------------------
(* The clock and the ticker. *)

NextSecond ==
    /\ ticked
    /\ now < MaxTime
    /\ now' = now + 1
    /\ ticked' = FALSE
    /\ UNCHANGED <<tickDue, frqBySec, wordChan, sortTasks, said, answer>>

TickerTicks ==
    /\ ~ticked
    /\ ticked' = TRUE
    /\ tickDue' = TRUE
    /\ UNCHANGED <<now, frqBySec, wordChan, sortTasks, said, answer>>

-----------------------------------------------------------------------------
(* The callers. *)

\* Add, for one word of a sentence: a full channel loses it.
Add ==
    /\ said < MaxAdds
    /\ said' = said + 1
    /\ \E w \in Words :
          wordChan' = IF Len(wordChan) < WordCap THEN Append(wordChan, w) ELSE wordChan
    /\ UNCHANGED <<clockVars, frqBySec, sortTasks, answer>>

\* GetFrequencyByTime, for a window it accepts.
GetFrequencyByTime ==
    /\ Len(sortTasks) < TaskCap
    /\ \E n \in 1..MaxSecs :
          sortTasks' = Append(sortTasks, [ts |-> now, lastNSeconds |-> n])
    /\ UNCHANGED <<clockVars, frqBySec, wordChan, said, answer>>

-----------------------------------------------------------------------------
(* update. *)

onTimePassed ==
    /\ tickDue
    /\ tickDue' = FALSE
    /\ frqBySec' = Append(IF Len(frqBySec) = MaxSecs THEN Tail(frqBySec) ELSE frqBySec,
                          newSecWords)
    /\ UNCHANGED <<now, ticked, wordChan, sortTasks, said, answer>>

\* Wrong variant: the first word of a second stays its top.
CountedFirst(ws, w) ==
    IF Cardinality({v \in Words : ws.words[v] > 0}) = MaxWordNum THEN ws
    ELSE [ws EXCEPT !.words[w] = @ + 1,
                    !.MaxWord = IF @ = NoMax THEN [Word |-> w, Count |-> 1] ELSE @]

\* Words.Add: a second that has MaxWordNum words counts none any more, not even
\* those it has.
Counted(ws, w) ==
    IF Cardinality({v \in Words : ws.words[v] > 0}) = MaxWordNum THEN ws
    ELSE [ws EXCEPT !.words[w] = @ + 1,
                    !.MaxWord = IF ws.words[w] + 1 > @.Count
                                THEN [Word |-> w, Count |-> ws.words[w] + 1] ELSE @]

\* The word goes to the newest node, whenever it was said.
TakeWord ==
    /\ wordChan # <<>>
    /\ frqBySec' = [frqBySec EXCEPT ![Len(frqBySec)] = Counted(@, Head(wordChan))]
    /\ wordChan' = Tail(wordChan)
    /\ UNCHANGED <<clockVars, sortTasks, said, answer>>

\* Wrong variant: Less is what its name says.
RarestOf(frqs) == {d \in frqs : \A e \in frqs : d.Count <= e.Count}

\* The first after sort.Sort, whose Less is greater; equals come in any order.
FirstOf(frqs) == {d \in frqs : \A e \in frqs : d.Count >= e.Count}

\* processTask: it steps back once for each second that the query is later than
\* the newest node, then looks at lastNSeconds nodes.
processTask ==
    /\ sortTasks # <<>>
    /\ LET task   == Head(sortTasks)
           offset == task.ts - frqBySec[Len(frqBySec)].TS
           start  == Len(frqBySec) - (IF offset > 0 THEN offset ELSE 0)
           frqs   == {frqBySec[i].MaxWord : i \in {j \in DOMAIN frqBySec :
                         j \in start - task.lastNSeconds + 1..start}} \ {NoMax}
       IN  IF frqs = {} THEN answer' = NoMax ELSE answer' \in FirstOf(frqs)
    /\ sortTasks' = Tail(sortTasks)
    /\ UNCHANGED <<clockVars, frqBySec, wordChan, said>>

-----------------------------------------------------------------------------
update == onTimePassed \/ TakeWord \/ processTask
Next == NextSecond \/ TickerTicks \/ Add \/ GetFrequencyByTime \/ update
Spec == Init /\ [][Next]_vars

-----------------------------------------------------------------------------
\* The top word of each second is the one counted most often in it, with its
\* count, although it is kept word by word and equals take turns, and no second
\* counts more words than it may (Words.Add).
TopIsTop ==
    \A i \in DOMAIN frqBySec :
       LET ws == frqBySec[i]
       IN  /\ \A w \in Words : ws.words[w] <= ws.MaxWord.Count
           /\ ws.MaxWord # NoMax => ws.words[ws.MaxWord.Word] = ws.MaxWord.Count
           /\ Cardinality({w \in Words : ws.words[w] > 0}) <= MaxWordNum

\* The nodes are consecutive seconds: no tick was dropped or taken late.
KeptUp == \A i \in 1..Len(frqBySec) - 1 : frqBySec[i + 1].TS = frqBySec[i].TS + 1

\* The most often counted word among the seconds from..to that are kept.
IsBusiest(meta, from, to) ==
    LET kept == {i \in DOMAIN frqBySec : frqBySec[i].TS \in from..to}
    IN  /\ \A i \in kept : frqBySec[i].MaxWord.Count <= meta.Count
        /\ meta # NoMax => \E i \in kept : frqBySec[i].MaxWord = meta

\* The seconds a query of n seconds asked at ts is answered for, while update
\* keeps up: those that end with ts, when the newest node is of second ts; when
\* that second has not ticked yet, those that end two seconds earlier, without
\* the newest node; when update has come to a later second, those that end with
\* that one (processTask, frequency.go:147).
AnswersForTheseSeconds ==
    [][Len(sortTasks') < Len(sortTasks) /\ KeptUp =>
          LET task == Head(sortTasks)
              top  == frqBySec[Len(frqBySec)].TS
              to   == IF task.ts > top THEN 2 * top - task.ts ELSE top
          IN  IsBusiest(answer', to - task.lastNSeconds + 1, to)]_vars
=============================================================================
