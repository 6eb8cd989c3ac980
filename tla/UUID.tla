-------------------------------- MODULE UUID --------------------------------
(***************************************************************************)
(* common/uuid/uuid.go: an id is the second it was asked for and a number  *)
(* within that second.  Get and reset take no lock, and every connection's *)
(* goroutine calls Get once, on the one UUID of the program (NewPlayer),   *)
(* so the loads and stores of several calls interleave.                    *)
(***************************************************************************)
EXTENDS Naturals

CONSTANTS
    Getters,   \* the goroutines that call Get
    MaxSecond  \* bound on the clock

NoId == [high |-> 0, low |-> 0]

VARIABLES
    second,     \* the clock, which starts at 1
    high, low,  \* the fields of UUID
    step,       \* where each getter is in Get
    stamp,      \* now, as reset read it
    held,       \* the low it has loaded
    id,         \* what Get has returned to each
    overlapped  \* the seconds of calls that overlapped another: history

idVars == <<second, high, low, step, stamp, held, id, overlapped>>

InGet(g) == step[g] \notin {"none", "got"}

IdInit ==
    /\ second = 1
    /\ high = 0 /\ low = 0
    /\ step = [g \in Getters |-> "none"]
    /\ stamp = [g \in Getters |-> 0]
    /\ held = [g \in Getters |-> 0]
    /\ id = [g \in Getters |-> NoId]
    /\ overlapped = {}

NextTime ==
    /\ second < MaxSecond
    /\ second' = second + 1
    /\ UNCHANGED <<high, low, step, stamp, held, id, overlapped>>

\* reset reads the clock.
ReadClock(g) ==
    LET others == {h \in Getters \ {g} : InGet(h)}
    IN  /\ step[g] = "none"
        /\ step' = [step EXCEPT ![g] = "compare"]
        /\ stamp' = [stamp EXCEPT ![g] = second]
        /\ overlapped' = IF others = {} THEN overlapped
                         ELSE overlapped \cup {second} \cup {stamp[h] : h \in others}
        /\ UNCHANGED <<second, high, low, held, id>>

\* Wrong variant: the number starts again at every call.
CompareNever(g) ==
    /\ step[g] = "compare"
    /\ step' = [step EXCEPT ![g] = "setHigh"]
    /\ UNCHANGED <<second, high, low, stamp, held, id, overlapped>>

Compare(g) ==
    /\ step[g] = "compare"
    /\ step' = [step EXCEPT ![g] = IF high = stamp[g] THEN "load" ELSE "setHigh"]
    /\ UNCHANGED <<second, high, low, stamp, held, id, overlapped>>

SetHigh(g) ==
    /\ step[g] = "setHigh"
    /\ step' = [step EXCEPT ![g] = "setLow"]
    /\ high' = stamp[g]
    /\ UNCHANGED <<second, low, stamp, held, id, overlapped>>

SetLow(g) ==
    /\ step[g] = "setLow"
    /\ step' = [step EXCEPT ![g] = "load"]
    /\ low' = 0
    /\ UNCHANGED <<second, high, stamp, held, id, overlapped>>

\* uuid.low++ is a load and a store.
Load(g) ==
    /\ step[g] = "load"
    /\ step' = [step EXCEPT ![g] = "store"]
    /\ held' = [held EXCEPT ![g] = low]
    /\ UNCHANGED <<second, high, low, stamp, id, overlapped>>

Store(g) ==
    /\ step[g] = "store"
    /\ step' = [step EXCEPT ![g] = "return"]
    /\ low' = held[g] + 1
    /\ held' = [held EXCEPT ![g] = 0]
    /\ UNCHANGED <<second, high, stamp, id, overlapped>>

Return(g) ==
    /\ step[g] = "return"
    /\ step' = [step EXCEPT ![g] = "got"]
    /\ stamp' = [stamp EXCEPT ![g] = 0]
    /\ id' = [id EXCEPT ![g] = [high |-> high, low |-> low]]
    /\ UNCHANGED <<second, high, low, held, overlapped>>

Get(g) == Compare(g) \/ SetHigh(g) \/ SetLow(g) \/ Load(g) \/ Store(g) \/ Return(g)

IdNext == NextTime \/ \E g \in Getters : ReadClock(g) \/ Get(g)
IdSpec == IdInit /\ [][IdNext]_idVars

-----------------------------------------------------------------------------
\* Two connections have the same id only if calls of Get overlapped in the second the
\* id is of, although such calls can leave high behind the clock and low behind
\* the ids given out: the damage ends with its second (uuid.go:16-25).
ClashesStayInTheirSecond ==
    \A g, h \in Getters :
       g # h /\ step[g] = "got" /\ step[h] = "got" /\ id[g] = id[h] =>
          id[g].high \in overlapped
=============================================================================
