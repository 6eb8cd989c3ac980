----------------------------- MODULE CommonProofs -----------------------------
(***************************************************************************)
(* What is proved of the word counter, of the ids, of the log and of the   *)
(* word filter, for any words, callers and sizes.  They share no state;    *)
(* each has its own invariant.  The filter's loops are functions defined   *)
(* by recursion: that they exist, and what they compute, is proved by      *)
(* induction over sets of numbers.                                         *)
(***************************************************************************)
EXTENDS Frequency, UUID, Log, Trie, SequenceTheorems, FiniteSetTheorems,
        WellFoundedInduction, TLAPS

-----------------------------------------------------------------------------
(* The word counter. *)

Tops == {NoMax} \cup [Word : Words, Count : Nat \ {0}]
SecWords == [TS : Nat, words : [Words -> Nat], MaxWord : Tops]
Said(ws) == {w \in Words : ws.words[w] > 0}

\* Nodes whose top word is the one counted most often.
TopNodes ==
    {ws \in SecWords :
       /\ \A w \in Words : ws.words[w] <= ws.MaxWord.Count
       /\ ws.MaxWord # NoMax => ws.words[ws.MaxWord.Word] = ws.MaxWord.Count
       /\ IsFiniteSet(Said(ws)) /\ Cardinality(Said(ws)) <= MaxWordNum}

FrequencyTypes ==
    /\ now \in Nat
    /\ frqBySec \in Seq(TopNodes) /\ frqBySec # <<>>
    /\ wordChan \in Seq(Words)
    /\ sortTasks \in Seq([ts : Nat, lastNSeconds : 1..MaxSecs])

\* Nodes of consecutive seconds are as many seconds apart as they are places.
Straight(nodes) ==
    \A i, j \in 1..Len(nodes) :
       /\ i <= j
       /\ \A m \in i..j - 1 : nodes[m + 1].TS = nodes[m].TS + 1
       => nodes[j].TS = nodes[i].TS + (j - i)

FrequencyInv == FrequencyTypes /\ Straight(frqBySec)

\* A node that starts has counted nothing.
LEMMA NewNode ==
    ASSUME now \in Nat
    PROVE  newSecWords \in TopNodes /\ newSecWords.TS = now
<1> DEFINE ws == newSecWords
<1>1. ws \in SecWords /\ ws.TS = now /\ ws.MaxWord = NoMax /\ \A w \in Words : ws.words[w] = 0
  BY DEF newSecWords, SecWords, Tops
<1> HIDE DEF ws
<1>2. Said(ws) = {}
  BY <1>1 DEF Said
<1>3. IsFiniteSet(Said(ws)) /\ Cardinality(Said(ws)) <= MaxWordNum
  BY <1>2, FS_EmptySet, FrequencyAssumption
<1> QED BY <1>1, <1>3 DEF TopNodes, NoMax, ws

\* Words.Add keeps the top word the top word.
LEMMA CountedNode ==
    ASSUME NEW ws \in TopNodes, NEW w \in Words
    PROVE  Counted(ws, w) \in TopNodes /\ Counted(ws, w).TS = ws.TS
<1> DEFINE n == ws.words[w]
           top == ws.MaxWord
           new == IF n + 1 > top.Count THEN [Word |-> w, Count |-> n + 1] ELSE top
           c == [ws EXCEPT !.words[w] = @ + 1, !.MaxWord = new]
<1>1. /\ ws \in SecWords /\ n \in Nat /\ top \in Tops /\ top.Count \in Nat
      /\ ws.words \in [Words -> Nat] /\ \A v \in Words : ws.words[v] <= top.Count
      /\ top # NoMax => top.Word \in Words /\ ws.words[top.Word] = top.Count
      /\ top = NoMax => top.Count = 0
      /\ IsFiniteSet(Said(ws)) /\ Cardinality(Said(ws)) <= MaxWordNum
  BY DEF TopNodes, SecWords, Tops, NoMax
<1>2. CASE Cardinality(Said(ws)) = MaxWordNum
  BY <1>2 DEF Counted, Said
<1>3. CASE Cardinality(Said(ws)) # MaxWordNum
  <2>1. Counted(ws, w) = c
    BY <1>3 DEF Counted, Said
  <2>2. /\ c.TS = ws.TS /\ c.MaxWord = new /\ c.words = [ws.words EXCEPT ![w] = n + 1]
    BY <1>1 DEF SecWords
  <2>3. new \in Tops /\ n + 1 <= new.Count /\ top.Count <= new.Count
    BY <1>1 DEF Tops
  <2>4. c \in SecWords
    <3>1. [ws.words EXCEPT ![w] = n + 1] \in [Words -> Nat]
      BY <1>1
    <3> HIDE DEF new
    <3> QED BY <1>1, <2>3, <3>1 DEF SecWords
  <2>5. new # NoMax => c.words[new.Word] = new.Count
    <3>1. CASE n + 1 > top.Count
      BY <1>1, <2>2, <3>1
    <3>2. CASE ~(n + 1 > top.Count)
      BY <1>1, <2>2, <3>2
    <3> QED BY <3>1, <3>2
  <2> HIDE DEF c, new, top
  <2>6. ASSUME NEW v \in Words PROVE c.words[v] <= new.Count
    <3>1. ws.words[v] \in Nat /\ ws.words[v] <= top.Count /\ new.Count \in Nat
      BY <1>1, <2>3 DEF Tops, NoMax
    <3> QED BY <1>1, <2>2, <2>3, <3>1
  <2>7. IsFiniteSet(Said(c)) /\ Cardinality(Said(c)) <= MaxWordNum
    <3>1. Said(c) = Said(ws) \cup {w}
      BY <1>1, <2>2 DEF Said
    <3>2. /\ IsFiniteSet(Said(ws) \cup {w}) /\ Cardinality(Said(ws)) \in Nat
          /\ Cardinality(Said(ws) \cup {w}) \in {Cardinality(Said(ws)), Cardinality(Said(ws)) + 1}
      BY <1>1, FS_AddElement, FS_CardinalityType
    <3> DEFINE k == Cardinality(Said(ws))
    <3>3. k \in Nat /\ k <= MaxWordNum /\ k # MaxWordNum /\ MaxWordNum \in Nat
      BY <1>1, <1>3, <3>2, FrequencyAssumption
    <3> HIDE DEF k
    <3>4. k <= MaxWordNum /\ k + 1 <= MaxWordNum
      BY <3>3
    <3> QED BY <3>1, <3>2, <3>4 DEF k
  <2> QED BY <2>1, <2>2, <2>4, <2>5, <2>6, <2>7 DEF TopNodes
<1> QED BY <1>2, <1>3
\* The oldest node goes, or none does, and a new one comes.
LEMMA NodeComes ==
    ASSUME NEW f \in Seq(TopNodes), f # <<>>, Straight(f), NEW ws \in TopNodes,
           NEW b, b = f \/ b = Tail(f)
    PROVE  Append(b, ws) \in Seq(TopNodes) /\ Append(b, ws) # <<>> /\ Straight(Append(b, ws))
<1> DEFINE g == Append(b, ws)
<1>1. PICK d \in {0, 1} :
         b \in Seq(TopNodes) /\ Len(b) = Len(f) - d /\ \A i \in 1..Len(b) : b[i] = f[i + d]
  <2>1. CASE b = f
    BY <2>1
  <2>2. CASE b = Tail(f)
    BY <2>2, HeadTailProperties
  <2> QED BY <2>1, <2>2
<1>2. /\ Len(f) \in Nat /\ Len(b) \in Nat /\ g \in Seq(TopNodes) /\ g # <<>>
      /\ Len(g) = Len(b) + 1 /\ g[Len(b) + 1] = ws /\ \A i \in 1..Len(b) : g[i] = b[i]
  BY <1>1, AppendProperties, LenProperties
<1> HIDE DEF g
<1>3. \A i \in 1..Len(b) : g[i] = f[i + d] /\ i + d \in 1..Len(f)
  BY <1>1, <1>2
<1>4. ASSUME NEW i \in 1..Len(g) PROVE g[i].TS \in Nat
  BY <1>2, <1>4, ElementOfSeq DEF TopNodes, SecWords
<1>5. ASSUME NEW i \in 1..Len(g), NEW j \in 1..Len(b), i <= j,
             \A m \in i..j - 1 : g[m + 1].TS = g[m].TS + 1
      PROVE  g[j].TS = g[i].TS + (j - i)
  <2>1. i \in 1..Len(b) /\ g[i] = f[i + d] /\ g[j] = f[j + d]
    <3>1. i \in 1..Len(b) /\ j \in 1..Len(b)
      BY <1>2, <1>5
    <3> QED BY <1>3, <3>1
  <2>2. ASSUME NEW m \in (i + d)..(j + d) - 1 PROVE f[m + 1].TS = f[m].TS + 1
    <3>1. PICK n \in i..j - 1 : m = n + d
      <4>1. m - d \in i..j - 1 /\ m = (m - d) + d
        BY <1>2, <1>5, <2>1
      <4> QED BY <4>1
    <3>2. n \in 1..Len(b) /\ n + 1 \in 1..Len(b) /\ (n + 1) + d = m + 1
      BY <1>2, <1>5, <2>1, <3>1
    <3>3. g[n] = f[m] /\ g[n + 1] = f[m + 1]
      BY <1>3, <3>1, <3>2
    <3> QED BY <1>5, <3>1, <3>3
  <2>3. f[j + d].TS = f[i + d].TS + ((j + d) - (i + d))
    BY <1>3, <1>5, <2>1, <2>2 DEF Straight
  <2> QED BY <1>2, <2>1, <2>3
<1>6. ASSUME NEW i \in 1..Len(g), i <= Len(b) + 1,
             \A m \in i..Len(b) : g[m + 1].TS = g[m].TS + 1
      PROVE  g[Len(b) + 1].TS = g[i].TS + ((Len(b) + 1) - i)
  <2>1. CASE i = Len(b) + 1
    BY <1>2, <1>4, <2>1
  <2>2. CASE i # Len(b) + 1
    <3>1. i \in 1..Len(b) /\ Len(b) \in 1..Len(b) /\ i <= Len(b) /\ Len(b) \in i..Len(b)
      BY <1>2, <1>6, <2>2
    <3>2. \A m \in i..Len(b) - 1 : m \in i..Len(b)
      BY <1>2
    <3>3. g[Len(b)].TS = g[i].TS + (Len(b) - i)
      BY <1>5, <1>6, <3>1, <3>2
    <3>4. g[Len(b) + 1].TS = g[Len(b)].TS + 1
      BY <1>6, <3>1
    <3>5. g[i].TS \in Nat
      BY <1>4
    <3> DEFINE x == g[i].TS
               y == g[Len(b)].TS
               z == g[Len(b) + 1].TS
               n == Len(b)
    <3> HIDE DEF x, y, z, n
    <3>6. z = y + 1 /\ y = x + (n - i) /\ n \in Nat /\ x \in Nat => z = x + ((n + 1) - i)
      OBVIOUS
    <3> QED BY <1>2, <3>3, <3>4, <3>5, <3>6 DEF x, y, z, n
  <2> QED BY <2>1, <2>2
<1>7. Straight(g)
  <2>1. ASSUME NEW i \in 1..Len(g), NEW j \in 1..Len(g), i <= j,
               \A m \in i..j - 1 : g[m + 1].TS = g[m].TS + 1
        PROVE  g[j].TS = g[i].TS + (j - i)
    <3>1. CASE j \in 1..Len(b)
      BY <1>5, <2>1, <3>1
    <3>2. CASE j = Len(b) + 1
      <4>1. \A m \in i..Len(b) : m \in i..j - 1
        BY <1>2, <3>2
      <4> QED BY <1>6, <2>1, <3>2, <4>1
    <3> QED BY <1>2, <3>1, <3>2
  <2> QED BY <2>1 DEF Straight
<1> QED BY <1>2, <1>7 DEF g

\* A node's words may change, not its second.
LEMMA NodeChanges ==
    ASSUME NEW f \in Seq(TopNodes), f # <<>>, Straight(f), NEW ws \in TopNodes,
           ws.TS = f[Len(f)].TS
    PROVE  /\ [f EXCEPT ![Len(f)] = ws] \in Seq(TopNodes) /\ [f EXCEPT ![Len(f)] = ws] # <<>>
           /\ Straight([f EXCEPT ![Len(f)] = ws])
<1> DEFINE g == [f EXCEPT ![Len(f)] = ws]
<1>1. Len(f) \in Nat \ {0} /\ Len(f) \in 1..Len(f)
  BY EmptySeq
<1>2. /\ g \in Seq(TopNodes) /\ Len(g) = Len(f)
      /\ \A i \in 1..Len(f) : g[i] = IF i = Len(f) THEN ws ELSE f[i]
  BY <1>1, ExceptSeq
<1> HIDE DEF g
<1>3. \A i \in 1..Len(f) : g[i].TS = f[i].TS
  BY <1>2
<1>4. ASSUME NEW i \in 1..Len(g), NEW j \in 1..Len(g), i <= j,
             \A m \in i..j - 1 : g[m + 1].TS = g[m].TS + 1
      PROVE  g[j].TS = g[i].TS + (j - i)
  <2>1. ASSUME NEW m \in i..j - 1 PROVE f[m + 1].TS = f[m].TS + 1
    <3>1. m \in 1..Len(f) /\ m + 1 \in 1..Len(f)
      BY <1>1, <1>2
    <3> QED BY <1>3, <1>4, <3>1
  <2>2. f[j].TS = f[i].TS + (j - i)
    <3>1. i \in 1..Len(f) /\ j \in 1..Len(f) /\ i <= j
      BY <1>2, <1>4
    <3> QED BY <2>1, <3>1 DEF Straight
  <2> QED BY <1>2, <1>3, <2>2
<1>5. Straight(g)
  BY <1>4 DEF Straight
<1>6. g # <<>>
  BY <1>1, <1>2, EmptySeq
<1> QED BY <1>2, <1>5, <1>6 DEF g

LEMMA FrequencyStep ==
    ASSUME FrequencyInv, [Next]_vars
    PROVE  FrequencyInv'
<1> USE DEF clockVars
<1>1. CASE UNCHANGED <<now, frqBySec, wordChan, sortTasks>>
  BY <1>1 DEF FrequencyInv, FrequencyTypes, Straight
<1>2. CASE NextSecond
  BY <1>2 DEF NextSecond, FrequencyInv, FrequencyTypes
<1>3. CASE TickerTicks \/ UNCHANGED vars
  BY <1>1, <1>3 DEF TickerTicks, vars
<1>4. CASE Add
  <2>1. \A w \in Words : Append(wordChan, w) \in Seq(Words)
    BY AppendProperties DEF FrequencyInv, FrequencyTypes
  <2>2. wordChan' \in Seq(Words)
    BY <1>4, <2>1 DEF Add, FrequencyInv, FrequencyTypes
  <2> QED BY <1>4, <2>2 DEF Add, FrequencyInv, FrequencyTypes
<1>5. CASE GetFrequencyByTime
  <2> DEFINE S == [ts : Nat, lastNSeconds : 1..MaxSecs]
  <2>1. PICK n \in 1..MaxSecs : sortTasks' = Append(sortTasks, [ts |-> now, lastNSeconds |-> n])
    BY <1>5 DEF GetFrequencyByTime
  <2>2. [ts |-> now, lastNSeconds |-> n] \in S /\ sortTasks \in Seq(S)
    BY DEF FrequencyInv, FrequencyTypes
  <2> HIDE DEF S
  <2>3. sortTasks' \in Seq(S)
    BY <2>1, <2>2, AppendProperties
  <2> QED BY <1>5, <2>3 DEF GetFrequencyByTime, FrequencyInv, FrequencyTypes, S
<1>6. CASE onTimePassed
  <2>1. PICK b : /\ b = frqBySec \/ b = Tail(frqBySec)
                 /\ frqBySec' = Append(b, newSecWords)
    BY <1>6 DEF onTimePassed
  <2>2. newSecWords \in TopNodes
    BY NewNode DEF FrequencyInv, FrequencyTypes
  <2>3. frqBySec' \in Seq(TopNodes) /\ frqBySec' # <<>> /\ Straight(frqBySec')
    BY <2>1, <2>2, NodeComes DEF FrequencyInv, FrequencyTypes
  <2> QED BY <1>6, <2>3 DEF onTimePassed, FrequencyInv, FrequencyTypes
<1>7. CASE TakeWord
  <2> DEFINE n == Len(frqBySec)
             ws == Counted(frqBySec[n], Head(wordChan))
  <2>1. frqBySec \in Seq(TopNodes) /\ frqBySec # <<>> /\ Straight(frqBySec) /\ n \in 1..n
    BY EmptySeq DEF FrequencyInv, FrequencyTypes
  <2>2. Head(wordChan) \in Words /\ Tail(wordChan) \in Seq(Words)
    BY <1>7, HeadTailProperties DEF TakeWord, FrequencyInv, FrequencyTypes
  <2>3. frqBySec[n] \in TopNodes
    BY <2>1, ElementOfSeq
  <2>4. ws \in TopNodes /\ ws.TS = frqBySec[n].TS
    BY <2>2, <2>3, CountedNode
  <2>5. frqBySec' = [frqBySec EXCEPT ![n] = ws]
    BY <1>7 DEF TakeWord
  <2> HIDE DEF ws
  <2>6. frqBySec' \in Seq(TopNodes) /\ frqBySec' # <<>> /\ Straight(frqBySec')
    BY <2>1, <2>4, <2>5, NodeChanges
  <2> QED BY <1>7, <2>2, <2>6 DEF TakeWord, FrequencyInv, FrequencyTypes
<1>8. CASE processTask
  <2>1. Tail(sortTasks) \in Seq([ts : Nat, lastNSeconds : 1..MaxSecs])
    BY <1>8, HeadTailProperties DEF processTask, FrequencyInv, FrequencyTypes
  <2> QED BY <1>8, <2>1 DEF processTask, FrequencyInv, FrequencyTypes
<1> QED BY <1>2, <1>3, <1>4, <1>5, <1>6, <1>7, <1>8 DEF Next, update

LEMMA FrequencyInit == Init => FrequencyInv
<1> SUFFICES ASSUME Init PROVE FrequencyInv
  OBVIOUS
<1>1. now \in Nat /\ newSecWords \in TopNodes
  BY NewNode DEF Init
<1> DEFINE ws == newSecWords
<1> HIDE DEF ws
<1>2. ws \in TopNodes /\ frqBySec = <<ws>>
  BY <1>1 DEF Init, ws
<1>3. ws.TS \in Nat
  BY <1>2 DEF TopNodes, SecWords
<1>4. frqBySec \in Seq(TopNodes) /\ frqBySec # <<>> /\ Straight(frqBySec)
  BY <1>2, <1>3 DEF Straight
<1>5. wordChan \in Seq(Words) /\ sortTasks \in Seq([ts : Nat, lastNSeconds : 1..MaxSecs])
  BY EmptySeq DEF Init
<1> QED BY <1>1, <1>4, <1>5 DEF FrequencyInv, FrequencyTypes

LEMMA FrequencyInvariant == Spec => []FrequencyInv
BY FrequencyInit, FrequencyStep, PTL DEF Spec

\* A query is answered with the top of the seconds it asks for.
LEMMA AnswerIsBusiest ==
    ASSUME FrequencyInv, processTask, KeptUp,
           NEW task, task = Head(sortTasks), NEW top, top = frqBySec[Len(frqBySec)].TS,
           NEW to, to = IF task.ts > top THEN 2 * top - task.ts ELSE top
    PROVE  IsBusiest(answer', to - task.lastNSeconds + 1, to)
<1> DEFINE len   == Len(frqBySec)
           n     == task.lastNSeconds
           late  == IF task.ts - top > 0 THEN task.ts - top ELSE 0
           start == len - late
           asked == {j \in DOMAIN frqBySec : j \in start - n + 1..start}
           kept  == {i \in DOMAIN frqBySec : frqBySec[i].TS \in to - n + 1..to}
           frqs  == {frqBySec[i].MaxWord : i \in asked} \ {NoMax}
<1>1. /\ frqBySec \in Seq(TopNodes) /\ len \in Nat \ {0} /\ DOMAIN frqBySec = 1..len
      /\ \A i \in 1..len : frqBySec[i].TS \in Nat /\ frqBySec[i].MaxWord \in Tops
  <2>1. frqBySec \in Seq(TopNodes) /\ frqBySec # <<>>
    BY DEF FrequencyInv, FrequencyTypes
  <2>2. \A i \in 1..len : frqBySec[i] \in TopNodes
    BY <2>1, ElementOfSeq
  <2> QED BY <2>1, <2>2, EmptySeq, LenProperties DEF TopNodes, SecWords
<1>2. task.ts \in Nat /\ n \in Nat /\ top \in Nat
  <2>1. task \in [ts : Nat, lastNSeconds : 1..MaxSecs]
    BY HeadTailProperties DEF processTask, FrequencyInv, FrequencyTypes
  <2> QED BY <1>1, <2>1
<1>3. \A i \in 1..len : top = frqBySec[i].TS + (len - i)
  <2>1. ASSUME NEW i \in 1..len PROVE top = frqBySec[i].TS + (len - i)
    <3>1. \A m \in i..len - 1 : frqBySec[m + 1].TS = frqBySec[m].TS + 1
      <4>1. \A m \in i..len - 1 : m \in 1..len - 1
        BY <1>1
      <4> QED BY <4>1 DEF KeptUp
    <3> QED BY <1>1, <3>1 DEF FrequencyInv, Straight
  <2> QED BY <2>1
<1>4. late \in Nat /\ to = top - late
  BY <1>2
<1> HIDE DEF late
<1>5. asked = kept
  <2>1. ASSUME NEW i \in 1..len
        PROVE  i \in start - n + 1..start <=> frqBySec[i].TS \in to - n + 1..to
    <3> DEFINE x == frqBySec[i].TS
    <3>1. x \in Nat /\ top = x + (len - i) /\ len \in Nat /\ i \in Nat
      BY <1>1, <1>3
    <3> HIDE DEF x, len, n
    <3> QED BY <1>2, <1>4, <3>1 DEF x
  <2> QED BY <1>1, <2>1
<1>6. IF frqs = {} THEN answer' = NoMax ELSE answer' \in FirstOf(frqs)
  BY DEF processTask, late
<1>7. NoMax.Count = 0 /\ \A d \in Tops : d.Count \in Nat
  BY DEF NoMax, Tops
<1>8. \A i \in asked : i \in 1..len /\ (frqBySec[i].MaxWord = NoMax \/ frqBySec[i].MaxWord \in frqs)
  BY <1>1
<1>9. answer' \in Tops /\ (answer' # NoMax => answer' \in frqs)
      /\ \A d \in frqs : d.Count <= answer'.Count
  <2>1. frqs \subseteq Tops
    BY <1>1
  <2> HIDE DEF frqs
  <2>2. CASE frqs = {}
    BY <1>6, <2>2 DEF Tops
  <2>3. CASE frqs # {}
    <3>1. answer' \in frqs /\ \A d \in frqs : answer'.Count >= d.Count
      BY <1>6, <2>3 DEF FirstOf
    <3> QED BY <1>7, <2>1, <3>1
  <2> QED BY <2>2, <2>3
<1>10. \A i \in kept : frqBySec[i].MaxWord.Count <= answer'.Count
  <2>1. ASSUME NEW i \in asked PROVE frqBySec[i].MaxWord.Count <= answer'.Count
    <3> HIDE DEF frqs, asked
    <3> QED BY <1>7, <1>8, <1>9, <2>1
  <2> QED BY <1>5, <2>1
<1>11. answer' # NoMax => \E i \in kept : frqBySec[i].MaxWord = answer'
  BY <1>5, <1>9
<1> QED BY <1>10, <1>11 DEF IsBusiest

\* The top word of each second is the one counted most often in it, however the
\* words come.
THEOREM TopWordsAreTop == Spec => []TopIsTop
<1>1. FrequencyInv => TopIsTop
  <2> SUFFICES ASSUME FrequencyInv, NEW i \in DOMAIN frqBySec
               PROVE  frqBySec[i] \in TopNodes
    BY DEF TopIsTop, TopNodes, Said
  <2> QED BY ElementOfSeq, LenProperties DEF FrequencyInv, FrequencyTypes
<1> QED BY <1>1, FrequencyInvariant, PTL

\* While the counter keeps up with its ticker, a query's answer is the top of
\* the seconds that end when the query was made, or two earlier or with the
\* counter's newest, as AnswersForTheseSeconds says.
THEOREM QueriesAreAnsweredRight == Spec => AnswersForTheseSeconds
<1>1. ASSUME FrequencyInv, [Next]_vars, Len(sortTasks') < Len(sortTasks)
      PROVE  processTask
  <2>1. Len(sortTasks) \in Nat /\ \A x : Len(Append(sortTasks, x)) = Len(sortTasks) + 1
    BY DEF FrequencyInv, FrequencyTypes
  <2>2. \/ sortTasks' = sortTasks \/ processTask
        \/ \E x : sortTasks' = Append(sortTasks, x)
    BY <1>1 DEF Next, update, vars, NextSecond, TickerTicks, Add, GetFrequencyByTime, onTimePassed,
                TakeWord
  <2> QED BY <1>1, <2>1, <2>2
<1>2. ASSUME FrequencyInv, [Next]_vars
      PROVE  [Len(sortTasks') < Len(sortTasks) /\ KeptUp =>
                 LET task == Head(sortTasks)
                     top  == frqBySec[Len(frqBySec)].TS
                     to   == IF task.ts > top THEN 2 * top - task.ts ELSE top
                 IN  IsBusiest(answer', to - task.lastNSeconds + 1, to)]_vars
  BY <1>1, <1>2, AnswerIsBusiest
<1> QED BY <1>2, FrequencyInvariant, PTL DEF Spec, AnswersForTheseSeconds

-----------------------------------------------------------------------------
(* Ids. *)

UUIDSteps == {"none", "compare", "setHigh", "setLow", "load", "store", "return", "got"}

UUIDTypes ==
    /\ second \in Nat /\ high \in Nat /\ low \in Nat /\ high <= second
    /\ step \in [Getters -> UUIDSteps]
    /\ stamp \in [Getters -> Nat] /\ held \in [Getters -> Nat]
    /\ id \in [Getters -> [high : Nat, low : Nat]]
    /\ \A k \in Getters : stamp[k] <= second

\* What overlapped is for: calls that are in Get together have marked their seconds.
OverlapsMarked ==
    \A g, h \in Getters : g # h /\ InGet(g) /\ InGet(h) => stamp[g] \in overlapped

\* While the second it works in is unmarked, a call is alone with high and low.
CallsAlone ==
    \A k \in Getters : InGet(k) =>
       /\ high > stamp[k] => stamp[k] \in overlapped
       /\ step[k] \in {"setLow", "load", "store", "return"} /\ high \notin overlapped
             => stamp[k] = high
       /\ step[k] = "store" /\ stamp[k] \notin overlapped => held[k] = low

\* In an unmarked second the ids given out are behind high and low, and stay there.
IdsBehind ==
    \A g \in Getters : step[g] = "got" /\ id[g].high \notin overlapped =>
       /\ id[g].high <= high
       /\ id[g].high = high => id[g].low <= low
       /\ \A k \in Getters : InGet(k) =>
             /\ id[g].high <= stamp[k]
             /\ id[g].high = stamp[k] => step[k] \notin {"setHigh", "setLow"}
             /\ id[g].high = stamp[k] /\ step[k] = "return" => id[g].low < low

UUIDInv == UUIDTypes /\ OverlapsMarked /\ CallsAlone /\ IdsBehind /\ ClashesStayInTheirSecond

LEMMA UUIDStart == IdInit => UUIDInv
<1>1. ASSUME IdInit PROVE UUIDTypes
  BY <1>1 DEF IdInit, UUIDTypes, UUIDSteps, NoId
<1>2. ASSUME IdInit, NEW g \in Getters PROVE step[g] = "none" /\ ~InGet(g)
  BY <1>2 DEF IdInit, InGet
<1> QED
  BY <1>1, <1>2 DEF UUIDInv, OverlapsMarked, CallsAlone, IdsBehind, ClashesStayInTheirSecond

LEMMA UUIDTypesStay == UUIDTypes /\ [IdNext]_idVars => UUIDTypes'
<1> SUFFICES ASSUME UUIDTypes, [IdNext]_idVars PROVE UUIDTypes'
  OBVIOUS
<1> USE DEF UUIDTypes, UUIDSteps
<1>1. CASE UNCHANGED idVars
  BY <1>1 DEF idVars
<1>2. CASE NextTime
  BY <1>2 DEF NextTime
<1>3. ASSUME NEW g \in Getters, ReadClock(g) PROVE UUIDTypes'
  BY <1>3 DEF ReadClock
<1>4. ASSUME NEW g \in Getters, Get(g) PROVE UUIDTypes'
  <2>1. CASE Compare(g)
    BY <2>1 DEF Compare
  <2>2. CASE SetHigh(g)
    BY <2>2 DEF SetHigh
  <2>3. CASE SetLow(g)
    BY <2>3 DEF SetLow
  <2>4. CASE Load(g)
    BY <2>4 DEF Load
  <2>5. CASE Store(g)
    BY <2>5 DEF Store
  <2>6. CASE Return(g)
    BY <2>6 DEF Return
  <2> QED BY <1>4, <2>1, <2>2, <2>3, <2>4, <2>5, <2>6 DEF Get
<1> QED BY <1>1, <1>2, <1>3, <1>4 DEF IdNext

\* A second is marked once and for all, before a second call comes to work in it.
LEMMA OverlapsStayMarked ==
    UUIDTypes /\ OverlapsMarked /\ [IdNext]_idVars
       => OverlapsMarked' /\ overlapped \subseteq overlapped'
<1> SUFFICES ASSUME UUIDTypes, OverlapsMarked, [IdNext]_idVars
             PROVE  OverlapsMarked' /\ overlapped \subseteq overlapped'
  OBVIOUS
<1>1. CASE UNCHANGED idVars
  BY <1>1 DEF idVars, OverlapsMarked, InGet
<1>2. CASE NextTime
  BY <1>2 DEF NextTime, OverlapsMarked, InGet
<1>3. ASSUME NEW g \in Getters, ReadClock(g) PROVE OverlapsMarked' /\ overlapped \subseteq overlapped'
  <2>1. overlapped \subseteq overlapped'
    BY <1>3 DEF ReadClock
  <2>2. ASSUME NEW j \in Getters, NEW k \in Getters, j # k, InGet(j)', InGet(k)'
        PROVE  stamp'[j] \in overlapped'
    <3>1. CASE j = g
      <4>1. InGet(k) /\ stamp'[j] = second
        BY <1>3, <2>2, <3>1 DEF ReadClock, InGet, UUIDTypes
      <4> QED BY <4>1, <1>3, <2>2, <3>1 DEF ReadClock
    <3>2. CASE j # g
      <4>1. InGet(j) /\ stamp'[j] = stamp[j]
        BY <1>3, <2>2, <3>2 DEF ReadClock, InGet, UUIDTypes
      <4>2. CASE k = g
        BY <4>1, <4>2, <1>3, <2>2, <3>2 DEF ReadClock
      <4>3. CASE k # g
        <5>1. InGet(k)
          BY <1>3, <2>2, <4>3 DEF ReadClock, InGet, UUIDTypes
        <5> QED BY <4>1, <5>1, <2>1, <2>2 DEF OverlapsMarked
      <4> QED BY <4>2, <4>3
    <3> QED BY <3>1, <3>2
  <2> QED BY <2>1, <2>2 DEF OverlapsMarked
<1>4. ASSUME NEW g \in Getters, Get(g) PROVE OverlapsMarked' /\ overlapped \subseteq overlapped'
  <2>1. overlapped' = overlapped /\ InGet(g)
    BY <1>4 DEF Get, Compare, SetHigh, SetLow, Load, Store, Return, InGet
  <2>2. ASSUME NEW k \in Getters, InGet(k)' PROVE InGet(k) /\ stamp'[k] = stamp[k]
    <3>1. CASE Return(g)
      BY <3>1, <2>2 DEF Return, InGet, UUIDTypes
    <3>2. CASE ~Return(g)
      <4>1. stamp' = stamp /\ \A j \in Getters \ {g} : step'[j] = step[j]
        BY <3>2, <1>4 DEF Get, Compare, SetHigh, SetLow, Load, Store, UUIDTypes
      <4> QED BY <4>1, <2>1, <2>2 DEF InGet
    <3> QED BY <3>1, <3>2
  <2> QED BY <2>1, <2>2 DEF OverlapsMarked
<1> QED BY <1>1, <1>2, <1>3, <1>4 DEF IdNext

\* A call that finds another in Get works in a second that is marked, whatever the
\* other stored.
LEMMA NotAlone ==
    ASSUME OverlapsMarked, NEW g \in Getters, NEW k \in Getters, g # k, InGet(g), InGet(k)
    PROVE  stamp[g] \in overlapped /\ stamp[k] \in overlapped
BY DEF OverlapsMarked

\* What CallsAlone says of one call, for the step that changes it or the others.
AloneIn(k) ==
    /\ high > stamp[k] => stamp[k] \in overlapped
    /\ step[k] \in {"setLow", "load", "store", "return"} /\ high \notin overlapped
          => stamp[k] = high
    /\ step[k] = "store" /\ stamp[k] \notin overlapped => held[k] = low

LEMMA CallsStayAlone ==
    UUIDTypes /\ OverlapsMarked /\ CallsAlone /\ [IdNext]_idVars => CallsAlone'
<1> SUFFICES ASSUME UUIDTypes, OverlapsMarked, CallsAlone, [IdNext]_idVars,
                    NEW k \in Getters, InGet(k)'
             PROVE  AloneIn(k)'
  BY DEF CallsAlone, AloneIn
<1>1. overlapped \subseteq overlapped'
  BY OverlapsStayMarked
<1>2. InGet(k) => AloneIn(k)
  BY DEF CallsAlone, AloneIn
<1>3. CASE UNCHANGED idVars
  BY <1>2, <1>3 DEF idVars, InGet, AloneIn
<1>4. CASE NextTime
  BY <1>2, <1>4 DEF NextTime, InGet, AloneIn
<1>5. ASSUME NEW g \in Getters, ReadClock(g) PROVE AloneIn(k)'
  <2>1. CASE k = g
    BY <1>5, <2>1 DEF ReadClock, AloneIn, UUIDTypes
  <2>2. CASE k # g
    <3>1. InGet(k) /\ stamp'[k] = stamp[k] /\ step'[k] = step[k]
      BY <1>5, <2>2 DEF ReadClock, InGet, UUIDTypes
    <3> QED BY <3>1, <1>1, <1>2, <1>5 DEF ReadClock, AloneIn
  <2> QED BY <2>1, <2>2
<1>6. ASSUME NEW g \in Getters, Get(g) PROVE AloneIn(k)'
  <2>0. InGet(g)
    BY <1>6 DEF Get, Compare, SetHigh, SetLow, Load, Store, Return, InGet
  <2>1. CASE k = g
    <3>1. AloneIn(g)
      BY <2>0, <2>1, <1>2
    <3>2. CASE Compare(g)
      BY <3>1, <3>2, <2>1 DEF Compare, AloneIn, UUIDTypes
    <3>3. CASE SetHigh(g)
      BY <3>1, <3>3, <2>1 DEF SetHigh, AloneIn, UUIDTypes
    <3>4. CASE SetLow(g)
      BY <3>1, <3>4, <2>1 DEF SetLow, AloneIn, UUIDTypes
    <3>5. CASE Load(g)
      BY <3>1, <3>5, <2>1 DEF Load, AloneIn, UUIDTypes
    <3>6. CASE Store(g)
      BY <3>1, <3>6, <2>1 DEF Store, AloneIn, UUIDTypes
    <3>7. ~Return(g)
      BY <2>1 DEF Return, InGet, UUIDTypes
    <3> QED BY <1>6, <3>2, <3>3, <3>4, <3>5, <3>6, <3>7 DEF Get
  <2>2. CASE k # g
    <3>1. step'[k] = step[k] /\ stamp'[k] = stamp[k] /\ held'[k] = held[k] /\ InGet(k)
      BY <1>6, <2>2 DEF Get, Compare, SetHigh, SetLow, Load, Store, Return, InGet, UUIDTypes
    <3>2. AloneIn(k) /\ stamp[k] \in overlapped /\ stamp[g] \in overlapped
      BY <3>1, <1>2, <2>0, <2>2, NotAlone
    <3>3. high' = high \/ high' = stamp[g]
      BY <1>6 DEF Get, Compare, SetHigh, SetLow, Load, Store, Return
    <3> QED BY <3>1, <3>2, <3>3, <1>1 DEF AloneIn
  <2> QED BY <2>1, <2>2
<1> QED BY <1>3, <1>4, <1>5, <1>6 DEF IdNext

\* What IdsBehind says of one id given out.
Behind(g) ==
    /\ id[g].high <= high
    /\ id[g].high = high => id[g].low <= low
    /\ \A k \in Getters : InGet(k) =>
          /\ id[g].high <= stamp[k]
          /\ id[g].high = stamp[k] => step[k] \notin {"setHigh", "setLow"}
          /\ id[g].high = stamp[k] /\ step[k] = "return" => id[g].low < low

\* The id that Return gives out: its second is the one the call read, and if it is
\* unmarked no other call is in Get.
LEMMA ReturnedBehind ==
    ASSUME UUIDInv, NEW g \in Getters, Return(g), high \notin overlapped
    PROVE  Behind(g)' /\ \A k \in Getters : ~InGet(k)'
<1>1. InGet(g) /\ stamp[g] = high
  BY DEF UUIDInv, CallsAlone, Return, InGet
<1>2. ASSUME NEW k \in Getters PROVE ~InGet(k)'
  <2>1. CASE k = g
    BY <2>1 DEF Return, InGet, UUIDInv, UUIDTypes
  <2>2. CASE k # g
    <3>1. ~InGet(k)
      BY <1>1, <2>2, NotAlone DEF UUIDInv
    <3> QED BY <3>1, <2>2 DEF Return, InGet, UUIDInv, UUIDTypes
  <2> QED BY <2>1, <2>2
<1>3. id'[g].high = high /\ id'[g].low = low /\ high' = high /\ low' = low
  BY DEF Return, UUIDInv, UUIDTypes
<1> QED BY <1>2, <1>3 DEF Behind, UUIDInv, UUIDTypes

LEMMA IdIsKept ==
    ASSUME UUIDTypes, [IdNext]_idVars, NEW g \in Getters, step[g] = "got"
    PROVE  step'[g] = "got" /\ id'[g] = id[g]
<1>1. CASE UNCHANGED idVars \/ NextTime
  BY <1>1 DEF idVars, NextTime
<1>2. ASSUME NEW j \in Getters, ReadClock(j) \/ Get(j) PROVE step'[g] = "got" /\ id'[g] = id[g]
  <2>1. j # g
    BY <1>2 DEF Get, ReadClock, Compare, SetHigh, SetLow, Load, Store, Return
  <2> QED BY <1>2, <2>1
          DEF Get, ReadClock, Compare, SetHigh, SetLow, Load, Store, Return, UUIDTypes
<1> QED BY <1>1, <1>2 DEF IdNext

\* An id of an unmarked second stays behind high and low, whoever calls Get next.
LEMMA IdStaysBehind ==
    ASSUME UUIDInv, [IdNext]_idVars, NEW g \in Getters,
           step[g] = "got", id[g].high \notin overlapped'
    PROVE  Behind(g)'
<1>0. step'[g] = "got" /\ id'[g] = id[g]
  BY IdIsKept DEF UUIDInv
<1>1. UUIDTypes /\ OverlapsMarked /\ CallsAlone /\ overlapped \subseteq overlapped'
  BY OverlapsStayMarked DEF UUIDInv
<1>2. Behind(g)
  BY <1>1 DEF UUIDInv, IdsBehind, Behind
<1>3. CASE UNCHANGED idVars
  BY <1>2, <1>3 DEF idVars, InGet, Behind
<1>4. CASE NextTime
  BY <1>2, <1>4 DEF NextTime, InGet, Behind
<1>5. ASSUME NEW j \in Getters, ReadClock(j) PROVE Behind(g)'
  <2>1. id' = id /\ high' = high /\ low' = low
    BY <1>5 DEF ReadClock, UUIDTypes
  <2>2. ASSUME NEW k \in Getters, InGet(k)'
        PROVE  \/ k = j /\ step'[k] = "compare" /\ stamp'[k] = second
               \/ InGet(k) /\ step'[k] = step[k] /\ stamp'[k] = stamp[k]
    BY <1>5, <2>2, <1>1 DEF ReadClock, InGet, UUIDTypes
  <2>3. id[g].high <= second
    BY <1>1, <1>2 DEF Behind, UUIDTypes
  <2> QED BY <2>1, <2>2, <2>3, <1>2 DEF Behind
<1>6. ASSUME NEW j \in Getters, Get(j) PROVE Behind(g)'
  <2>1. InGet(j) /\ overlapped' = overlapped
    BY <1>6 DEF Get, Compare, SetHigh, SetLow, Load, Store, Return, InGet
  <2>4. ASSUME NEW k \in Getters \ {j}, InGet(k)'
        PROVE  InGet(k) /\ step'[k] = step[k] /\ stamp'[k] = stamp[k]
    BY <1>1, <1>6, <2>4 DEF Get, Compare, SetHigh, SetLow, Load, Store, Return, InGet, UUIDTypes
  <2>5. AloneIn(j)
    BY <2>1, <1>1 DEF CallsAlone, AloneIn
  \* The second of the id is unmarked, so a call that works in it works alone.
  <2>6. ASSUME NEW k \in Getters \ {j}, InGet(k) PROVE stamp[k] # id[g].high /\ stamp[j] # id[g].high
    BY <2>1, <2>6, <1>1, NotAlone
  <2>7. /\ id[g].high <= high /\ (id[g].high = high => id[g].low <= low)
        /\ id[g].high <= stamp[j]
        /\ id[g].high = stamp[j] => step[j] \notin {"setHigh", "setLow"}
        /\ id[g].high = stamp[j] /\ step[j] = "return" => id[g].low < low
    BY <1>2, <2>1 DEF Behind
  <2>8. \A k \in Getters \ {j} : InGet(k)' =>
           id[g].high <= stamp'[k] /\ id[g].high # stamp'[k]
    BY <2>4, <2>6, <1>2 DEF Behind
  <2>9. high \in Nat /\ low \in Nat /\ stamp[j] \in Nat /\ held[j] \in Nat
        /\ id[g].high \in Nat /\ id[g].low \in Nat
    BY <1>1 DEF UUIDTypes
  <2> DEFINE Own == /\ id[g].high <= high' /\ (id[g].high = high' => id[g].low <= low')
                    /\ InGet(j)' =>
                         /\ id[g].high <= stamp'[j]
                         /\ id[g].high = stamp'[j] => step'[j] \notin {"setHigh", "setLow"}
                         /\ id[g].high = stamp'[j] /\ step'[j] = "return" => id[g].low < low'
  <2>10. Own
    <3>1. CASE Compare(j)
      <4>1. /\ stamp'[j] = stamp[j] /\ high' = high /\ low' = low
            /\ step'[j] = IF high = stamp[j] THEN "load" ELSE "setHigh"
        BY <3>1, <1>1 DEF Compare, UUIDTypes
      <4>2. CASE id[g].high = stamp[j]
        <5>1. high = stamp[j]
          BY <4>2, <2>1, <2>5, <2>7, <2>9 DEF AloneIn
        <5> QED BY <4>1, <5>1, <2>7
      <4>3. CASE id[g].high # stamp[j]
        BY <4>1, <4>3, <2>7
      <4> QED BY <4>2, <4>3
    <3>2. CASE SetHigh(j)
      BY <3>2, <2>7, <1>1 DEF SetHigh, UUIDTypes
    <3>3. CASE SetLow(j)
      <4>1. step[j] = "setLow" /\ high' = high /\ stamp'[j] = stamp[j] /\ step'[j] = "load"
        BY <3>3, <1>1 DEF SetLow, UUIDTypes
      <4>2. id[g].high # high
        BY <4>1, <2>1, <2>5, <2>7 DEF AloneIn
      <4> QED BY <4>1, <4>2, <2>7
    <3>4. CASE Load(j)
      BY <3>4, <2>7, <1>1 DEF Load, UUIDTypes
    <3>5. CASE Store(j)
      <4>1. /\ step[j] = "store" /\ high' = high /\ stamp'[j] = stamp[j]
            /\ step'[j] = "return" /\ low' = held[j] + 1
        BY <3>5, <1>1 DEF Store, UUIDTypes
      <4>2. id[g].high = high => stamp[j] = high
        BY <4>1, <2>1, <2>5 DEF AloneIn
      <4>3. id[g].high = stamp[j] => held[j] = low
        BY <4>1, <2>1, <2>5 DEF AloneIn
      <4>4. id[g].high = stamp[j] => id[g].high = high
        BY <4>1, <2>1, <2>5, <2>7, <2>9 DEF AloneIn
      <4>5. id[g].high = stamp[j] => id[g].low < low'
        BY <4>1, <4>3, <4>4, <2>7, <2>9
      <4>6. id[g].high = high' => id[g].low <= low'
        BY <4>1, <4>2, <4>5, <2>9
      <4> QED BY <4>1, <4>5, <4>6, <2>7
    <3>6. CASE Return(j)
      BY <3>6, <2>7, <1>1 DEF Return, InGet, UUIDTypes
    <3> QED BY <1>6, <3>1, <3>2, <3>3, <3>4, <3>5, <3>6 DEF Get
  <2> QED BY <1>0, <2>8, <2>10 DEF Behind
<1> QED BY <1>3, <1>4, <1>5, <1>6 DEF IdNext

LEMMA IdsStayBehind ==
    UUIDInv /\ [IdNext]_idVars => IdsBehind' /\ ClashesStayInTheirSecond'
<1> SUFFICES ASSUME UUIDInv, [IdNext]_idVars PROVE IdsBehind' /\ ClashesStayInTheirSecond'
  OBVIOUS
<1>1. UUIDTypes /\ UUIDTypes' /\ OverlapsMarked /\ CallsAlone
      /\ overlapped \subseteq overlapped'
  BY UUIDTypesStay, OverlapsStayMarked DEF UUIDInv
\* Only Return gives an id out.
<1>2. ASSUME NEW g \in Getters, step'[g] = "got", step[g] # "got" PROVE Return(g)
  <2>1. ~UNCHANGED idVars /\ ~NextTime
    BY <1>2 DEF idVars, NextTime
  <2>2. PICK j \in Getters : ReadClock(j) \/ Get(j)
    BY <2>1 DEF IdNext
  <2>3. Return(j) /\ j = g
    BY <2>2, <1>2, <1>1 DEF Get, ReadClock, Compare, SetHigh, SetLow, Load, Store, Return, UUIDTypes
  <2> QED BY <2>3
<1>3. ASSUME NEW g \in Getters, step'[g] = "got", id'[g].high \notin overlapped'
      PROVE  Behind(g)'
  <2>1. CASE step[g] = "got"
    BY <2>1, <1>1, <1>3, IdIsKept, IdStaysBehind
  <2>2. CASE step[g] # "got"
    <3>1. Return(g) /\ high \notin overlapped
      BY <2>2, <1>1, <1>2, <1>3 DEF Return, UUIDTypes
    <3> QED BY <3>1, ReturnedBehind
  <2> QED BY <2>1, <2>2
\* The number of a new id is past those of the same unmarked second.
<1>4. ASSUME NEW g \in Getters, NEW h \in Getters, g # h, step'[g] = "got", step'[h] = "got",
             step[g] # "got", id'[g] = id'[h]
      PROVE  id'[g].high \in overlapped'
  <2>1. Return(g) /\ id'[g] = [high |-> high, low |-> low] /\ overlapped' = overlapped
    BY <1>1, <1>2, <1>4 DEF Return, UUIDTypes
  <2>2. step[h] = "got"
    BY <2>1, <1>1, <1>4 DEF Return, UUIDTypes
  <2>3. id[h] = [high |-> high, low |-> low]
    BY <2>1, <2>2, <1>1, <1>4, IdIsKept
  <2>4. SUFFICES ASSUME high \notin overlapped PROVE FALSE
    BY <2>1
  <2>5. InGet(g) /\ stamp[g] = high /\ step[g] = "return"
    BY <2>1, <2>4, <1>1 DEF CallsAlone, Return, InGet
  <2>6. id[h].low < low
    BY <2>2, <2>3, <2>4, <2>5 DEF UUIDInv, IdsBehind
  <2> QED BY <2>3, <2>6, <1>1 DEF UUIDTypes
<1>5. ClashesStayInTheirSecond'
  <2> SUFFICES ASSUME NEW g \in Getters, NEW h \in Getters, g # h,
                      step'[g] = "got", step'[h] = "got", id'[g] = id'[h]
               PROVE  id'[g].high \in overlapped'
    BY DEF ClashesStayInTheirSecond
  <2>1. CASE step[g] # "got" \/ step[h] # "got"
    BY <2>1, <1>4
  <2>2. CASE step[g] = "got" /\ step[h] = "got"
    BY <2>2, <1>1, IdIsKept DEF UUIDInv, ClashesStayInTheirSecond
  <2> QED BY <2>1, <2>2
<1> QED BY <1>3, <1>5 DEF IdsBehind, Behind

\* Two connections have the same id only if calls of Get overlapped in that second,
\* however many connections there are and however their loads and stores fall.
THEOREM IdsClashInTheirSecondOnly == IdSpec => []ClashesStayInTheirSecond
<1>1. UUIDInv /\ [IdNext]_idVars => UUIDInv'
  BY UUIDTypesStay, OverlapsStayMarked, CallsStayAlone, IdsStayBehind DEF UUIDInv
<1>2. UUIDInv => ClashesStayInTheirSecond
  BY DEF UUIDInv
<1> QED BY <1>1, <1>2, UUIDStart, PTL DEF IdSpec

-----------------------------------------------------------------------------
(* The log. *)

Disks == [open : BOOLEAN, since : 0..MaxNow, file : Seq(Nat), rolled : [1..MaxNow -> Seq(Nat)]]

\* The file that is open was begun by now, and the rolled ones no later.
Begun(d) ==
    /\ d \in Disks /\ d.since <= clock
    /\ d.open => d.since > 0
    /\ \A s \in 1..MaxNow : d.rolled[s] # <<>> => s <= d.since

Bad == {"seek", "copy", "write", "open", "name"}

\* The first n lines, and nothing else, is in the files in order.
HoldsUpTo(d, n) == \A line \in 1..n : HeldIn(d, line)
FilesUpTo(d, n) ==
    InOrder(d) /\ \A s \in DOMAIN Files(d) : Range(Files(d)[s]) \subseteq 1..n

\* What an operation that turns d into o.disk keeps, if what fails is not Bad.
Keeps(d, o, n) ==
    /\ Begun(o.disk)
    /\ o.failed \cap Bad = {} /\ HoldsUpTo(d, n) => HoldsUpTo(o.disk, n)
    /\ o.failed \subseteq {"open roll"} /\ FilesUpTo(d, n) => FilesUpTo(o.disk, n)

LogTypes ==
    /\ clock \in 1..MaxNow
    /\ taken \in Nat /\ printed \in Nat
    /\ ch \in Seq(Nat)
    /\ Begun(disk)

\* Lines leave ch in the order of their numbers, until an empty one ends the process.
InLine(lines, first, last) ==
    /\ \A i \in DOMAIN lines : (\A j \in 1..i : lines[j] # 0) => lines[i] = first + i
    /\ (\A j \in DOMAIN lines : lines[j] # 0) => last = first + Len(lines)

LinesInLine == InLine(ch, taken, printed)

\* Until an operation fails, a file is open as soon as a line has been taken.
FileIsOpen == failed \cap Bad = {} => disk.open \/ taken = 0

LogInv ==
    /\ LogTypes
    /\ process = "up" => LinesInLine /\ FileIsOpen
    /\ failed \cap Bad = {} => HoldsUpTo(disk, taken)
    /\ failed \subseteq {"open roll"} => FilesUpTo(disk, taken)

LEMMA FilesOf ==
    ASSUME NEW d \in Disks
    PROVE  /\ DOMAIN Files(d) = 1..MaxNow + 1
           /\ Files(d)[MaxNow + 1] = d.file
           /\ \A s \in 1..MaxNow : Files(d)[s] = d.rolled[s]
           /\ \A s \in DOMAIN Files(d) : Files(d)[s] \in Seq(Nat)
<1>1. MaxNow \in Nat
  BY LogAssumption
<1>2. d.file \in Seq(Nat) /\ \A s \in 1..MaxNow : d.rolled[s] \in Seq(Nat)
  BY DEF Disks
<1> QED BY <1>1, <1>2 DEF Files

LEMMA HeldWhere ==
    ASSUME NEW d \in Disks, NEW line
    PROVE  HeldIn(d, line) <=> \/ line \in Range(d.file)
                               \/ \E s \in 1..MaxNow : line \in Range(d.rolled[s])
<1> DEFINE F == Files(d)
<1>1. MaxNow \in Nat
  BY LogAssumption
<1>2. DOMAIN F = 1..MaxNow + 1 /\ F[MaxNow + 1] = d.file /\ \A s \in 1..MaxNow : F[s] = d.rolled[s]
  BY FilesOf
<1>3. HeldIn(d, line) <=> \E s \in DOMAIN F : line \in Range(F[s])
  BY DEF HeldIn
<1> HIDE DEF F
<1>4. DOMAIN F = 1..MaxNow \cup {MaxNow + 1}
  BY <1>1, <1>2
<1> QED BY <1>2, <1>3, <1>4, Zenon

\* The copy of a file under a name that was free is the file.
LEMMA CopyOfAll ==
    ASSUME NEW f \in Seq(Nat)
    PROVE  Over(<<>>, SubSeq(f, 1, Len(f))) = f
<1>1. SubSeq(f, 1, Len(f)) = f
  OBVIOUS
<1>2. SubSeq(<<>>, Len(f) + 1, 0) = <<>>
  OBVIOUS
<1>3. f \o <<>> = f
  OBVIOUS
<1>4. Over(<<>>, f) = f \o SubSeq(<<>>, Len(f) + 1, 0)
  BY DEF Over
<1> QED BY <1>1, <1>2, <1>3, <1>4

\* RollFile: nothing is done, or from a place to another is copied under the name of
\* the second the file was begun in, and the file truncated or not.
LEMMA RollOutcomes ==
    ASSUME NEW d \in Disks, NEW o \in RollFile(d)
    PROVE  \/ o = Outcome(d, {"open roll"})
           \/ \E ops \in SUBSET {"seek", "truncate"}, x \in 1..Len(d.file) + 1, y \in 0..Len(d.file) :
                 /\ "seek" \notin ops => x = 1
                 /\ o.disk = [Copied(d, x, y) EXCEPT !.file = IF "truncate" \in ops THEN @ ELSE <<>>]
                 /\ o.failed = ops \cup (IF y < Len(d.file) THEN {"copy"} ELSE {})
                                   \cup (IF d.rolled[d.since] = <<>> THEN {} ELSE {"name"})
<1> SUFFICES ASSUME o # Outcome(d, {"open roll"})
             PROVE  \E ops \in SUBSET {"seek", "truncate"}, x \in 1..Len(d.file) + 1, y \in 0..Len(d.file) :
                 /\ "seek" \notin ops => x = 1
                 /\ o.disk = [Copied(d, x, y) EXCEPT !.file = IF "truncate" \in ops THEN @ ELSE <<>>]
                 /\ o.failed = ops \cup (IF y < Len(d.file) THEN {"copy"} ELSE {})
                                   \cup (IF d.rolled[d.since] = <<>> THEN {} ELSE {"name"})
  OBVIOUS
<1> DEFINE Copies(ops) == {s \in (1..Len(d.file) + 1) \X (0..Len(d.file)) :
                            s[1] <= s[2] + 1 /\ ("seek" \notin ops => s[1] = 1)}
           Rolled(ops, s) ==
            Outcome([Copied(d, s[1], s[2]) EXCEPT !.file = IF "truncate" \in ops THEN @ ELSE <<>>],
                    ops \cup (IF s[2] < Len(d.file) THEN {"copy"} ELSE {})
                        \cup (IF d.rolled[d.since] = <<>> THEN {} ELSE {"name"}))
<1>0. PICK ops \in SUBSET {"seek", "truncate"} : \E s \in Copies(ops) : o = Rolled(ops, s)
  BY DEF RollFile
<1>1. PICK s \in Copies(ops) : o = Rolled(ops, s)
  BY <1>0
<1>2. s[1] \in 1..Len(d.file) + 1 /\ s[2] \in 0..Len(d.file) /\ ("seek" \notin ops => s[1] = 1)
  BY <1>1
<1>3. /\ o.disk = [Copied(d, s[1], s[2]) EXCEPT !.file = IF "truncate" \in ops THEN @ ELSE <<>>]
      /\ o.failed = ops \cup (IF s[2] < Len(d.file) THEN {"copy"} ELSE {})
                        \cup (IF d.rolled[d.since] = <<>> THEN {} ELSE {"name"})
  BY <1>1 DEF Outcome
<1> QED BY <1>2, <1>3

\* A disk after a roll that left rest in the file.
Rolled(d, x, y, rest) == [Copied(d, x, y) EXCEPT !.file = rest]
Copy(d, x, y) == Over(d.rolled[d.since], SubSeq(d.file, x, y))

RolledTo(d, x, y, rest, e) ==
    /\ e \in Disks /\ ~e.open /\ e.since = d.since /\ e.file = rest
    /\ e.rolled[d.since] = Copy(d, x, y)
    /\ \A s \in 1..MaxNow : s # d.since => e.rolled[s] = d.rolled[s]

LEMMA RolledDisk ==
    ASSUME NEW d \in Disks, d.since \in 1..MaxNow, NEW x, NEW y, NEW rest \in Seq(Nat),
           Copy(d, x, y) \in Seq(Nat), NEW e, e = Rolled(d, x, y, rest)
    PROVE  RolledTo(d, x, y, rest, e)
<1> DEFINE c == Copied(d, x, y)
           copy == Copy(d, x, y)
<1>1. c = [d EXCEPT !.open = FALSE, !.rolled[d.since] = copy]
  BY Zenon DEF Copied, Copy
<1>0. copy \in Seq(Nat)
  OBVIOUS
<1> HIDE DEF copy
<1> DEFINE names == [d.rolled EXCEPT ![d.since] = copy]
<1>2. names \in [1..MaxNow -> Seq(Nat)]
  BY <1>0 DEF Disks
<1>2a. c = [d EXCEPT !.open = FALSE, !.rolled = names]
  BY <1>1, Zenon DEF Disks
<1>4. c.open = FALSE /\ c.since = d.since /\ c.rolled = names /\ c \in Disks
  <2> HIDE DEF c, names
  <2> QED BY <1>2, <1>2a DEF Disks
<1>5. e = [c EXCEPT !.file = rest]
  BY DEF Rolled
<1> HIDE DEF c
<1>6. e \in Disks /\ e.file = rest
  BY <1>4, <1>5 DEF Disks
<1>7. e.open = c.open /\ e.since = c.since
  BY <1>4, <1>5 DEF Disks
<1>7a. e.rolled = c.rolled
  BY <1>4, <1>5 DEF Disks
<1>8. e.rolled[d.since] = copy /\ \A s \in 1..MaxNow : s # d.since => e.rolled[s] = d.rolled[s]
  BY <1>4, <1>7a DEF Disks
<1> QED BY <1>4, <1>6, <1>7, <1>8 DEF copy, RolledTo

LEMMA RollKeeps ==
    ASSUME clock \in 1..MaxNow, NEW d, Begun(d), d.open, NEW o \in RollFile(d), NEW n \in Nat
    PROVE  Keeps(d, o, n)
<1>1. MaxNow \in Nat /\ d \in Disks /\ d.since \in 1..MaxNow /\ d.file \in Seq(Nat)
      /\ d.rolled \in [1..MaxNow -> Seq(Nat)]
  BY LogAssumption DEF Begun, Disks
<1>2. CASE o = Outcome(d, {"open roll"})
  BY <1>2 DEF Outcome, Keeps
<1>3. ASSUME NEW ops \in SUBSET {"seek", "truncate"},
             NEW x \in 1..Len(d.file) + 1, NEW y \in 0..Len(d.file),
             "seek" \notin ops => x = 1,
             o.disk = [Copied(d, x, y) EXCEPT !.file = IF "truncate" \in ops THEN @ ELSE <<>>],
             o.failed = ops \cup (IF y < Len(d.file) THEN {"copy"} ELSE {})
                            \cup (IF d.rolled[d.since] = <<>> THEN {} ELSE {"name"})
      PROVE  Keeps(d, o, n)
  <2> DEFINE e == o.disk
  <2>1. Copy(d, x, y) \in Seq(Nat)
    <3>1. SubSeq(d.file, x, y) \in Seq(Nat)
      <4>1. Len(d.file) \in Nat
        BY <1>1, LenProperties
      <4>2. x \in Int /\ y \in Int /\ \A i \in x..y : i \in 1..Len(d.file)
        BY <4>1
      <4>3. \A i \in x..y : d.file[i] \in Nat
        BY <1>1, <4>2, ElementOfSeq
      <4> QED BY <4>2, <4>3, SubSeqProperties
    <3>2. ASSUME NEW f \in Seq(Nat), NEW g \in Seq(Nat) PROVE Over(f, g) \in Seq(Nat)
      <4>1. SubSeq(f, Len(g) + 1, Len(f)) \in Seq(Nat)
        OBVIOUS
      <4> QED BY <4>1 DEF Over
    <3> QED BY <3>1, <3>2, <1>1 DEF Copy
  <2> DEFINE left == IF "truncate" \in ops THEN d.file ELSE <<>>
  <2>2. left \in Seq(Nat)
    BY <1>1
  <2>a. /\ ~e.open /\ e.since = d.since /\ e.file = left
        /\ e.rolled[d.since] = Copy(d, x, y)
        /\ \A s \in 1..MaxNow : s # d.since => e.rolled[s] = d.rolled[s]
        /\ e \in Disks
    <3>1. e = [Copied(d, x, y) EXCEPT !.file = left]
      <4>1. Copied(d, x, y).file = d.file
        BY <1>1 DEF Copied, Disks
      <4> QED BY <1>3, <4>1, Zenon
    <3>2. d \in Disks /\ d.since \in 1..MaxNow /\ left \in Seq(Nat) /\ Copy(d, x, y) \in Seq(Nat)
          /\ e = Rolled(d, x, y, left)
      BY <1>1, <2>1, <2>2, <3>1 DEF Rolled
    <3> HIDE DEF e, left
    <3>3. Copy(d, x, y) \in Seq(Nat)
      BY <2>1
    <3>4. RolledTo(d, x, y, left, e)
      BY <3>2, <3>3, RolledDisk, Zenon
    <3> QED BY <3>4, Zenon DEF RolledTo
  <2>3. e \in Disks
    BY <2>a
  <2>4. Begun(e)
    <3> HIDE DEF e, left
    <3>1. e.since = d.since /\ d.since <= clock /\ ~e.open
      BY <2>a DEF Begun
    <3>2. ASSUME NEW s \in 1..MaxNow, e.rolled[s] # <<>> PROVE s <= d.since
      <4>1. s # d.since => d.rolled[s] # <<>>
        BY <2>a, <3>2
      <4> QED BY <4>1, <1>1 DEF Begun
    <3> QED BY <2>3, <3>1, <3>2 DEF Begun
  <2>5. ASSUME o.failed \cap Bad = {}
        PROVE  d.rolled[d.since] = <<>> /\ e.rolled[d.since] = d.file
    <3>1. "seek" \notin ops /\ ~(y < Len(d.file)) /\ d.rolled[d.since] = <<>>
      <4> DEFINE short == IF y < Len(d.file) THEN {"copy"} ELSE {}
                 over == IF d.rolled[d.since] = <<>> THEN {} ELSE {"name"}
      <4>1. ops \cap Bad = {} /\ short \cap Bad = {} /\ over \cap Bad = {}
        BY <1>3, <2>5, Zenon
      <4> QED BY <4>1 DEF Bad
    <3>2. x = 1 /\ y = Len(d.file)
      <4>1. Len(d.file) \in Nat
        BY <1>1
      <4> QED BY <3>1, <4>1, <1>3
    <3>3. Copy(d, x, y) = d.file
      BY <3>1, <3>2, <1>1, CopyOfAll DEF Copy
    <3> QED BY <3>1, <3>3, <2>a, Zenon
  <2>6. ASSUME o.failed \cap Bad = {}, HoldsUpTo(d, n), NEW line \in 1..n PROVE HeldIn(e, line)
    <3>1. HeldIn(d, line)
      BY <2>6 DEF HoldsUpTo
    <3>2. CASE line \in Range(d.file)
      BY <3>2, <1>1, <2>3, <2>5, <2>6, HeldWhere
    <3>3. ASSUME NEW s \in 1..MaxNow, line \in Range(d.rolled[s]) PROVE HeldIn(e, line)
      <4>1. s # d.since
        BY <3>3, <2>5, <2>6 DEF Range
      <4>2. e.rolled[s] = d.rolled[s]
        BY <4>1, <2>a
      <4> QED BY <3>3, <4>2, <2>3, HeldWhere
    <3> QED BY <3>1, <3>2, <3>3, <1>1, HeldWhere
  <2>7. ASSUME o.failed \subseteq {"open roll"}, FilesUpTo(d, n) PROVE FilesUpTo(e, n)
    <3> DEFINE was(s) == IF s = d.since THEN MaxNow + 1 ELSE s
               F == Files(d)
               G == Files(e)
    <3>1. DOMAIN G = 1..MaxNow + 1 /\ DOMAIN F = 1..MaxNow + 1
      BY <1>1, <2>3, FilesOf
    <3>2. ASSUME NEW s \in DOMAIN G, G[s] # <<>> PROVE s <= d.since /\ G[s] = F[was(s)]
      <4>1. o.failed \cap Bad = {} /\ "truncate" \notin ops
        <5>1. ops \subseteq {"open roll"}
          BY <1>3, <2>7, Zenon
        <5> QED BY <2>7, <5>1 DEF Bad
      <4>2. s # MaxNow + 1
        <5>1. e.file = <<>>
          BY <4>1, <2>a, Zenon
        <5>2. G[MaxNow + 1] = <<>>
          BY <5>1, <2>3, FilesOf, Zenon
        <5> QED BY <3>2, <5>2, Zenon
      <4>3. s \in 1..MaxNow /\ G[s] = e.rolled[s]
        <5>1. s \in 1..MaxNow
          <6>1. s \in 1..MaxNow + 1
            BY <3>1, <3>2
          <6> QED BY <6>1, <4>2, <1>1
        <5> QED BY <5>1, <2>3, FilesOf
      <4>4. CASE s = d.since
        <5>1. G[s] = d.file /\ F[was(s)] = d.file
          BY <4>3, <4>4, <4>1, <2>5, <1>1, FilesOf
        <5> QED BY <5>1, <4>4, <1>1
      <4>5. CASE s # d.since
        <5>1. G[s] = d.rolled[s] /\ F[was(s)] = d.rolled[s]
          BY <4>3, <4>5, <2>a, <1>1, FilesOf
        <5>2. s <= d.since
          BY <5>1, <4>3, <3>2 DEF Begun
        <5> QED BY <5>1, <5>2
      <4> QED BY <4>4, <4>5
    <3> HIDE DEF F, G
    <3>0. ASSUME NEW s \in DOMAIN G PROVE was(s) \in DOMAIN F
      <4>1. s \in 1..MaxNow + 1
        BY <3>1
      <4>2. MaxNow + 1 \in 1..MaxNow + 1
        BY LogAssumption
      <4>3. was(s) \in 1..MaxNow + 1
        BY <4>1, <4>2, Zenon
      <4> QED BY <3>1, <4>3, Zenon
    <3>3. InOrder(d) /\ \A s \in DOMAIN F : Range(F[s]) \subseteq 1..n
      BY <2>7 DEF FilesUpTo, F
    <3>4. ASSUME NEW s \in DOMAIN G, NEW t \in DOMAIN G, NEW i \in DOMAIN G[s], NEW j \in DOMAIN G[t],
                 s < t \/ (s = t /\ i < j)
          PROVE  G[s][i] < G[t][j]
      <4>1. G[s] # <<>> /\ G[t] # <<>>
        BY <3>4
      <4>2. G[s] = F[was(s)] /\ G[t] = F[was(t)] /\ s <= d.since /\ t <= d.since
        BY <4>1, <3>2
      <4>3. was(s) \in DOMAIN F /\ was(t) \in DOMAIN F
        BY <3>0
      <4>4. was(s) < was(t) \/ (was(s) = was(t) /\ i < j)
        <5>1. d.since \in Nat /\ s \in Nat /\ t \in Nat /\ d.since < MaxNow + 1
          BY <1>1, <3>1
        <5>2. s < t \/ (s = t /\ i < j)
          BY <3>4
        <5>3. s <= d.since /\ t <= d.since
          BY <4>2
        <5>4. CASE s = t /\ i < j
          BY <5>4
        <5>5. CASE s < t
          <6>1. was(s) = s
            BY <5>1, <5>3, <5>5
          <6>2. was(t) = t \/ was(t) = MaxNow + 1
            OBVIOUS
          <6>3. s < MaxNow + 1
            BY <5>1, <5>3, <1>1
          <6> QED BY <5>5, <6>1, <6>2, <6>3
        <5> QED BY <5>2, <5>4, <5>5
      <4> QED BY <4>2, <4>3, <4>4, <3>3 DEF InOrder, F
    <3>5. ASSUME NEW s \in DOMAIN G PROVE Range(G[s]) \subseteq 1..n
      <4>1. CASE G[s] = <<>>
        <5>1. DOMAIN <<>> = {}
          OBVIOUS
        <5>2. Range(<<>>) = {}
          BY <5>1, Zenon DEF Range
        <5> QED BY <4>1, <5>2, Zenon
      <4>2. CASE G[s] # <<>>
        <5>1. was(s) \in DOMAIN F
          BY <3>0
        <5> QED BY <4>2, <5>1, <3>2, <3>3
      <4> QED BY <4>1, <4>2
    <3> QED BY <3>4, <3>5 DEF FilesUpTo, InOrder, G
  <2> QED BY <2>4, <2>6, <2>7 DEF Keeps, HoldsUpTo
<1> HIDE DEF Keeps
<1> QED
  <2>1. CASE o = Outcome(d, {"open roll"})
    BY <2>1, <1>2
  <2>2. CASE o # Outcome(d, {"open roll"})
    <3>1. \E ops \in SUBSET {"seek", "truncate"}, x \in 1..Len(d.file) + 1, y \in 0..Len(d.file) :
             /\ "seek" \notin ops => x = 1
             /\ o.disk = [Copied(d, x, y) EXCEPT !.file = IF "truncate" \in ops THEN @ ELSE <<>>]
             /\ o.failed = ops \cup (IF y < Len(d.file) THEN {"copy"} ELSE {})
                               \cup (IF d.rolled[d.since] = <<>> THEN {} ELSE {"name"})
      BY <2>2, <1>1, RollOutcomes, Zenon
    <3> QED BY <1>3, <3>1, Zenon
  <2> QED BY <2>1, <2>2

LEMMA OpenKeeps ==
    ASSUME clock \in 1..MaxNow, NEW d, Begun(d), NEW o \in OpenNewFile(d), NEW n \in Nat
    PROVE  Keeps(d, o, n) /\ (o.failed \cap Bad = {} => o.disk.open)
           /\ (d.open => o.disk.open)
<1>1. MaxNow \in Nat /\ d \in Disks
  BY LogAssumption DEF Begun
<1>2. CASE o = Outcome(d, {"open"})
  <2>1. o.disk = d /\ o.failed = {"open"}
    BY <1>2 DEF Outcome
  <2> QED BY <2>1 DEF Keeps, Bad
<1>3. CASE o = Outcome([d EXCEPT !.open = TRUE, !.since = clock], {})
  <2> DEFINE e == [d EXCEPT !.open = TRUE, !.since = clock]
  <2>1. e \in Disks /\ e.open /\ e.since = clock /\ e.file = d.file /\ e.rolled = d.rolled
    <3>0. e \in Disks
      <4> DEFINE S == 0..MaxNow
                 R == [1..MaxNow -> Seq(Nat)]
      <4>1. clock \in S /\ d \in [open : BOOLEAN, since : S, file : Seq(Nat), rolled : R]
        BY <1>1 DEF Disks
      <4> HIDE DEF S, R
      <4>2. e \in [open : BOOLEAN, since : S, file : Seq(Nat), rolled : R]
        BY <4>1
      <4> QED BY <4>2 DEF S, R, Disks
    <3>1. e.since = clock
      BY <1>1 DEF Disks
    <3>2. e.open = TRUE
      BY <1>1 DEF Disks
    <3>3. e.file = d.file
      BY <1>1 DEF Disks
    <3>4. e.rolled = d.rolled
      BY <1>1 DEF Disks
    <3> HIDE DEF e
    <3> QED BY <3>0, <3>1, <3>2, <3>3, <3>4
  <2>2. Begun(e)
    <3>1. d.since \in Nat /\ \A s \in 1..MaxNow : d.rolled[s] # <<>> => s <= d.since /\ d.since <= clock
      BY <1>1 DEF Begun, Disks
    <3> QED BY <2>1, <3>1, <1>1 DEF Begun
  <2>3. Files(e) = Files(d)
    BY <2>1 DEF Files
  <2>4. o.disk = e /\ o.failed = {}
    BY <1>3 DEF Outcome
  <2> HIDE DEF e
  <2> QED BY <2>1, <2>2, <2>3, <2>4 DEF Keeps, HoldsUpTo, HeldIn, FilesUpTo, InOrder
<1> QED BY <1>2, <1>3 DEF OpenNewFile
\* One operation after another.
Sums(o, p, q) ==
    /\ o.disk = q.disk
    /\ o.failed \cap Bad = {} <=> p.failed \cap Bad = {} /\ q.failed \cap Bad = {}

LEMMA KeepsBoth ==
    ASSUME NEW n, NEW d, NEW p, NEW q, NEW o, Keeps(d, p, n), Keeps(p.disk, q, n),
           o = Outcome(q.disk, p.failed \cup q.failed)
    PROVE  Keeps(d, o, n) /\ Sums(o, p, q)
<1>1. o.disk = q.disk /\ o.failed = p.failed \cup q.failed
  BY DEF Outcome
<1> QED BY <1>1 DEF Keeps, Sums

LEMMA NothingKeeps ==
    ASSUME NEW n, NEW d, Begun(d), NEW o, o = Outcome(d, {})
    PROVE  Keeps(d, o, n) /\ o.disk = d /\ o.failed \cap Bad = {}
<1>1. o.disk = d /\ o.failed = {}
  BY DEF Outcome
<1> QED BY <1>1 DEF Keeps

\* A disk is checked before every line.
LEMMA CheckKeeps ==
    ASSUME clock \in 1..MaxNow, NEW d, Begun(d), NEW o \in CheckFile(d), NEW n \in Nat
    PROVE  Keeps(d, o, n) /\ (o.failed \cap Bad = {} => o.disk.open)
<1> DEFINE Begin(e)   == Then(IF e.open THEN RollFile(e) ELSE {Outcome(e, {})}, OpenNewFile)
           dated      == IF d.open /\ clock \div DayLen = time \div DayLen THEN {Outcome(d, {})}
                         ELSE Begin(d)
           RollFull(e) == IF e.open /\ Len(e.file) >= RollSize
                          THEN Then(RollFile(e), OpenNewFile) ELSE {Outcome(e, {})}
           Fine(e, p) == Keeps(e, p, n) /\ (p.failed \cap Bad = {} => p.disk.open)
<1>1. ASSUME NEW e, Begun(e), NEW p \in Then(RollFile(e), OpenNewFile), e.open PROVE Fine(e, p)
  <2>1. PICK r \in RollFile(e) : \E q \in OpenNewFile(r.disk) : p = Outcome(q.disk, r.failed \cup q.failed)
    BY <1>1 DEF Then
  <2>2. PICK q \in OpenNewFile(r.disk) : p = Outcome(q.disk, r.failed \cup q.failed)
    BY <2>1
  <2>3. Keeps(e, r, n)
    BY <1>1, RollKeeps
  <2>4. Begun(r.disk)
    BY <2>3 DEF Keeps
  <2>5. Keeps(r.disk, q, n) /\ (q.failed \cap Bad = {} => q.disk.open)
    BY <2>4, OpenKeeps
  <2>6. Keeps(e, p, n) /\ Sums(p, r, q)
    BY <2>2, <2>3, <2>5, KeepsBoth
  <2> QED BY <2>5, <2>6, Zenon DEF Sums
<1>2. ASSUME NEW p \in dated PROVE Fine(d, p)
  <2>1. CASE d.open /\ clock \div DayLen = time \div DayLen
    <3>1. p = Outcome(d, {})
      BY <1>2, <2>1
    <3> QED BY <3>1, <2>1, NothingKeeps
  <2>2. CASE ~(d.open /\ clock \div DayLen = time \div DayLen)
    <3>1. p \in Begin(d)
      BY <1>2, <2>2
    <3>2. CASE d.open
      <4>1. p \in Then(RollFile(d), OpenNewFile)
        BY <3>1, <3>2
      <4> QED BY <4>1, <3>2, <1>1
    <3>3. CASE ~d.open
      <4>1. p \in Then({Outcome(d, {})}, OpenNewFile)
        BY <3>1, <3>3
      <4> DEFINE r == Outcome(d, {})
      <4>2. PICK q \in OpenNewFile(r.disk) : p = Outcome(q.disk, r.failed \cup q.failed)
        BY <4>1 DEF Then
      <4>3. Keeps(d, r, n) /\ r.disk = d
        BY NothingKeeps
      <4>4. Keeps(r.disk, q, n) /\ (q.failed \cap Bad = {} => q.disk.open)
        BY <4>3, OpenKeeps
      <4>5. Keeps(d, p, n) /\ Sums(p, r, q)
        BY <4>2, <4>3, <4>4, KeepsBoth
      <4> QED BY <4>4, <4>5, Zenon DEF Sums
    <3> QED BY <3>2, <3>3
  <2> QED BY <2>1, <2>2
<1>3. ASSUME NEW e, Begun(e), NEW p \in RollFull(e)
      PROVE  Keeps(e, p, n) /\ (e.open /\ p.failed \cap Bad = {} => p.disk.open)
  <2>1. CASE e.open /\ Len(e.file) >= RollSize
    BY <1>1, <1>3, <2>1
  <2>2. CASE ~(e.open /\ Len(e.file) >= RollSize)
    <3>1. p = Outcome(e, {})
      BY <1>3, <2>2
    <3> QED BY <3>1, <1>3, NothingKeeps
  <2> QED BY <2>1, <2>2
<1>0. CheckFile(d) = Then(dated, RollFull)
  BY DEF CheckFile
<1> HIDE DEF dated, RollFull
<1>4. PICK p \in dated : \E q \in RollFull(p.disk) : o = Outcome(q.disk, p.failed \cup q.failed)
  BY <1>0 DEF Then
<1>5. PICK q \in RollFull(p.disk) : o = Outcome(q.disk, p.failed \cup q.failed)
  BY <1>4
<1>6. Keeps(d, p, n) /\ (p.failed \cap Bad = {} => p.disk.open)
  BY <1>2
<1>7. Begun(p.disk)
  BY <1>6 DEF Keeps
<1>8. Keeps(p.disk, q, n) /\ (p.disk.open /\ q.failed \cap Bad = {} => q.disk.open)
  BY <1>3, <1>7
<1>9. Keeps(d, o, n) /\ Sums(o, p, q)
  <2>1. Keeps(d, p, n) /\ Keeps(p.disk, q, n)
    BY <1>6, <1>8, Zenon
  <2> QED BY <1>5, <2>1, KeepsBoth, SMTT(30)
<1> QED BY <1>6, <1>8, <1>9, Zenon DEF Sums

\* A line written to an open file is its last.
LEMMA WriteKeeps ==
    ASSUME clock \in 1..MaxNow, NEW d, Begun(d), NEW n \in Nat, NEW o \in WriteString(d, n + 1)
    PROVE  /\ Begun(o.disk)
           /\ d.open /\ o.failed \cap Bad = {} =>
                 o.disk.open /\ (HoldsUpTo(d, n) => HoldsUpTo(o.disk, n + 1))
           /\ d.open /\ o.failed \subseteq {"open roll"} /\ FilesUpTo(d, n) => FilesUpTo(o.disk, n + 1)
<1>1. MaxNow \in Nat /\ d \in Disks /\ d.file \in Seq(Nat)
  BY LogAssumption DEF Begun, Disks
<1>2. CASE ~d.open
  <2>1. o = Outcome(d, {})
    BY <1>2 DEF WriteString
  <2> QED BY <2>1, <1>2 DEF Outcome
<1>3. ASSUME d.open, o = Outcome([d EXCEPT !.file = Append(@, n + 1)], {})
      PROVE  Begun(o.disk) /\ o.disk.open /\ (HoldsUpTo(d, n) => HoldsUpTo(o.disk, n + 1))
             /\ (FilesUpTo(d, n) => FilesUpTo(o.disk, n + 1))
  <2> DEFINE longer == Append(d.file, n + 1)
             e == [d EXCEPT !.file = longer]
  <2>1. longer \in Seq(Nat) /\ Len(longer) = Len(d.file) + 1 /\ longer[Len(d.file) + 1] = n + 1
        /\ \A i \in 1..Len(d.file) : longer[i] = d.file[i]
    BY <1>1
  <2>2. o.disk = e
    BY <1>3 DEF Outcome
  <2> HIDE DEF longer
  <2>3. e \in Disks
    <3> DEFINE R == [1..MaxNow -> Seq(Nat)]
               S == 0..MaxNow
    <3>1. d \in [open : BOOLEAN, since : S, file : Seq(Nat), rolled : R]
      BY <1>1 DEF Disks
    <3> HIDE DEF R, S
    <3>2. e \in [open : BOOLEAN, since : S, file : Seq(Nat), rolled : R]
      BY <2>1, <3>1
    <3> QED BY <3>2 DEF R, S, Disks
  <2>4. e.open = d.open
    BY <1>1 DEF Disks
  <2>5. e.file = longer /\ e.since = d.since
    BY <1>1 DEF Disks
  <2>6. e.rolled = d.rolled
    BY <1>1 DEF Disks
  <2> HIDE DEF e
  <2>7. Begun(e)
    BY <2>3, <2>4, <2>5, <2>6, <1>3 DEF Begun
  <2>8. ASSUME HoldsUpTo(d, n), NEW line \in 1..n + 1 PROVE HeldIn(e, line)
    <3>1. CASE line = n + 1
      <4>1. line \in Range(longer)
        <5>1. Len(d.file) + 1 \in DOMAIN longer
          BY <2>1, <1>1
        <5> QED BY <5>1, <2>1, <3>1 DEF Range
      <4> QED BY <4>1, <2>3, <2>5, HeldWhere
    <3>2. CASE line # n + 1
      <4>1. HeldIn(d, line)
        BY <2>8, <3>2 DEF HoldsUpTo
      <4>2. Range(d.file) \subseteq Range(longer)
        <5>1. DOMAIN d.file = 1..Len(d.file) /\ DOMAIN d.file \subseteq DOMAIN longer
          BY <1>1, <2>1
        <5> QED BY <5>1, <2>1, Zenon DEF Range
      <4> QED BY <4>1, <4>2, <1>1, <2>3, <2>5, <2>6, HeldWhere
    <3> QED BY <3>1, <3>2
  <2>9. ASSUME FilesUpTo(d, n) PROVE FilesUpTo(e, n + 1)
    <3> DEFINE F == Files(d)
               G == Files(e)
               M == MaxNow + 1
    <3>1. DOMAIN F = 1..M /\ DOMAIN G = 1..M /\ F[M] = d.file /\ G[M] = longer
          /\ \A s \in 1..MaxNow : G[s] = F[s]
      <4>1. DOMAIN F = 1..M /\ F[M] = d.file /\ \A s \in 1..MaxNow : F[s] = d.rolled[s]
        BY <1>1, FilesOf, Zenon
      <4>2. DOMAIN G = 1..M /\ G[M] = e.file /\ \A s \in 1..MaxNow : G[s] = e.rolled[s]
        BY <2>3, FilesOf, Zenon
      <4> QED BY <2>5, <2>6, <4>1, <4>2, Zenon
    <3>2. InOrder(d) /\ \A s \in DOMAIN F : Range(F[s]) \subseteq 1..n
      BY <2>9 DEF FilesUpTo
    <3>3. \A s \in DOMAIN F : F[s] \in Seq(Nat)
      BY <1>1, FilesOf
    <3>4. \A s, t \in DOMAIN F : \A i \in DOMAIN F[s], j \in DOMAIN F[t] :
             s < t \/ (s = t /\ i < j) => F[s][i] < F[t][j]
      BY <3>2 DEF InOrder
    <3> HIDE DEF F, G
    \* What was there, and the new line after it.
    <3>5. ASSUME NEW s \in 1..M, NEW i \in DOMAIN G[s]
          PROVE  \/ i \in DOMAIN F[s] /\ G[s][i] = F[s][i] /\ F[s][i] \in 1..n
                 \/ s = M /\ i = Len(d.file) + 1 /\ G[s][i] = n + 1
      <4>1. CASE s = M
        <5>1. i \in 1..Len(d.file) + 1
          BY <3>1, <3>5, <4>1, <2>1
        <5>2. CASE i = Len(d.file) + 1
          BY <5>2, <3>1, <4>1, <2>1
        <5>3. CASE i # Len(d.file) + 1
          <6>1. i \in DOMAIN F[s] /\ G[s][i] = F[s][i]
            <7>1. i \in 1..Len(d.file)
              BY <5>1, <5>3, <1>1
            <7>2. DOMAIN d.file = 1..Len(d.file)
              BY <1>1
            <7>3. F[s] = d.file /\ G[s] = longer
              BY <3>1, <4>1
            <7> QED BY <7>1, <7>2, <7>3, <2>1, Zenon
          <6> QED BY <6>1, <3>1, <3>2 DEF Range
        <5> QED BY <5>2, <5>3
      <4>2. CASE s # M
        <5>1. s \in 1..MaxNow
          BY <4>2, <3>5, <1>1
        <5>2. G[s] = F[s]
          BY <5>1, <3>1
        <5> QED BY <5>2, <3>1, <3>2, <3>5 DEF Range
      <4> QED BY <4>1, <4>2
    <3>6. ASSUME NEW s \in 1..M, NEW t \in 1..M, NEW i \in DOMAIN G[s], NEW j \in DOMAIN G[t],
                 s < t \/ (s = t /\ i < j)
          PROVE  G[s][i] < G[t][j]
      <4>1. CASE j \in DOMAIN F[t] /\ G[t][j] = F[t][j] /\ F[t][j] \in 1..n
        <5>1. i \in DOMAIN F[s] /\ G[s][i] = F[s][i]
          <6>1. SUFFICES ASSUME s = M, i = Len(d.file) + 1 PROVE FALSE
            BY <3>5
          <6>2. t = M /\ i < j
            BY <6>1, <3>6, <1>1
          <6>3. j \in 1..Len(d.file)
            BY <6>2, <4>1, <3>1, <1>1
          <6> QED BY <6>1, <6>2, <6>3, <1>1
        <5> QED BY <4>1, <5>1, <3>1, <3>4, <3>6
      <4>2. CASE t = M /\ j = Len(d.file) + 1 /\ G[t][j] = n + 1
        <5>1. ~(s = M /\ i = Len(d.file) + 1)
          BY <4>2, <3>6, <1>1
        <5>2. G[s][i] \in 1..n
          BY <5>1, <3>5
        <5> QED BY <4>2, <5>2
      <4> QED BY <4>1, <4>2, <3>5
    <3>7. ASSUME NEW s \in 1..M PROVE Range(G[s]) \subseteq 1..n + 1
      BY <3>5 DEF Range
    <3> QED BY <3>1, <3>6, <3>7 DEF FilesUpTo, InOrder, G
  <2> QED BY <2>2, <2>4, <2>7, <2>8, <2>9, <1>3 DEF HoldsUpTo
<1>4. ASSUME d.open,
             NEW p \in OpenNewFile([d EXCEPT !.open = FALSE]), o = Outcome(p.disk, p.failed \cup {"write"})
      PROVE  Begun(o.disk) /\ o.failed \cap Bad # {} /\ ~(o.failed \subseteq {"open roll"})
  <2> DEFINE e == [d EXCEPT !.open = FALSE]
  <2>1. e \in Disks /\ ~e.open
    <3> DEFINE R == [1..MaxNow -> Seq(Nat)]
               S == 0..MaxNow
    <3>1. d \in [open : BOOLEAN, since : S, file : Seq(Nat), rolled : R]
      BY <1>1 DEF Disks
    <3> HIDE DEF R, S
    <3>2. e \in [open : BOOLEAN, since : S, file : Seq(Nat), rolled : R] /\ ~e.open
      BY <3>1
    <3> QED BY <3>2 DEF R, S, Disks
  <2>2. e.since = d.since
    BY <1>1 DEF Disks
  <2>3. e.rolled = d.rolled
    BY <1>1 DEF Disks
  <2>4. p \in OpenNewFile(e)
    BY <1>4
  <2> HIDE DEF e
  <2>5. Begun(e)
    BY <2>1, <2>2, <2>3 DEF Begun
  <2>6. Begun(p.disk)
    BY <2>4, <2>5, OpenKeeps DEF Keeps
  <2> QED BY <1>4, <2>6 DEF Outcome, Bad
<1>5. d.open => \/ o = Outcome([d EXCEPT !.file = Append(@, n + 1)], {})
                \/ \E p \in OpenNewFile([d EXCEPT !.open = FALSE]) :
                      o = Outcome(p.disk, p.failed \cup {"write"})
  BY DEF WriteString
<1> QED BY <1>2, <1>3, <1>4, <1>5

LEMMA TailInLine ==
    ASSUME NEW c \in Seq(Nat), c # <<>>, NEW n \in Nat, NEW m \in Nat, InLine(c, n, m)
    PROVE  /\ Tail(c) \in Seq(Nat) /\ Head(c) \in Nat
           /\ Head(c) # 0 => Head(c) = n + 1 /\ InLine(Tail(c), n + 1, m)
<1>1. PICK L \in Nat : Len(c) = L /\ L # 0 /\ DOMAIN c = 1..L
  <2>1. Len(c) \in Nat /\ Len(c) # 0 /\ DOMAIN c = 1..Len(c)
    OBVIOUS
  <2> QED BY <2>1
<1>2. Head(c) = c[1] /\ Tail(c) \in Seq(Nat) /\ Head(c) \in Nat /\ Len(Tail(c)) = L - 1
  <2>1. Head(c) = c[1]
    OBVIOUS
  <2> QED BY <2>1, <1>1, HeadTailProperties
<1>3. DOMAIN Tail(c) = 1..L - 1
  BY <1>2
<1>4. \A i \in 1..L - 1 : Tail(c)[i] = c[i + 1]
  BY <1>2, HeadTailProperties
<1>5. PICK rest : rest = Tail(c)
  OBVIOUS
<1>6. /\ Len(rest) = L - 1 /\ DOMAIN rest = 1..L - 1 /\ \A i \in 1..L - 1 : rest[i] = c[i + 1]
  BY <1>2, <1>3, <1>4, <1>5
<1>7. ASSUME c[1] # 0 PROVE c[1] = n + 1 /\ InLine(rest, n + 1, m)
  <2>1. c[1] = n + 1
    BY <1>1, <1>7 DEF InLine
  <2>2. ASSUME NEW i \in 1..L - 1, \A j \in 1..i : rest[j] # 0 PROVE rest[i] = (n + 1) + i
    <3>1. ASSUME NEW j \in 1..i + 1 PROVE c[j] # 0
      <4>1. CASE j = 1
        BY <4>1, <1>7
      <4>2. CASE j # 1
        <5>1. j - 1 \in 1..i /\ j - 1 \in 1..L - 1 /\ (j - 1) + 1 = j
          BY <2>2, <3>1, <4>2, <1>1
        <5>2. rest[j - 1] = c[j]
          BY <5>1, <1>6
        <5> QED BY <5>1, <5>2, <2>2
      <4> QED BY <4>1, <4>2
    <3>2. i + 1 \in DOMAIN c
      BY <1>1
    <3>3. c[i + 1] = n + (i + 1)
      BY <3>1, <3>2 DEF InLine
    <3> QED BY <3>3, <1>6
  <2>3. ASSUME \A j \in 1..L - 1 : rest[j] # 0 PROVE m = (n + 1) + (L - 1)
    <3>1. ASSUME NEW j \in DOMAIN c PROVE c[j] # 0
      <4>1. CASE j = 1
        BY <4>1, <1>7
      <4>2. CASE j # 1
        <5>1. j - 1 \in 1..L - 1 /\ (j - 1) + 1 = j
          BY <3>1, <4>2, <1>1
        <5>2. rest[j - 1] = c[j]
          BY <5>1, <1>6
        <5> QED BY <5>1, <5>2, <2>3
      <4> QED BY <4>1, <4>2
    <3>2. m = n + Len(c)
      BY <3>1 DEF InLine
    <3> QED BY <3>2, <1>1
  <2> QED BY <2>1, <2>2, <2>3, <1>6 DEF InLine
<1> QED BY <1>2, <1>5, <1>7

LEMMA AppendInLine ==
    ASSUME NEW c \in Seq(Nat), NEW n \in Nat, NEW m \in Nat, InLine(c, n, m)
    PROVE  InLine(Append(c, m + 1), n, m + 1) /\ InLine(Append(c, 0), n, m)
<1>1. PICK L \in Nat : Len(c) = L /\ DOMAIN c = 1..L
  <2>1. Len(c) \in Nat /\ DOMAIN c = 1..Len(c)
    OBVIOUS
  <2> QED BY <2>1
<1>2. ASSUME NEW x \in Nat
      PROVE  /\ Len(Append(c, x)) = L + 1 /\ DOMAIN Append(c, x) = 1..L + 1
             /\ Append(c, x)[L + 1] = x /\ \A i \in 1..L : Append(c, x)[i] = c[i]
  BY <1>1
<1>3. ASSUME NEW x \in Nat, NEW last \in Nat, (x = 0 /\ last = m) \/ (x = m + 1 /\ last = m + 1),
             NEW d, Len(d) = L + 1, DOMAIN d = 1..L + 1, d[L + 1] = x, \A i \in 1..L : d[i] = c[i]
      PROVE  InLine(d, n, last)
  <2>1. ASSUME NEW i \in 1..L + 1, \A j \in 1..i : d[j] # 0 PROVE d[i] = n + i
    <3>1. CASE i = L + 1
      <4>1. \A j \in DOMAIN c : c[j] # 0
        BY <1>1, <1>3, <2>1, <3>1
      <4>2. m = n + L
        BY <4>1, <1>1 DEF InLine
      <4>3. d[i] = m + 1
        BY <1>3, <2>1, <3>1
      <4> QED BY <4>2, <4>3, <3>1
    <3>2. CASE i # L + 1
      <4>1. i \in 1..L /\ \A j \in 1..i : j \in 1..L /\ c[j] # 0
        BY <1>3, <2>1, <3>2
      <4> QED BY <4>1, <1>1, <1>3 DEF InLine
    <3> QED BY <3>1, <3>2
  <2>2. ASSUME \A j \in 1..L + 1 : d[j] # 0 PROVE last = n + (L + 1)
    <3>1. last = m + 1
      <4>1. d[L + 1] # 0
        BY <2>2
      <4> QED BY <4>1, <1>3
    <3>2. \A j \in DOMAIN c : c[j] # 0
      BY <1>1, <1>3, <2>2
    <3>3. m = n + L
      BY <3>2, <1>1 DEF InLine
    <3> QED BY <3>1, <3>3
  <2> QED BY <2>1, <2>2, <1>3 DEF InLine
<1>4. InLine(Append(c, m + 1), n, m + 1)
  <2>1. m + 1 \in Nat
    OBVIOUS
  <2> QED BY <2>1, <1>2, <1>3
<1>5. InLine(Append(c, 0), n, m)
  BY <1>2, <1>3
<1> QED BY <1>4, <1>5

LEMMA ClockEnds == MaxNow \in Nat \ {0}
BY LogAssumption

LEMMA LogStart == LogInit => LogInv
<1> SUFFICES ASSUME LogInit PROVE LogInv
  OBVIOUS
<1>1. MaxNow \in Nat /\ 1 \in 1..MaxNow
  BY LogAssumption
<1>2. disk.rolled \in [1..MaxNow -> Seq(Nat)] /\ \A s \in 1..MaxNow : disk.rolled[s] = <<>>
  BY DEF LogInit
<1>3. disk.file = <<>> /\ disk.since = 0 /\ ~disk.open
  BY DEF LogInit
<1>4. disk \in Disks
  BY <1>1 DEF LogInit, Disks
<1>5. LogTypes
  BY <1>1, <1>2, <1>3, <1>4 DEF LogInit, LogTypes, Begun
<1>6. LinesInLine /\ FileIsOpen /\ HoldsUpTo(disk, taken)
  BY DEF LogInit, LinesInLine, InLine, FileIsOpen, HoldsUpTo
<1>7. \A s \in DOMAIN Files(disk) : Files(disk)[s] = <<>>
  <2> DEFINE F == Files(disk)
  <2>1. DOMAIN F = 1..MaxNow + 1 /\ F[MaxNow + 1] = disk.file /\ \A s \in 1..MaxNow : F[s] = disk.rolled[s]
    BY <1>4, FilesOf
  <2> HIDE DEF F
  <2>2. \A s \in DOMAIN F : s = MaxNow + 1 \/ s \in 1..MaxNow
    BY <2>1, <1>1
  <2>3. \A s \in DOMAIN F : F[s] = <<>>
    BY <2>1, <2>2, <1>2, <1>3
  <2> QED BY <2>3 DEF F
<1>8. FilesUpTo(disk, taken)
  BY <1>7 DEF FilesUpTo, InOrder, Range
<1> QED BY <1>5, <1>6, <1>8 DEF LogInv

\* A line is taken: the next one, or the empty one that ends the process.
LEMMA TaskKeeps == LogInv /\ doLogTask => LogInv'
<1> SUFFICES ASSUME LogInv, doLogTask PROVE LogInv'
  OBVIOUS
<1> DEFINE line == Head(ch)
           Write(d) == IF line = 0 THEN {Outcome(d, {})} ELSE WriteString(d, line)
<1>1. PICK o \in Then(CheckFile(disk), Write) : disk' = o.disk /\ failed' = failed \cup o.failed
  BY DEF doLogTask
<1>2. PICK p \in CheckFile(disk) :
         \E q \in Write(p.disk) : o = Outcome(q.disk, p.failed \cup q.failed)
  BY DEF Then
<1>3. PICK q \in Write(p.disk) : o = Outcome(q.disk, p.failed \cup q.failed)
  BY <1>2
<1>4. /\ process = "up" /\ ch # <<>> /\ ch' = Tail(ch) /\ clock' = clock /\ printed' = printed
      /\ taken' = IF line = 0 THEN taken ELSE line
      /\ process' = IF line = 0 THEN "exited" ELSE process
  BY DEF doLogTask
<1>5. disk' = q.disk /\ failed' = failed \cup p.failed \cup q.failed
  BY <1>1, <1>3 DEF Outcome
<1>6. /\ clock \in 1..MaxNow /\ taken \in Nat /\ printed \in Nat /\ ch \in Seq(Nat) /\ Begun(disk)
      /\ LinesInLine /\ FileIsOpen
  BY <1>4 DEF LogInv, LogTypes
<1>7. Keeps(disk, p, taken) /\ (p.failed \cap Bad = {} => p.disk.open)
  BY <1>6, CheckKeeps
<1>8. Begun(p.disk)
  BY <1>7 DEF Keeps
<1>9. ch' \in Seq(Nat) /\ line \in Nat
      /\ (line # 0 => line = taken + 1 /\ InLine(ch', taken + 1, printed))
  BY <1>4, <1>6, TailInLine DEF LinesInLine
\* Begun reads the clock, which stands still.
<1>10. ASSUME Begun(q.disk) PROVE Begun(disk)'
  BY <1>4, <1>5, <1>10 DEF Begun
<1>11. /\ HoldsUpTo(q.disk, taken') => HoldsUpTo(disk, taken)'
       /\ FilesUpTo(q.disk, taken') => FilesUpTo(disk, taken)'
  <2>1. Files(q.disk) = Files(disk)'
    BY <1>5 DEF Files
  <2> QED BY <2>1 DEF HoldsUpTo, FilesUpTo, InOrder, HeldIn
<1>12. /\ failed' \cap Bad = {} => failed \cap Bad = {} /\ p.failed \cap Bad = {} /\ q.failed \cap Bad = {}
       /\ failed' \subseteq {"open roll"} =>
             failed \subseteq {"open roll"} /\ p.failed \subseteq {"open roll"} /\ q.failed \subseteq {"open roll"}
  BY <1>5
<1>13. /\ p.failed \subseteq {"open roll"} => p.failed \cap Bad = {}
       /\ q.failed \subseteq {"open roll"} => q.failed \cap Bad = {}
  BY DEF Bad
<1>14. /\ failed' \cap Bad = {} => HoldsUpTo(p.disk, taken) /\ p.disk.open
       /\ failed' \subseteq {"open roll"} => FilesUpTo(p.disk, taken) /\ p.disk.open
  BY <1>7, <1>12, <1>13 DEF Keeps, LogInv
<1>15. CASE line = 0
  <2>1. q = Outcome(p.disk, {}) /\ taken' = taken /\ process' = "exited"
    BY <1>3, <1>4, <1>15
  <2>2. q.disk = p.disk
    BY <2>1 DEF Outcome
  <2>3. LogTypes'
    <3>1. Begun(disk)'
      BY <2>2, <1>8, <1>10
    <3> QED BY <3>1, <2>1, <1>4, <1>6, <1>8, <1>9, <1>10 DEF LogTypes
  <2> QED BY <2>1, <2>2, <2>3, <1>11, <1>14 DEF LogInv, Bad
<1>16. CASE line # 0
  <2>1. line = taken + 1 /\ taken' = taken + 1 /\ process' = "up"
    BY <1>4, <1>9, <1>16
  <2>2. q \in WriteString(p.disk, taken + 1)
    BY <1>3, <1>16, <2>1
  <2>3. /\ Begun(q.disk)
        /\ p.disk.open /\ q.failed \cap Bad = {} =>
              q.disk.open /\ (HoldsUpTo(p.disk, taken) => HoldsUpTo(q.disk, taken + 1))
        /\ p.disk.open /\ q.failed \subseteq {"open roll"} /\ FilesUpTo(p.disk, taken)
              => FilesUpTo(q.disk, taken + 1)
    BY <2>2, <1>6, <1>8, WriteKeeps
  <2>4. LogTypes'
    <3>1. Begun(disk)'
      BY <2>3, <1>10
    <3> QED BY <3>1, <2>1, <2>3, <1>4, <1>6, <1>9, <1>10 DEF LogTypes
  <2>5. LinesInLine'
    BY <2>1, <1>4, <1>9, <1>16 DEF LinesInLine
  <2>6. FileIsOpen'
    BY <2>3, <1>5, <1>12, <1>14 DEF FileIsOpen
  <2> QED BY <2>1, <2>3, <2>4, <2>5, <2>6, <1>11, <1>12, <1>14 DEF LogInv, Bad
<1> QED BY <1>15, <1>16

\* Nothing else touches the files.
LEMMA ElseKeeps ==
    ASSUME LogInv, clock' \in clock..MaxNow, UNCHANGED <<disk, taken, failed>>,
           process' \in {process, "crashed", "exited"}, printed' \in Nat, ch' \in Seq(Nat),
           LinesInLine => LinesInLine'
    PROVE  LogInv'
<1>0. LogTypes
  BY Zenon DEF LogInv
<1>1. clock \in Nat /\ clock' \in Nat /\ clock' \in 1..MaxNow /\ clock <= clock'
  <2>1. clock \in 1..MaxNow
    BY <1>0 DEF LogTypes
  <2> QED BY <2>1, ClockEnds
<1>2. Begun(disk)'
  <2>1. disk \in Disks /\ Begun(disk)
    BY <1>0 DEF LogTypes, Begun
  <2>2. disk.since \in Nat /\ disk.since <= clock
    BY <2>1, ClockEnds DEF Begun, Disks
  <2>3. disk.since <= clock'
    BY <1>1, <2>2
  <2> QED BY <2>1, <2>3 DEF Begun
<1>3. LogTypes'
  BY <1>0, <1>1, <1>2 DEF LogTypes
<1>4. HoldsUpTo(disk, taken)' <=> HoldsUpTo(disk, taken)
  BY DEF HoldsUpTo, HeldIn, Files
<1>5. FilesUpTo(disk, taken)' <=> FilesUpTo(disk, taken)
  BY DEF FilesUpTo, InOrder, Files
<1> QED BY <1>3, <1>4, <1>5 DEF LogInv, FileIsOpen, Bad

LEMMA LogKeeps == LogInv /\ [LogNext]_logVars => LogInv'
<1> SUFFICES ASSUME LogInv, [LogNext]_logVars PROVE LogInv'
  OBVIOUS
<1>1. /\ MaxNow \in Nat /\ clock \in 1..MaxNow /\ clock \in clock..MaxNow
      /\ printed \in Nat /\ taken \in Nat /\ ch \in Seq(Nat)
  <2>1. LogTypes
    BY Zenon DEF LogInv
  <2>2. clock \in 1..MaxNow
    BY <2>1 DEF LogTypes
  <2>3. clock \in clock..MaxNow
    BY <2>2, ClockEnds
  <2> QED BY <2>1, <2>2, <2>3, ClockEnds DEF LogTypes
<1>2. CASE UNCHANGED logVars
  <2>1. clock' \in clock..MaxNow /\ UNCHANGED <<disk, taken, failed>> /\ process' = process
        /\ printed' \in Nat /\ ch' \in Seq(Nat) /\ (LinesInLine => LinesInLine')
    BY <1>1, <1>2 DEF logVars, LinesInLine
  <2> QED BY <2>1, ElseKeeps
<1>3. ASSUME NEW isFatal \in BOOLEAN, doPrintf(isFatal) PROVE LogInv'
  <2>1. clock' \in clock..MaxNow /\ UNCHANGED <<disk, taken, failed>>
        /\ process' \in {process, "crashed", "exited"}
    BY <1>1, <1>3 DEF doPrintf
  <2>2. CASE ch' = Append(ch, printed + 1) /\ printed' = printed + 1
    <3>1. ch' \in Seq(Nat) /\ printed' \in Nat
      BY <1>1, <2>2
    <3>2. LinesInLine => LinesInLine'
      BY <1>1, <2>1, <2>2, AppendInLine DEF LinesInLine
    <3> QED BY <2>1, <3>1, <3>2, ElseKeeps
  <2>3. CASE UNCHANGED <<ch, printed>>
    <3>1. printed' \in Nat /\ ch' \in Seq(Nat) /\ (LinesInLine => LinesInLine')
      BY <1>1, <2>1, <2>3 DEF LinesInLine
    <3> QED BY <2>1, <3>1, ElseKeeps
  <2> QED BY <1>3, <2>2, <2>3 DEF doPrintf
<1>4. CASE FatalEnds
  <2>1. clock' \in clock..MaxNow /\ UNCHANGED <<disk, taken, failed, printed>>
        /\ process' \in {process, "crashed", "exited"} /\ printed' \in Nat
    BY <1>1, <1>4 DEF FatalEnds
  <2>2. CASE ch' = Append(ch, 0)
    <3>1. ch' \in Seq(Nat)
      BY <1>1, <2>2
    <3>2. LinesInLine => LinesInLine'
      BY <1>1, <2>1, <2>2, AppendInLine DEF LinesInLine
    <3> QED BY <2>1, <3>1, <3>2, ElseKeeps
  <2>3. CASE UNCHANGED ch
    <3>1. ch' \in Seq(Nat) /\ (LinesInLine => LinesInLine')
      BY <1>1, <2>1, <2>3 DEF LinesInLine
    <3> QED BY <2>1, <3>1, ElseKeeps
  <2> QED BY <1>4, <2>2, <2>3 DEF FatalEnds
<1>5. CASE Close \/ LogEnds \/ TimePasses
  <2>1. clock' \in clock..MaxNow
    BY <1>1, <1>5 DEF Close, LogEnds, TimePasses
  <2>2. UNCHANGED <<disk, taken, failed, printed, ch>> /\ process' \in {process, "crashed", "exited"}
    BY <1>5 DEF Close, LogEnds, TimePasses
  <2>3. printed' \in Nat /\ ch' \in Seq(Nat) /\ (LinesInLine => LinesInLine')
    BY <1>1, <2>2 DEF LinesInLine
  <2> QED BY <2>1, <2>2, <2>3, ElseKeeps
<1>6. CASE doLogTask
  BY <1>6, TaskKeeps
<1> QED BY <1>2, <1>3, <1>4, <1>5, <1>6 DEF LogNext

\* Every line that is taken is in a file, in order and once each, unless an operation
\* has failed that loses it; for any channel, days and sizes of files.
THEOREM TakenLinesAreKept == LogSpec => []LinesAreKept
<1>1. LogInv => LinesAreKept
  BY DEF LogInv, LinesAreKept, HoldsUpTo, FilesUpTo, Bad
<1> QED BY <1>1, LogStart, LogKeeps, PTL DEF LogSpec

-----------------------------------------------------------------------------
(* The word filter. *)

\* The library's induction takes an operator; over sets of numbers it does not.
LEMMA SetLess == OpToRel(<, Nat) = {ss \in Nat \X Nat : ss[1] < ss[2]}
BY DEF OpToRel

\* A set of numbers has a least one.
LEMMA MinExists ==
    ASSUME NEW T \in SUBSET Nat, T # {}
    PROVE  \E x \in T : \A y \in T : x <= y
<1> DEFINE R == {ss \in Nat \X Nat : ss[1] < ss[2]}
<1>1. IsWellFoundedOn(R, Nat)
  BY NatLessThanWellFounded, SetLess, Zenon
<1>2. \A x, y \in Nat : <<y, x>> \notin R => x <= y
  <2> TAKE x, y \in Nat
  <2>1. <<y, x>> \in Nat \X Nat /\ <<y, x>>[1] = y /\ <<y, x>>[2] = x
    OBVIOUS
  <2>2. y < x => <<y, x>> \in R
    BY <2>1, Zenon
  <2> HIDE DEF R
  <2> QED BY <2>2
<1> HIDE DEF R
<1>3. \E x \in T : \A y \in T : ~ (<<y, x>> \in R)
  BY <1>1, WFMin, Zenon
<1> QED BY <1>2, <1>3, Zenon

\* Induction, with the set of the numbers it holds of.
LEMMA Induct ==
    ASSUME NEW T \in SUBSET Nat, 0 \in T, \A n \in T : n + 1 \in T
    PROVE  T = Nat
<1>1. SUFFICES ASSUME Nat \ T # {} PROVE FALSE
  OBVIOUS
<1>2. PICK x \in Nat \ T : \A y \in Nat \ T : x <= y
  BY <1>1, MinExists
<1>3. x - 1 \in T
  BY <1>2
<1> QED BY <1>2, <1>3

\* One scan from the i-th character of t as far as the n-th.
Goes(node, c) == IF Append(node, c) \in Nodes THEN Append(node, c) ELSE node
Scans(f, t, i, n) ==
    /\ f \in [i..n -> Seq(Chars)]
    /\ f[i] = <<t[i]>>
    /\ \A j \in i + 1..n : f[j] = Goes(f[j - 1], t[j])

\* There is such a scan: Walk's definition by recursion has a meaning.
LEMMA ScanExists ==
    ASSUME NEW t \in Seq(Chars), NEW i \in 1..Len(t)
    PROVE  \E f : Scans(f, t, i, Len(t))
<1> DEFINE T == {n \in Nat : i + n <= Len(t) => \E f : Scans(f, t, i, i + n)}
<1>0. i \in Nat /\ Len(t) \in Nat /\ \A j \in 1..Len(t) : t[j] \in Chars
  BY ElementOfSeq, LenProperties
<1>1. 0 \in T
  <2> DEFINE f == [j \in i..i |-> <<t[i]>>]
  <2>1. f \in [i..i -> Seq(Chars)] /\ f[i] = <<t[i]>>
    BY <1>0
  <2>2. Scans(f, t, i, i)
    BY <2>1, <1>0 DEF Scans
  <2>3. \E g : Scans(g, t, i, i)
    BY <2>2
  <2>4. i + 0 = i
    BY <1>0
  <2> QED BY <2>3, <2>4
<1>2. ASSUME NEW n \in T PROVE n + 1 \in T
  <2>1. SUFFICES ASSUME i + (n + 1) <= Len(t)
                 PROVE  \E f : Scans(f, t, i, i + (n + 1))
    BY <1>2
  <2>2. PICK f : Scans(f, t, i, i + n)
    BY <1>0, <1>2, <2>1
  <2> DEFINE k == i + (n + 1)
             g == [j \in i..k |-> IF j = k THEN Goes(f[k - 1], t[k]) ELSE f[j]]
  <2>3. n \in Nat /\ k \in i + 1..Len(t) /\ k - 1 = i + n /\ t[k] \in Chars
    BY <1>0, <1>2, <2>1
  <2> HIDE DEF k
  <2>4. f[k - 1] \in Seq(Chars)
    BY <2>2, <2>3, <1>0 DEF Scans
  <2>5. Goes(f[k - 1], t[k]) \in Seq(Chars)
    BY <2>3, <2>4, AppendProperties DEF Goes
  <2>6. \A j \in i..k - 1 : f[j] \in Seq(Chars)
    BY <2>2, <2>3, <1>0 DEF Scans
  <2>7. /\ g \in [i..k -> Seq(Chars)] /\ g[k] = Goes(f[k - 1], t[k])
        /\ \A j \in i..k - 1 : g[j] = f[j]
    <3>1. \A j \in i..k : (IF j = k THEN Goes(f[k - 1], t[k]) ELSE f[j]) \in Seq(Chars)
      BY <2>3, <2>5, <2>6, <1>0
    <3>2. k \in i..k /\ \A j \in i..k - 1 : j \in i..k /\ j # k
      BY <2>3, <1>0
    <3> QED BY <3>1, <3>2, Zenon
  <2> HIDE DEF g
  <2>8. g[k] = Goes(g[k - 1], t[k]) /\ g[i] = <<t[i]>>
    BY <2>2, <2>3, <2>7, <1>0 DEF Scans
  <2>9. ASSUME NEW j \in i + 1..k PROVE g[j] = Goes(g[j - 1], t[j])
    <3>1. CASE j = k
      BY <2>8, <3>1
    <3>2. CASE j # k
      <4>1. j \in i + 1..i + n /\ j - 1 \in i..k - 1 /\ j \in i..k - 1
        BY <2>3, <1>0, <3>2
      <4> QED BY <2>2, <2>7, <4>1 DEF Scans
    <3> QED BY <3>1, <3>2
  <2>10. Scans(g, t, i, k)
    BY <2>3, <2>7, <2>8, <2>9, <1>0 DEF Scans
  <2> QED BY <2>10 DEF k
<1> HIDE DEF T
<1>3. T = Nat
  BY <1>1, <1>2, Induct DEF T
<1>4. Len(t) - i \in T /\ i + (Len(t) - i) = Len(t)
  BY <1>0, <1>3
<1> QED BY <1>0, <1>4 DEF T

\* A scan goes down sequences of characters.
LEMMA ScansTyped ==
    ASSUME NEW t \in Seq(Chars), NEW i \in 1..Len(t), NEW f,
           f[i] = <<t[i]>>,
           \A j \in i + 1..Len(t) : f[j] = Goes(f[j - 1], t[j])
    PROVE  \A j \in i..Len(t) : f[j] \in Seq(Chars)
<1>0. i \in Nat /\ Len(t) \in Nat /\ \A j \in 1..Len(t) : t[j] \in Chars
  BY ElementOfSeq, LenProperties
<1> DEFINE T == {n \in Nat : \A j \in i..Len(t) : j = i + n => f[j] \in Seq(Chars)}
<1>6. 0 \in T
  <2>1. t[i] \in Chars /\ \A j \in i..Len(t) : j = i + 0 => j = i
    BY <1>0
  <2>2. f[i] \in Seq(Chars)
    BY <2>1
  <2> QED BY <2>1, <2>2
<1>7. ASSUME NEW n \in T PROVE n + 1 \in T
  <2>1. SUFFICES ASSUME NEW j \in i..Len(t), j = i + (n + 1) PROVE f[j] \in Seq(Chars)
    BY <1>7
  <2>2. n \in Nat /\ j \in i + 1..Len(t) /\ j - 1 = i + n /\ j - 1 \in i..Len(t)
    BY <1>0, <1>7, <2>1
  <2>3. f[j - 1] \in Seq(Chars)
    BY <1>7, <2>2
  <2>4. t[j] \in Chars /\ f[j] = Goes(f[j - 1], t[j])
    BY <1>0, <2>2
  <2> HIDE DEF T
  <2> QED BY <2>3, <2>4, AppendProperties DEF Goes
<1>8. T = Nat
  <2>1. T \in SUBSET Nat
    OBVIOUS
  <2> HIDE DEF T
  <2> QED BY <1>6, <1>7, <2>1, Induct
<1>9. ASSUME NEW j \in i..Len(t) PROVE f[j] \in Seq(Chars)
  <2>1. j - i \in Nat /\ j = i + (j - i)
    BY <1>0
  <2>2. j - i \in T
    BY <1>8, <2>1
  <2> QED BY <2>1, <2>2
<1> QED BY <1>9

\* Walk is the scan of the whole text.
LEMMA WalkScans ==
    ASSUME NEW t \in Seq(Chars), NEW i \in 1..Len(t)
    PROVE  Scans(Walk(t, i), t, i, Len(t))
<1> DEFINE Body(f) == [j \in i..Len(t) |->
                 IF j = i THEN <<t[i]>>
                 ELSE IF Append(f[j - 1], t[j]) \in Nodes THEN Append(f[j - 1], t[j])
                 ELSE f[j - 1]]
<1>0. i \in Nat /\ Len(t) \in Nat /\ \A j \in 1..Len(t) : t[j] \in Chars
  BY ElementOfSeq, LenProperties
<1>1. PICK f : Scans(f, t, i, Len(t))
  BY ScanExists
<1>2. f = Body(f)
  <2>1. f = [j \in i..Len(t) |-> f[j]]
    BY <1>1 DEF Scans
  <2>2. ASSUME NEW j \in i..Len(t)
        PROVE  f[j] = IF j = i THEN <<t[i]>>
                      ELSE IF Append(f[j - 1], t[j]) \in Nodes THEN Append(f[j - 1], t[j])
                      ELSE f[j - 1]
    <3>1. CASE j = i
      BY <1>1, <3>1 DEF Scans
    <3>2. CASE j # i
      <4>1. j \in i + 1..Len(t)
        BY <1>0, <3>2
      <4> QED BY <1>1, <3>2, <4>1 DEF Scans, Goes
    <3> QED BY <3>1, <3>2
  <2> QED BY <2>1, <2>2, Zenon
<1>3. Walk(t, i) = CHOOSE node : node = Body(node)
  BY Zenon DEF Walk
<1> HIDE DEF Body
<1>4. Walk(t, i) = Body(Walk(t, i))
  BY <1>2, <1>3, Zenon
<1> DEFINE W == Walk(t, i)
<1>5. /\ W = [j \in i..Len(t) |-> W[j]]
      /\ W[i] = <<t[i]>>
      /\ \A j \in i + 1..Len(t) : W[j] = Goes(W[j - 1], t[j])
  <2> HIDE DEF W
  <2>1. i \in i..Len(t) /\ \A j \in i + 1..Len(t) : j \in i..Len(t) /\ j # i
    BY <1>0
  <2>2. W = Body(W)
    BY <1>4 DEF W
  <2>3. W = [j \in i..Len(t) |-> W[j]]
    BY <2>2, Zenon DEF Body
  <2>4. W[i] = <<t[i]>>
    BY <2>1, <2>2, Zenon DEF Body
  <2>5. ASSUME NEW j \in i + 1..Len(t) PROVE W[j] = Goes(W[j - 1], t[j])
    BY <2>1, <2>2, Zenon DEF Body, Goes
  <2> QED BY <2>3, <2>4, <2>5
<1> HIDE DEF W
<1> QED BY <1>5, ScansTyped, Zenon DEF Scans, W

\* One more character makes a prefix longer.
LEMMA PrefixGrows ==
    ASSUME NEW w \in Seq(Chars), NEW n \in 0..Len(w) - 1
    PROVE  /\ Append(SubSeq(w, 1, n), w[n + 1]) = SubSeq(w, 1, n + 1)
           /\ SubSeq(w, 1, n) \in Seq(Chars) /\ Len(SubSeq(w, 1, n)) = n
<1>0. Len(w) \in Nat /\ n \in Nat /\ \A m \in 1..Len(w) : w[m] \in Chars
  BY ElementOfSeq, LenProperties
<1>1. \A m \in 1..n + 1 : w[m] \in Chars
  BY <1>0
<1>2. /\ SubSeq(w, 1, n) \in Seq(Chars) /\ Len(SubSeq(w, 1, n)) = n
      /\ \A m \in 1..n : SubSeq(w, 1, n)[m] = w[m]
  <2>1. \A m \in 1..n : w[m] \in Chars
    BY <1>0, <1>1
  <2>2. /\ SubSeq(w, 1, n) \in Seq(Chars)
        /\ Len(SubSeq(w, 1, n)) = IF 1 <= n THEN n - 1 + 1 ELSE 0
        /\ \A m \in 1..n - 1 + 1 : SubSeq(w, 1, n)[m] = w[1 + m - 1]
    BY <1>0, <2>1, SubSeqProperties
  <2> QED BY <1>0, <2>2
<1>3. /\ SubSeq(w, 1, n + 1) \in Seq(Chars) /\ Len(SubSeq(w, 1, n + 1)) = n + 1
      /\ \A m \in 1..n + 1 : SubSeq(w, 1, n + 1)[m] = w[m]
  <2>2. /\ SubSeq(w, 1, n + 1) \in Seq(Chars)
        /\ Len(SubSeq(w, 1, n + 1)) = IF 1 <= n + 1 THEN n + 1 - 1 + 1 ELSE 0
        /\ \A m \in 1..n + 1 - 1 + 1 : SubSeq(w, 1, n + 1)[m] = w[1 + m - 1]
    BY <1>0, <1>1, SubSeqProperties
  <2> QED BY <1>0, <2>2
<1> DEFINE a == Append(SubSeq(w, 1, n), w[n + 1])
<1>4. /\ a \in Seq(Chars) /\ Len(a) = n + 1
      /\ \A m \in 1..n : a[m] = SubSeq(w, 1, n)[m]
      /\ a[n + 1] = w[n + 1]
  <2>1. w[n + 1] \in Chars
    BY <1>0
  <2> QED BY <1>2, <2>1, AppendProperties
<1> HIDE DEF a
<1>5. \A m \in 1..n + 1 : a[m] = SubSeq(w, 1, n + 1)[m]
  <2>1. \A m \in 1..n + 1 : m \in 1..n \/ m = n + 1
    BY <1>0
  <2>2. \A m \in 1..n : a[m] = w[m]
    BY <1>2, <1>4, Zenon
  <2> QED BY <1>3, <1>4, <2>1, <2>2, Zenon
<1>6. a = SubSeq(w, 1, n + 1)
  BY <1>3, <1>4, <1>5, SeqEqual
<1> QED BY <1>2, <1>6 DEF a

\* A listed word of two or more characters is found where it begins, or one that
\* ends earlier is.
LEMMA ListedIsFound ==
    ASSUME NEW t \in Seq(Chars), NEW i \in 1..Len(t), NEW w \in List,
           Len(w) > 1, i + Len(w) - 1 <= Len(t),
           \A m \in 1..Len(w) : t[i + m - 1] = w[m]
    PROVE  Found(t, i) # {}
<1>0. /\ i \in Nat /\ Len(t) \in Nat /\ w \in Seq(Chars) /\ Len(w) \in Nat
      /\ SubSeq(w, 1, 0) = <<>> /\ SubSeq(w, 1, Len(w)) = w
  BY LenProperties, SubSeqEmpty, SubSeqFull, TrieAssumption
<1>1. \A n \in 0..Len(w) : SubSeq(w, 1, n) \in Nodes
  BY DEF Nodes
<1> DEFINE W == Walk(t, i)
<1>2. W[i] = <<t[i]>> /\ \A j \in i + 1..Len(t) : W[j] = Goes(W[j - 1], t[j])
  BY WalkScans DEF Scans
<1>3. <<t[i]>> = SubSeq(w, 1, 1)
  <2>1. t[i] = w[1]
    BY <1>0
  <2>2. Append(<<>>, w[1]) = SubSeq(w, 1, 1)
    <3>1. 0 \in 0..Len(w) - 1 /\ 0 + 1 = 1
      BY <1>0
    <3> QED BY <1>0, <3>1, PrefixGrows, Zenon
  <2> QED BY <2>1, <2>2
<1> HIDE DEF W
<1> DEFINE T == {n \in Nat : n < Len(w) => W[i + n] = SubSeq(w, 1, n + 1)}
<1>4. 0 \in T
  <2>1. i + 0 = i /\ 0 + 1 = 1
    BY <1>0
  <2> QED BY <1>2, <1>3, <2>1
<1>5. ASSUME NEW n \in T PROVE n + 1 \in T
  <2>1. SUFFICES ASSUME n + 1 < Len(w) PROVE W[i + (n + 1)] = SubSeq(w, 1, n + 1 + 1)
    BY <1>5
  <2>2. n \in Nat /\ W[i + n] = SubSeq(w, 1, n + 1)
    BY <1>0, <1>5, <2>1
  <2> HIDE DEF T
  <2>3. /\ i + (n + 1) \in i + 1..Len(t) /\ i + (n + 1) - 1 = i + n
        /\ n + 1 \in 0..Len(w) - 1 /\ n + 1 + 1 \in 1..Len(w) /\ n + 1 + 1 \in 0..Len(w)
        /\ i + (n + 1) = i + (n + 1 + 1) - 1
    BY <1>0, <2>1, <2>2
  <2>4. t[i + (n + 1)] = w[n + 1 + 1]
    BY <2>3
  <2>5. Append(SubSeq(w, 1, n + 1), w[n + 1 + 1]) = SubSeq(w, 1, n + 1 + 1)
    BY <1>0, <2>3, PrefixGrows
  <2>6. W[i + (n + 1)] = Goes(W[i + n], t[i + (n + 1)])
    <3>1. PICK j \in i + 1..Len(t) : j = i + (n + 1) /\ j - 1 = i + n
      BY <2>3
    <3>2. W[j] = Goes(W[j - 1], t[j])
      BY <1>2
    <3>3. W[j] = Goes(W[i + n], t[j])
      BY <3>1, <3>2
    <3> QED BY <3>1, <3>3, Zenon
  <2>7. SubSeq(w, 1, n + 1 + 1) \in Nodes
    BY <1>1, <2>3, Zenon
  <2>8. Goes(W[i + n], t[i + (n + 1)]) = SubSeq(w, 1, n + 1 + 1)
    BY <2>2, <2>4, <2>5, <2>7, Zenon DEF Goes
  <2> QED BY <2>6, <2>8, Zenon
<1>6. T = Nat
  <2>1. T \in SUBSET Nat
    OBVIOUS
  <2> HIDE DEF T
  <2> QED BY <1>4, <1>5, <2>1, Induct
<1>7. \A n \in Nat : n < Len(w) => W[i + n] = SubSeq(w, 1, n + 1)
  BY <1>6
<1> HIDE DEF T
<1> DEFINE j == i + (Len(w) - 1)
<1>8. /\ j \in i + 1..Len(t) /\ j - 1 = i + (Len(w) - 2)
      /\ Len(w) - 1 \in Nat /\ Len(w) - 1 + 1 = Len(w) /\ Len(w) - 1 < Len(w)
      /\ Len(w) - 2 \in Nat /\ Len(w) - 2 + 1 = Len(w) - 1 /\ Len(w) - 2 < Len(w)
      /\ Len(w) - 1 \in 0..Len(w) - 1
  BY <1>0
<1>9. W[j] = w /\ W[j - 1] # w
  <2>1. W[i + (Len(w) - 1)] = w
    <3>1. W[i + (Len(w) - 1)] = SubSeq(w, 1, Len(w) - 1 + 1)
      BY <1>7, <1>8
    <3> QED BY <1>0, <1>8, <3>1
  <2>2. W[j - 1] = SubSeq(w, 1, Len(w) - 1)
    <3>1. W[i + (Len(w) - 2)] = SubSeq(w, 1, Len(w) - 2 + 1)
      BY <1>7, <1>8
    <3> QED BY <1>8, <3>1
  <2>3. Len(SubSeq(w, 1, Len(w) - 1)) = Len(w) - 1
    BY <1>0, <1>8, PrefixGrows
  <2>4. SubSeq(w, 1, Len(w) - 1) # w
    <3> DEFINE s == SubSeq(w, 1, Len(w) - 1)
    <3>1. Len(s) # Len(w)
      <4>1. Len(s) = Len(w) - 1
        BY <2>3
      <4>2. Len(w) \in Nat /\ \A n \in Nat : n - 1 # n
        BY <1>0
      <4> QED BY <4>1, <4>2, Zenon
    <3> HIDE DEF s
    <3>2. s # w
      BY <3>1
    <3> QED BY <3>2 DEF s
  <2> QED BY <2>1, <2>2, <2>4, Zenon
<1>10. <<t[i]>> \in Nodes
  <2>1. 1 \in 0..Len(w)
    BY <1>0
  <2> QED BY <1>1, <1>3, <2>1
<1> HIDE DEF j
<1>11. j \in Found(t, i)
  BY <1>8, <1>9, <1>10 DEF Found, W, Ends
<1> QED BY <1>11

\* What a scan has gone down can be read in the text.
LEMMA ReadsOn ==
    ASSUME NEW t \in Seq(Chars), NEW w \in Seq(Chars), w # <<>>,
           NEW i \in 1..Len(t), NEW k \in i..Len(t), NEW j \in k + 1..Len(t),
           ReadsFromTo(w, t, i, k)
    PROVE  ReadsFromTo(Append(w, t[j]), t, i, j)
<1>0. /\ i \in Nat /\ k \in Nat /\ j \in Nat /\ Len(t) \in Nat /\ Len(w) \in Nat \ {0}
      /\ DOMAIN w = 1..Len(w) /\ t[j] \in Chars
  BY ElementOfSeq, LenProperties, EmptySeq
<1> DEFINE v == Append(w, t[j])
           L == Len(w)
<1>1. /\ DOMAIN v = 1..L + 1 /\ Len(v) = L + 1 /\ v[L + 1] = t[j]
      /\ \A m \in 1..L : v[m] = w[m]
  <2>1. v \in Seq(Chars) /\ Len(v) = L + 1
    BY <1>0, AppendProperties
  <2>2. DOMAIN v = 1..Len(v)
    BY <2>1, LenProperties
  <2> QED BY <1>0, <2>1, <2>2, AppendProperties
<1>2. PICK at \in [1..L -> i..k] :
         /\ at[1] = i /\ at[L] = k
         /\ \A m \in 1..L : t[at[m]] = w[m] /\ \A n \in 1..m - 1 : at[n] < at[m]
  BY <1>0 DEF ReadsFromTo
<1> HIDE DEF v, L
<1>3. L \in Nat \ {0}
  BY <1>0 DEF L
<1> DEFINE on == [m \in 1..L + 1 |-> IF m = L + 1 THEN j ELSE at[m]]
<1>4. on[L + 1] = j /\ \A m \in 1..L : on[m] = at[m]
  BY <1>3
<1>5. on \in [1..L + 1 -> i..j]
  <2>1. \A m \in 1..L + 1 : (IF m = L + 1 THEN j ELSE at[m]) \in i..j
    BY <1>0, <1>2, <1>3
  <2> QED BY <2>1, Zenon
<1> HIDE DEF on
<1>6. ASSUME NEW m \in 1..L + 1
      PROVE  t[on[m]] = v[m] /\ \A n \in 1..m - 1 : on[n] < on[m]
  <2>1. CASE m = L + 1
    <3>1. \A n \in 1..L : at[n] \in i..k /\ at[n] < j
      BY <1>0, <1>2
    <3>2. \A n \in 1..m - 1 : n \in 1..L
      BY <1>3, <2>1
    <3> QED BY <1>1, <1>4, <2>1, <3>1, <3>2
  <2>2. CASE m # L + 1
    <3>1. m \in 1..L /\ \A n \in 1..m - 1 : n \in 1..L
      BY <1>3, <2>2
    <3> QED BY <1>1, <1>2, <1>4, <3>1
  <2> QED BY <2>1, <2>2
<1>7. on[1] = i
  BY <1>2, <1>3, <1>4
<1>8. ReadsFromTo(v, t, i, j)
  BY <1>1, <1>4, <1>5, <1>6, <1>7, Zenon DEF ReadsFromTo
<1> QED BY <1>8 DEF v

\* What a scan finds is a listed word, read from where it began to where it ended.
LEMMA FoundIsRead ==
    ASSUME NEW t \in Seq(Chars), NEW i \in 1..Len(t), NEW j \in Found(t, i)
    PROVE  j \in i + 1..Len(t) /\ \E w \in List : ReadsFromTo(w, t, i, j)
<1>0. i \in Nat /\ Len(t) \in Nat /\ t[i] \in Chars
  BY ElementOfSeq, LenProperties
<1> DEFINE W == Walk(t, i)
<1>1. j \in i + 1..Len(t) /\ W[j] # W[j - 1] /\ W[j] \in List
  BY DEF Found, Ends
<1>2. /\ W[i] = <<t[i]>> /\ \A k \in i..Len(t) : W[k] \in Seq(Chars)
      /\ \A k \in i + 1..Len(t) : W[k] = Goes(W[k - 1], t[k])
  BY <1>0, WalkScans DEF Scans
<1> HIDE DEF W
<1> DEFINE Read(m) == W[m] # <<>> /\ \E k \in i..m : ReadsFromTo(W[m], t, i, k)
<1>3. Read(i)
  <2>1. DOMAIN <<t[i]>> = 1..1 /\ Len(<<t[i]>>) = 1 /\ <<t[i]>>[1] = t[i] /\ <<t[i]>> # <<>>
    OBVIOUS
  <2> DEFINE at == [m \in 1..1 |-> i]
  <2>2. at \in [1..1 -> i..i] /\ at[1] = i /\ \A m \in 1..1 : m = 1 /\ 1..m - 1 = {}
    BY <1>0
  <2> HIDE DEF at
  <2>3. ReadsFromTo(<<t[i]>>, t, i, i)
    BY <2>1, <2>2 DEF ReadsFromTo
  <2> QED BY <1>0, <1>2, <2>1, <2>3
<1>4. ASSUME NEW m \in i + 1..Len(t), Read(m - 1), W[m] # W[m - 1]
      PROVE  ReadsFromTo(W[m], t, i, m) /\ W[m] # <<>>
  <2>1. PICK k \in i..m - 1 : ReadsFromTo(W[m - 1], t, i, k)
    BY <1>4
  <2>2. m - 1 \in i..Len(t) /\ k \in i..Len(t) /\ m \in k + 1..Len(t) /\ m \in 1..Len(t)
    BY <1>0, <2>1
  <2>3. W[m] = Append(W[m - 1], t[m]) /\ W[m - 1] \in Seq(Chars) /\ t[m] \in Chars
    BY <1>2, <1>4, <2>2, ElementOfSeq DEF Goes
  <2>4. ReadsFromTo(W[m], t, i, m)
    BY <1>4, <2>1, <2>2, <2>3, ReadsOn
  <2> QED BY <2>3, <2>4, AppendProperties
<1>5. ASSUME NEW m \in i + 1..Len(t), Read(m - 1) PROVE Read(m)
  <2>1. CASE W[m] = W[m - 1]
    <3>1. \A k \in i..m - 1 : k \in i..m
      BY <1>0
    <3> QED BY <1>5, <2>1, <3>1
  <2>2. CASE W[m] # W[m - 1]
    <3>1. m \in i..m
      BY <1>0
    <3> QED BY <1>4, <1>5, <2>2, <3>1
  <2> QED BY <2>1, <2>2
<1> DEFINE T == {n \in Nat : \A m \in i..Len(t) : m = i + n => Read(m)}
<1> HIDE DEF Read
<1>6. 0 \in T
  <2>1. \A m \in i..Len(t) : m = i + 0 => m = i
    BY <1>0
  <2> QED BY <1>3, <2>1
<1>7. ASSUME NEW n \in T PROVE n + 1 \in T
  <2>1. SUFFICES ASSUME NEW m \in i..Len(t), m = i + (n + 1) PROVE Read(m)
    BY <1>7
  <2>2. m \in i + 1..Len(t) /\ m - 1 \in i..Len(t) /\ m - 1 = i + n
    BY <1>0, <1>7, <2>1
  <2> QED BY <1>5, <1>7, <2>2
<1>8. T = Nat
  <2>1. T \in SUBSET Nat
    OBVIOUS
  <2> HIDE DEF T
  <2> QED BY <1>6, <1>7, <2>1, Induct
<1>9. Read(j - 1)
  <2>1. j - 1 \in i..Len(t) /\ j - 1 - i \in Nat /\ j - 1 = i + (j - 1 - i)
    BY <1>0, <1>1
  <2>2. j - 1 - i \in T
    BY <1>8, <2>1
  <2> QED BY <2>1, <2>2
<1>10. ReadsFromTo(W[j], t, i, j)
  BY <1>1, <1>4, <1>9
<1> QED BY <1>1, <1>10

\* The outer loop of Replace from the i-th character on.
Sweep(f, t, i) ==
    IF i > Len(t) THEN {}
    ELSE IF Found(t, i) = {} THEN f[i + 1]
    ELSE (i..Min(Found(t, i))) \cup f[Min(Found(t, i)) + 1]

\* Min is the first of what was found.
LEMMA FirstFound ==
    ASSUME NEW t \in Seq(Chars), NEW i \in 1..Len(t), Found(t, i) # {}
    PROVE  Min(Found(t, i)) \in Found(t, i) /\ Min(Found(t, i)) \in i + 1..Len(t)
<1>0. i \in Nat /\ Len(t) \in Nat
  BY LenProperties
<1>1. Found(t, i) \subseteq i + 1..Len(t)
  BY DEF Found
<1>2. \E x \in Found(t, i) : \A y \in Found(t, i) : x <= y
  <2>1. Found(t, i) \in SUBSET Nat
    BY <1>0, <1>1
  <2> QED BY <2>1, MinExists
<1>3. Min(Found(t, i)) \in Found(t, i)
  BY <1>2, Zenon DEF Min
<1> QED BY <1>1, <1>3

\* There is such a loop, from any text's end backwards.
LEMMA SweepExists ==
    ASSUME NEW t \in Seq(Chars)
    PROVE  \E f : f = [i \in 1..Len(t) + 1 |-> Sweep(f, t, i)]
<1> DEFINE L == Len(t) + 1
           Swept(f, a) == \A i \in a..L : f[i] = Sweep(f, t, i)
<1>0. L \in Nat \ {0} /\ L - 1 = Len(t)
  BY LenProperties
<1> DEFINE T == {n \in Nat : n < L => \E f : Swept(f, L - n)}
<1>1. 0 \in T
  <2> DEFINE f == [i \in L..L |-> {}]
  <2>1. \A i \in L..L : i > Len(t) /\ f[i] = {}
    BY <1>0
  <2>2. Swept(f, L)
    BY <2>1 DEF Sweep
  <2>3. L - 0 = L
    BY <1>0
  <2> QED BY <2>2, <2>3
<1>2. ASSUME NEW n \in T PROVE n + 1 \in T
  <2>1. SUFFICES ASSUME n + 1 < L PROVE \E f : Swept(f, L - (n + 1))
    BY <1>2
  <2> DEFINE a == L - (n + 1)
  <2>2. a \in 1..Len(t) /\ L - n = a + 1 /\ n \in Nat /\ n < L
    BY <1>0, <1>2, <2>1
  <2>3. PICK f : Swept(f, a + 1)
    BY <1>2, <2>2
  <2> HIDE DEF a
  <2> DEFINE g == [i \in a..L |-> IF i = a THEN Sweep(f, t, a) ELSE f[i]]
  <2>4. a \in a..L /\ \A i \in a + 1..L : i \in a..L /\ i # a
    BY <1>0, <2>2
  <2>5. g[a] = Sweep(f, t, a) /\ \A i \in a + 1..L : g[i] = f[i]
    BY <2>4, Zenon
  <2> HIDE DEF g
  <2>6. ASSUME NEW i \in a..L PROVE Sweep(g, t, i) = Sweep(f, t, i)
    <3>1. CASE i > Len(t)
      BY <3>1 DEF Sweep
    <3>2. CASE i <= Len(t)
      <4>1. i \in 1..Len(t) /\ i + 1 \in a + 1..L
        BY <1>0, <2>2, <3>2
      <4>2. Found(t, i) # {} => Min(Found(t, i)) + 1 \in a + 1..L
        BY <1>0, <2>2, <4>1, FirstFound
      <4>3. g[i + 1] = f[i + 1]
        BY <2>5, <4>1
      <4>4. Found(t, i) # {} => g[Min(Found(t, i)) + 1] = f[Min(Found(t, i)) + 1]
        BY <2>5, <4>2
      <4> QED BY <4>3, <4>4, Zenon DEF Sweep
    <3>3. i > Len(t) \/ i <= Len(t)
      BY <1>0, <2>2
    <3> QED BY <3>1, <3>2, <3>3
  <2>7. ASSUME NEW i \in a..L PROVE g[i] = Sweep(g, t, i)
    <3>1. i = a \/ i \in a + 1..L
      BY <1>0, <2>2
    <3>2. i \in a + 1..L => f[i] = Sweep(f, t, i)
      BY <2>3
    <3> QED BY <2>5, <2>6, <3>1, <3>2
  <2>8. Swept(g, a)
    BY <2>7
  <2> QED BY <2>8 DEF a
<1>3. T = Nat
  <2>1. T \in SUBSET Nat
    OBVIOUS
  <2> HIDE DEF T
  <2> QED BY <1>1, <1>2, <2>1, Induct
<1>4. PICK f : Swept(f, 1)
  <2>1. L - 1 \in Nat /\ L - 1 < L /\ L - (L - 1) = 1
    BY <1>0
  <2>2. L - 1 \in T
    BY <1>3, <2>1
  <2> QED BY <2>1, <2>2
<1> HIDE DEF T
<1> DEFINE g == [i \in 1..L |-> f[i]]
<1>5. \A i \in 1..L : g[i] = f[i] /\ f[i] = Sweep(f, t, i)
  BY <1>4
<1>6. ASSUME NEW i \in 1..L PROVE Sweep(g, t, i) = Sweep(f, t, i)
  <2> HIDE DEF g
  <2>1. CASE i > Len(t)
    BY <2>1 DEF Sweep
  <2>2. CASE i <= Len(t)
    <3>1. i \in 1..Len(t) /\ i + 1 \in 1..L
      BY <1>0, <2>2
    <3>2. Found(t, i) # {} => Min(Found(t, i)) + 1 \in 1..L
      BY <1>0, <3>1, FirstFound
    <3>3. g[i + 1] = f[i + 1]
      BY <1>5, <3>1
    <3>4. Found(t, i) # {} => g[Min(Found(t, i)) + 1] = f[Min(Found(t, i)) + 1]
      BY <1>5, <3>2
    <3> QED BY <3>3, <3>4, Zenon DEF Sweep
  <2> QED BY <1>0, <2>1, <2>2
<1>7. g = [i \in 1..L |-> Sweep(g, t, i)]
  <2>1. \A i \in 1..L : f[i] = Sweep(g, t, i)
    BY <1>5, <1>6, Zenon
  <2> QED BY <2>1, Zenon
<1> QED BY <1>7

\* Masked is what it masks from the first character on.
LEMMA MaskedSweeps ==
    ASSUME NEW t \in Seq(Chars)
    PROVE  \E f : Masked(t) = f[1] /\ \A i \in 1..Len(t) + 1 : f[i] = Sweep(f, t, i)
<1> DEFINE Body(f) == [i \in 1..Len(t) + 1 |->
                 IF i > Len(t) THEN {}
                 ELSE IF Found(t, i) = {} THEN f[i + 1]
                 ELSE (i..Min(Found(t, i))) \cup f[Min(Found(t, i)) + 1]]
           F == CHOOSE f : f = Body(f)
<1>1. \E f : f = Body(f)
  BY SweepExists, Zenon DEF Sweep
<1>2. Masked(t) = F[1]
  BY Zenon DEF Masked
<1> HIDE DEF Body
<1>3. F = Body(F)
  BY <1>1, Zenon
<1> HIDE DEF F
<1>4. \A i \in 1..Len(t) + 1 : F[i] = Sweep(F, t, i)
  BY <1>3, Zenon DEF Body, Sweep
<1> QED BY <1>2, <1>4

\* What is masked from the i-th character on: whole stretches that were found,
\* and wherever something is found.
Covered(s, t, i) ==
    /\ s \subseteq i..Len(t)
    /\ \A k \in s : \E a \in i..k, b \in k..Len(t) :
          a \in 1..Len(t) /\ b \in Found(t, a) /\ a..b \subseteq s
    /\ \A p \in i..Len(t) : Found(t, p) # {} => p \in s

\* If the rest of the loop does so, the loop does.
LEMMA CoveredOn ==
    ASSUME NEW t \in Seq(Chars), NEW f, NEW i \in 1..Len(t) + 1, f[i] = Sweep(f, t, i),
           \A m \in i + 1..Len(t) + 1 : Covered(f[m], t, m)
    PROVE  Covered(f[i], t, i)
<1>0. i \in Nat /\ Len(t) \in Nat
  BY LenProperties
<1>1. CASE i > Len(t)
  BY <1>0, <1>1 DEF Covered, Sweep
<1>2. CASE i <= Len(t) /\ Found(t, i) = {}
  <2>1. i + 1 \in i + 1..Len(t) + 1
    BY <1>0, <1>2
  <2>2. f[i] = f[i + 1] /\ Covered(f[i + 1], t, i + 1)
    BY <1>0, <1>2, <2>1 DEF Sweep
  <2>3. /\ i + 1..Len(t) \subseteq i..Len(t)
        /\ \A k \in Nat : i + 1..k \subseteq i..k
        /\ \A p \in i..Len(t) : p = i \/ p \in i + 1..Len(t)
    BY <1>0
  <2>4. \A k \in i + 1..Len(t) : k \in Nat
    BY <1>0
  <2> QED BY <1>2, <2>2, <2>3, <2>4 DEF Covered
<1>3. CASE i <= Len(t) /\ Found(t, i) # {}
  <2> DEFINE b == Min(Found(t, i))
             s == f[b + 1]
  <2>1. i \in 1..Len(t)
    BY <1>0, <1>3
  <2>2. b \in Found(t, i) /\ b \in i + 1..Len(t)
    BY <1>3, <2>1, FirstFound
  <2>3. f[i] = (i..b) \cup s
    BY <1>0, <1>3 DEF Sweep
  <2> HIDE DEF b
  <2>4. b \in Nat /\ b + 1 \in i + 1..Len(t) + 1
    BY <1>0, <2>2
  <2>5. Covered(s, t, b + 1)
    BY <2>4
  <2> HIDE DEF s
  <2>6. f[i] \subseteq i..Len(t)
    <3>1. i..b \subseteq i..Len(t) /\ b + 1..Len(t) \subseteq i..Len(t)
      BY <1>0, <2>2
    <3> QED BY <2>3, <2>5, <3>1 DEF Covered
  <2>7. ASSUME NEW k \in f[i]
        PROVE  \E a \in i..k, c \in k..Len(t) :
                  a \in 1..Len(t) /\ c \in Found(t, a) /\ a..c \subseteq f[i]
    <3>1. CASE k \in i..b
      <4>1. i \in i..k /\ b \in k..Len(t)
        BY <1>0, <2>2, <2>4, <3>1
      <4> QED BY <2>1, <2>2, <2>3, <4>1
    <3>2. CASE k \in s
      <4>1. PICK a \in b + 1..k, c \in k..Len(t) :
               a \in 1..Len(t) /\ c \in Found(t, a) /\ a..c \subseteq s
        BY <2>5, <3>2 DEF Covered
      <4>2. a \in i..k
        <5>1. k \in Nat
          BY <2>4, <2>5, <3>2, <1>0 DEF Covered
        <5> QED BY <1>0, <2>2, <2>4, <4>1, <5>1
      <4> QED BY <2>3, <4>1, <4>2
    <3> QED BY <2>3, <3>1, <3>2
  <2>8. ASSUME NEW p \in i..Len(t), Found(t, p) # {} PROVE p \in f[i]
    <3>1. p \in i..b \/ p \in b + 1..Len(t)
      BY <1>0, <2>2, <2>4
    <3> QED BY <2>3, <2>5, <2>8, <3>1 DEF Covered
  <2> QED BY <2>6, <2>7, <2>8 DEF Covered
<1> QED BY <1>0, <1>1, <1>2, <1>3

\* Everything that is masked, and everything that should be.
LEMMA MaskedCovers ==
    ASSUME NEW t \in Seq(Chars)
    PROVE  Covered(Masked(t), t, 1)
<1> DEFINE L == Len(t) + 1
<1>0. L \in Nat \ {0} /\ Len(t) \in Nat
  BY LenProperties
<1>1. PICK f : Masked(t) = f[1] /\ \A i \in 1..L : f[i] = Sweep(f, t, i)
  BY MaskedSweeps
<1> DEFINE T == {n \in Nat : \A i \in 1..L : i + n >= L => Covered(f[i], t, i)}
<1>2. 0 \in T
  <2> SUFFICES ASSUME NEW i \in 1..L, i + 0 >= L PROVE Covered(f[i], t, i)
    OBVIOUS
  <2>1. \A m \in i + 1..L : Covered(f[m], t, m)
    BY <1>0
  <2> QED BY <1>1, <2>1, CoveredOn
<1>3. ASSUME NEW n \in T PROVE n + 1 \in T
  <2> SUFFICES ASSUME NEW i \in 1..L, i + (n + 1) >= L PROVE Covered(f[i], t, i)
    BY <1>3
  <2>1. \A m \in i + 1..L : m \in 1..L /\ m + n >= L
    BY <1>0, <1>3
  <2>2. \A m \in i + 1..L : Covered(f[m], t, m)
    BY <1>3, <2>1
  <2> QED BY <1>1, <2>2, CoveredOn
<1>4. T = Nat
  <2>1. T \in SUBSET Nat
    OBVIOUS
  <2> HIDE DEF T
  <2> QED BY <1>2, <1>3, <2>1, Induct
<1>5. L \in T /\ 1 \in 1..L /\ 1 + L >= L
  BY <1>0, <1>4
<1> QED BY <1>1, <1>5

\* Replace puts the mask there and leaves the rest.
LEMMA ReplaceMasks ==
    ASSUME NEW t \in Seq(Chars)
    PROVE  /\ DOMAIN t = 1..Len(t) /\ Len(t) \in Nat /\ Masked(t) \subseteq 1..Len(t)
           /\ DOMAIN Replace(t) = 1..Len(t) /\ Len(Replace(t)) = Len(t)
           /\ \A k \in 1..Len(t) :
                 /\ t[k] \in Chars
                 /\ k \in Masked(t) => Replace(t)[k] = Mask
                 /\ k \notin Masked(t) => Replace(t)[k] = t[k]
<1>1. DOMAIN t = 1..Len(t) /\ Len(t) \in Nat /\ \A k \in 1..Len(t) : t[k] \in Chars
  BY ElementOfSeq, LenProperties
<1>2. Masked(t) \subseteq 1..Len(t)
  BY MaskedCovers DEF Covered
<1> DEFINE r == Replace(t)
<1>3. r = [k \in 1..Len(t) |-> IF k \in Masked(t) THEN Mask ELSE t[k]]
  BY <1>1, Zenon DEF Replace
<1>4. r \in Seq(Chars \cup {Mask}) /\ DOMAIN r = 1..Len(t)
  <2>1. \A k \in 1..Len(t) : (IF k \in Masked(t) THEN Mask ELSE t[k]) \in Chars \cup {Mask}
    BY <1>1
  <2>2. r \in [1..Len(t) -> Chars \cup {Mask}]
    BY <1>3, <2>1, Zenon
  <2> HIDE DEF r
  <2> QED BY <1>1, <2>2, SeqDef
<1>5. Len(r) = Len(t)
  <2> HIDE DEF r
  <2>1. DOMAIN r = 1..Len(r) /\ Len(r) \in Nat
    BY <1>4, LenProperties
  <2> QED BY <1>1, <1>4, <2>1
<1>6. \A k \in 1..Len(t) : r[k] = IF k \in Masked(t) THEN Mask ELSE t[k]
  BY <1>3, Zenon
<1> HIDE DEF r
<1> QED BY <1>1, <1>2, <1>4, <1>5, <1>6 DEF r

\* A listed word that still stands in the text has something masked in it: the
\* scan would have found it otherwise.
LEMMA LeftIsMasked ==
    ASSUME NEW t \in Seq(Chars), NEW w \in List, Len(w) > 1,
           NEW i \in 0..Len(t), StandsAt(w, Replace(t), i)
    PROVE  \E k \in i + 1..i + Len(w) : k \in Masked(t)
<1> DEFINE r == Replace(t)
<1>0. w \in Seq(Chars) /\ Len(w) \in Nat
  BY LenProperties, TrieAssumption
<1>1. /\ Len(t) \in Nat /\ Len(r) = Len(t)
      /\ \A k \in 1..Len(t) : k \notin Masked(t) => r[k] = t[k]
  BY ReplaceMasks
<1>2. i + Len(w) <= Len(t) /\ SubSeq(r, i + 1, i + Len(w)) = w
  BY <1>1 DEF StandsAt
<1> HIDE DEF r
<1>3. \A m \in 1..Len(w) : w[m] = r[i + m]
  <2> DEFINE All == {r[k] : k \in i + 1..i + Len(w)}
  <2>1. \A k \in i + 1..i + Len(w) : r[k] \in All
    OBVIOUS
  <2> HIDE DEF All
  <2>2. \A m \in 1..i + Len(w) - (i + 1) + 1 : w[m] = r[i + 1 + m - 1]
    BY <1>0, <1>2, <2>1, SubSeqProperties
  <2>3. ASSUME NEW m \in 1..Len(w)
        PROVE  m \in 1..i + Len(w) - (i + 1) + 1 /\ i + 1 + m - 1 = i + m
    BY <1>0
  <2> QED BY <2>2, <2>3
<1>4. SUFFICES ASSUME \A k \in i + 1..i + Len(w) : k \notin Masked(t)
               PROVE  FALSE
  OBVIOUS
<1>5. i \in Nat /\ Len(t) \in Nat /\ i + Len(w) <= Len(t)
  BY <1>1, <1>2
<1>6. i + 1 \in 1..Len(t) /\ i + 1 + Len(w) - 1 <= Len(t) /\ i + 1 \in i + 1..i + Len(w)
  BY <1>0, <1>5
<1>7. ASSUME NEW m \in 1..Len(w) PROVE t[i + 1 + m - 1] = w[m]
  <2>1. i + 1 + m - 1 = i + m /\ i + m \in i + 1..i + Len(w) /\ i + m \in 1..Len(t)
    BY <1>0, <1>5
  <2> QED BY <1>1, <1>3, <1>4, <2>1
<1>8. Found(t, i + 1) # {}
  BY <1>7, <1>6, ListedIsFound
<1>9. i + 1 \in Masked(t)
  BY <1>8, <1>6, MaskedCovers DEF Covered
<1> QED BY <1>4, <1>9, <1>6

\* What is masked is what is found.
LEMMA WhatIsMasked ==
    ASSUME NEW t \in Seq(Chars), NEW k \in Masked(t)
    PROVE  \E i \in 1..k, j \in k..Len(t) : \E w \in List :
              (\A m \in i..j : Replace(t)[m] = Mask) /\ ReadsFromTo(w, t, i, j)
<1>1. PICK i \in 1..k, j \in k..Len(t) :
         i \in 1..Len(t) /\ j \in Found(t, i) /\ i..j \subseteq Masked(t)
  BY MaskedCovers DEF Covered
<1>2. \A m \in i..j : Replace(t)[m] = Mask
  BY <1>1, ReplaceMasks
<1>3. \E w \in List : ReadsFromTo(w, t, i, j)
  BY <1>1, FoundIsRead
<1> QED BY <1>2, <1>3

\* HasDirty finds something when Replace does.
LEMMA DirtyIsMasked ==
    ASSUME NEW t \in Seq(Chars)
    PROVE  HasDirty(t) <=> Masked(t) # {}
<1>1. DOMAIN t = 1..Len(t)
  BY ReplaceMasks
<1>2. HasDirty(t) => Masked(t) # {}
  BY <1>1, MaskedCovers DEF Covered, HasDirty
<1>3. ASSUME NEW k \in Masked(t) PROVE HasDirty(t)
  <2>1. \E a \in 1..Len(t) : Found(t, a) # {}
    BY MaskedCovers DEF Covered
  <2> QED BY <1>1, <2>1 DEF HasDirty
<1> QED BY <1>2, <1>3

\* Where nothing is masked nothing changes.
LEMMA UnmaskedIsKept ==
    ASSUME NEW t \in Seq(Chars), Masked(t) = {}
    PROVE  Replace(t) = t
<1>1. Replace(t) = [k \in DOMAIN t |-> t[k]]
  BY Zenon DEF Replace
<1>2. t = [k \in DOMAIN t |-> t[k]]
  <2>1. t \in [1..Len(t) -> Chars] /\ DOMAIN t = 1..Len(t)
    BY LenProperties
  <2> QED BY <2>1
<1> QED BY <1>1, <1>2, Zenon

\* Masking that changes nothing has masked masks: a word was read in them.
LEMMA MasksAreRead ==
    ASSUME NEW t \in Seq(Chars), NEW k \in Masked(t), Replace(t) = t
    PROVE  \E w \in List : \A m \in DOMAIN w : w[m] = Mask
<1>1. PICK i \in 1..k, j \in k..Len(t), w \in List :
         (\A m \in i..j : Replace(t)[m] = Mask) /\ ReadsFromTo(w, t, i, j)
  BY WhatIsMasked
<1>2. PICK at \in [DOMAIN w -> i..j] : \A m \in DOMAIN w : t[at[m]] = w[m]
  BY <1>1 DEF ReadsFromTo
<1>3. ASSUME NEW m \in DOMAIN w PROVE w[m] = Mask
  <2>1. at[m] \in i..j /\ t[at[m]] = w[m]
    BY <1>2
  <2> QED BY <1>1, <2>1
<1> QED BY <1>3

\* What comes to the filter is a text.
TextInv == ~checked => content \in Seq(Chars)

\* For any list and any text, the mask among their characters or not: a listed
\* word is left only where the filter has masked something in it, nothing else is
\* masked, and HasDirty tells whether it does (trie.go).
THEOREM TextsAreCleaned == TrieSpec => FilterCleans
<1> DEFINE Cleans ==
       /\ \A w \in List, i \in 0..Len(content) :
             Len(w) > 1 /\ StandsAt(w, content', i) => \E k \in i + 1..i + Len(w) : Struck(k)
       /\ \A k \in DOMAIN content : content'[k] # content[k] => Struck(k)
       /\ content' # content => HasDirty(content)
       /\ HasDirty(content) /\ content' = content =>
             \E w \in List : \A m \in DOMAIN w : w[m] = Mask
<1>1. TrieInit => TextInv
  <2>1. \A n \in 0..MaxTextLen : [1..n -> Chars] \subseteq Seq(Chars)
    BY SeqDef, TrieAssumption
  <2> QED BY <2>1 DEF TrieInit, Texts, TextInv
<1>2. TextInv /\ [TrieNext]_trieVars => TextInv'
  BY DEF TextInv, TrieNext, check, trieVars
<1>3. ASSUME TextInv, [TrieNext]_trieVars PROVE [Cleans]_trieVars
  <2>1. SUFFICES ASSUME check PROVE Cleans
    BY <1>3 DEF TrieNext
  <2>2. content \in Seq(Chars) /\ content' = Replace(content)
    BY <1>3, <2>1 DEF check, TextInv
  <2>3. ASSUME NEW k \in Masked(content) PROVE Struck(k)
    BY <2>2, WhatIsMasked DEF Struck
  <2>4. ASSUME NEW w \in List, NEW i \in 0..Len(content), Len(w) > 1, StandsAt(w, content', i)
        PROVE  \E k \in i + 1..i + Len(w) : Struck(k)
    BY <2>2, <2>3, <2>4, LeftIsMasked
  <2>5. ASSUME NEW k \in DOMAIN content, content'[k] # content[k] PROVE Struck(k)
    BY <2>2, <2>3, <2>5, ReplaceMasks
  <2>6. content' # content => HasDirty(content)
    BY <2>2, DirtyIsMasked, UnmaskedIsKept
  <2>7. HasDirty(content) /\ content' = content =>
           \E w \in List : \A m \in DOMAIN w : w[m] = Mask
    BY <2>2, DirtyIsMasked, MasksAreRead
  <2> QED BY <2>4, <2>5, <2>6, <2>7
<1> QED BY <1>1, <1>2, <1>3, PTL DEF TrieSpec, FilterCleans

=============================================================================
