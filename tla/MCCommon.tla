------------------------------ MODULE MCCommon ------------------------------
(***************************************************************************)
(* Model values for checking Frequency, Trie, UUID and Log with TLC.  They *)
(* share no state, so the run goes through their behaviours one component  *)
(* at a time: what one does cannot depend on where the others are.         *)
(***************************************************************************)
EXTENDS Frequency, Trie, UUID, Log, TLC

\* Words that begin, contain and end one another, one of one character, and one
\* that masking can make.
MCList == {<<"a", "b">>, <<"a", "c", "b">>, <<"b", "c">>, <<"a", "b", "a">>, <<"c", "c", "a">>,
           <<"c">>, <<"c", "*">>}

\* Getters differ in name only, and no property is about one of them.
MCSymmetry == Permutations(Getters)

VARIABLE part \* the component whose behaviours are gone through

CommonInit ==
    /\ Init /\ IdInit /\ LogInit /\ TrieInit
    /\ part \in {"counter", "ids", "log", "filter"}
    /\ part # "filter" => content = <<>>

Common ==
    /\ \/ part = "counter" /\ Next /\ UNCHANGED <<idVars, logVars, trieVars>>
       \/ part = "ids" /\ IdNext /\ UNCHANGED <<vars, logVars, trieVars>>
       \/ part = "log" /\ LogNext /\ UNCHANGED <<vars, idVars, trieVars>>
       \/ part = "filter" /\ TrieNext /\ UNCHANGED <<vars, idVars, logVars>>
    /\ UNCHANGED part

CommonSpec == CommonInit /\ [][Common]_<<vars, idVars, logVars, trieVars, part>>
=============================================================================
