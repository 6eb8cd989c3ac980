-------------------------------- MODULE Trie --------------------------------
(***************************************************************************)
(* The dirty words: common/containers/trie, as Filter.check uses it.  A    *)
(* node of the trie is the sequence of characters that leads to it; texts  *)
(* are sequences of characters.  InsertFile takes a list that cannot be    *)
(* read for an empty one.                                                  *)
(***************************************************************************)
EXTENDS Naturals, Sequences, FiniteSetsExt

CONSTANTS
    Chars,      \* characters of words and texts
    Mask,       \* "*", which may be one of them
    List,       \* the words of list.txt
    MaxTextLen  \* bound on the texts

ASSUME TrieAssumption ==
    List \subseteq Seq(Chars) \ {<<>>} /\ MaxTextLen \in Nat

\* insert: the nodes are the prefixes of words; only the word's is an end, be it
\* inside another word or not.
Nodes == UNION {{SubSeq(w, 1, n) : n \in 0..Len(w)} : w \in List}
LeafEnds == {w \in List : \A c \in Chars : Append(w, c) \notin Nodes}  \* wrong variant
Ends == List

\* The inner loop of HasDirty and Replace from the i-th character: the node it
\* is at after each.  A character that is no child is passed over.
Walk(t, i) ==
    LET node[j \in i..Len(t)] ==
           IF j = i THEN <<t[i]>>
           ELSE IF Append(node[j - 1], t[j]) \in Nodes THEN Append(node[j - 1], t[j])
           ELSE node[j - 1]
    IN  node

\* Where it finds an end.  The node of the first character is not asked.
Found(t, i) ==
    IF <<t[i]>> \notin Nodes THEN {}
    ELSE {j \in i + 1..Len(t) : Walk(t, i)[j] # Walk(t, i)[j - 1] /\ Walk(t, i)[j] \in Ends}

HasDirty(t) == \E i \in DOMAIN t : Found(t, i) # {}

\* The outer loop of Replace: what it masks from the i-th character on.
Masked(t) ==
    LET from[i \in 1..Len(t) + 1] ==
           IF i > Len(t) THEN {}
           ELSE IF Found(t, i) = {} THEN from[i + 1]
           ELSE (i..Min(Found(t, i))) \cup from[Min(Found(t, i)) + 1]
    IN  from[1]

Replace(t) == [k \in DOMAIN t |-> IF k \in Masked(t) THEN Mask ELSE t[k]]

-----------------------------------------------------------------------------
VARIABLES
    content, \* the text of a request
    checked  \* whether it has been through the filter

trieVars == <<content, checked>>

Texts == UNION {[1..n -> Chars] : n \in 0..MaxTextLen}

TrieInit == content \in Texts /\ checked = FALSE

\* Filter.check.
check ==
    /\ ~checked /\ checked' = TRUE
    /\ content' = Replace(content)

TrieNext == check
TrieSpec == TrieInit /\ [][TrieNext]_trieVars

-----------------------------------------------------------------------------
StandsAt(w, t, i) == i + Len(w) <= Len(t) /\ SubSeq(t, i + 1, i + Len(w)) = w

\* w can be read in t from the i-th character to the j-th, others between.
ReadsFromTo(w, t, i, j) ==
    \E at \in [DOMAIN w -> i..j] :
       /\ at[1] = i /\ at[Len(w)] = j
       /\ \A m \in DOMAIN w : t[at[m]] = w[m] /\ \A n \in 1..m - 1 : at[n] < at[m]

\* The filter has masked a stretch around the k-th character, from the first to
\* the last character of a listed word that could be read in it.
Struck(k) ==
    \E i \in 1..k, j \in k..Len(content) : \E w \in List :
       (\A m \in i..j : content'[m] = Mask) /\ ReadsFromTo(w, content, i, j)

\* A listed word of two or more characters that still stands in the text is one
\* that masking has made or has run into, as it may when the word holds the mask
\* itself (list.txt:265): all others are gone, although one scan goes down one
\* branch of the trie and never back.  The filter masks nothing but such
\* stretches, and HasDirty is true of exactly the texts that it changes, unless a
\* word is nothing but masks.  Words of one character it never finds
\* (trie.go:95, 128).
FilterCleans ==
    [][/\ \A w \in List, i \in 0..Len(content) :
             Len(w) > 1 /\ StandsAt(w, content', i) => \E k \in i + 1..i + Len(w) : Struck(k)
       /\ \A k \in DOMAIN content : content'[k] # content[k] => Struck(k)
       /\ content' # content => HasDirty(content)
       /\ HasDirty(content) /\ content' = content =>
             \E w \in List : \A m \in DOMAIN w : w[m] = Mask]_trieVars
=============================================================================
