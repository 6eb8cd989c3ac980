---------------------------- MODULE MCDelivery ----------------------------
(* Model values for checking Delivery with TLC. *)
EXTENDS Delivery, TLC

\* Agents and names are interchangeable.  Used for safety only.
Symmetry == Permutations(Agents) \cup Permutations(Names)

\* The same for liveness, for names alone: whichever name one of the clients
\* uses, it may as well be the first.
OneUsesTheFirst ==
    LET p == CHOOSE a \in Agents : TRUE
        n == CHOOSE m \in Names : TRUE
    IN  username'[p] \in {NoName, n}

LiveSpec == DeliveryInit /\ [][DeliveryNext /\ OneUsesTheFirst]_allVars /\ Fairness

\* No step depends on what the last one gave to the workers (out): it is in
\* pending.  For the invariants, states that differ in it alone are one.
WithoutOut == <<connVars, names, seatVars, chatVars, deliveryVars>>
=============================================================================
