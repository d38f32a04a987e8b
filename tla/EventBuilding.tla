---------------------------- MODULE EventBuilding ---------------------------
(***************************************************************************)
(* What the whole system promises, without memory, credits or connections. *)
(* Each node reads out fragments: fragment n of every node belongs to the  *)
(* same event (a "multievent": BULKED_EVENTS of them together).  Event n   *)
(* is built by node n % NumNodes, which needs the fragment of every node.  *)
(***************************************************************************)
EXTENDS Integers

CONSTANTS NumNodes, Credits

Nodes == 0 .. NumNodes - 1

\* The event builder j builds after r others.
Num(r, j) == r * NumNodes + j

VARIABLES acquired,  \* how many fragments each readout unit has read out
          built      \* how many events each builder unit has built

absVars == <<acquired, built>>

Init == acquired = [i \in Nodes |-> 0] /\ built = [j \in Nodes |-> 0]

\* A readout unit does not run ahead of any builder by more than the memory
\* between them: Credits events in the builder's receive buffers, and then
\* the 2 * Credits multievents of the readout unit's own ring.
ReadOut(i, k) ==
    /\ \A j \in Nodes : acquired[i] + k <= Num(built[j] + Credits, j) + 2 * Credits
    /\ acquired' = [acquired EXCEPT ![i] = @ + k]
    /\ UNCHANGED built

\* A builder builds its next m events, of each of which every readout unit
\* has read out its fragment.
Build(j, m) ==
    /\ \A i \in Nodes : Num(built[j] + m - 1, j) < acquired[i]
    /\ built' = [built EXCEPT ![j] = @ + m]
    /\ UNCHANGED acquired

Next ==
    \/ \E i \in Nodes : \E k \in 1 .. NumNodes : ReadOut(i, k)
    \/ \E j \in Nodes : \E m \in 1 .. Credits : Build(j, m)

Spec == Init /\ [][Next]_absVars
=============================================================================
