--------------------------- MODULE AddressExchange --------------------------
(***************************************************************************)
(* What the launcher promises main.cpp: every process publishes its        *)
(* address, and none goes past the barrier, to read those of the others,   *)
(* before all are published.  A process may end at any time; its address   *)
(* stays published.                                                        *)
(***************************************************************************)
EXTENDS Naturals

CONSTANT Size   \* number of processes

Ranks == 0 .. Size - 1

VARIABLES published,  \* the processes whose address can be read
          passed      \* the live processes that are past the barrier

exchangeVars == <<published, passed>>

Init == published = {} /\ passed = {}

Publish(r) ==
    /\ published' = published \cup {r}
    /\ UNCHANGED passed

Pass(r) ==
    /\ published = Ranks
    /\ passed' = passed \cup {r}
    /\ UNCHANGED published

End(r) ==
    /\ passed' = passed \ {r}
    /\ UNCHANGED published

Next == \E r \in Ranks : Publish(r) \/ Pass(r) \/ End(r)

Spec == Init /\ [][Next]_exchangeVars
=============================================================================
