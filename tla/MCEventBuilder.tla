--------------------------- MODULE MCEventBuilder ---------------------------
(***************************************************************************)
(* EventBuilder with the headers of rings whose multievents have two       *)
(* events each: those of multievent a have the ids 2 * a and 2 * a + 1.    *)
(***************************************************************************)
EXTENDS EventBuilder

\* No event is empty.
HeadersWhole == [i \in Nodes |-> [a \in 0 .. Slots - 1 |-> [id |-> 2 * a, length |-> 24]]]

\* On node 1 the first event of multievent 2 is empty: the header of the second
\* one is where its own was.  On node 0 multievent 1 begins with the header of an
\* empty event that no other one overwrote.
HeadersBroken ==
    [HeadersWhole EXCEPT ![1][2].id = @ + 1, ![0][1].length = 0]
=============================================================================
