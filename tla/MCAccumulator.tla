---------------------------- MODULE MCAccumulator ---------------------------
(***************************************************************************)
(* Accumulator on small rings: events of different sizes (in units of the  *)
(* padding), laid out one after the other as the Generator does.           *)
(***************************************************************************)
EXTENDS Accumulator

\* Sizes that differ between the events of a multievent and between
\* multievents.
MCMetaLength == [p \in MetaSlots |-> 1 + ((p * p) % 3)]

MCOffset[p \in 0 .. MetaSize] ==
    IF p = 0 THEN 0 ELSE MCOffset[p - 1] + MCMetaLength[p - 1]
MCMetaOffset == [p \in MetaSlots |-> MCOffset[p]]
MCDataSize == MCOffset[MetaSize]
=============================================================================
