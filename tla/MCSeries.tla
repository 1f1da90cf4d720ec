------------------------------ MODULE MCSeries ------------------------------
(***************************************************************************)
(* Instances of Series: two occurrences, and two contents of the series,   *)
(* the second of which ends the series after the first occurrence.         *)
(* People change the source twice while a run fails, or each calendar once *)
(* while none does.                                                        *)
(***************************************************************************)
EXTENDS Series

CONSTANTS o1, o2, m1, m2

MCRecurs == [m \in Masters |-> IF m = m1 THEN {o1, o2} ELSE {o1}]
MCBounds == {[source |-> 2, dest |-> 0, faults |-> 1], [source |-> 1, dest |-> 1, faults |-> 0]}
MCSwap == {[source |-> 2, dest |-> 0, faults |-> 0]}
=============================================================================
