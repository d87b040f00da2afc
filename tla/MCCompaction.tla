---------------------------- MODULE MCCompaction ----------------------------
(* Small instances of Compaction: two ticker-days, the first with the        *)
(* richer set of writers, the second with the segments of DayTwo.            *)
EXTENDS Compaction, TLC

CONSTANTS DayTwo, Retyped

DayOf == [s \in Segments |-> IF s \in DayTwo THEN 2 ELSE 1]
\* The daemon restarted onto other code before it wrote the Retyped segments.
SchemaOf == [s \in Segments |-> IF s \in Retyped THEN "new" ELSE "old"]

SweeperSymmetry == Permutations(Sweepers)
=============================================================================
