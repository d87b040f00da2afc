------------------------------ MODULE MCBackup ------------------------------
(***************************************************************************)
(* Small instances of Backup, a few partitions named for surface and day,  *)
(* and of SplitWalk.  The two share no state: a behaviour is of one of     *)
(* them, and the other stays as it began.                                  *)
(***************************************************************************)
EXTENDS Backup, SplitWalk
CONSTANTS c1, q1, m1, d1, c2, adjusted
KindOf == [p \in Partitions |-> CASE p \in {c1, c2} -> "chains" [] p = q1 -> "quotes"
                                  [] p = m1 -> "minute" [] OTHER -> "daily"]
DayOf == [p \in Partitions |-> IF p = c2 THEN 2 ELSE 1]
OneSession == [s \in Surfaces |-> 1]
QuotesKept == [s \in Surfaces |-> IF s = "quotes" THEN None ELSE 1]

VARIABLE subject
PartsInit == subject \in {"backup", "splits"} /\ Init /\ SplitInit
PartsNext ==
    /\ UNCHANGED subject
    /\ \/ subject = "backup" /\ Next /\ UNCHANGED splitVars
       \/ subject = "splits" /\ SplitNext /\ UNCHANGED vars
PartsSpec == PartsInit /\ [][PartsNext]_<<subject, vars, splitVars>>
=============================================================================
