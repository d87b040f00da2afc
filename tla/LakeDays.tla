------------------------------ MODULE LakeDays ------------------------------
(***************************************************************************)
(* What the journal and its compaction promise a reader of the lake: a     *)
(* ticker-day gathers rows while it is open, keeps every row it gathered,  *)
(* and is sealed once, with all of them.                                   *)
(***************************************************************************)
CONSTANTS TickerDays, Segments, Day, None

VARIABLES rows,     \* the rows of each ticker-day the lake holds
          sealed    \* the rows its sealed partition is recorded with, or None

vars == <<rows, sealed>>

Init == /\ rows = [d \in TickerDays |-> {}]
        /\ sealed = [d \in TickerDays |-> None]

Gather(s) == /\ sealed[Day[s]] = None
             /\ rows' = [rows EXCEPT ![Day[s]] = @ \cup {s}]
             /\ UNCHANGED sealed

Seal(d) == /\ sealed[d] = None
           /\ sealed' = [sealed EXCEPT ![d] = rows[d]]
           /\ UNCHANGED rows

Next == (\E s \in Segments : Gather(s)) \/ (\E d \in TickerDays : Seal(d))

Spec == Init /\ [][Next]_vars
=============================================================================
