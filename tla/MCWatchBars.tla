----------------------------- MODULE MCWatchBars -----------------------------
(***************************************************************************)
(* Four parts that share no state, in one run: a behaviour is of two days  *)
(* of the evening, of the watchdog, of the bar import or of the bars walk, *)
(* and the others stay as they began.                                      *)
(***************************************************************************)
EXTENDS CloseEvening, Watchdog, BarImport, BarSweep
CONSTANTS qa, qb, ca, ta, tb, k1, k2, vintage, schwab

TickerOf == [k \in {qa, qb, ca} |-> IF k = qb THEN tb ELSE ta]
FailsOf == [k \in {qa, qb, ca} |->
    CASE k = qa -> {"http_401", "ENOSPC"}
      [] k = qb -> {"http_401"}
      [] k = ca -> {"http_401", "contracts_absent", "ENOSPC"}]
CoversOf == [s \in {vintage, schwab} |-> {k1, k2}]

VARIABLE subject
PartsInit ==
    /\ subject \in {"evening", "watchdog", "import", "walk"}
    /\ Init /\ WatchInit /\ BarInit /\ WalkInit
PartsNext ==
    /\ UNCHANGED subject
    /\ \/ subject = "evening" /\ Next /\ UNCHANGED <<watchVars, barVars, walkVars>>
       \/ subject = "watchdog" /\ WatchNext /\ UNCHANGED <<vars, barVars, walkVars>>
       \/ subject = "import" /\ BarNext /\ UNCHANGED <<vars, watchVars, walkVars>>
       \/ subject = "walk" /\ WalkNext /\ UNCHANGED <<vars, watchVars, barVars>>
PartsSpec == PartsInit /\ [][PartsNext]_<<subject, vars, watchVars, barVars, walkVars>>
=============================================================================
