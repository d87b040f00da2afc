----------------------------- MODULE MCFairParts -----------------------------
(***************************************************************************)
(* Three parts that share no state, under the fairness each is scheduled   *)
(* with: a behaviour is of one day's evening, of the token or of the bars  *)
(* walk, and the others stay as they began.                                *)
(***************************************************************************)
EXTENDS CloseEvening, Tokens, BarSweep

VARIABLE subject
PartsInit ==
    subject \in {"evening", "token", "walk"} /\ Init /\ TokenInit /\ WalkInit
PartsNext ==
    /\ UNCHANGED subject
    /\ \/ subject = "evening" /\ Next /\ UNCHANGED <<tokenVars, walkVars>>
       \/ subject = "token" /\ TokenNext /\ UNCHANGED <<vars, walkVars>>
       \/ subject = "walk" /\ WalkNext /\ UNCHANGED <<vars, tokenVars>>

\* The fairness of each module, owed where the behaviour is its own.
EveningDue ==
    /\ WF_vars(subject = "evening" /\ Tick) /\ WF_vars(subject = "evening" /\ Start)
    /\ WF_vars(subject = "evening" /\ Cycles)
    /\ WF_vars(subject = "evening" /\ (TickNext \/ HandOn \/ RaiseOn \/ GuardNext))
    /\ SF_vars(subject = "evening" /\ PassNext) /\ SF_vars(subject = "evening" /\ SweepNext)
TokenDue ==
    /\ \A c \in Clients :
        /\ WF_tokenVars(subject = "token" /\ Build(c))
        /\ WF_tokenVars(subject = "token" /\ Request(c))
        /\ WF_tokenVars(subject = "token" /\ (RefreshAnswered(c) \/ RefreshRefused(c)))
    /\ WF_tokenVars(subject = "token" /\ Slot) /\ WF_tokenVars(subject = "token" /\ PullRuns)
WalkDue ==
    /\ WF_walkVars(subject = "walk" /\ Backfill(Nightly))
    /\ \A r \in Runs : WF_walkVars(subject = "walk" /\ Walks(r))
PartsSpec ==
    /\ PartsInit /\ [][PartsNext]_<<subject, vars, tokenVars, walkVars>>
    /\ EveningDue /\ TokenDue /\ WalkDue

\* Every day's partitions seal.
EveningSeals == subject = "evening" => DaysSeal
=============================================================================
