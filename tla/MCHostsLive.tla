----------------------------- MODULE MCHostsLive ----------------------------
(***************************************************************************)
(* Two parts that share no state, in one run: a behaviour is of the hosts  *)
(* beside the bucket, or of the live upload of one host, and the other     *)
(* stays as it began.                                                      *)
(***************************************************************************)
EXTENDS MCResync, MCLiveUpload

VARIABLE subject
PartsInit ==
    /\ subject \in {"hosts", "live"} /\ Init /\ LiveInit
    /\ subject = "live" => primary = CHOOSE h \in Hosts : TRUE
PartsNext ==
    /\ UNCHANGED subject
    /\ \/ subject = "hosts" /\ Next /\ UNCHANGED liveVars
       \/ subject = "live" /\ LiveNext /\ UNCHANGED vars

\* Fairness is of the part a behaviour is of: that of FairSpec and of LiveSpec.
PartsSpec ==
    /\ PartsInit /\ [][PartsNext]_<<subject, vars, liveVars>>
    /\ WF_vars(subject = "hosts" /\ ResyncRun)
    /\ \A h \in Hosts : WF_vars(subject = "hosts" /\ ResyncPlan(h))
    /\ WF_liveVars(subject = "live" /\ ThreadStep)
=============================================================================
