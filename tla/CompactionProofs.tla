-------------------------- MODULE CompactionProofs --------------------------
(* Theorems about Compaction, for every number of ticker-days, segments and  *)
(* processes.                                                                *)
EXTENDS Compaction, FiniteSetTheorems, TLAPS

LEMMA IdleType == Idle \in RunStates
BY ConstantsAssumption DEF Idle, RunStates, Steps, TickerDays, Contents

LEMMA RestType ==
    ASSUME TypeOK, NEW p \in Procs, Rest(p)
    PROVE  /\ run' \in [Procs -> RunStates]
           /\ lock' \in Procs \cup {Free}
BY IdleType DEF TypeOK, Rest

LEMMA LeaveDayType ==
    ASSUME TypeOK, NEW p \in Procs, LeaveDay(p)
    PROVE  /\ run' \in [Procs -> RunStates]
           /\ lock' \in Procs \cup {Free}
<1>1. CASE run[p].kind = "sweep"
  <2>1. run[p] \in RunStates
    BY DEF TypeOK
  <2>2. Sweeping(run[p].todo \ {run[p].day}, run[p].latest, run[p].known) \in RunStates
    BY <2>1, ConstantsAssumption DEF Sweeping, RunStates, Steps, Contents
  <2> QED
    BY <1>1, <2>2 DEF LeaveDay, TypeOK
<1>2. CASE run[p].kind # "sweep"
  BY <1>2, RestType DEF LeaveDay
<1> QED
  BY <1>1, <1>2

LEMMA ListingType == TypeOK => \A d \in TickerDays : Listing(d) \in Contents
BY DEF TypeOK, Listing, Contents
LEMMA UpdateType ==
    ASSUME TypeOK, NEW p \in Procs, NEW r \in RunStates, run' = [run EXCEPT ![p] = r]
    PROVE  run' \in [Procs -> RunStates]
BY DEF TypeOK

LEMMA FaultType == TypeOK /\ Fault => faults' \in 0..MaxFaults
BY ConstantsAssumption DEF TypeOK, Fault

LEMMA TearType == TypeOK /\ Tear => ledger' \in Ledgers /\ faults' \in 0..MaxFaults
BY FaultType DEF TypeOK, Tear, Ledgers

LEMMA AppendPartitionType ==
    ASSUME TypeOK, NEW d, NEW content \in Contents, AppendPartition(d, content)
    PROVE  ledger' \in Ledgers
<1>1. ledger \in Ledgers /\ Landed(ledger) \in {"clean", "fragment", "fused"}
  BY DEF TypeOK, Landed
<1> DEFINE e == IF ledger.tail = "clean" THEN content ELSE ledger.entry[d]
           w == IF ledger.tail = "fragment" THEN ledger.whole[d] ELSE content
<1>2. /\ [ledger.entry EXCEPT ![d] = e] \in [TickerDays -> {None} \cup Contents]
      /\ [ledger.whole EXCEPT ![d] = w] \in [TickerDays -> {None} \cup Contents]
  BY <1>1 DEF Ledgers
<1>3. ledger' = [entry |-> [ledger.entry EXCEPT ![d] = e],
                whole |-> [ledger.whole EXCEPT ![d] = w],
                recorded |-> ledger.recorded, tail |-> Landed(ledger)]
  BY <1>1 DEF AppendPartition, Ledgers
<1> QED
  BY <1>1, <1>2, <1>3 DEF Ledgers

LEMMA AppendSegmentType ==
    ASSUME TypeOK, NEW s \in Segments, AppendSegment(s)
    PROVE  ledger' \in Ledgers
BY DEF TypeOK, AppendSegment, Ledgers, Landed, Contents

LEMMA TypeInit == Init => TypeOK
BY IdleType, ConstantsAssumption DEF Init, TypeOK, Stages, Files, Ledgers, Contents

LEMMA TypeStep == TypeOK /\ [Next]_vars => TypeOK'
<1> SUFFICES ASSUME TypeOK, [Next]_vars PROVE TypeOK'
  OBVIOUS
<1>1. ASSUME NEW d \in TickerDays, OptionClose(d) PROVE TypeOK'
  BY <1>1 DEF TypeOK, OptionClose, Stages
<1>2. ASSUME NEW d \in TickerDays, GuardWindowEnds(d) PROVE TypeOK'
  BY <1>2 DEF TypeOK, GuardWindowEnds, Stages
<1>3. ASSUME NEW s \in Segments, CaptureSegment(s) PROVE TypeOK'
  BY <1>3 DEF TypeOK, CaptureSegment, Write, Files, Contents
<1>4. ASSUME NEW s \in Segments, FillStart(s) PROVE TypeOK'
  BY <1>4 DEF TypeOK, FillStart, Files
<1>5. ASSUME NEW s \in Segments, FillLands(s) PROVE TypeOK'
  BY <1>5 DEF TypeOK, FillLands, Write, Files, Contents
<1>6. ASSUME NEW s \in Segments, MarkGap(s) PROVE TypeOK'
  BY <1>6 DEF TypeOK, MarkGap, Write, Files, Contents
<1>7. ASSUME NEW s \in Segments, RecordSegment(s) PROVE TypeOK'
  BY <1>7, AppendSegmentType DEF TypeOK, RecordSegment, Contents
<1>8. ASSUME NEW s \in Segments, RecordTears(s) PROVE TypeOK'
  BY <1>8, TearType DEF TypeOK, RecordTears, Contents
<1>9. ASSUME NEW p \in Procs, StartSweep(p) PROVE TypeOK'
  <2>1. Sweeping(SweepScope, ledger.entry, ledger.recorded) \in RunStates
    BY ConstantsAssumption DEF TypeOK, Sweeping, SweepScope, RunStates, Steps, Contents, Ledgers
  <2> QED
    BY <1>9, <2>1, UpdateType DEF TypeOK, StartSweep
<1>10. ASSUME NEW p \in Procs, NEW d \in TickerDays, StartRepair(p, d) PROVE TypeOK'
  <2>1. Repairing(d, Listing(d), ledger.entry, ledger.recorded) \in RunStates
    BY ListingType, ConstantsAssumption
       DEF TypeOK, TickerDays, Repairing, RunStates, Steps, Contents, Ledgers
  <2> QED
    BY <1>10, <2>1, UpdateType DEF TypeOK, StartRepair
<1>11. ASSUME NEW p \in Procs, NEW d \in TickerDays, SkipDay(p, d) PROVE TypeOK'
  <2>1. [run[p] EXCEPT !.todo = run[p].todo \ {d}] \in RunStates
    BY DEF TypeOK, RunStates
  <2>2. run' \in [Procs -> RunStates]
    BY <1>11, <2>1 DEF TypeOK, SkipDay
  <2> QED
    BY <1>11, <2>2 DEF TypeOK, SkipDay
<1>12. ASSUME NEW p \in Procs, NEW d \in TickerDays, OpenDay(p, d) PROVE TypeOK'
  <2>1. [run[p] EXCEPT !.pc = Route(p, d), !.day = d, !.segs = Listing(d)] \in RunStates
    <3>1. run[p] \in RunStates /\ Route(p, d) \in Steps /\ d \in 0..NumDays
      BY ConstantsAssumption DEF TypeOK, Route, Steps, TickerDays
    <3> QED
      BY <3>1, ListingType DEF RunStates
  <2> QED
    BY <1>12, <2>1, UpdateType DEF TypeOK, OpenDay
<1>13. ASSUME NEW p \in Procs, EndSweep(p) PROVE TypeOK'
  BY <1>13, RestType DEF TypeOK, EndSweep
<1>14. ASSUME NEW p \in Procs, RecoverVerified(p) PROVE TypeOK'
  <2>1. [run[p] EXCEPT !.pc = "unlink"] \in RunStates
    BY DEF TypeOK, RunStates, Steps
  <2> QED
    BY <1>14, <2>1, UpdateType DEF TypeOK, RecoverVerified
<1>15. ASSUME NEW p \in Procs, RecoverMismatch(p) PROVE TypeOK'
  BY <1>15, RestType DEF TypeOK, RecoverMismatch
<1>16. ASSUME NEW p \in Procs, RefuseDamaged(p) PROVE TypeOK'
  BY <1>16, LeaveDayType DEF TypeOK, RefuseDamaged
<1>17. ASSUME NEW p \in Procs, ReadRaises(p) PROVE TypeOK'
  BY <1>17, RestType DEF TypeOK, ReadRaises
<1>18. ASSUME NEW p \in Procs, RefuseConflict(p) PROVE TypeOK'
  BY <1>18, LeaveDayType DEF TypeOK, RefuseConflict
<1>19. ASSUME NEW p \in Procs, GuardRefuses(p) PROVE TypeOK'
  BY <1>19, RestType DEF TypeOK, GuardRefuses
<1>20. ASSUME NEW p \in Procs, MergeSegments(p) PROVE TypeOK'
  <2>1. [run[p] EXCEPT !.pc = "write", !.merged = Readable(p)] \in RunStates
    BY ZenonT(40) DEF TypeOK, RunStates, Steps, Readable, Contents
  <2> QED
    BY <1>20, <2>1, UpdateType DEF TypeOK, MergeSegments, Readable, Contents
<1>21. ASSUME NEW p \in Procs, WritePartition(p) PROVE TypeOK'
  <2>1. [run[p] EXCEPT !.pc = "append"] \in RunStates /\ run[p].merged \in Contents
    BY DEF TypeOK, RunStates, Steps
  <2> QED
    BY <1>21, <2>1, UpdateType DEF TypeOK, WritePartition
<1>22. ASSUME NEW p \in Procs, AppendEntry(p) PROVE TypeOK'
  <2>1. run[p] \in RunStates
    BY DEF TypeOK
  <2>2. [run[p].latest EXCEPT ![run[p].day] = run[p].merged]
           \in [TickerDays -> {None} \cup Contents]
    BY <2>1 DEF RunStates
  <2>3. [run[p] EXCEPT !.pc = "unlink", !.latest[run[p].day] = run[p].merged] \in RunStates
    BY <2>1, <2>2 DEF RunStates, Steps
  <2>4. run' \in [Procs -> RunStates]
    BY <1>22, <2>3 DEF TypeOK, AppendEntry
  <2>5. ledger' \in Ledgers
    BY <1>22, <2>1, AppendPartitionType DEF AppendEntry, RunStates
  <2> QED
    BY <1>22, <2>4, <2>5 DEF TypeOK, AppendEntry
<1>23. ASSUME NEW p \in Procs, NEW s \in Segments, UnlinkSegment(p, s) PROVE TypeOK'
  <2>1. [run[p] EXCEPT !.segs = run[p].segs \ {s}] \in RunStates
    BY DEF TypeOK, RunStates, Contents
  <2>2. run' \in [Procs -> RunStates]
    BY <1>23, <2>1 DEF TypeOK, UnlinkSegment
  <2> QED
    BY <1>23, <2>2 DEF TypeOK, UnlinkSegment, Contents
<1>24. ASSUME NEW p \in Procs, DayDone(p) PROVE TypeOK'
  BY <1>24, LeaveDayType DEF TypeOK, DayDone
<1>25. ASSUME NEW p \in Procs, VerifyFails(p) PROVE TypeOK'
  <2>1. [part EXCEPT ![run[p].day] = Bad] \in [TickerDays -> {None, Bad} \cup Contents]
    BY DEF TypeOK
  <2> QED
    BY <1>25, <2>1, RestType, FaultType DEF TypeOK, VerifyFails
<1>26. ASSUME NEW p \in Procs, AppendTears(p) PROVE TypeOK'
  BY <1>26, RestType, TearType DEF TypeOK, AppendTears
<1>27. ASSUME NEW p \in Procs, KillRun(p) PROVE TypeOK'
  BY <1>27, RestType, FaultType DEF TypeOK, KillRun
<1>28. ASSUME DaemonDies PROVE TypeOK'
  BY <1>28, FaultType DEF TypeOK, DaemonDies, WithoutFetches, Files, Contents
<1>29. ASSUME NEW s \in Segments, DaemonDiesWriting(s) PROVE TypeOK'
  BY <1>29, FaultType DEF TypeOK, DaemonDiesWriting, WithoutFetches, Files, Contents
<1>30. ASSUME NEW s \in Segments, Rot(s) PROVE TypeOK'
  BY <1>30 DEF TypeOK, Rot, Files
<1>31. ASSUME NEW s \in Segments, WriteBackUnlink(s) PROVE TypeOK'
  BY <1>31 DEF TypeOK, WriteBackUnlink, Contents
<1>32. ASSUME WriteBackLedger PROVE TypeOK'
  BY <1>32 DEF TypeOK, WriteBackLedger
<1>33. ASSUME PowerLoss PROVE TypeOK'
  BY <1>33, FaultType, IdleType DEF TypeOK, PowerLoss, WithoutFetches, Files, Contents
<1>34. CASE UNCHANGED vars
  BY <1>34 DEF vars, TypeOK
<1> QED
  BY <1>1, <1>2, <1>3, <1>4, <1>5, <1>6, <1>7, <1>8, <1>9, <1>10, <1>11, <1>12, <1>13, <1>14,
     <1>15, <1>16, <1>17, <1>18, <1>19, <1>20, <1>21, <1>22, <1>23, <1>24, <1>25, <1>26,
     <1>27, <1>28, <1>29, <1>30, <1>31, <1>32, <1>33, <1>34
     DEF Next, Writers, RunStep, Faults

(* Every variable keeps its type, whatever hazards are let loose.            *)
THEOREM TypeInvariant == Spec => []TypeOK
BY TypeInit, TypeStep, PTL DEF Spec

-----------------------------------------------------------------------------
(* The inductive invariant, for a lake on which nothing but rot is let loose. *)

(* A process holds the lock exactly while it runs.                           *)
Exclusive == \A p \in Procs : run[p].pc # "idle" <=> lock = p

WholeManifest == ledger.tail = "clean" /\ ledger.whole = ledger.entry /\ limbo = {}

(* An unsealed day's rows are in its segments; a sealed day is over, its      *)
(* entry names every row, and the rows are in the partition or the segments.  *)
DaySafe(d) ==
    IF ledger.entry[d] = None
    THEN Captured(d) \subseteq present
    ELSE /\ stage[d] = "past"
         /\ ledger.entry[d] = Captured(d)
         /\ part[d] = ledger.entry[d] \/ ledger.entry[d] \subseteq present

Working == {"recover", "seal", "write", "append", "unlink"}

(* What a run knows of the ticker-day it works on, step by step.              *)
RunSafe(p) ==
    /\ \A d \in run[p].todo : stage[d] = "past"
    /\ run[p].pc = "next" => run[p].kind = "sweep"
    /\ run[p].pc \in Working =>
          /\ run[p].day \in TickerDays
          /\ stage[run[p].day] = "past"
          /\ run[p].segs \subseteq SegmentsOf(run[p].day)
    /\ run[p].pc \in {"recover", "seal"} => run[p].segs = Listing(run[p].day)
    /\ run[p].pc \in {"recover", "unlink"} => ledger.entry[run[p].day] # None
    /\ run[p].pc \in {"seal", "write", "append"} /\ run[p].kind = "sweep" =>
          ledger.entry[run[p].day] = None
    /\ run[p].pc \in {"write", "append"} =>
          run[p].merged = Captured(run[p].day) /\ run[p].merged \subseteq present
    /\ run[p].pc = "append" => part[run[p].day] = run[p].merged
    /\ run[p].pc = "unlink" => part[run[p].day] = ledger.entry[run[p].day]
    /\ p \in Sweepers => run[p].kind = "sweep"

IInv ==
    /\ TypeOK
    /\ Exclusive
    /\ LatestIsCurrent
    /\ WholeManifest
    /\ \A d \in TickerDays : DaySafe(d)
    /\ \A p \in Procs : RunSafe(p)

OnlyRot == Hazards \subseteq {"rot"}

LEMMA IInvInit == Init => IInv
<1> SUFFICES ASSUME Init PROVE IInv
  OBVIOUS
<1>1. \A p \in Procs : run[p] = Idle
  BY DEF Init
<1>2. \A d \in TickerDays : ledger.entry[d] = None /\ Captured(d) = {}
  BY DEF Init, Captured, SegmentsOf
<1>3. Exclusive /\ LatestIsCurrent
  BY <1>1, ConstantsAssumption DEF Init, Exclusive, LatestIsCurrent, Idle
<1>4. WholeManifest
  BY DEF Init, WholeManifest
<1>5. \A d \in TickerDays : DaySafe(d)
  BY <1>2 DEF DaySafe
<1>6. \A p \in Procs : RunSafe(p)
  BY <1>1 DEF RunSafe, Idle, Working
<1> QED
  BY <1>3, <1>4, <1>5, <1>6, TypeInit DEF IInv

(* Steps of the clock, the writers and the disk: they add what no run and no *)
(* seal has counted yet.                                                      *)
LEMMA OutsideStep ==
    ASSUME IInv, TypeOK',
           UNCHANGED <<limbo, part, ledger, lock, run>>,
           present \subseteq present',
           \A d \in TickerDays : stage[d] = "past" => stage'[d] = "past",
           \A d \in TickerDays : Captured(d)' \subseteq Captured(d) \cup present',
           \A d \in TickerDays : stage[d] = "past" /\ (lock # Free \/ ledger.entry[d] # None) =>
               Captured(d)' = Captured(d) /\ Listing(d)' = Listing(d)
    PROVE  IInv'
<1>1. Exclusive' /\ LatestIsCurrent' /\ WholeManifest'
  BY DEF IInv, Exclusive, LatestIsCurrent, WholeManifest
<1>2. ASSUME NEW d \in TickerDays PROVE DaySafe(d)'
  BY DEF IInv, DaySafe
<1>3. ASSUME NEW p \in Procs PROVE RunSafe(p)'
  <2>1. RunSafe(p) /\ run'[p] = run[p] /\ run[p].todo \subseteq TickerDays
    BY DEF IInv, TypeOK, RunStates
  <2>2. CASE run[p].pc \notin Working
    BY <2>1, <2>2 DEF RunSafe, Working
  <2>3. CASE run[p].pc \in Working
    <3> DEFINE d == run[p].day
    <3>1. d \in TickerDays /\ stage[d] = "past"
      BY <2>1, <2>3 DEF RunSafe
    <3>2. lock # Free
      BY <2>3, ConstantsAssumption DEF IInv, Exclusive, Working
    <3>3. Captured(d)' = Captured(d) /\ Listing(d)' = Listing(d) /\ stage'[d] = "past"
      BY <3>1, <3>2
    <3> QED
      BY <2>1, <3>3 DEF RunSafe, SegmentsOf
  <2> QED
    BY <2>2, <2>3
<1> QED
  BY <1>1, <1>2, <1>3 DEF IInv

(* Steps of the process that holds the lock.                                 *)
LEMMA AloneWithLock ==
    ASSUME IInv, NEW p \in Procs, run[p].pc # "idle"
    PROVE  /\ lock = p /\ lock # Free
           /\ \A q \in Procs : q # p => run[q].pc = "idle"
BY ConstantsAssumption DEF IInv, Exclusive

LEMMA OthersSafe ==
    ASSUME IInv, NEW p \in Procs, run[p].pc # "idle", UNCHANGED stage,
           NEW r, run' = [run EXCEPT ![p] = r]
    PROVE  \A q \in Procs : q # p => run'[q].pc = "idle" /\ RunSafe(q)'
<1> SUFFICES ASSUME NEW q \in Procs, q # p PROVE run'[q].pc = "idle" /\ RunSafe(q)'
  OBVIOUS
<1>1. run'[q] = run[q] /\ run[q].pc = "idle" /\ RunSafe(q)
  BY AloneWithLock DEF IInv, TypeOK
<1> QED
  BY <1>1 DEF RunSafe, Working

LEMMA RestStep ==
    ASSUME IInv, TypeOK', NEW p \in Procs, run[p].pc # "idle", Rest(p),
           UNCHANGED <<stage, limbo, ledger>>,
           \A d \in TickerDays : DaySafe(d)'
    PROVE  IInv'
<1>1. run'[p] = Idle /\ lock' = Free /\ lock = p
  BY AloneWithLock DEF Rest, IInv, TypeOK
<1>2. \A q \in Procs : q # p => run'[q].pc = "idle" /\ RunSafe(q)'
  BY OthersSafe DEF Rest
<1>3. RunSafe(p)'
  BY <1>1 DEF RunSafe, Idle, Working
<1>4. Exclusive' /\ LatestIsCurrent'
  BY <1>1, <1>2, ConstantsAssumption DEF Exclusive, LatestIsCurrent, Idle
<1>5. WholeManifest'
  BY DEF IInv, WholeManifest
<1> QED
  BY <1>2, <1>3, <1>4, <1>5 DEF IInv

(* A step that keeps the manifest and the lock and moves the run on to r.    *)
LEMMA RunningStep ==
    ASSUME IInv, TypeOK', NEW p \in Procs, run[p].pc # "idle",
           NEW r, run' = [run EXCEPT ![p] = r], r.pc # "idle",
           r.latest = run[p].latest, r.known = run[p].known,
           UNCHANGED <<stage, limbo, ledger, lock>>,
           RunSafe(p)',
           \A d \in TickerDays : DaySafe(d)'
    PROVE  IInv'
<1>1. run'[p] = r /\ lock' = p
  BY AloneWithLock DEF IInv, TypeOK
<1>2. \A q \in Procs : q # p => run'[q].pc = "idle" /\ RunSafe(q)'
  BY OthersSafe
<1>3. Exclusive' /\ LatestIsCurrent'
  BY <1>1, <1>2 DEF IInv, Exclusive, LatestIsCurrent
<1>4. WholeManifest'
  BY DEF IInv, WholeManifest
<1> QED
  BY <1>2, <1>3, <1>4 DEF IInv

LEMMA LeaveDayStep ==
    ASSUME IInv, TypeOK', NEW p \in Procs, run[p].pc # "idle", LeaveDay(p),
           UNCHANGED <<stage, file, present, limbo, part, ledger>>
    PROVE  IInv'
<1>1. \A d \in TickerDays : DaySafe(d)'
  BY DEF IInv, DaySafe, Captured, SegmentsOf
<1>2. CASE run[p].kind # "sweep"
  BY <1>1, <1>2, RestStep DEF LeaveDay
<1>3. CASE run[p].kind = "sweep"
  <2> DEFINE r == Sweeping(run[p].todo \ {run[p].day}, run[p].latest, run[p].known)
  <2>1. run' = [run EXCEPT ![p] = r] /\ lock' = lock
    BY <1>3 DEF LeaveDay
  <2>2. run'[p] = r
    BY <2>1 DEF IInv, TypeOK
  <2>3. RunSafe(p)'
    BY <2>2 DEF IInv, RunSafe, Sweeping, Working
  <2>4. r.pc # "idle" /\ r.latest = run[p].latest /\ r.known = run[p].known
    BY DEF Sweeping
  <2> HIDE DEF r
  <2> QED
    BY <1>1, <2>1, <2>3, <2>4, RunningStep
<1> QED
  BY <1>2, <1>3

(* What a run finds when it merges: exactly the rows the day has.            *)
LEMMA MergeFindsAll ==
    ASSUME IInv, NEW p \in Procs, AtStep(p, "seal"),
           ledger.entry[run[p].day] # None => ~Shrinks(p)
    PROVE  /\ Readable(p) = Captured(run[p].day)
           /\ Readable(p) \subseteq present
<1> DEFINE d == run[p].day
<1>1. d \in TickerDays /\ run[p].segs = Listing(d)
  BY DEF IInv, RunSafe, AtStep, Working
<1>2. Readable(p) = Captured(d) \cap present
  BY <1>1 DEF Readable, Captured, Listing
<1>3. CASE ledger.entry[d] = None
  BY <1>1, <1>2, <1>3 DEF IInv, DaySafe
<1>4. CASE ledger.entry[d] # None
  <2>1. ledger.entry[d] = Captured(d) /\ ~(Cardinality(Readable(p)) < Cardinality(Captured(d)))
    BY <1>1, <1>4 DEF IInv, DaySafe, Shrinks
  <2>2. IsFiniteSet(Captured(d)) /\ Readable(p) \in SUBSET Captured(d)
    BY <1>2, ConstantsAssumption, FS_Subset DEF Captured, SegmentsOf
  <2>3. /\ Cardinality(Readable(p)) <= Cardinality(Captured(d))
        /\ Cardinality(Captured(d)) = Cardinality(Readable(p)) => Captured(d) = Readable(p)
        /\ Cardinality(Captured(d)) \in Nat /\ Cardinality(Readable(p)) \in Nat
    BY <2>2, FS_Subset, FS_CardinalityType
  <2> QED
    BY <2>1, <2>3, <1>2
<1> QED
  BY <1>3, <1>4

LEMMA IInvStep ==
    ASSUME OnlyRot, IInv, [Next]_vars
    PROVE  IInv'
<1>0. TypeOK' /\ TypeOK
  BY TypeStep DEF IInv
<1>1. ASSUME NEW d \in TickerDays, OptionClose(d) PROVE IInv'
  BY <1>0, <1>1, OutsideStep DEF OptionClose, Captured, SegmentsOf, Listing, TypeOK
<1>2. ASSUME NEW d \in TickerDays, GuardWindowEnds(d) PROVE IInv'
  BY <1>0, <1>2, OutsideStep DEF GuardWindowEnds, Captured, SegmentsOf, Listing, TypeOK
<1>3. ASSUME NEW s \in Segments, CaptureSegment(s) PROVE IInv'
  BY <1>0, <1>3, OutsideStep
     DEF CaptureSegment, Write, Captured, SegmentsOf, Listing, TypeOK
<1>4. ASSUME NEW s \in Segments, FillStart(s) PROVE IInv'
  BY <1>0, <1>4, OutsideStep DEF FillStart, Captured, SegmentsOf, Listing, TypeOK
<1>5. ASSUME NEW s \in Segments, FillLands(s) PROVE IInv'
  BY <1>0, <1>5, OutsideStep
     DEF FillLands, Write, Captured, SegmentsOf, Listing, TypeOK, OnlyRot
<1>6. ASSUME NEW s \in Segments, MarkGap(s) PROVE IInv'
  BY <1>0, <1>6, OutsideStep
     DEF MarkGap, MarkingPass, LockFree, Write, Captured, SegmentsOf, Listing, TypeOK
<1>7. ASSUME NEW s \in Segments, RecordSegment(s) PROVE IInv'
  <2>1. \A p \in Procs : run[p].pc = "idle"
    BY <1>7, ConstantsAssumption DEF RecordSegment, LockFree, IInv, Exclusive
  <2>2. ledger'.entry = ledger.entry /\ ledger'.whole = ledger.whole /\ ledger'.tail = "clean"
    BY <1>7, <1>0 DEF RecordSegment, AppendSegment, Landed, IInv, WholeManifest, TypeOK, Ledgers
  <2>3. UNCHANGED <<stage, file, present, limbo, part, lock, run>>
    BY <1>7 DEF RecordSegment
  <2>4. Exclusive' /\ LatestIsCurrent' /\ WholeManifest'
    BY <2>1, <2>2, <2>3 DEF IInv, Exclusive, LatestIsCurrent, WholeManifest
  <2>5. \A d \in TickerDays : DaySafe(d)'
    BY <2>2, <2>3 DEF IInv, DaySafe, Captured, SegmentsOf
  <2>6. \A p \in Procs : RunSafe(p)'
    BY <2>1, <2>3 DEF IInv, RunSafe, Working
  <2> QED
    BY <1>0, <2>4, <2>5, <2>6 DEF IInv
<1>8. ASSUME NEW s \in Segments, RecordTears(s) PROVE IInv'
  BY <1>8 DEF RecordTears, Tear, OnlyRot
<1>9. ASSUME NEW p \in Procs, StartSweep(p) PROVE IInv'
  <2> DEFINE r == Sweeping(SweepScope, ledger.entry, ledger.recorded)
  <2>1. run' = [run EXCEPT ![p] = r] /\ lock' = p /\ lock = Free
    BY <1>9 DEF StartSweep, LockFree
  <2>2. \A q \in Procs : q # p => run'[q] = run[q] /\ run[q].pc = "idle"
    BY <1>0, <2>1, ConstantsAssumption DEF IInv, Exclusive, TypeOK
  <2>3. run'[p] = r
    BY <1>0, <2>1 DEF TypeOK
  <2>4. UNCHANGED <<stage, file, present, limbo, part, ledger>>
    BY <1>9 DEF StartSweep
  <2>5. Exclusive' /\ LatestIsCurrent' /\ WholeManifest'
    BY <2>1, <2>2, <2>3, <2>4
       DEF IInv, Exclusive, LatestIsCurrent, WholeManifest, Sweeping
  <2>6. \A d \in TickerDays : DaySafe(d)'
    BY <2>4 DEF IInv, DaySafe, Captured, SegmentsOf
  <2>7. RunSafe(p)'
    BY <2>3, <2>4 DEF RunSafe, Sweeping, Working, SweepScope
  <2>8. \A q \in Procs : q # p => RunSafe(q)'
    BY <2>2, <2>4 DEF IInv, RunSafe, Working
  <2> QED
    BY <1>0, <2>5, <2>6, <2>7, <2>8 DEF IInv
<1>10. ASSUME NEW p \in Procs, NEW d \in TickerDays, StartRepair(p, d) PROVE IInv'
  <2> DEFINE r == Repairing(d, Listing(d), ledger.entry, ledger.recorded)
  <2>1. run' = [run EXCEPT ![p] = r] /\ lock' = p /\ lock = Free
    BY <1>10 DEF StartRepair, LockFree
  <2>2. \A q \in Procs : q # p => run'[q] = run[q] /\ run[q].pc = "idle"
    BY <1>0, <2>1, ConstantsAssumption DEF IInv, Exclusive, TypeOK
  <2>3. run'[p] = r /\ p \notin Sweepers /\ stage[d] = "past"
    BY <1>0, <1>10, <2>1, ConstantsAssumption DEF StartRepair, TypeOK, OnlyRot
  <2>4. UNCHANGED <<stage, file, present, limbo, part, ledger>>
    BY <1>10 DEF StartRepair
  <2>5. Exclusive' /\ LatestIsCurrent' /\ WholeManifest'
    BY <2>1, <2>2, <2>3, <2>4
       DEF IInv, Exclusive, LatestIsCurrent, WholeManifest, Repairing
  <2>6. \A e \in TickerDays : DaySafe(e)'
    BY <2>4 DEF IInv, DaySafe, Captured, SegmentsOf
  <2>7. RunSafe(p)'
    BY <2>3, <2>4 DEF RunSafe, Repairing, Working, Listing, SegmentsOf
  <2>8. \A q \in Procs : q # p => RunSafe(q)'
    BY <2>2, <2>4 DEF IInv, RunSafe, Working
  <2> QED
    BY <1>0, <2>5, <2>6, <2>7, <2>8 DEF IInv
<1>11. ASSUME NEW p \in Procs, NEW d \in TickerDays, SkipDay(p, d) PROVE IInv'
  <2> DEFINE r == [run[p] EXCEPT !.todo = run[p].todo \ {d}]
  <2>1. /\ run' = [run EXCEPT ![p] = r] /\ run[p].pc = "next"
        /\ UNCHANGED <<stage, file, present, limbo, part, ledger, lock>>
    BY <1>11 DEF SkipDay, AtStep
  <2>2. /\ run'[p] = r /\ r.pc = "next" /\ r.kind = run[p].kind /\ r.todo \subseteq run[p].todo
        /\ r.latest = run[p].latest /\ r.known = run[p].known
    BY <1>0, <2>1 DEF TypeOK, RunStates
  <2> HIDE DEF r
  <2>3. \A e \in TickerDays : DaySafe(e)'
    BY <2>1 DEF IInv, DaySafe, Captured, SegmentsOf
  <2>4. RunSafe(p)'
    BY <2>1, <2>2 DEF IInv, RunSafe, Working
  <2> QED
    BY <1>0, <2>1, <2>2, <2>3, <2>4, RunningStep
<1>12. ASSUME NEW p \in Procs, NEW d \in TickerDays, OpenDay(p, d) PROVE IInv'
  <2> DEFINE r == [run[p] EXCEPT !.pc = Route(p, d), !.day = d, !.segs = Listing(d)]
  <2>1. /\ run' = [run EXCEPT ![p] = r] /\ run[p].pc = "next" /\ d \in run[p].todo
        /\ UNCHANGED <<stage, file, present, limbo, part, ledger, lock>>
    BY <1>12 DEF OpenDay, AtStep, NextDay
  <2>2. /\ run'[p] = r /\ r.pc = Route(p, d) /\ r.kind = run[p].kind /\ r.todo = run[p].todo
        /\ r.day = d /\ r.segs = Listing(d)
        /\ r.latest = run[p].latest /\ r.known = run[p].known
    BY <1>0, <2>1 DEF TypeOK, RunStates
  <2> HIDE DEF r
  <2>3. \A e \in TickerDays : DaySafe(e)'
    BY <2>1 DEF IInv, DaySafe, Captured, SegmentsOf
  <2>4. /\ Route(p, d) \in {"recover", "seal"}
        /\ Route(p, d) = "recover" <=> ledger.entry[d] # None
    BY <2>1 DEF Route, IInv, LatestIsCurrent
  <2>5. stage[d] = "past" /\ run[p].kind = "sweep"
    BY <2>1 DEF IInv, RunSafe
  <2>6. RunSafe(p)'
    BY <2>1, <2>2, <2>4, <2>5 DEF IInv, RunSafe, Working, Listing, SegmentsOf
  <2> QED
    BY <1>0, <2>1, <2>2, <2>3, <2>4, <2>6, RunningStep
<1>13. ASSUME NEW p \in Procs, EndSweep(p) PROVE IInv'
  <2>1. \A e \in TickerDays : DaySafe(e)'
    BY <1>13 DEF EndSweep, IInv, DaySafe, Captured, SegmentsOf
  <2> QED
    BY <1>0, <1>13, <2>1, RestStep DEF EndSweep, AtStep
<1>14. ASSUME NEW p \in Procs, RecoverVerified(p) PROVE IInv'
  <2> DEFINE r == [run[p] EXCEPT !.pc = "unlink"]
  <2>1. /\ run' = [run EXCEPT ![p] = r] /\ run[p].pc = "recover"
        /\ UNCHANGED <<stage, file, present, limbo, part, ledger, lock>>
        /\ part[run[p].day] = run[p].latest[run[p].day]
    BY <1>14 DEF RecoverVerified, AtStep, Verifies
  <2>2. /\ run'[p] = r /\ r.pc = "unlink" /\ r.kind = run[p].kind /\ r.todo = run[p].todo
        /\ r.day = run[p].day /\ r.segs = run[p].segs
        /\ r.latest = run[p].latest /\ r.known = run[p].known
    BY <1>0, <2>1 DEF TypeOK, RunStates
  <2> HIDE DEF r
  <2>3. \A e \in TickerDays : DaySafe(e)'
    BY <2>1 DEF IInv, DaySafe, Captured, SegmentsOf
  <2>4. RunSafe(p)'
    BY <2>1, <2>2 DEF IInv, LatestIsCurrent, RunSafe, Working, SegmentsOf
  <2> QED
    BY <1>0, <2>1, <2>2, <2>3, <2>4, RunningStep
<1>15. ASSUME NEW p \in Procs, RecoverMismatch(p) PROVE IInv'
  <2>1. \A e \in TickerDays : DaySafe(e)'
    BY <1>15 DEF RecoverMismatch, IInv, DaySafe, Captured, SegmentsOf
  <2> QED
    BY <1>0, <1>15, <2>1, RestStep DEF RecoverMismatch, AtStep
<1>16. ASSUME NEW p \in Procs, RefuseDamaged(p) PROVE IInv'
  BY <1>0, <1>16, LeaveDayStep DEF RefuseDamaged, AtStep
<1>17. ASSUME NEW p \in Procs, ReadRaises(p) PROVE IInv'
  <2>1. \A e \in TickerDays : DaySafe(e)'
    BY <1>17 DEF ReadRaises, IInv, DaySafe, Captured, SegmentsOf
  <2> QED
    BY <1>0, <1>17, <2>1, RestStep DEF ReadRaises, AtStep
<1>18. ASSUME NEW p \in Procs, RefuseConflict(p) PROVE IInv'
  BY <1>0, <1>18, LeaveDayStep DEF RefuseConflict, AtStep
<1>19. ASSUME NEW p \in Procs, GuardRefuses(p) PROVE IInv'
  <2>1. \A e \in TickerDays : DaySafe(e)'
    BY <1>19 DEF GuardRefuses, IInv, DaySafe, Captured, SegmentsOf
  <2> QED
    BY <1>0, <1>19, <2>1, RestStep DEF GuardRefuses, AtStep
<1>20. ASSUME NEW p \in Procs, MergeSegments(p) PROVE IInv'
  <2> DEFINE r == [run[p] EXCEPT !.pc = "write", !.merged = Readable(p)]
  <2>1. /\ run' = [run EXCEPT ![p] = r] /\ AtStep(p, "seal") /\ ~Shrinks(p)
        /\ UNCHANGED <<stage, file, present, limbo, part, ledger, lock>>
    BY <1>20 DEF MergeSegments, GuardOff, OnlyRot
  <2>2. /\ run'[p] = r /\ r.pc = "write" /\ r.kind = run[p].kind /\ r.todo = run[p].todo
        /\ r.day = run[p].day /\ r.segs = run[p].segs /\ r.merged = Readable(p)
        /\ r.latest = run[p].latest /\ r.known = run[p].known
    BY <1>0, <2>1 DEF TypeOK, RunStates
  <2> HIDE DEF r
  <2>3. \A e \in TickerDays : DaySafe(e)'
    BY <2>1 DEF IInv, DaySafe, Captured, SegmentsOf
  <2>4. Readable(p) = Captured(run[p].day) /\ Readable(p) \subseteq present
    BY <2>1, MergeFindsAll
  <2>5. RunSafe(p) /\ run[p].pc = "seal"
    BY <2>1 DEF IInv, AtStep
  <2>6. Captured(run[p].day)' = Captured(run[p].day)
    BY <2>1, <2>2 DEF Captured, SegmentsOf
  <2>7. RunSafe(p)'
    BY <2>1, <2>2, <2>4, <2>5, <2>6 DEF RunSafe, Working, SegmentsOf
  <2> QED
    BY <1>0, <2>1, <2>2, <2>3, <2>5, <2>7, RunningStep
<1>21. ASSUME NEW p \in Procs, WritePartition(p) PROVE IInv'
  <2> DEFINE r == [run[p] EXCEPT !.pc = "append"]
             d == run[p].day
  <2>1. /\ run' = [run EXCEPT ![p] = r] /\ run[p].pc = "write"
        /\ part' = [part EXCEPT ![d] = run[p].merged]
        /\ UNCHANGED <<stage, file, present, limbo, ledger, lock>>
    BY <1>21 DEF WritePartition, AtStep
  <2>2. /\ run'[p] = r /\ r.pc = "append" /\ r.kind = run[p].kind /\ r.todo = run[p].todo
        /\ r.day = d /\ r.segs = run[p].segs /\ r.merged = run[p].merged
        /\ r.latest = run[p].latest /\ r.known = run[p].known
    BY <1>0, <2>1 DEF TypeOK, RunStates
  <2> HIDE DEF r
  <2>3. RunSafe(p) /\ d \in TickerDays /\ run[p].merged = Captured(d)
    BY <2>1 DEF IInv, RunSafe, Working
  <2>4. part'[d] = run[p].merged /\ \A e \in TickerDays : e # d => part'[e] = part[e]
    BY <1>0, <2>1, <2>3 DEF TypeOK
  <2>5. \A e \in TickerDays : Captured(e)' = Captured(e)
    BY <2>1 DEF Captured, SegmentsOf
  <2>6. \A e \in TickerDays : DaySafe(e)'
    BY <2>1, <2>3, <2>4, <2>5 DEF IInv, DaySafe
  <2>7. RunSafe(p)'
    BY <2>1, <2>2, <2>3, <2>4, <2>5 DEF RunSafe, Working, SegmentsOf
  <2> QED
    BY <1>0, <2>1, <2>2, <2>6, <2>7, RunningStep
<1>22. ASSUME NEW p \in Procs, AppendEntry(p) PROVE IInv'
  <2> DEFINE d == run[p].day
             r == [run[p] EXCEPT !.pc = "unlink", !.latest[d] = run[p].merged]
  <2>1. /\ run' = [run EXCEPT ![p] = r] /\ run[p].pc = "append"
        /\ AppendPartition(d, run[p].merged)
        /\ UNCHANGED <<stage, file, present, limbo, part, lock>>
    BY <1>22 DEF AppendEntry, AtStep
  <2>2. /\ run'[p] = r /\ r.pc = "unlink" /\ r.kind = run[p].kind /\ r.todo = run[p].todo
        /\ r.day = d /\ r.segs = run[p].segs /\ r.known = run[p].known
        /\ r.latest = [run[p].latest EXCEPT ![d] = run[p].merged]
    BY <1>0, <2>1 DEF TypeOK, RunStates
  <2> HIDE DEF r
  <2>3. /\ RunSafe(p) /\ d \in TickerDays /\ stage[d] = "past"
        /\ run[p].merged = Captured(d) /\ part[d] = run[p].merged
    BY <2>1 DEF IInv, RunSafe, Working
  <2>4. /\ ledger'.entry = [ledger.entry EXCEPT ![d] = run[p].merged]
        /\ ledger'.whole = [ledger.whole EXCEPT ![d] = run[p].merged]
        /\ ledger'.recorded = ledger.recorded /\ ledger'.tail = "clean"
    BY <1>0, <2>1 DEF AppendPartition, Landed, IInv, WholeManifest, TypeOK, Ledgers
  <2>5. /\ ledger'.entry[d] = run[p].merged
        /\ \A e \in TickerDays : e # d => ledger'.entry[e] = ledger.entry[e]
    BY <1>0, <2>3, <2>4 DEF TypeOK, Ledgers
  <2>6. run[p].merged # None
    BY <1>0, ConstantsAssumption DEF TypeOK, RunStates, Contents
  <2>7. lock = p /\ \A q \in Procs : q # p => run'[q].pc = "idle" /\ RunSafe(q)'
    BY <2>1, AloneWithLock, OthersSafe
  <2>8. Exclusive'
    BY <2>1, <2>2, <2>7 DEF Exclusive
  <2>9. LatestIsCurrent'
    BY <2>1, <2>2, <2>4, <2>7 DEF IInv, LatestIsCurrent
  <2>10. WholeManifest'
    BY <2>1, <2>4 DEF IInv, WholeManifest
  <2>11. \A e \in TickerDays : Captured(e)' = Captured(e)
    BY <2>1 DEF Captured, SegmentsOf
  <2>12. \A e \in TickerDays : DaySafe(e)'
    BY <2>1, <2>3, <2>5, <2>6, <2>11 DEF IInv, DaySafe
  <2>13. RunSafe(p)'
    BY <2>1, <2>2, <2>3, <2>5, <2>6 DEF RunSafe, Working, SegmentsOf
  <2> QED
    BY <1>0, <2>7, <2>8, <2>9, <2>10, <2>12, <2>13 DEF IInv
<1>23. ASSUME NEW p \in Procs, NEW s \in Segments, UnlinkSegment(p, s) PROVE IInv'
  <2> DEFINE r == [run[p] EXCEPT !.segs = run[p].segs \ {s}]
             d == run[p].day
  <2>1. /\ run' = [run EXCEPT ![p] = r] /\ run[p].pc = "unlink" /\ s \in run[p].segs
        /\ present' = present \ {s} /\ limbo' = limbo
        /\ UNCHANGED <<stage, file, part, ledger, lock>>
    BY <1>23 DEF UnlinkSegment, AtStep, OnlyRot
  <2>2. /\ run'[p] = r /\ r.pc = "unlink" /\ r.kind = run[p].kind /\ r.todo = run[p].todo
        /\ r.day = d /\ r.segs \subseteq run[p].segs
        /\ r.latest = run[p].latest /\ r.known = run[p].known
    BY <1>0, <2>1 DEF TypeOK, RunStates
  <2> HIDE DEF r
  <2>3. /\ RunSafe(p) /\ d \in TickerDays /\ Day[s] = d
        /\ ledger.entry[d] # None /\ part[d] = ledger.entry[d]
    BY <2>1 DEF IInv, RunSafe, Working, SegmentsOf
  <2>4. \A e \in TickerDays : Captured(e)' = Captured(e)
    BY <2>1 DEF Captured, SegmentsOf
  <2>5. ASSUME NEW e \in TickerDays, e = d PROVE DaySafe(e)'
    BY <2>1, <2>3, <2>4, <2>5 DEF IInv, DaySafe
  <2>6. ASSUME NEW e \in TickerDays, e # d PROVE DaySafe(e)'
    <3>1. Captured(e) \subseteq present => Captured(e) \subseteq present'
      BY <2>1, <2>3, <2>6 DEF Captured, SegmentsOf
    <3> QED
      BY <2>1, <2>4, <3>1 DEF IInv, DaySafe
  <2>7. RunSafe(p)'
    BY <2>1, <2>2, <2>3 DEF RunSafe, Working, SegmentsOf
  <2> QED
    BY <1>0, <2>1, <2>2, <2>5, <2>6, <2>7, RunningStep
<1>24. ASSUME NEW p \in Procs, DayDone(p) PROVE IInv'
  BY <1>0, <1>24, LeaveDayStep DEF DayDone, AtStep
<1>25. ASSUME NEW p \in Procs, VerifyFails(p) PROVE IInv'
  <2> DEFINE d == run[p].day
  <2>1. /\ run[p].pc = "write" /\ Rest(p) /\ part' = [part EXCEPT ![d] = Bad]
        /\ UNCHANGED <<stage, file, present, limbo, ledger>>
    BY <1>25 DEF VerifyFails, AtStep
  <2>2. d \in TickerDays /\ run[p].merged = Captured(d) /\ run[p].merged \subseteq present
    BY <2>1 DEF IInv, RunSafe, Working
  <2>3. \A e \in TickerDays : e # d => part'[e] = part[e]
    BY <1>0, <2>1 DEF TypeOK
  <2>4. \A e \in TickerDays : Captured(e)' = Captured(e)
    BY <2>1 DEF Captured, SegmentsOf
  <2>5. \A e \in TickerDays : DaySafe(e)'
    BY <2>1, <2>2, <2>3, <2>4 DEF IInv, DaySafe
  <2> QED
    BY <1>0, <2>1, <2>5, RestStep
<1>26. ASSUME NEW p \in Procs, AppendTears(p) PROVE IInv'
  BY <1>26 DEF AppendTears, Tear, OnlyRot
<1>27. ASSUME NEW p \in Procs, KillRun(p) PROVE IInv'
  <2>1. \A e \in TickerDays : DaySafe(e)'
    BY <1>27 DEF KillRun, IInv, DaySafe, Captured, SegmentsOf
  <2> QED
    BY <1>0, <1>27, <2>1, RestStep DEF KillRun
<1>28. ASSUME DaemonDies PROVE IInv'
  BY <1>0, <1>28, OutsideStep
     DEF DaemonDies, WithoutFetches, Captured, SegmentsOf, Listing, TypeOK
<1>29. ASSUME NEW s \in Segments, DaemonDiesWriting(s) PROVE IInv'
  BY <1>0, <1>29, OutsideStep
     DEF DaemonDiesWriting, WithoutFetches, MarkingPass, LockFree, Captured, SegmentsOf,
         Listing, TypeOK
<1>30. ASSUME NEW s \in Segments, Rot(s) PROVE IInv'
  BY <1>0, <1>30, OutsideStep DEF Rot, Captured, SegmentsOf, Listing, TypeOK
<1>31. ASSUME NEW s \in Segments, WriteBackUnlink(s) PROVE IInv'
  BY <1>31 DEF WriteBackUnlink, OnlyRot
<1>32. ASSUME WriteBackLedger PROVE IInv'
  BY <1>32 DEF WriteBackLedger, OnlyRot
<1>33. ASSUME PowerLoss PROVE IInv'
  BY <1>33 DEF PowerLoss, OnlyRot
<1>34. CASE UNCHANGED vars
  <2>1. \A d \in TickerDays : DaySafe(d)'
    BY <1>34 DEF vars, IInv, DaySafe, Captured, SegmentsOf
  <2>2. \A p \in Procs : RunSafe(p)'
    BY <1>34 DEF vars, IInv, RunSafe, Captured, Listing, SegmentsOf
  <2> QED
    BY <1>0, <1>34, <2>1, <2>2
       DEF vars, IInv, Exclusive, LatestIsCurrent, WholeManifest
<1> QED
  BY <1>1, <1>2, <1>3, <1>4, <1>5, <1>6, <1>7, <1>8, <1>9, <1>10, <1>11, <1>12, <1>13, <1>14,
     <1>15, <1>16, <1>17, <1>18, <1>19, <1>20, <1>21, <1>22, <1>23, <1>24, <1>25, <1>26, <1>27,
     <1>28, <1>29, <1>30, <1>31, <1>32, <1>33, <1>34
     DEF Next, Writers, RunStep, Faults

(* The inductive invariant holds of every lake where only rot is let loose.  *)
THEOREM InductiveInvariant ==
    ASSUME OnlyRot
    PROVE  Spec => []IInv
<1>1. Init => IInv
  BY IInvInit
<1>2. IInv /\ [Next]_vars => IInv'
  BY IInvStep
<1> QED
  BY <1>1, <1>2, PTL DEF Spec

LEMMA EntryIsContent ==
    ASSUME TypeOK, NEW d \in TickerDays, ledger.entry[d] # None
    PROVE  ledger.entry[d] \in Contents /\ ledger.entry[d] # Bad
BY ConstantsAssumption DEF TypeOK, Ledgers, Contents

LEMMA AllHeld == IInv => \A d \in TickerDays : Held(d) = Captured(d)
<1> SUFFICES ASSUME IInv, NEW d \in TickerDays PROVE Held(d) = Captured(d)
  OBVIOUS
<1>1. CASE Captured(d) \subseteq present
  BY <1>1 DEF Held
<1>2. CASE ~(Captured(d) \subseteq present)
  <2>1. /\ ledger.entry[d] # None /\ ledger.entry[d] = Captured(d)
        /\ part[d] = Captured(d)
    BY <1>2 DEF IInv, DaySafe
  <2>2. part[d] \notin {None, Bad}
    BY <2>1, EntryIsContent DEF IInv
  <2>3. \A s \in Captured(d) : Day[s] = d
    BY DEF Captured, SegmentsOf
  <2> QED
    BY <2>1, <2>2, <2>3 DEF Held, InPartition
<1> QED
  BY <1>1, <1>2

(* No durable row is ever lost: _seal, _recover, their crashes and a human's *)
(* repairs leave each row in its segment or in its day's partition.          *)
THEOREM NothingLostAlways ==
    ASSUME OnlyRot
    PROVE  Spec => []NothingLost
<1>1. IInv => NothingLost
  BY AllHeld DEF NothingLost
<1> QED
  BY <1>1, InductiveInvariant, PTL

(* Beside a manifested partition lie only segments whose rows it was sealed  *)
(* with, so the segments _recover unlinks unread hold nothing new.           *)
THEOREM DebrisOnlyAlways ==
    ASSUME OnlyRot
    PROVE  Spec => []DebrisOnly
<1>1. IInv => DebrisOnly
  BY DEF IInv, DaySafe, DebrisOnly
<1> QED
  BY <1>1, InductiveInvariant, PTL

(* A partition _recover refuses can be rebuilt from the segments beside it.  *)
THEOREM MismatchRepairableAlways ==
    ASSUME OnlyRot
    PROVE  Spec => []MismatchRepairable
<1>1. IInv => MismatchRepairable
  BY DEF IInv, DaySafe, MismatchRepairable
<1> QED
  BY <1>1, InductiveInvariant, PTL

(* What a run read of the manifest when it took the lock stays what the      *)
(* manifest says until it lets go of it.                                     *)
THEOREM LatestIsCurrentAlways ==
    ASSUME OnlyRot
    PROVE  Spec => []LatestIsCurrent
<1>1. IInv => LatestIsCurrent
  BY DEF IInv
<1> QED
  BY <1>1, InductiveInvariant, PTL

------------------------------------------------------------------------------
(* Compaction implements LakeDays: seen through the rows the lake holds and  *)
(* the entries its manifest shows, each ticker-day gathers rows, is sealed   *)
(* once with all of them, and gathers no more.                               *)

LEMMA LakeInit == Init => Lake!Init
BY DEF Init, Lake!Init, Held, Captured, SegmentsOf

LEMMA AllHeldAfter == IInv' => NothingLost'
<1>1. IInv => NothingLost
  BY AllHeld DEF NothingLost
<1> QED
  BY <1>1, PTL

LEMMA Unseen ==
    ASSUME IInv, IInv', ledger'.entry = ledger.entry,
           \A d \in TickerDays : Captured(d)' = Captured(d)
    PROVE  UNCHANGED Lake!vars
<1>1. [d \in TickerDays |-> Held(d)]' = [d \in TickerDays |-> Held(d)]
  BY AllHeld, AllHeldAfter DEF NothingLost
<1> QED
  BY <1>1 DEF Lake!vars

LEMMA Gathers ==
    ASSUME IInv, IInv', ledger' = ledger, NEW s \in Segments, ledger.entry[Day[s]] = None,
           file' = [file EXCEPT ![s] = "whole"]
    PROVE  Lake!Gather(s)
<1>1. Day[s] \in TickerDays
  BY ConstantsAssumption
<1>2. \A d \in TickerDays :
         Captured(d)' = IF d = Day[s] THEN Captured(d) \cup {s} ELSE Captured(d)
  BY DEF IInv, TypeOK, Captured, SegmentsOf
<1>3. \A d \in TickerDays : Held(d) = Captured(d) /\ Held(d)' = Captured(d)'
  BY AllHeld, AllHeldAfter DEF NothingLost
<1>4. [d \in TickerDays |-> Held(d)]' =
         [[d \in TickerDays |-> Held(d)] EXCEPT ![Day[s]] = @ \cup {s}]
  BY <1>1, <1>2, <1>3
<1> QED
  BY <1>4 DEF Lake!Gather

LEMMA Seals ==
    ASSUME IInv, IInv', NEW p \in Procs, AppendEntry(p)
    PROVE  [Lake!Next]_(Lake!vars)
<1> DEFINE d == run[p].day
<1>1. /\ run[p].pc = "append" /\ AppendPartition(d, run[p].merged)
      /\ UNCHANGED file
  BY DEF AppendEntry, AtStep
<1>2. d \in TickerDays /\ run[p].merged = Captured(d)
  BY <1>1 DEF IInv, RunSafe, Working
<1>3. ledger'.entry = [ledger.entry EXCEPT ![d] = Captured(d)]
  BY <1>1, <1>2 DEF AppendPartition, Landed, IInv, WholeManifest, TypeOK, Ledgers
<1>4. \A e \in TickerDays : Captured(e)' = Captured(e)
  BY <1>1 DEF Captured, SegmentsOf
<1>5. CASE ledger.entry[d] = None
  <2>1. \A e \in TickerDays : Held(e) = Captured(e) /\ Held(e)' = Captured(e)'
    BY AllHeld, AllHeldAfter DEF NothingLost
  <2>2. [e \in TickerDays |-> Held(e)]' = [e \in TickerDays |-> Held(e)]
    BY <1>4, <2>1
  <2>3. \E e \in TickerDays : Lake!Seal(e)
    <3>1. Captured(d) = [e \in TickerDays |-> Held(e)][d]
      BY <1>2, <2>1
    <3> HIDE DEF d
    <3> QED
      BY <1>2, <1>3, <1>5, <2>2, <3>1 DEF Lake!Seal
  <2> QED
    BY <2>3 DEF Lake!Next
<1>6. CASE ledger.entry[d] # None
  <2>1. ledger.entry[d] = Captured(d)
    BY <1>2, <1>6 DEF IInv, DaySafe
  <2>2. ledger'.entry = ledger.entry
    BY <1>2, <1>3, <2>1 DEF IInv, TypeOK, Ledgers
  <2> QED
    BY <1>4, <2>2, Unseen
<1> QED
  BY <1>5, <1>6

LEMMA LakeStep ==
    ASSUME OnlyRot, IInv, IInv', [Next]_vars
    PROVE  [Lake!Next]_(Lake!vars)
<1>1. ASSUME NEW d \in TickerDays, OptionClose(d) PROVE [Lake!Next]_(Lake!vars)
  BY <1>1, Unseen DEF OptionClose, Captured, SegmentsOf
<1>2. ASSUME NEW d \in TickerDays, GuardWindowEnds(d) PROVE [Lake!Next]_(Lake!vars)
  BY <1>2, Unseen DEF GuardWindowEnds, Captured, SegmentsOf
<1>3. ASSUME NEW s \in Segments, CaptureSegment(s) PROVE [Lake!Next]_(Lake!vars)
  <2>1. ledger.entry[Day[s]] = None
    BY <1>3, ConstantsAssumption DEF CaptureSegment, Write, IInv, DaySafe
  <2>2. Lake!Gather(s)
    BY <1>3, <2>1, Gathers DEF CaptureSegment, Write
  <2> QED
    BY <2>2 DEF Lake!Next
<1>4. ASSUME NEW s \in Segments, FillStart(s) PROVE [Lake!Next]_(Lake!vars)
  BY <1>4, Unseen DEF FillStart, IInv, TypeOK, Captured, SegmentsOf
<1>5. ASSUME NEW s \in Segments, FillLands(s) PROVE [Lake!Next]_(Lake!vars)
  <2>1. ledger.entry[Day[s]] = None
    BY <1>5, ConstantsAssumption DEF FillLands, Write, OnlyRot, IInv, DaySafe
  <2>2. Lake!Gather(s)
    BY <1>5, <2>1, Gathers DEF FillLands, Write
  <2> QED
    BY <2>2 DEF Lake!Next
<1>6. ASSUME NEW s \in Segments, MarkGap(s) PROVE [Lake!Next]_(Lake!vars)
  <2>1. ledger.entry[Day[s]] = None
    BY <1>6, ConstantsAssumption DEF MarkGap, MarkingPass, Write, IInv, DaySafe
  <2>2. Lake!Gather(s)
    BY <1>6, <2>1, Gathers DEF MarkGap, Write
  <2> QED
    BY <2>2 DEF Lake!Next
<1>7. ASSUME NEW s \in Segments, RecordSegment(s) PROVE [Lake!Next]_(Lake!vars)
  BY <1>7, Unseen DEF RecordSegment, AppendSegment, IInv, TypeOK, Ledgers, Captured, SegmentsOf
<1>8. ASSUME NEW s \in Segments, RecordTears(s) PROVE [Lake!Next]_(Lake!vars)
  BY <1>8 DEF RecordTears, Tear, OnlyRot
<1>9. ASSUME NEW p \in Procs, StartSweep(p) PROVE [Lake!Next]_(Lake!vars)
  BY <1>9, Unseen DEF StartSweep, Captured, SegmentsOf
<1>10. ASSUME NEW p \in Procs, NEW d \in TickerDays, StartRepair(p, d)
      PROVE [Lake!Next]_(Lake!vars)
  BY <1>10, Unseen DEF StartRepair, Captured, SegmentsOf
<1>11. ASSUME NEW p \in Procs, NEW d \in TickerDays, SkipDay(p, d) PROVE [Lake!Next]_(Lake!vars)
  BY <1>11, Unseen DEF SkipDay, Captured, SegmentsOf
<1>12. ASSUME NEW p \in Procs, NEW d \in TickerDays, OpenDay(p, d) PROVE [Lake!Next]_(Lake!vars)
  BY <1>12, Unseen DEF OpenDay, Captured, SegmentsOf
<1>13. ASSUME NEW p \in Procs, EndSweep(p) PROVE [Lake!Next]_(Lake!vars)
  BY <1>13, Unseen DEF EndSweep, Captured, SegmentsOf
<1>14. ASSUME NEW p \in Procs, RecoverVerified(p) PROVE [Lake!Next]_(Lake!vars)
  BY <1>14, Unseen DEF RecoverVerified, Captured, SegmentsOf
<1>15. ASSUME NEW p \in Procs, RecoverMismatch(p) PROVE [Lake!Next]_(Lake!vars)
  BY <1>15, Unseen DEF RecoverMismatch, Captured, SegmentsOf
<1>16. ASSUME NEW p \in Procs, RefuseDamaged(p) PROVE [Lake!Next]_(Lake!vars)
  BY <1>16, Unseen DEF RefuseDamaged, Captured, SegmentsOf
<1>17. ASSUME NEW p \in Procs, ReadRaises(p) PROVE [Lake!Next]_(Lake!vars)
  BY <1>17, Unseen DEF ReadRaises, Captured, SegmentsOf
<1>18. ASSUME NEW p \in Procs, RefuseConflict(p) PROVE [Lake!Next]_(Lake!vars)
  BY <1>18, Unseen DEF RefuseConflict, Captured, SegmentsOf
<1>19. ASSUME NEW p \in Procs, GuardRefuses(p) PROVE [Lake!Next]_(Lake!vars)
  BY <1>19, Unseen DEF GuardRefuses, Captured, SegmentsOf
<1>20. ASSUME NEW p \in Procs, MergeSegments(p) PROVE [Lake!Next]_(Lake!vars)
  BY <1>20, Unseen DEF MergeSegments, Captured, SegmentsOf
<1>21. ASSUME NEW p \in Procs, WritePartition(p) PROVE [Lake!Next]_(Lake!vars)
  BY <1>21, Unseen DEF WritePartition, Captured, SegmentsOf
<1>22. ASSUME NEW p \in Procs, AppendEntry(p) PROVE [Lake!Next]_(Lake!vars)
  BY <1>22, Seals
<1>23. ASSUME NEW p \in Procs, NEW s \in Segments, UnlinkSegment(p, s)
      PROVE [Lake!Next]_(Lake!vars)
  BY <1>23, Unseen DEF UnlinkSegment, Captured, SegmentsOf
<1>24. ASSUME NEW p \in Procs, DayDone(p) PROVE [Lake!Next]_(Lake!vars)
  BY <1>24, Unseen DEF DayDone, Captured, SegmentsOf
<1>25. ASSUME NEW p \in Procs, VerifyFails(p) PROVE [Lake!Next]_(Lake!vars)
  BY <1>25, Unseen DEF VerifyFails, Captured, SegmentsOf
<1>26. ASSUME NEW p \in Procs, AppendTears(p) PROVE [Lake!Next]_(Lake!vars)
  BY <1>26 DEF AppendTears, Tear, OnlyRot
<1>27. ASSUME NEW p \in Procs, KillRun(p) PROVE [Lake!Next]_(Lake!vars)
  BY <1>27, Unseen DEF KillRun, Captured, SegmentsOf
<1>28. ASSUME DaemonDies PROVE [Lake!Next]_(Lake!vars)
  BY <1>28, Unseen DEF DaemonDies, WithoutFetches, IInv, TypeOK, Captured, SegmentsOf
<1>29. ASSUME NEW s \in Segments, DaemonDiesWriting(s) PROVE [Lake!Next]_(Lake!vars)
  BY <1>29, Unseen DEF DaemonDiesWriting, WithoutFetches, IInv, TypeOK, Captured, SegmentsOf
<1>30. ASSUME NEW s \in Segments, Rot(s) PROVE [Lake!Next]_(Lake!vars)
  BY <1>30, Unseen DEF Rot, IInv, TypeOK, Captured, SegmentsOf
<1>31. ASSUME NEW s \in Segments, WriteBackUnlink(s) PROVE [Lake!Next]_(Lake!vars)
  BY <1>31 DEF WriteBackUnlink, OnlyRot
<1>32. ASSUME WriteBackLedger PROVE [Lake!Next]_(Lake!vars)
  BY <1>32 DEF WriteBackLedger, OnlyRot
<1>33. ASSUME PowerLoss PROVE [Lake!Next]_(Lake!vars)
  BY <1>33 DEF PowerLoss, OnlyRot
<1>34. CASE UNCHANGED vars
  BY <1>34, Unseen DEF vars, Captured, SegmentsOf
<1> QED
  BY <1>1, <1>2, <1>3, <1>4, <1>5, <1>6, <1>7, <1>8, <1>9, <1>10, <1>11, <1>12, <1>13, <1>14,
     <1>15, <1>16, <1>17, <1>18, <1>19, <1>20, <1>21, <1>22, <1>23, <1>24, <1>25, <1>26,
     <1>27, <1>28, <1>29, <1>30, <1>31, <1>32, <1>33, <1>34
     DEF Next, Writers, RunStep, Faults

(* Compaction, its crashes and its repairs seal each ticker-day once, with   *)
(* every row it gathered.                                                    *)
THEOREM SealedOnceAlways ==
    ASSUME OnlyRot
    PROVE  Spec => SealedOnce
<1>1. Init => Lake!Init
  BY LakeInit
<1>2. IInv /\ IInv' /\ [Next]_vars => [Lake!Next]_(Lake!vars)
  BY LakeStep
<1>3. Spec => []IInv
  BY InductiveInvariant
<1> QED
  BY <1>1, <1>2, <1>3, PTL DEF Spec, SealedOnce, Lake!Spec

NeverFewer ==
    \A d \in TickerDays :
        (part'[d] # part[d] /\ ledger.whole[d] # None /\ \E p \in Sweepers : run'[p] # run[p]) =>
           /\ part'[d] # Bad
           /\ Cardinality(part'[d]) >= Cardinality(ledger.whole[d])

LEMMA OnlyItsRunMoves ==
    ASSUME IInv, NEW p \in Procs, run[p].pc # "idle", NEW r, run' = [run EXCEPT ![p] = r],
           NEW q \in Sweepers, run'[q] # run[q]
    PROVE  q = p
BY DEF IInv, TypeOK, Procs

LEMMA NeverFewerStep ==
    ASSUME OnlyRot, IInv, [Next]_vars
    PROVE  NeverFewer
<1>1. ASSUME NEW d \in TickerDays, OptionClose(d) PROVE NeverFewer
  BY <1>1 DEF NeverFewer, OptionClose
<1>2. ASSUME NEW d \in TickerDays, GuardWindowEnds(d) PROVE NeverFewer
  BY <1>2 DEF NeverFewer, GuardWindowEnds
<1>3. ASSUME NEW s \in Segments, CaptureSegment(s) PROVE NeverFewer
  BY <1>3 DEF NeverFewer, CaptureSegment, Write
<1>4. ASSUME NEW s \in Segments, FillStart(s) PROVE NeverFewer
  BY <1>4 DEF NeverFewer, FillStart
<1>5. ASSUME NEW s \in Segments, FillLands(s) PROVE NeverFewer
  BY <1>5 DEF NeverFewer, FillLands, Write
<1>6. ASSUME NEW s \in Segments, MarkGap(s) PROVE NeverFewer
  BY <1>6 DEF NeverFewer, MarkGap, Write
<1>7. ASSUME NEW s \in Segments, RecordSegment(s) PROVE NeverFewer
  BY <1>7 DEF NeverFewer, RecordSegment
<1>8. ASSUME NEW s \in Segments, RecordTears(s) PROVE NeverFewer
  BY <1>8 DEF RecordTears, Tear, OnlyRot
<1>9. ASSUME NEW p \in Procs, StartSweep(p) PROVE NeverFewer
  BY <1>9 DEF NeverFewer, StartSweep
<1>10. ASSUME NEW p \in Procs, NEW d \in TickerDays, StartRepair(p, d) PROVE NeverFewer
  BY <1>10 DEF NeverFewer, StartRepair
<1>11. ASSUME NEW p \in Procs, NEW d \in TickerDays, SkipDay(p, d) PROVE NeverFewer
  BY <1>11 DEF NeverFewer, SkipDay
<1>12. ASSUME NEW p \in Procs, NEW d \in TickerDays, OpenDay(p, d) PROVE NeverFewer
  BY <1>12 DEF NeverFewer, OpenDay
<1>13. ASSUME NEW p \in Procs, EndSweep(p) PROVE NeverFewer
  BY <1>13 DEF NeverFewer, EndSweep
<1>14. ASSUME NEW p \in Procs, RecoverVerified(p) PROVE NeverFewer
  BY <1>14 DEF NeverFewer, RecoverVerified
<1>15. ASSUME NEW p \in Procs, RecoverMismatch(p) PROVE NeverFewer
  BY <1>15 DEF NeverFewer, RecoverMismatch
<1>16. ASSUME NEW p \in Procs, RefuseDamaged(p) PROVE NeverFewer
  BY <1>16 DEF NeverFewer, RefuseDamaged
<1>17. ASSUME NEW p \in Procs, ReadRaises(p) PROVE NeverFewer
  BY <1>17 DEF NeverFewer, ReadRaises
<1>18. ASSUME NEW p \in Procs, RefuseConflict(p) PROVE NeverFewer
  BY <1>18 DEF NeverFewer, RefuseConflict
<1>19. ASSUME NEW p \in Procs, GuardRefuses(p) PROVE NeverFewer
  BY <1>19 DEF NeverFewer, GuardRefuses
<1>20. ASSUME NEW p \in Procs, MergeSegments(p) PROVE NeverFewer
  BY <1>20 DEF NeverFewer, MergeSegments
<1>21. ASSUME NEW p \in Procs, WritePartition(p) PROVE NeverFewer
  <2>1. /\ run[p].day \in TickerDays /\ run[p].merged = Captured(run[p].day)
        /\ \A d \in TickerDays : part'[d] # part[d] => d = run[p].day
        /\ part'[run[p].day] = run[p].merged
    BY <1>21 DEF WritePartition, AtStep, IInv, TypeOK, RunSafe, Working
  <2>2. ASSUME NEW d \in TickerDays, part'[d] # part[d], ledger.whole[d] # None
        PROVE  part'[d] = ledger.whole[d]
    BY <2>1, <2>2 DEF IInv, DaySafe, WholeManifest
  <2>3. ASSUME NEW d \in TickerDays, ledger.whole[d] # None
        PROVE  Cardinality(ledger.whole[d]) \in Nat /\ ledger.whole[d] # Bad
    <3>1. ledger.whole[d] \in SUBSET Segments
      BY <2>3 DEF IInv, TypeOK, Ledgers, Contents
    <3> QED
      BY <3>1, FS_Subset, FS_CardinalityType, ConstantsAssumption
  <2> QED
    BY <2>2, <2>3 DEF NeverFewer
<1>22. ASSUME NEW p \in Procs, AppendEntry(p) PROVE NeverFewer
  BY <1>22 DEF NeverFewer, AppendEntry
<1>23. ASSUME NEW p \in Procs, NEW s \in Segments, UnlinkSegment(p, s) PROVE NeverFewer
  BY <1>23 DEF NeverFewer, UnlinkSegment
<1>24. ASSUME NEW p \in Procs, DayDone(p) PROVE NeverFewer
  BY <1>24 DEF NeverFewer, DayDone
<1>25. ASSUME NEW p \in Procs, VerifyFails(p) PROVE NeverFewer
  <2>1. /\ run[p].day \in TickerDays /\ run[p].pc = "write"
        /\ \A d \in TickerDays : part'[d] # part[d] => d = run[p].day
    BY <1>25 DEF VerifyFails, AtStep, IInv, TypeOK, RunSafe, Working
  <2>2. ASSUME NEW q \in Sweepers, run'[q] # run[q]
        PROVE  ledger.whole[run[p].day] = None
    <3>1. q = p
      BY <1>25, <2>1, <2>2, OnlyItsRunMoves DEF VerifyFails, Rest
    <3> QED
      BY <2>1, <2>2, <3>1 DEF IInv, RunSafe, WholeManifest
  <2> QED
    BY <2>1, <2>2 DEF NeverFewer
<1>26. ASSUME NEW p \in Procs, AppendTears(p) PROVE NeverFewer
  BY <1>26 DEF AppendTears, Tear, OnlyRot
<1>27. ASSUME NEW p \in Procs, KillRun(p) PROVE NeverFewer
  BY <1>27 DEF NeverFewer, KillRun
<1>28. ASSUME DaemonDies PROVE NeverFewer
  BY <1>28 DEF NeverFewer, DaemonDies
<1>29. ASSUME NEW s \in Segments, DaemonDiesWriting(s) PROVE NeverFewer
  BY <1>29 DEF NeverFewer, DaemonDiesWriting
<1>30. ASSUME NEW s \in Segments, Rot(s) PROVE NeverFewer
  BY <1>30 DEF NeverFewer, Rot
<1>31. ASSUME NEW s \in Segments, WriteBackUnlink(s) PROVE NeverFewer
  BY <1>31 DEF NeverFewer, WriteBackUnlink
<1>32. ASSUME WriteBackLedger PROVE NeverFewer
  BY <1>32 DEF NeverFewer, WriteBackLedger
<1>33. ASSUME PowerLoss PROVE NeverFewer
  BY <1>33 DEF NeverFewer, PowerLoss
<1>34. CASE UNCHANGED vars
  BY <1>34 DEF NeverFewer, vars
<1> QED
  BY <1>1, <1>2, <1>3, <1>4, <1>5, <1>6, <1>7, <1>8, <1>9, <1>10, <1>11, <1>12, <1>13, <1>14,
     <1>15, <1>16, <1>17, <1>18, <1>19, <1>20, <1>21, <1>22, <1>23, <1>24, <1>25, <1>26,
     <1>27, <1>28, <1>29, <1>30, <1>31, <1>32, <1>33, <1>34
     DEF Next, Writers, RunStep, Faults

(* No automatic run ever replaces a manifested partition with fewer rows     *)
(* than its recorded count, as long as the manifest's lines are whole.       *)
THEOREM NoAutomaticShrinkAlways ==
    ASSUME OnlyRot
    PROVE  Spec => NoAutomaticShrink
<1>1. IInv /\ [Next]_vars => [NeverFewer]_vars
  BY NeverFewerStep
<1>2. Spec => []IInv
  BY InductiveInvariant
<1>3. Spec => [][NeverFewer]_vars
  BY <1>1, <1>2, PTL DEF Spec
<1> QED
  BY <1>3 DEF NoAutomaticShrink, NeverFewer

------------------------------------------------------------------------------
(* What stays true of compaction whatever hazard is let loose: torn manifest *)
(* lines, power losses, late fills and a human's overrides among them.       *)

KnownCurrent == \A p \in Procs : run[p].pc # "idle" => run[p].known = ledger.recorded

(* What a run is sure of from what it has itself read and written.           *)
RunCareful(p) ==
    /\ run[p].pc \in Working =>
          run[p].day \in TickerDays /\ run[p].segs \subseteq SegmentsOf(run[p].day)
    /\ run[p].pc = "recover" => run[p].latest[run[p].day] # None
    /\ run[p].pc = "append" => part[run[p].day] = run[p].merged
    /\ run[p].pc = "unlink" =>
          run[p].latest[run[p].day] # None /\ part[run[p].day] = run[p].latest[run[p].day]

CareInv ==
    /\ TypeOK
    /\ Exclusive
    /\ KnownCurrent
    /\ NoPoison
    /\ \A p \in Procs : RunCareful(p)

LEMMA CareInit == Init => CareInv
<1> SUFFICES ASSUME Init PROVE CareInv
  OBVIOUS
<1>1. \A p \in Procs : run[p] = Idle
  BY DEF Init
<1>2. \A p \in Procs : RunCareful(p)
  BY <1>1 DEF RunCareful, Idle, Working
<1> QED
  BY <1>1, <1>2, TypeInit, ConstantsAssumption
     DEF Init, CareInv, Exclusive, KnownCurrent, NoPoison, Idle

(* The clock, the writers and the disk, which touch no run.                  *)
LEMMA OutsideCare ==
    ASSUME CareInv, TypeOK', UNCHANGED <<part, lock, run, poisoned>>,
           lock # Free => ledger'.recorded = ledger.recorded
    PROVE  CareInv'
<1>1. Exclusive' /\ KnownCurrent' /\ NoPoison'
  BY ConstantsAssumption DEF CareInv, Exclusive, KnownCurrent, NoPoison
<1>2. \A p \in Procs : RunCareful(p)'
  BY DEF CareInv, RunCareful, SegmentsOf
<1> QED
  BY <1>1, <1>2 DEF CareInv

LEMMA OthersIdle ==
    ASSUME CareInv, NEW p \in Procs, run[p].pc # "idle", NEW r, run' = [run EXCEPT ![p] = r]
    PROVE  /\ lock = p /\ run'[p] = r
           /\ \A q \in Procs : q # p => run'[q].pc = "idle" /\ RunCareful(q)'
<1>1. lock = p /\ run'[p] = r
  BY DEF CareInv, Exclusive, TypeOK
<1>2. ASSUME NEW q \in Procs, q # p PROVE run'[q].pc = "idle"
  BY <1>1, <1>2 DEF CareInv, Exclusive, TypeOK
<1> QED
  BY <1>1, <1>2 DEF RunCareful, Working

LEMMA RestCare ==
    ASSUME CareInv, TypeOK', NEW p \in Procs, run[p].pc # "idle", Rest(p),
           ledger'.recorded = ledger.recorded, UNCHANGED poisoned
    PROVE  CareInv'
<1>1. /\ lock' = Free /\ run'[p] = Idle
      /\ \A q \in Procs : q # p => run'[q].pc = "idle" /\ RunCareful(q)'
  BY OthersIdle DEF Rest
<1>2. RunCareful(p)'
  BY <1>1 DEF RunCareful, Idle, Working
<1>3. Exclusive' /\ KnownCurrent' /\ NoPoison'
  BY <1>1, ConstantsAssumption DEF CareInv, Exclusive, KnownCurrent, NoPoison, Idle
<1> QED
  BY <1>1, <1>2, <1>3 DEF CareInv

LEMMA RunningCare ==
    ASSUME CareInv, TypeOK', NEW p \in Procs, run[p].pc # "idle",
           NEW r, run' = [run EXCEPT ![p] = r], r.pc # "idle", r.known = run[p].known,
           UNCHANGED lock, ledger'.recorded = ledger.recorded,
           NoPoison', RunCareful(p)'
    PROVE  CareInv'
<1>1. /\ lock = p /\ run'[p] = r
      /\ \A q \in Procs : q # p => run'[q].pc = "idle" /\ RunCareful(q)'
  BY OthersIdle
<1>2. Exclusive' /\ KnownCurrent'
  BY <1>1 DEF CareInv, Exclusive, KnownCurrent
<1> QED
  BY <1>1, <1>2 DEF CareInv

LEMMA LeaveDayCare ==
    ASSUME CareInv, TypeOK', NEW p \in Procs, run[p].pc # "idle", LeaveDay(p),
           UNCHANGED <<ledger, poisoned>>
    PROVE  CareInv'
<1>1. CASE run[p].kind # "sweep"
  BY <1>1, RestCare DEF LeaveDay
<1>2. CASE run[p].kind = "sweep"
  <2> DEFINE r == Sweeping(run[p].todo \ {run[p].day}, run[p].latest, run[p].known)
  <2>1. run' = [run EXCEPT ![p] = r] /\ lock' = lock
    BY <1>2 DEF LeaveDay
  <2>2. r.pc = "next" /\ r.known = run[p].known
    BY DEF Sweeping
  <2> HIDE DEF r
  <2>3. RunCareful(p)'
    BY <2>1, <2>2, OthersIdle DEF RunCareful, Working
  <2> QED
    BY <2>1, <2>2, <2>3, RunningCare DEF CareInv, NoPoison
<1> QED
  BY <1>1, <1>2

LEMMA TearKeepsRecorded == TypeOK /\ Tear => ledger'.recorded = ledger.recorded
BY DEF TypeOK, Tear, Ledgers

LEMMA CareStep == CareInv /\ [Next]_vars => CareInv'
<1> SUFFICES ASSUME CareInv, [Next]_vars PROVE CareInv'
  OBVIOUS
<1>0. TypeOK' /\ TypeOK
  BY TypeStep DEF CareInv
<1>1. ASSUME NEW d \in TickerDays, OptionClose(d) PROVE CareInv'
  BY <1>0, <1>1, OutsideCare DEF OptionClose
<1>2. ASSUME NEW d \in TickerDays, GuardWindowEnds(d) PROVE CareInv'
  BY <1>0, <1>2, OutsideCare DEF GuardWindowEnds
<1>3. ASSUME NEW s \in Segments, CaptureSegment(s) PROVE CareInv'
  BY <1>0, <1>3, OutsideCare DEF CaptureSegment, Write
<1>4. ASSUME NEW s \in Segments, FillStart(s) PROVE CareInv'
  BY <1>0, <1>4, OutsideCare DEF FillStart
<1>5. ASSUME NEW s \in Segments, FillLands(s) PROVE CareInv'
  BY <1>0, <1>5, OutsideCare DEF FillLands, Write
<1>6. ASSUME NEW s \in Segments, MarkGap(s) PROVE CareInv'
  BY <1>0, <1>6, OutsideCare DEF MarkGap, Write
<1>7. ASSUME NEW s \in Segments, RecordSegment(s) PROVE CareInv'
  BY <1>0, <1>7, OutsideCare DEF RecordSegment, LockFree
<1>8. ASSUME NEW s \in Segments, RecordTears(s) PROVE CareInv'
  BY <1>0, <1>8, OutsideCare DEF RecordTears, LockFree
<1>9. ASSUME NEW p \in Procs, StartSweep(p) PROVE CareInv'
  <2> DEFINE r == Sweeping(SweepScope, ledger.entry, ledger.recorded)
  <2>1. /\ run' = [run EXCEPT ![p] = r] /\ lock' = p /\ lock = Free
        /\ UNCHANGED <<ledger, poisoned>>
    BY <1>9 DEF StartSweep, LockFree
  <2>2. run'[p] = r /\ r.pc # "idle" /\ r.known = ledger.recorded
    BY <1>0, <2>1 DEF TypeOK, Sweeping
  <2>3. \A q \in Procs : q # p => run'[q].pc = "idle"
    BY <1>0, <2>1, ConstantsAssumption DEF CareInv, Exclusive, TypeOK
  <2>4. RunCareful(p)'
    BY <2>2 DEF RunCareful, Sweeping, Working
  <2> HIDE DEF r
  <2>5. \A q \in Procs : q # p => RunCareful(q)'
    BY <2>3 DEF RunCareful, Working
  <2>6. Exclusive' /\ KnownCurrent' /\ NoPoison'
    BY <2>1, <2>2, <2>3 DEF CareInv, Exclusive, KnownCurrent, NoPoison
  <2> QED
    BY <1>0, <2>4, <2>5, <2>6 DEF CareInv
<1>10. ASSUME NEW p \in Procs, NEW d \in TickerDays, StartRepair(p, d) PROVE CareInv'
  <2> DEFINE r == Repairing(d, Listing(d), ledger.entry, ledger.recorded)
  <2>1. /\ run' = [run EXCEPT ![p] = r] /\ lock' = p /\ lock = Free
        /\ UNCHANGED <<ledger, poisoned>>
    BY <1>10 DEF StartRepair, LockFree
  <2>2. run'[p] = r /\ r.pc # "idle" /\ r.known = ledger.recorded
    BY <1>0, <2>1 DEF TypeOK, Repairing
  <2>3. \A q \in Procs : q # p => run'[q].pc = "idle"
    BY <1>0, <2>1, ConstantsAssumption DEF CareInv, Exclusive, TypeOK
  <2>4. RunCareful(p)'
    BY <2>2 DEF RunCareful, Repairing, Working, Listing, SegmentsOf
  <2> HIDE DEF r
  <2>5. \A q \in Procs : q # p => RunCareful(q)'
    BY <2>3 DEF RunCareful, Working
  <2>6. Exclusive' /\ KnownCurrent' /\ NoPoison'
    BY <2>1, <2>2, <2>3 DEF CareInv, Exclusive, KnownCurrent, NoPoison
  <2> QED
    BY <1>0, <2>4, <2>5, <2>6 DEF CareInv
<1>11. ASSUME NEW p \in Procs, NEW d \in TickerDays, SkipDay(p, d) PROVE CareInv'
  <2> DEFINE r == [run[p] EXCEPT !.todo = run[p].todo \ {d}]
  <2>1. /\ run' = [run EXCEPT ![p] = r] /\ run[p].pc = "next" /\ UNCHANGED lock
        /\ ledger'.recorded = ledger.recorded /\ UNCHANGED <<part, poisoned>>
    BY <1>0, <1>11 DEF SkipDay, AtStep
  <2>2. /\ r.pc = "next"
        /\ run'[p] = r /\ r.day = run[p].day /\ r.segs = run[p].segs
        /\ r.known = run[p].known /\ r.latest = run[p].latest /\ r.merged = run[p].merged
    BY <1>0, <2>1 DEF TypeOK, RunStates
  <2> HIDE DEF r
  <2>3. RunCareful(p)'
    BY <2>1, <2>2 DEF RunCareful, Working
  <2> QED
    BY <1>0, <2>1, <2>2, <2>3, RunningCare DEF CareInv, NoPoison
<1>12. ASSUME NEW p \in Procs, NEW d \in TickerDays, OpenDay(p, d) PROVE CareInv'
  <2> DEFINE r == [run[p] EXCEPT !.pc = Route(p, d), !.day = d, !.segs = Listing(d)]
  <2>1. /\ run' = [run EXCEPT ![p] = r] /\ run[p].pc = "next" /\ UNCHANGED lock
        /\ ledger'.recorded = ledger.recorded /\ UNCHANGED <<part, poisoned>>
    BY <1>0, <1>12 DEF OpenDay, AtStep
  <2>2. /\ r.pc = Route(p, d)
        /\ run'[p] = r /\ r.day = d /\ r.segs = Listing(d)
        /\ r.known = run[p].known /\ r.latest = run[p].latest /\ r.merged = run[p].merged
    BY <1>0, <2>1 DEF TypeOK, RunStates
  <2> HIDE DEF r
  <2>3. /\ Route(p, d) \in {"recover", "seal"}
        /\ Route(p, d) = "recover" => run[p].latest[d] # None
    BY DEF Route
  <2>4. RunCareful(p)'
    BY <2>1, <2>2, <2>3 DEF RunCareful, Working, Listing, SegmentsOf
  <2> QED
    BY <1>0, <2>1, <2>2, <2>3, <2>4, RunningCare DEF CareInv, NoPoison
<1>13. ASSUME NEW p \in Procs, EndSweep(p) PROVE CareInv'
  BY <1>0, <1>13, RestCare DEF EndSweep, AtStep
<1>14. ASSUME NEW p \in Procs, RecoverVerified(p) PROVE CareInv'
  <2> DEFINE r == [run[p] EXCEPT !.pc = "unlink"]
  <2>1. /\ run' = [run EXCEPT ![p] = r] /\ run[p].pc = "recover" /\ UNCHANGED lock
        /\ ledger'.recorded = ledger.recorded
        /\ UNCHANGED <<part, poisoned>> /\ part[run[p].day] = run[p].latest[run[p].day]
    BY <1>0, <1>14 DEF RecoverVerified, AtStep, Verifies
  <2>2. /\ r.pc = "unlink"
        /\ run'[p] = r /\ r.day = run[p].day /\ r.segs = run[p].segs
        /\ r.known = run[p].known /\ r.latest = run[p].latest /\ r.merged = run[p].merged
    BY <1>0, <2>1 DEF TypeOK, RunStates
  <2> HIDE DEF r
  <2>3. RunCareful(p)
    BY DEF CareInv
  <2>4. RunCareful(p)'
    BY <2>1, <2>2, <2>3 DEF RunCareful, Working, SegmentsOf
  <2> QED
    BY <1>0, <2>1, <2>2, <2>4, RunningCare DEF CareInv, NoPoison
<1>15. ASSUME NEW p \in Procs, RecoverMismatch(p) PROVE CareInv'
  BY <1>0, <1>15, RestCare DEF RecoverMismatch, AtStep
<1>16. ASSUME NEW p \in Procs, RefuseDamaged(p) PROVE CareInv'
  BY <1>0, <1>16, LeaveDayCare DEF RefuseDamaged, AtStep
<1>17. ASSUME NEW p \in Procs, ReadRaises(p) PROVE CareInv'
  BY <1>0, <1>17, RestCare DEF ReadRaises, AtStep
<1>18. ASSUME NEW p \in Procs, RefuseConflict(p) PROVE CareInv'
  BY <1>0, <1>18, LeaveDayCare DEF RefuseConflict, AtStep
<1>19. ASSUME NEW p \in Procs, GuardRefuses(p) PROVE CareInv'
  BY <1>0, <1>19, RestCare DEF GuardRefuses, AtStep
<1>20. ASSUME NEW p \in Procs, MergeSegments(p) PROVE CareInv'
  <2> DEFINE r == [run[p] EXCEPT !.pc = "write", !.merged = Readable(p)]
  <2>1. /\ run' = [run EXCEPT ![p] = r] /\ run[p].pc = "seal" /\ UNCHANGED lock
        /\ ledger'.recorded = ledger.recorded
        /\ HashDamaged(p) = {} /\ UNCHANGED part
        /\ poisoned' = poisoned \cup
              {s \in Readable(p) : s \in ledger.recorded /\ file[s] = "rotten"}
    BY <1>0, <1>20 DEF MergeSegments, AtStep
  <2>2. /\ r.pc = "write"
        /\ run'[p] = r /\ r.day = run[p].day /\ r.segs = run[p].segs
        /\ r.known = run[p].known /\ r.latest = run[p].latest /\ r.merged = Readable(p)
    BY <1>0, <2>1 DEF TypeOK, RunStates
  <2> HIDE DEF r
  <2>3. RunCareful(p) /\ run[p].known = ledger.recorded
    BY <2>1 DEF CareInv, KnownCurrent
  <2>4. RunCareful(p)'
    BY <2>1, <2>2, <2>3 DEF RunCareful, Working, SegmentsOf
  <2>5. NoPoison'
    BY <2>1, <2>3 DEF CareInv, NoPoison, Readable, HashDamaged
  <2> QED
    BY <1>0, <2>1, <2>2, <2>4, <2>5, RunningCare
<1>21. ASSUME NEW p \in Procs, WritePartition(p) PROVE CareInv'
  <2> DEFINE r == [run[p] EXCEPT !.pc = "append"]
  <2>1. /\ run' = [run EXCEPT ![p] = r] /\ run[p].pc = "write" /\ UNCHANGED lock
        /\ ledger'.recorded = ledger.recorded
        /\ part' = [part EXCEPT ![run[p].day] = run[p].merged] /\ UNCHANGED poisoned
    BY <1>0, <1>21 DEF WritePartition, AtStep
  <2>2. /\ r.pc = "append"
        /\ run'[p] = r /\ r.day = run[p].day /\ r.segs = run[p].segs
        /\ r.known = run[p].known /\ r.latest = run[p].latest /\ r.merged = run[p].merged
    BY <1>0, <2>1 DEF TypeOK, RunStates
  <2> HIDE DEF r
  <2>3. RunCareful(p)
    BY DEF CareInv
  <2>4. part'[run[p].day] = run[p].merged
    BY <1>0, <2>1, <2>3 DEF TypeOK, RunCareful, Working
  <2>5. RunCareful(p)'
    BY <2>1, <2>2, <2>3, <2>4 DEF RunCareful, Working, SegmentsOf
  <2> QED
    BY <1>0, <2>1, <2>2, <2>5, RunningCare DEF CareInv, NoPoison
<1>22. ASSUME NEW p \in Procs, AppendEntry(p) PROVE CareInv'
  <2> DEFINE r == [run[p] EXCEPT !.pc = "unlink", !.latest[run[p].day] = run[p].merged]
  <2>1. /\ run' = [run EXCEPT ![p] = r] /\ run[p].pc = "append" /\ UNCHANGED lock
        /\ ledger'.recorded = ledger.recorded
        /\ UNCHANGED <<part, poisoned>>
    BY <1>0, <1>22 DEF AppendEntry, AtStep, AppendPartition, TypeOK, Ledgers
  <2>2. /\ r.pc = "unlink"
        /\ run'[p] = r /\ r.day = run[p].day /\ r.segs = run[p].segs
        /\ r.known = run[p].known /\ r.merged = run[p].merged
        /\ r.latest = [run[p].latest EXCEPT ![run[p].day] = run[p].merged]
    BY <1>0, <2>1 DEF TypeOK, RunStates
  <2> HIDE DEF r
  <2>3. RunCareful(p) /\ run[p].merged # None
    BY <1>0, ConstantsAssumption DEF CareInv, TypeOK, RunStates, Contents
  <2>4. run[p].day \in TickerDays /\ r.latest[run[p].day] = run[p].merged
    BY <1>0, <2>1, <2>2, <2>3 DEF RunCareful, Working, TypeOK, RunStates
  <2>5. /\ run'[p] = r /\ r.pc = "unlink" /\ r.day = run[p].day /\ UNCHANGED part
        /\ run[p].segs \subseteq SegmentsOf(run[p].day) /\ r.segs = run[p].segs
        /\ part[run[p].day] = run[p].merged
    BY <2>1, <2>2, <2>3 DEF RunCareful, Working
  <2>6. RunCareful(p)'
    BY <2>3, <2>4, <2>5 DEF RunCareful, Working, SegmentsOf
  <2> QED
    BY <1>0, <2>1, <2>2, <2>6, RunningCare DEF CareInv, NoPoison
<1>23. ASSUME NEW p \in Procs, NEW s \in Segments, UnlinkSegment(p, s) PROVE CareInv'
  <2> DEFINE r == [run[p] EXCEPT !.segs = run[p].segs \ {s}]
  <2>1. /\ run' = [run EXCEPT ![p] = r] /\ run[p].pc = "unlink" /\ UNCHANGED lock
        /\ ledger'.recorded = ledger.recorded /\ UNCHANGED <<part, poisoned>>
    BY <1>0, <1>23 DEF UnlinkSegment, AtStep
  <2>2. /\ r.pc = "unlink"
        /\ run'[p] = r /\ r.day = run[p].day /\ r.segs \subseteq run[p].segs
        /\ r.known = run[p].known /\ r.latest = run[p].latest /\ r.merged = run[p].merged
    BY <1>0, <2>1 DEF TypeOK, RunStates
  <2> HIDE DEF r
  <2>3. RunCareful(p)
    BY DEF CareInv
  <2>4. RunCareful(p)'
    BY <2>1, <2>2, <2>3 DEF RunCareful, Working, SegmentsOf
  <2> QED
    BY <1>0, <2>1, <2>2, <2>4, RunningCare DEF CareInv, NoPoison
<1>24. ASSUME NEW p \in Procs, DayDone(p) PROVE CareInv'
  BY <1>0, <1>24, LeaveDayCare DEF DayDone, AtStep
<1>25. ASSUME NEW p \in Procs, VerifyFails(p) PROVE CareInv'
  BY <1>0, <1>25, RestCare DEF VerifyFails, AtStep
<1>26. ASSUME NEW p \in Procs, AppendTears(p) PROVE CareInv'
  BY <1>0, <1>26, RestCare, TearKeepsRecorded DEF AppendTears, AtStep
<1>27. ASSUME NEW p \in Procs, KillRun(p) PROVE CareInv'
  BY <1>0, <1>27, RestCare DEF KillRun
<1>28. ASSUME DaemonDies PROVE CareInv'
  BY <1>0, <1>28, OutsideCare DEF DaemonDies
<1>29. ASSUME NEW s \in Segments, DaemonDiesWriting(s) PROVE CareInv'
  BY <1>0, <1>29, OutsideCare DEF DaemonDiesWriting
<1>30. ASSUME NEW s \in Segments, Rot(s) PROVE CareInv'
  BY <1>0, <1>30, OutsideCare DEF Rot
<1>31. ASSUME NEW s \in Segments, WriteBackUnlink(s) PROVE CareInv'
  BY <1>0, <1>31, OutsideCare DEF WriteBackUnlink
<1>32. ASSUME WriteBackLedger PROVE CareInv'
  BY <1>0, <1>32, OutsideCare DEF WriteBackLedger
<1>33. ASSUME PowerLoss PROVE CareInv'
  <2>1. /\ lock' = Free /\ poisoned' = poisoned
        /\ \A p \in Procs : run'[p] = Idle
    BY <1>33 DEF PowerLoss
  <2>2. \A p \in Procs : RunCareful(p)'
    BY <2>1 DEF RunCareful, Idle, Working
  <2>3. Exclusive' /\ KnownCurrent' /\ NoPoison'
    BY <2>1, ConstantsAssumption DEF CareInv, Exclusive, KnownCurrent, NoPoison, Idle
  <2> QED
    BY <1>0, <2>2, <2>3 DEF CareInv
<1>34. CASE UNCHANGED vars
  BY <1>0, <1>34, OutsideCare DEF vars
<1> QED
  BY <1>1, <1>2, <1>3, <1>4, <1>5, <1>6, <1>7, <1>8, <1>9, <1>10, <1>11, <1>12, <1>13, <1>14,
     <1>15, <1>16, <1>17, <1>18, <1>19, <1>20, <1>21, <1>22, <1>23, <1>24, <1>25, <1>26,
     <1>27, <1>28, <1>29, <1>30, <1>31, <1>32, <1>33, <1>34
     DEF Next, Writers, RunStep, Faults

LEMMA Careful == Spec => []CareInv
BY CareInit, CareStep, PTL DEF Spec

(* Whatever hazard is let loose, no segment whose bytes changed after its    *)
(* entry was recorded ever reaches a partition: _seal hashes it first.       *)
THEOREM NoPoisonAlways == Spec => []NoPoison
<1>1. CareInv => NoPoison
  BY DEF CareInv
<1> QED
  BY <1>1, Careful, PTL

UnlinkVerified ==
    \A s \in Segments : (s \in present /\ s \notin present') =>
         \E p \in Procs :
            /\ run[p].pc = "unlink" /\ s \in run[p].segs
            /\ part[Day[s]] \notin {None, Bad} /\ part[Day[s]] = run[p].latest[Day[s]]

LEMMA UnlinkVerifiedStep ==
    ASSUME CareInv, [Next]_vars
    PROVE  UnlinkVerified
<1>1. ASSUME NEW d \in TickerDays, OptionClose(d) PROVE UnlinkVerified
  BY <1>1 DEF UnlinkVerified, OptionClose
<1>2. ASSUME NEW d \in TickerDays, GuardWindowEnds(d) PROVE UnlinkVerified
  BY <1>2 DEF UnlinkVerified, GuardWindowEnds
<1>3. ASSUME NEW s \in Segments, CaptureSegment(s) PROVE UnlinkVerified
  BY <1>3 DEF UnlinkVerified, CaptureSegment, Write
<1>4. ASSUME NEW s \in Segments, FillStart(s) PROVE UnlinkVerified
  BY <1>4 DEF UnlinkVerified, FillStart
<1>5. ASSUME NEW s \in Segments, FillLands(s) PROVE UnlinkVerified
  BY <1>5 DEF UnlinkVerified, FillLands, Write
<1>6. ASSUME NEW s \in Segments, MarkGap(s) PROVE UnlinkVerified
  BY <1>6 DEF UnlinkVerified, MarkGap, Write
<1>7. ASSUME NEW s \in Segments, RecordSegment(s) PROVE UnlinkVerified
  BY <1>7 DEF UnlinkVerified, RecordSegment
<1>8. ASSUME NEW s \in Segments, RecordTears(s) PROVE UnlinkVerified
  BY <1>8 DEF UnlinkVerified, RecordTears
<1>9. ASSUME NEW p \in Procs, StartSweep(p) PROVE UnlinkVerified
  BY <1>9 DEF UnlinkVerified, StartSweep
<1>10. ASSUME NEW p \in Procs, NEW d \in TickerDays, StartRepair(p, d) PROVE UnlinkVerified
  BY <1>10 DEF UnlinkVerified, StartRepair
<1>11. ASSUME NEW p \in Procs, NEW d \in TickerDays, SkipDay(p, d) PROVE UnlinkVerified
  BY <1>11 DEF UnlinkVerified, SkipDay
<1>12. ASSUME NEW p \in Procs, NEW d \in TickerDays, OpenDay(p, d) PROVE UnlinkVerified
  BY <1>12 DEF UnlinkVerified, OpenDay
<1>13. ASSUME NEW p \in Procs, EndSweep(p) PROVE UnlinkVerified
  BY <1>13 DEF UnlinkVerified, EndSweep
<1>14. ASSUME NEW p \in Procs, RecoverVerified(p) PROVE UnlinkVerified
  BY <1>14 DEF UnlinkVerified, RecoverVerified
<1>15. ASSUME NEW p \in Procs, RecoverMismatch(p) PROVE UnlinkVerified
  BY <1>15 DEF UnlinkVerified, RecoverMismatch
<1>16. ASSUME NEW p \in Procs, RefuseDamaged(p) PROVE UnlinkVerified
  BY <1>16 DEF UnlinkVerified, RefuseDamaged
<1>17. ASSUME NEW p \in Procs, ReadRaises(p) PROVE UnlinkVerified
  BY <1>17 DEF UnlinkVerified, ReadRaises
<1>18. ASSUME NEW p \in Procs, RefuseConflict(p) PROVE UnlinkVerified
  BY <1>18 DEF UnlinkVerified, RefuseConflict
<1>19. ASSUME NEW p \in Procs, GuardRefuses(p) PROVE UnlinkVerified
  BY <1>19 DEF UnlinkVerified, GuardRefuses
<1>20. ASSUME NEW p \in Procs, MergeSegments(p) PROVE UnlinkVerified
  BY <1>20 DEF UnlinkVerified, MergeSegments
<1>21. ASSUME NEW p \in Procs, WritePartition(p) PROVE UnlinkVerified
  BY <1>21 DEF UnlinkVerified, WritePartition
<1>22. ASSUME NEW p \in Procs, AppendEntry(p) PROVE UnlinkVerified
  BY <1>22 DEF UnlinkVerified, AppendEntry
<1>23. ASSUME NEW p \in Procs, NEW s \in Segments, UnlinkSegment(p, s) PROVE UnlinkVerified
  <2>1. /\ run[p].pc = "unlink" /\ s \in run[p].segs /\ present' = present \ {s}
        /\ RunCareful(p)
    BY <1>23 DEF UnlinkSegment, AtStep, CareInv
  <2>2. /\ Day[s] = run[p].day /\ Day[s] \in TickerDays
        /\ run[p].latest[Day[s]] # None /\ part[Day[s]] = run[p].latest[Day[s]]
    BY <2>1 DEF RunCareful, Working, SegmentsOf
  <2>3. run[p].latest[Day[s]] \in Contents
    BY <2>2 DEF CareInv, TypeOK, RunStates
  <2>4. run[p].latest[Day[s]] # Bad
    BY <2>3, ConstantsAssumption DEF Contents
  <2> QED
    BY <2>1, <2>2, <2>4 DEF UnlinkVerified
<1>24. ASSUME NEW p \in Procs, DayDone(p) PROVE UnlinkVerified
  BY <1>24 DEF UnlinkVerified, DayDone
<1>25. ASSUME NEW p \in Procs, VerifyFails(p) PROVE UnlinkVerified
  BY <1>25 DEF UnlinkVerified, VerifyFails
<1>26. ASSUME NEW p \in Procs, AppendTears(p) PROVE UnlinkVerified
  BY <1>26 DEF UnlinkVerified, AppendTears
<1>27. ASSUME NEW p \in Procs, KillRun(p) PROVE UnlinkVerified
  BY <1>27 DEF UnlinkVerified, KillRun
<1>28. ASSUME DaemonDies PROVE UnlinkVerified
  BY <1>28 DEF UnlinkVerified, DaemonDies
<1>29. ASSUME NEW s \in Segments, DaemonDiesWriting(s) PROVE UnlinkVerified
  BY <1>29 DEF UnlinkVerified, DaemonDiesWriting
<1>30. ASSUME NEW s \in Segments, Rot(s) PROVE UnlinkVerified
  BY <1>30 DEF UnlinkVerified, Rot
<1>31. ASSUME NEW s \in Segments, WriteBackUnlink(s) PROVE UnlinkVerified
  BY <1>31 DEF UnlinkVerified, WriteBackUnlink
<1>32. ASSUME WriteBackLedger PROVE UnlinkVerified
  BY <1>32 DEF UnlinkVerified, WriteBackLedger
<1>33. ASSUME PowerLoss PROVE UnlinkVerified
  BY <1>33 DEF UnlinkVerified, PowerLoss
<1>34. CASE UNCHANGED vars
  BY <1>34 DEF UnlinkVerified, vars
<1> QED
  BY <1>1, <1>2, <1>3, <1>4, <1>5, <1>6, <1>7, <1>8, <1>9, <1>10, <1>11, <1>12, <1>13, <1>14,
     <1>15, <1>16, <1>17, <1>18, <1>19, <1>20, <1>21, <1>22, <1>23, <1>24, <1>25, <1>26,
     <1>27, <1>28, <1>29, <1>30, <1>31, <1>32, <1>33, <1>34
     DEF Next, Writers, RunStep, Faults

(* Whatever hazard is let loose, _seal and _recover remove a segment file    *)
(* only under a partition that holds, on disk, what the run verified.        *)
THEOREM UnlinkOnlyVerifiedAlways == Spec => UnlinkOnlyVerified
<1>1. CareInv /\ [Next]_vars => [UnlinkVerified]_vars
  BY UnlinkVerifiedStep
<1>2. Spec => [][UnlinkVerified]_vars
  BY <1>1, Careful, PTL DEF Spec
<1> QED
  BY <1>2 DEF UnlinkOnlyVerified, UnlinkVerified

=============================================================================
