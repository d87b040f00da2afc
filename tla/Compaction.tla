----------------------------- MODULE Compaction -----------------------------
(***************************************************************************)
(* The journal, the sealed partitions and the manifest of a lake, and the  *)
(* jobs that turn the first into the second: src/lake/compact.py with the  *)
(* writers whose segments it merges (capture.py, gap.py, close_guard.py)   *)
(* and the ledger both sides append to (manifest.py).                      *)
(*                                                                         *)
(* A segment file carries one batch of rows and is named once and for all  *)
(* by its ticker-day, start stamp and pid, so a segment is a constant and  *)
(* its rows are stood for by the segment itself: a partition's content is  *)
(* the set of segments whose rows it holds, its row count the size of that *)
(* set, and its sha256 the set again.  The manifest is what parse_jsonl    *)
(* and _latest_by_partition return from the file, not its lines.           *)
(***************************************************************************)
EXTENDS Naturals, FiniteSets

CONSTANTS
    NumDays,    \* ticker-days 1..NumDays, in the order the sweep visits them
    Segments,   \* every segment file a writer may create
    Cycles,     \* those of a capture cycle
    Fills,      \* those of the close+5 fill
    Marks,      \* those of a gap-marking pass
    Day,        \* the ticker-day of each segment
    Schema,     \* the column types each segment was written with
    Sweepers,   \* processes that run compact: the daemon's child, the evening run
    Humans,     \* processes that run recompact_ticker_day
    Hazards,    \* the hazards let loose, see HazardNames
    MaxFaults,  \* bound on deaths and failed writes
    None, Bad, Free

TickerDays == 1..NumDays
Procs == Sweepers \cup Humans

(* Each hazard is something the code permits and its documents argue away;  *)
(* the model runs with and without it.                                      *)
(*   short_append  a manifest append that tears (manifest._append_once)     *)
(*   power_loss    a machine that dies with the manifest line unflushed     *)
(*   guard_race    a close+5 fill still fetching when the guard window ends *)
(*   early_repair  recompact_ticker_day on a day still being captured       *)
(*   allow_shrink  recompact_ticker_day with --allow-shrink                 *)
(*   rot           a closed segment whose bytes change on the disk          *)
HazardNames == {"short_append", "power_loss", "guard_race", "early_repair", "allow_shrink",
                "rot"}

ASSUME ConstantsAssumption ==
    /\ NumDays \in Nat
    /\ IsFiniteSet(Segments)
    /\ Segments = Cycles \cup Fills \cup Marks
    /\ Cycles \cap Fills = {} /\ Cycles \cap Marks = {} /\ Fills \cap Marks = {}
    /\ Day \in [Segments -> TickerDays]
    /\ MaxFaults \in Nat
    /\ Hazards \subseteq HazardNames
    /\ None # Bad /\ \A S \in SUBSET Segments : S # None /\ S # Bad
    /\ Free \notin Procs /\ Sweepers \cap Humans = {}

VARIABLES
    stage,      \* where each ticker-day's session stands
    file,       \* the bytes of each segment file
    present,    \* the segment files in their directories
    limbo,      \* segments unlinked since the directory was last flushed
    pending,    \* closed segments whose manifest entry waits on the lock
    part,       \* each ticker-day's partition file
    ledger,     \* the manifest, as a reader resolves it
    synced,     \* the manifest as a power loss would leave it
    lock,       \* holder of the lake-root flock
    run,        \* the state of each sealing process
    poisoned,   \* recorded segments whose changed bytes reached a partition
    faults      \* deaths and failed writes so far

vars == <<stage, file, present, limbo, pending, part, ledger, synced, lock, run,
          poisoned, faults>>

Stages == {"session", "guard", "past"}
Files == {"none", "fetching", "whole", "torn", "rotten"}
Steps == {"idle", "next", "recover", "seal", "write", "append", "unlink"}
Contents == SUBSET Segments

Ledgers == [entry : [TickerDays -> {None} \cup Contents],   \* latest readable entry
            whole : [TickerDays -> {None} \cup Contents],   \* latest whole line, read or hidden
            recorded : Contents,                            \* segments with a readable entry
            tail : {"clean", "fragment", "fused"}]          \* how the file ends or tore

RunStates == [pc : Steps, kind : {"sweep", "repair"}, day : 0..NumDays,
              todo : SUBSET TickerDays, segs : Contents, merged : Contents,
              latest : [TickerDays -> {None} \cup Contents], known : Contents]

Idle == [pc |-> "idle", kind |-> "sweep", day |-> 0, todo |-> {}, segs |-> {},
         merged |-> {}, latest |-> [d \in TickerDays |-> None], known |-> {}]

(* A sweep between two ticker-days, with what it read when it took the lock. *)
Sweeping(todo, latest, known) ==
    [pc |-> "next", kind |-> "sweep", day |-> 0, todo |-> todo, segs |-> {},
     merged |-> {}, latest |-> latest, known |-> known]

Repairing(d, segs, latest, known) ==
    [pc |-> "seal", kind |-> "repair", day |-> d, todo |-> {}, segs |-> segs,
     merged |-> {}, latest |-> latest, known |-> known]

SegmentsOf(d) == {s \in Segments : Day[s] = d}
Listing(d) == present \cap SegmentsOf(d)                \* ticker_dir.glob(SEGMENT_GLOB)
Captured(d) == {s \in SegmentsOf(d) : file[s] \in {"whole", "rotten"}}

TypeOK ==
    /\ stage \in [TickerDays -> Stages]
    /\ file \in [Segments -> Files]
    /\ present \in Contents /\ limbo \in Contents /\ pending \in Contents
    /\ part \in [TickerDays -> {None, Bad} \cup Contents]
    /\ ledger \in Ledgers
    /\ synced \in Ledgers
    /\ lock \in Procs \cup {Free}
    /\ run \in [Procs -> RunStates]
    /\ poisoned \in Contents
    /\ faults \in 0..MaxFaults

Init ==
    /\ stage = [d \in TickerDays |-> "session"]
    /\ file = [s \in Segments |-> "none"]
    /\ present = {} /\ limbo = {} /\ pending = {}
    /\ part = [d \in TickerDays |-> None]
    /\ ledger = [entry |-> [d \in TickerDays |-> None], whole |-> [d \in TickerDays |-> None],
                 recorded |-> {}, tail |-> "clean"]
    /\ synced = ledger
    /\ lock = Free
    /\ run = [p \in Procs |-> Idle]
    /\ poisoned = {}
    /\ faults = 0

Fault == faults < MaxFaults /\ faults' = faults + 1

-----------------------------------------------------------------------------
(* The manifest.  A fragment fuses with the line appended after it, and no  *)
(* line behind the fused one is read.                                       *)

Landed(l) == IF l.tail = "clean" THEN "clean" ELSE "fused"

AppendSegment(s) ==
    ledger' = [ledger EXCEPT
                 !.recorded = IF ledger.tail = "clean" THEN @ \cup {s} ELSE @,
                 !.tail = Landed(ledger)]

AppendNothing(d, content) == UNCHANGED ledger
AppendPartition(d, content) ==
    ledger' = [ledger EXCEPT
                 !.entry[d] = IF ledger.tail = "clean" THEN content ELSE @,
                 !.whole[d] = IF ledger.tail = "fragment" THEN @ ELSE content,
                 !.tail = Landed(ledger)]

Tear ==
    /\ "short_append" \in Hazards
    /\ Fault
    /\ ledger' = [ledger EXCEPT !.tail = IF @ = "clean" THEN "fragment" ELSE "fused"]

(* One blocking flock on manifest.jsonl, which the kernel drops when its    *)
(* holder dies.                                                             *)
NoLock == TRUE
LockFree == lock = Free

-----------------------------------------------------------------------------
(* The session clock.                                                       *)

OptionClose(d) ==
    /\ stage[d] = "session"
    /\ stage' = [stage EXCEPT ![d] = "guard"]
    /\ UNCHANGED <<file, present, limbo, pending, part, ledger, synced, lock, run,
                   poisoned, faults>>

GuardWindowEnds(d) ==
    /\ stage[d] = "guard"
    /\ stage' = [stage EXCEPT ![d] = "past"]
    /\ UNCHANGED <<file, present, limbo, pending, part, ledger, synced, lock, run,
                   poisoned, faults>>

-----------------------------------------------------------------------------
(* The writers, all outside the lock but for a late marking pass.           *)

Write(s) ==
    /\ file' = [file EXCEPT ![s] = "whole"]
    /\ present' = present \cup {s}
    /\ UNCHANGED <<stage, limbo, part, ledger, synced, lock, run, poisoned, faults>>

CaptureSegment(s) ==
    /\ s \in Cycles
    /\ file[s] = "none"
    /\ stage[Day[s]] = "session"
    /\ Write(s)
    /\ pending' = pending \cup {s}

FillStart(s) ==
    /\ s \in Fills
    /\ file[s] = "none"
    /\ stage[Day[s]] = "guard"
    /\ ledger.entry[Day[s]] = None
    /\ file' = [file EXCEPT ![s] = "fetching"]
    /\ UNCHANGED <<stage, present, limbo, pending, part, ledger, synced, lock, run,
                   poisoned, faults>>

FillLands(s) ==
    /\ file[s] = "fetching"
    /\ stage[Day[s]] = "guard" \/ "guard_race" \in Hazards
    /\ Write(s)
    /\ pending' = pending \cup {s}

(* A pass at or before the day's option close takes no lock and reads no    *)
(* manifest; every other pass decides and writes in one hold of the lock.   *)
MarkingPassUnchecked(s) == stage[Day[s]] = "session" \/ LockFree

MarkingPass(s) ==
    \/ stage[Day[s]] = "session"
    \/ LockFree /\ ledger.entry[Day[s]] = None

MarkGap(s) ==
    /\ s \in Marks
    /\ file[s] = "none"
    /\ MarkingPass(s)
    /\ Write(s)
    /\ UNCHANGED pending

RecordSegment(s) ==
    /\ s \in pending
    /\ LockFree
    /\ AppendSegment(s)
    /\ pending' = pending \ {s}
    /\ UNCHANGED <<stage, file, present, limbo, part, synced, lock, run, poisoned, faults>>

(* A short write raises out of append_entries; the cycle's entries are lost *)
(* and its fragment stays.                                                  *)
RecordTears(s) ==
    /\ s \in pending
    /\ LockFree
    /\ Tear
    /\ pending' = pending \ {s}
    /\ UNCHANGED <<stage, file, present, limbo, part, synced, lock, run, poisoned>>

-----------------------------------------------------------------------------
(* The sealing processes.  A process that waits on the flock has no state:  *)
(* scope, manifest and listings are all read inside the hold.               *)

Rest(p) ==
    /\ lock' = Free
    /\ run' = [run EXCEPT ![p] = Idle]

(* The sweep goes on to the next ticker-day; a repair had only the one.     *)
LeaveSweep(p) == Rest(p)

LeaveDay(p) ==
    IF run[p].kind = "sweep"
    THEN /\ run' = [run EXCEPT ![p] = Sweeping(run[p].todo \ {run[p].day},
                                              run[p].latest, run[p].known)]
         /\ UNCHANGED lock
    ELSE Rest(p)

AtStep(p, step) == run[p].pc = step

ScopeAtDeadline == {d \in TickerDays : stage[d] # "session"}
SweepScope == {d \in TickerDays : stage[d] = "past"}

StartSweep(p) ==
    /\ p \in Sweepers
    /\ run[p].pc = "idle"
    /\ LockFree
    /\ lock' = p
    /\ run' = [run EXCEPT ![p] = Sweeping(SweepScope, ledger.entry, ledger.recorded)]
    /\ UNCHANGED <<stage, file, present, limbo, pending, part, ledger, synced, poisoned,
                   faults>>

StartRepair(p, d) ==
    /\ p \in Humans
    /\ run[p].pc = "idle"
    /\ LockFree
    /\ Listing(d) # {}
    /\ stage[d] = "past" \/ "early_repair" \in Hazards
    /\ lock' = p
    /\ run' = [run EXCEPT ![p] = Repairing(d, Listing(d), ledger.entry, ledger.recorded)]
    /\ UNCHANGED <<stage, file, present, limbo, pending, part, ledger, synced, poisoned,
                   faults>>

NextDay(p, d) == d \in run[p].todo /\ \A e \in run[p].todo : d <= e

SkipDay(p, d) ==
    /\ AtStep(p, "next")
    /\ NextDay(p, d)
    /\ Listing(d) = {}
    /\ run' = [run EXCEPT ![p] = [@ EXCEPT !.todo = run[p].todo \ {d}]]
    /\ UNCHANGED <<stage, file, present, limbo, pending, part, ledger, synced, lock,
                   poisoned, faults>>

(* No automatic run recompacts a partition its manifest names.              *)
RouteRebuilding(p, d) == IF run[p].latest[d] # None THEN "write" ELSE "seal"
Route(p, d) == IF run[p].latest[d] # None THEN "recover" ELSE "seal"

OpenDay(p, d) ==
    /\ AtStep(p, "next")
    /\ NextDay(p, d)
    /\ Listing(d) # {}
    /\ run' = [run EXCEPT ![p] = [@ EXCEPT !.pc = Route(p, d), !.day = d,
                                           !.segs = Listing(d)]]
    /\ UNCHANGED <<stage, file, present, limbo, pending, part, ledger, synced, lock,
                   poisoned, faults>>

EndSweep(p) ==
    /\ AtStep(p, "next")
    /\ run[p].todo = {}
    /\ Rest(p)
    /\ UNCHANGED <<stage, file, present, limbo, pending, part, ledger, synced, poisoned,
                   faults>>

VerifiesAlways(p) == TRUE
Verifies(p) == part[run[p].day] = run[p].latest[run[p].day]

(* _recover: the partition verifies against its entry and the debris goes.  *)
RecoverVerified(p) ==
    /\ AtStep(p, "recover")
    /\ Verifies(p)
    /\ run' = [run EXCEPT ![p] = [@ EXCEPT !.pc = "unlink"]]
    /\ UNCHANGED <<stage, file, present, limbo, pending, part, ledger, synced, lock,
                   poisoned, faults>>

(* PartitionMismatch is caught by nothing and ends the run.                 *)
RecoverMismatch(p) ==
    /\ AtStep(p, "recover")
    /\ ~Verifies(p)
    /\ Rest(p)
    /\ UNCHANGED <<stage, file, present, limbo, pending, part, ledger, synced, poisoned,
                   faults>>

HashUnchecked(p) == {}
HashDamaged(p) == {s \in run[p].segs : s \in run[p].known /\ file[s] = "rotten"}
ReadDamaged(p) == {s \in run[p].segs : s \notin run[p].known /\ file[s] = "rotten"}
ReadableOld(p) == {s \in run[p].segs \cap present : file[s] = "whole" /\ Schema[s] = "old"}
Readable(p) == {s \in run[p].segs \cap present : file[s] \in {"whole", "rotten"}}
TypesDisagree(p) == \E s, t \in Readable(p) : Schema[s] # Schema[t]

RefuseDamaged(p) ==
    /\ AtStep(p, "seal")
    /\ HashDamaged(p) # {} \/ ReadDamaged(p) # {}
    /\ LeaveDay(p)
    /\ UNCHANGED <<stage, file, present, limbo, pending, part, ledger, synced, poisoned,
                   faults>>

(* A shadow-append or a file the read is denied, on a segment with no entry. *)
ReadRaises(p) ==
    /\ AtStep(p, "seal")
    /\ HashDamaged(p) = {}
    /\ ReadDamaged(p) # {}
    /\ Rest(p)
    /\ UNCHANGED <<stage, file, present, limbo, pending, part, ledger, synced, poisoned,
                   faults>>

RefuseConflict(p) ==
    /\ AtStep(p, "seal")
    /\ HashDamaged(p) = {}
    /\ TypesDisagree(p)
    /\ LeaveDay(p)
    /\ UNCHANGED <<stage, file, present, limbo, pending, part, ledger, synced, poisoned,
                   faults>>

ShrinksNever(p) == FALSE

(* guard_row_count reads the manifest again rather than the run's copy.     *)
Shrinks(p) ==
    /\ ledger.entry[run[p].day] # None
    /\ Cardinality(Readable(p)) < Cardinality(ledger.entry[run[p].day])

GuardOff(p) == run[p].kind = "repair" /\ "allow_shrink" \in Hazards

(* Changed bytes without an entry may decode; a repair may carry            *)
(* allow_retype.                                                            *)
MergeSegments(p) ==
    /\ AtStep(p, "seal")
    /\ HashDamaged(p) = {}
    /\ TypesDisagree(p) => run[p].kind = "repair"
    /\ Shrinks(p) => GuardOff(p)
    /\ run' = [run EXCEPT ![p] = [@ EXCEPT !.pc = "write", !.merged = Readable(p)]]
    /\ poisoned' = poisoned \cup {s \in Readable(p) : s \in ledger.recorded /\ file[s] = "rotten"}
    /\ UNCHANGED <<stage, file, present, limbo, pending, part, ledger, synced, lock, faults>>

GuardRefuses(p) ==
    /\ AtStep(p, "seal")
    /\ HashDamaged(p) = {}
    /\ TypesDisagree(p) => run[p].kind = "repair"
    /\ Shrinks(p)
    /\ Rest(p)
    /\ UNCHANGED <<stage, file, present, limbo, pending, part, ledger, synced, poisoned,
                   faults>>

WritePartition(p) ==
    /\ AtStep(p, "write")
    /\ part' = [part EXCEPT ![run[p].day] = run[p].merged]
    /\ run' = [run EXCEPT ![p] = [@ EXCEPT !.pc = "append"]]
    /\ UNCHANGED <<stage, file, present, limbo, pending, ledger, synced, lock, poisoned,
                   faults>>

(* The file that reads back is not the table that was written.              *)
VerifyFails(p) ==
    /\ AtStep(p, "write")
    /\ Fault
    /\ part' = [part EXCEPT ![run[p].day] = Bad]
    /\ Rest(p)
    /\ UNCHANGED <<stage, file, present, limbo, pending, ledger, synced, poisoned>>

AppendEntry(p) ==
    /\ AtStep(p, "append")
    /\ AppendPartition(run[p].day, run[p].merged)
    /\ run' = [run EXCEPT ![p] = [@ EXCEPT !.pc = "unlink",
                                           !.latest[run[p].day] = run[p].merged]]
    /\ UNCHANGED <<stage, file, present, limbo, pending, part, synced, lock, poisoned, faults>>

AppendTears(p) ==
    /\ AtStep(p, "append")
    /\ Tear
    /\ Rest(p)
    /\ UNCHANGED <<stage, file, present, limbo, pending, part, synced, poisoned>>

UnlinkSegment(p, s) ==
    /\ AtStep(p, "unlink")
    /\ s \in run[p].segs
    /\ present' = present \ {s}
    /\ limbo' = IF "power_loss" \in Hazards THEN limbo \cup {s} ELSE limbo
    /\ run' = [run EXCEPT ![p] = [@ EXCEPT !.segs = run[p].segs \ {s}]]
    /\ UNCHANGED <<stage, file, pending, part, ledger, synced, lock, poisoned, faults>>

DayDone(p) ==
    /\ AtStep(p, "unlink")
    /\ run[p].segs = {}
    /\ LeaveDay(p)
    /\ UNCHANGED <<stage, file, present, limbo, pending, part, ledger, synced, poisoned,
                   faults>>

-----------------------------------------------------------------------------
(* Deaths, rot, and what the operating system does in its own time.         *)

(* A killed run, or one an OSError ends: the kernel drops its flock.        *)
KillRun(p) ==
    /\ run[p].pc # "idle"
    /\ Fault
    /\ Rest(p)
    /\ UNCHANGED <<stage, file, present, limbo, pending, part, ledger, synced, poisoned>>

FetchesLeftOpen(f) == [s \in Segments |-> IF f[s] = "fetching" THEN "open" ELSE f[s]]
WithoutFetches(f) == [s \in Segments |-> IF f[s] = "fetching" THEN "none" ELSE f[s]]

(* The daemon dies: no cycle appends, no fill lands.                        *)
DaemonDies ==
    /\ Fault
    /\ file' = WithoutFetches(file)
    /\ pending' = {}
    /\ UNCHANGED <<stage, present, limbo, part, ledger, synced, lock, run, poisoned>>

(* The daemon dies inside a segment write, whose tail is torn.              *)
DaemonDiesWriting(s) ==
    /\ Fault
    /\ \/ s \in Cycles /\ file[s] = "none" /\ stage[Day[s]] = "session"
       \/ file[s] = "fetching" /\ stage[Day[s]] = "guard"
       \/ s \in Marks /\ file[s] = "none" /\ MarkingPass(s)
    /\ file' = [WithoutFetches(file) EXCEPT ![s] = "torn"]
    /\ present' = present \cup {s}
    /\ pending' = {}
    /\ UNCHANGED <<stage, limbo, part, ledger, synced, lock, run, poisoned>>

Rot(s) ==
    /\ "rot" \in Hazards
    /\ s \in present
    /\ file[s] = "whole"
    /\ file' = [file EXCEPT ![s] = "rotten"]
    /\ UNCHANGED <<stage, present, limbo, pending, part, ledger, synced, lock, run,
                   poisoned, faults>>

(* Nothing flushes the manifest or the journal directories after a seal, so *)
(* each reaches the disk when the kernel writes it back.                    *)
WriteBackLedger ==
    /\ "power_loss" \in Hazards
    /\ synced # ledger
    /\ synced' = ledger
    /\ UNCHANGED <<stage, file, present, limbo, pending, part, ledger, lock, run,
                   poisoned, faults>>

WriteBackUnlink(s) ==
    /\ "power_loss" \in Hazards
    /\ s \in limbo
    /\ limbo' = limbo \ {s}
    /\ UNCHANGED <<stage, file, present, pending, part, ledger, synced, lock, run,
                   poisoned, faults>>

PowerLoss ==
    /\ "power_loss" \in Hazards
    /\ Fault
    /\ ledger' = synced
    /\ present' = present \cup limbo
    /\ limbo' = {}
    /\ file' = WithoutFetches(file)
    /\ pending' = {}
    /\ lock' = Free
    /\ run' = [p \in Procs |-> Idle]
    /\ UNCHANGED <<stage, part, synced, poisoned>>

-----------------------------------------------------------------------------
RunStep(p) ==
    \/ \E d \in TickerDays : SkipDay(p, d) \/ OpenDay(p, d)
    \/ EndSweep(p)
    \/ RecoverVerified(p) \/ RecoverMismatch(p)
    \/ RefuseDamaged(p) \/ ReadRaises(p) \/ RefuseConflict(p) \/ GuardRefuses(p)
    \/ MergeSegments(p)
    \/ WritePartition(p)
    \/ AppendEntry(p)
    \/ \E s \in Segments : UnlinkSegment(p, s)
    \/ DayDone(p)

Writers ==
    \E s \in Segments :
        \/ CaptureSegment(s) \/ FillStart(s) \/ FillLands(s) \/ MarkGap(s)
        \/ RecordSegment(s) \/ RecordTears(s)

Faults ==
    \/ \E p \in Procs : VerifyFails(p) \/ AppendTears(p) \/ KillRun(p)
    \/ DaemonDies
    \/ \E s \in Segments : DaemonDiesWriting(s) \/ Rot(s) \/ WriteBackUnlink(s)
    \/ WriteBackLedger
    \/ PowerLoss

Next ==
    \/ \E d \in TickerDays : OptionClose(d) \/ GuardWindowEnds(d)
    \/ Writers
    \/ \E p \in Procs : StartSweep(p) \/ (\E d \in TickerDays : StartRepair(p, d)) \/ RunStep(p)
    \/ Faults

Spec == Init /\ [][Next]_vars

(* The evening's runs are dispatched every day and wait on a blocking flock,*)
(* and a run that holds it goes on to its end.                              *)
Fairness == \A p \in Procs : WF_vars(RunStep(p)) /\ SF_vars(StartSweep(p))

FairSpec == Spec /\ Fairness

-----------------------------------------------------------------------------
(* Properties.                                                              *)

InPartition(s) == part[Day[s]] \notin {None, Bad} /\ s \in part[Day[s]]
Held(d) == {s \in Captured(d) : s \in present \/ InPartition(s)}

(* Compaction, its crashes and its repairs never lose a durable row: each   *)
(* is in its segment or in its day's partition.  (design.md, "A failed run  *)
(* re-runs with nothing lost".)                                             *)
NothingLost == \A d \in TickerDays : Held(d) = Captured(d)

(* Beside a manifested partition only debris is left: segments whose rows   *)
(* the partition already holds, which is what _recover relies on when it    *)
(* unlinks them unread.                                                     *)
DebrisOnly ==
    \A d \in TickerDays : ledger.entry[d] # None =>
        Listing(d) \cap Captured(d) \subseteq ledger.entry[d]

(* When a sweep refuses a partition that no longer matches its entry, the   *)
(* segments a human can rebuild it from are all still there.                *)
MismatchRepairable ==
    \A d \in TickerDays : ledger.entry[d] \notin {None, part[d]} =>
        ledger.entry[d] \subseteq present

(* No automatic run replaces a manifested partition with fewer rows than    *)
(* its recorded count.                                                      *)
NoAutomaticShrink ==
    [][\A d \in TickerDays :
         (part'[d] # part[d] /\ ledger.whole[d] # None /\ \E p \in Sweepers : run'[p] # run[p]) =>
            /\ part'[d] # Bad
            /\ Cardinality(part'[d]) >= Cardinality(ledger.whole[d])]_vars

(* The manifest a run read once, when it took the lock, is the manifest     *)
(* until it lets go.                                                        *)
LatestIsCurrent ==
    \A p \in Procs : run[p].pc # "idle" =>
        run[p].latest = ledger.entry /\ run[p].known = ledger.recorded

(* A segment whose bytes changed after its entry was recorded never reaches *)
(* a partition.                                                             *)
NoPoison == poisoned = {}

(* A segment file is only ever removed under a partition that holds, on     *)
(* disk and verified, every row of the last seal.                           *)
UnlinkOnlyVerified ==
    [][\A s \in Segments : (s \in present /\ s \notin present') =>
         \E p \in Procs :
            /\ run[p].pc = "unlink" /\ s \in run[p].segs
            /\ part[Day[s]] \notin {None, Bad} /\ part[Day[s]] = run[p].latest[Day[s]]]_vars

(* What keeps a day from being sealed: its own damaged or disagreeing       *)
(* segments, or something on an earlier day that ends every run.            *)
Trouble(d) ==
    \/ \E s \in Listing(d) : file[s] = "rotten"
    \/ \E s, t \in Captured(d) : Schema[s] # Schema[t]
    \/ ledger.entry[d] \notin {None, part[d]}
    \/ \E e \in 1..(d - 1) :
          \/ ledger.entry[e] \notin {None, part[e]}
          \/ \E s \in Listing(e) : file[s] = "rotten" /\ s \notin ledger.recorded

(* A day whose guard window has ended is sealed and its journal emptied,    *)
(* and a refused ticker-day costs only itself.                              *)
PastDaysSeal ==
    \A d \in TickerDays :
        [](stage[d] = "past" /\ Listing(d) # {} /\ []~Trouble(d)
             => <>(Listing(d) = {} /\ ledger.entry[d] # None))

(* Seen from outside, each ticker-day gathers rows, is sealed once with all *)
(* of them, and gathers no more.                                            *)
Lake == INSTANCE LakeDays WITH
            rows <- [d \in TickerDays |-> Held(d)],
            sealed <- ledger.entry
SealedOnce == Lake!Spec
=============================================================================
