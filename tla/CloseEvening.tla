---------------------------- MODULE CloseEvening ----------------------------
(***************************************************************************)
(* The daemon's tick loop (src/lake/daemon.py run_loop and the hooks       *)
(* build_daemon wires into it), the capture cycles it starts on threads of *)
(* their own, the two gap passes (src/lake/gap.py), the close+5 guard      *)
(* (src/lake/close_guard.py), the once-a-day dispatch (src/lake/session.py)*)
(* and the compaction processes the dispatch starts.                       *)
(*                                                                         *)
(* A run of the sealing machinery is one step per surface-day here, since  *)
(* Compaction models its inside.  In return this module does not assume,   *)
(* as Compaction does, that a day's writers are done before it is sealed:  *)
(* it shows when they are.                                                 *)
(*                                                                         *)
(* Time is counted in minutes from the first midnight.  The wall clock may *)
(* pass any number of minutes in one step of the loop: a machine sleeps,   *)
(* a lock is waited for, a fetch hangs.                                    *)
(***************************************************************************)
EXTENDS Integers, Sequences, FiniteSets

CONSTANTS
  Sessions,     \* the days with a session, among 1, 2, ...
  DayLength,    \* minutes in a day
  Open,         \* minutes into the day: the first capture slot,
  EquityClose,  \*   the slot tagged spot_close,
  OptionClose,  \*   the last capture slot, tagged option_close,
  Deadline,     \*   close+5,
  CloseFifteen, \*   and close+15, also the moment a holiday falls back to
  None,         \* no minute, no surface-day
  Hazards,      \* what the code permits beyond a quiet evening
  Horizon,      \* bound: the last minute of a behaviour
  LastUpset,    \* bound: the last minute a sleep, a death or a fault reaches
  MaxSleeps, MaxCrashes, MaxFaults   \* bounds on their number

\* surfaces_for an entry with options.
Surfaces == {"chains", "quotes"}

ASSUME CalendarAssumption ==
  /\ Sessions \subseteq Nat \ {0} /\ IsFiniteSet(Sessions)
  /\ DayLength \in Nat /\ Horizon \in Nat /\ LastUpset \in 0 .. Horizon
  /\ {Open, EquityClose, OptionClose, Deadline, CloseFifteen} \subseteq Nat
  /\ Open <= EquityClose /\ EquityClose < OptionClose
  /\ OptionClose < Deadline /\ Deadline < CloseFifteen
  /\ CloseFifteen < DayLength
  /\ {MaxSleeps, MaxCrashes, MaxFaults} \subseteq Nat
  /\ None \notin Nat /\ None \notin Surfaces \X Nat
  /\ Hazards \subseteq {"late check", "restart in a seal", "other sweep",
                        "failed mark", "lost write", "clock back",
                        "overnight"}

VARIABLES
  now,           \* the wall clock's minute, SessionClock.snap_slot
  pc,            \* where the daemon's loop thread is, "down" without a daemon
  ret,           \* where the running pass or guard returns to
  last,          \* run_loop's last_slot
  top,           \* the minute _wait_for_top waits for
  slot,          \* the tick's snap slot
  skipped,       \* the tick's missed slots
  inFlight,      \* the cycles and the stalls not handed on yet
  guardLast, waiting, previous,     \* guard_last, guard_waiting, previous_slot
  guardServed, compactServed,       \* SessionDispatch._served of the two jobs
  marks,         \* the segments a gap pass still has to write
  seen,          \* the sealed surface-days by the guard's one manifest read
  lock,          \* who holds the lake lock: "free", "pass" or "sweep"
  sweeps,        \* compaction processes started and not yet in the lock
  scope,         \* surface-days the sweep in the lock still has to visit
  sealing,       \* the surface-day it has sealed and not yet cleaned
  journal,       \* the rows in segments, per surface and capture slot
  partition,     \* the rows in sealed partitions
  sealed,        \* the surface-days the manifest names
  stamped,       \* segment names this incarnation's passes and guard took
  heard,         \* history: the newest slot handed to a watchdog hook
  lost,          \* history: slots whose row or marker the disk refused
  sleeps, crashes, faults

loop   == <<pc, ret, last, top, slot, skipped>>
hooks  == <<guardLast, waiting, previous, guardServed, compactServed>>
pass   == <<marks, seen>>
sweep  == <<sweeps, scope, sealing>>
lake   == <<journal, partition, sealed>>
bounds == <<sleeps, crashes, faults>>
vars   == <<now, loop, inFlight, hooks, pass, lock, sweep, lake, stamped,
            heard, lost, bounds>>

-----------------------------------------------------------------------------
(* The calendar. *)

DayOf(t)      == t \div DayLength + 1
At(d, offset) == (d - 1) * DayLength + offset
InSession(t)  == DayOf(t) \in Sessions

SlotsOf(d)   == At(d, Open) .. At(d, OptionClose)
CaptureSlots == UNION {SlotsOf(d) : d \in Sessions}

\* missed_slots: the capture slots strictly between two ticks, across days.
MissedMinutes(after, before) == after + 1 .. before - 1
MissedSlots(after, before) == {s \in CaptureSlots : after < s /\ s < before}

\* _skips_an_equity_close.
SkipsNoClose(slots) == FALSE
SkipsEquityClose(slots) == \E d \in Sessions : At(d, EquityClose) \in slots

\* _at_or_past_close_guard: never on a day without a session.
PastCloseGuard(t) == InSession(t) /\ t >= At(DayOf(t), Deadline)

\* _before_todays_close.
BeforeTodaysClose(slots) ==
  /\ InSession(now) /\ now <= At(DayOf(now), OptionClose)
  /\ \A s \in slots : DayOf(s) = DayOf(now)

\* SessionDispatch.check, of the close+5 guard and of compaction: once a day,
\* from its moment on.  Only compaction has a moment on a holiday.
GuardDue(t)   == DayOf(t) # guardServed /\ PastCloseGuard(t)
CompactDueSessions(t) ==
  InSession(t) /\ DayOf(t) # compactServed /\ t >= At(DayOf(t), CloseFifteen)
CompactDue(t) == DayOf(t) # compactServed /\ t >= At(DayOf(t), CloseFifteen)

-----------------------------------------------------------------------------
(* The journal's rows. *)

Kinds == {"data", "gap", "dead", "overrun", "unobserved", "fill"}

\* What a cycle's write of a slot can be.  A failed fetch's gap row is told
\* from data at one slot only, the option close the guard may refetch.
Landings(sf, s) ==
  IF sf = "chains" /\ s = At(DayOf(s), OptionClose) THEN {"data", "gap"}
                                                     ELSE {"data"}

Written(sf, slots, kind) ==
  [journal EXCEPT ![sf] = [s \in CaptureSlots |->
      IF s \in slots THEN Append(@[s], kind) ELSE @[s]]]

HasRows(sf, d) == \E s \in SlotsOf(d) : journal[sf][s] # <<>>
HasData(sf, s) == \E i \in DOMAIN journal[sf][s] :
                     journal[sf][s][i] \in {"data", "fill"}

\* The owed minutes before a bound that no row records: recorded_slots.
Missing(sf, d, before) == {s \in SlotsOf(d) : s < before /\ journal[sf][s] = <<>>}

FirstOf(slots) == CHOOSE s \in slots : \A t \in slots : s <= t
LastOf(slots)  == CHOOSE s \in slots : \A t \in slots : t <= s

Entries == [kind : {"cycle", "missed"}, slots : SUBSET CaptureSlots,
            left : SUBSET Surfaces, state : {"running", "done", "raised"}]

Missed(slots) == [kind |-> "missed", slots |-> slots, left |-> {}, state |-> "done"]
Cycle(s) == [kind |-> "cycle", slots |-> {s}, left |-> Surfaces, state |-> "running"]

Init ==
  /\ now = 0 /\ pc = "down" /\ ret = "down"
  /\ last = 0 /\ top = 0 /\ slot = 0 /\ skipped = {} /\ inFlight = <<>>
  /\ guardLast = 0 /\ waiting = None /\ previous = None
  /\ guardServed = None /\ compactServed = None
  /\ marks = {} /\ seen = {} /\ lock = "free"
  /\ sweeps = 0 /\ scope = {} /\ sealing = None
  /\ journal = [sf \in Surfaces |-> [s \in CaptureSlots |-> <<>>]]
  /\ partition = journal /\ sealed = {}
  /\ stamped = {} /\ heard = 0 /\ lost = {}
  /\ sleeps = 0 /\ crashes = 0 /\ faults = 0

-----------------------------------------------------------------------------
(* The wall clock. *)

\* What a day started is over by the next day's close+5, but as a hazard: its
\* cycles, and a compaction process short of the lock.
Overtakes(t) ==
  /\ "overnight" \notin Hazards
  /\ \E m \in now + 1 .. t :
       /\ m = At(DayOf(m), Deadline)
       /\ \/ sweeps > 0
          \/ \E i \in DOMAIN inFlight :
               inFlight[i].state = "running" /\ DayOf(FirstOf(inFlight[i].slots)) < DayOf(m)

\* A minute passes while the loop waits for its top, or no daemon runs.  The
\* service manager has a dead one back by LastUpset.
Tick ==
  /\ now < Horizon /\ ~Overtakes(now + 1)
  /\ \/ pc = "wait" /\ now < top
     \/ pc = "down" /\ now < LastUpset
  /\ now' = now + 1
  /\ UNCHANGED <<loop, inFlight, hooks, pass, lock, sweep, lake, stamped,
                 heard, lost, bounds>>

\* The machine sleeps, or a step of the loop takes minutes.  Between the slot
\* a daemon starts in and the dispatch check that follows, only as a hazard.
Sleep ==
  /\ pc # "down" /\ sleeps < MaxSleeps
  /\ pc = "checkStart" => "late check" \in Hazards
  /\ \E t \in now + 1 .. LastUpset : ~Overtakes(t) /\ now' = t
  /\ sleeps' = sleeps + 1
  /\ UNCHANGED <<loop, inFlight, hooks, pass, lock, sweep, lake, stamped,
                 heard, lost, crashes, faults>>

\* The wall clock is stepped backward.
StepBack ==
  /\ "clock back" \in Hazards /\ faults < MaxFaults /\ now \in 1 .. LastUpset
  /\ now' = now - 1 /\ faults' = faults + 1
  /\ UNCHANGED <<loop, inFlight, hooks, pass, lock, sweep, lake, stamped,
                 heard, lost, sleeps, crashes>>

-----------------------------------------------------------------------------
(* The daemon starts, and dies. *)

\* The head of run_loop.  Every hook's state is an incarnation's own.
Start ==
  /\ pc = "down"
  /\ "restart in a seal" \in Hazards \/ (sweeps = 0 /\ lock # "sweep")
  /\ pc' = "checkStart" /\ last' = now /\ guardLast' = now /\ heard' = now
  /\ UNCHANGED <<now, ret, top, slot, skipped, inFlight, waiting, previous,
                 guardServed, compactServed, pass, lock, sweep, lake, stamped,
                 lost, bounds>>

Gone ==
  /\ pc' = "down" /\ ret' = "down" /\ last' = 0 /\ top' = 0 /\ slot' = 0
  /\ skipped' = {} /\ inFlight' = <<>>
  /\ guardLast' = 0 /\ waiting' = None /\ previous' = None
  /\ guardServed' = None /\ compactServed' = None
  /\ marks' = {} /\ seen' = {} /\ stamped' = {} /\ heard' = 0
  /\ lock' = IF lock = "pass" THEN "free" ELSE lock

\* A kill takes the cycles' threads along, and no compaction process.
Crash ==
  /\ pc # "down" /\ crashes < MaxCrashes /\ now <= LastUpset
  /\ crashes' = crashes + 1 /\ Gone
  /\ UNCHANGED <<now, sweep, lake, lost, sleeps, faults>>

-----------------------------------------------------------------------------
(* Capture cycles, one thread each. *)

\* A segment of the cycle becomes durable, or neither it nor the gap row at
\* its path does (_mark_failed_write).
LandSurface(i, sf) ==
  LET s == FirstOf(inFlight[i].slots) IN
  /\ inFlight[i].state = "running" /\ sf \in inFlight[i].left
  /\ inFlight' = [inFlight EXCEPT ![i].left = @ \ {sf}]
  /\ \/ /\ \E kind \in Landings(sf, s) : journal' = Written(sf, {s}, kind)
        /\ UNCHANGED <<lost, faults>>
     \/ /\ "lost write" \in Hazards /\ faults < MaxFaults /\ now <= LastUpset
        /\ lost' = lost \cup {<<sf, s>>} /\ faults' = faults + 1
        /\ UNCHANGED journal
  /\ UNCHANGED <<now, loop, hooks, pass, lock, sweep, partition, sealed, stamped,
                 heard, sleeps, crashes>>

\* append_entries under the lock, and the future's result.
CycleDone(i) ==
  /\ inFlight[i].state = "running" /\ inFlight[i].left = {} /\ lock = "free"
  /\ inFlight' = [inFlight EXCEPT ![i].state = "done"]
  /\ UNCHANGED <<now, loop, hooks, pass, lock, sweep, lake, stamped, heard, lost,
                 bounds>>

\* A cycle raises: no roster, no configuration, a disk that fails the append.
CycleRaises(i) ==
  /\ inFlight[i].state = "running" /\ faults < MaxFaults /\ now <= LastUpset
  /\ inFlight' = [inFlight EXCEPT ![i].state = "raised"]
  /\ faults' = faults + 1
  /\ UNCHANGED <<now, loop, hooks, pass, lock, sweep, lake, stamped, heard, lost,
                 sleeps, crashes>>

\* _hand_on: the front of the queue, once it is done.
HandOn ==
  /\ pc \in {"wait", "hand"} /\ inFlight # <<>> /\ Head(inFlight).state = "done"
  /\ inFlight' = Tail(inFlight) /\ heard' = LastOf(Head(inFlight).slots)
  /\ UNCHANGED <<now, loop, hooks, pass, lock, sweep, lake, stamped, lost, bounds>>

\* A cycle that raised ends the daemon from the front of the queue, after
\* every other cycle.
RaiseOn ==
  /\ pc \in {"wait", "hand"} /\ inFlight # <<>> /\ Head(inFlight).state = "raised"
  /\ \A i \in DOMAIN inFlight : inFlight[i].state # "running"
  /\ Gone
  /\ UNCHANGED <<now, sweep, lake, lost, bounds>>

Raising == inFlight # <<>> /\ Head(inFlight).state = "raised"

-----------------------------------------------------------------------------
(* One iteration of run_loop. *)

\* Enter _wait_for_top, with a top never before the minute after the last tick.
WaitFrom(t) == pc' = "wait" /\ top' = IF now > t THEN now + 1 ELSE t + 1

\* A stall joins the back of the queue, behind the cycles started before it.
QueuedFirst(slots) == <<Missed(slots)>> \o inFlight
Queued(slots) == Append(inFlight, Missed(slots))

\* The clock is at the top or past it.
ReachTop ==
  /\ pc = "wait" /\ now >= top /\ ~Raising
  /\ slot' = now /\ skipped' = MissedSlots(last, now) /\ pc' = "hand"
  /\ inFlight' = IF skipped' = {} THEN inFlight ELSE Queued(skipped')
  /\ UNCHANGED <<now, ret, last, top, hooks, pass, lock, sweep, lake, stamped,
                 heard, lost, bounds>>

\* The hand-on of a tick ends at a running cycle, but for a tick from close+5
\* on, which waits for every cycle.
MayTickRunning(t) == inFlight # <<>> => Head(inFlight).state = "running"
MayTick(t) ==
  inFlight # <<>> => Head(inFlight).state = "running" /\ ~PastCloseGuard(t)

HandedOn ==
  /\ pc = "hand" /\ MayTick(slot) /\ pc' = "tick"
  /\ UNCHANGED <<now, ret, last, top, slot, skipped, inFlight, hooks, pass, lock,
                 sweep, lake, stamped, heard, lost, bounds>>

\* Run the guard's job, or do not, on the way to a step.
CheckGuard(t, next) ==
  IF GuardDue(t)
  THEN pc' = "guard" /\ ret' = next /\ guardServed' = DayOf(t)
  ELSE pc' = next /\ UNCHANGED <<ret, guardServed>>

\* on_start_guarded: the guard's check comes before the startup pass, and
\* reads the clock itself.
CheckStart ==
  /\ pc = "checkStart" /\ CheckGuard(now, "startup")
  /\ UNCHANGED <<now, last, top, slot, skipped, inFlight, guardLast, waiting,
                 previous, compactServed, pass, lock, sweep, lake, stamped,
                 heard, lost, bounds>>

\* on_tick_guarded: wait for on_skipped if a skipped slot is an equity close.
TickGuard ==
  /\ pc = "tick" /\ guardLast' = slot
  /\ IF SkipsEquityClose(MissedSlots(guardLast, slot))
     THEN waiting' = slot /\ pc' = "compact" /\ UNCHANGED <<ret, guardServed>>
     ELSE CheckGuard(slot, "compact") /\ UNCHANGED waiting
  /\ UNCHANGED <<now, last, top, slot, skipped, inFlight, previous, compactServed,
                 pass, lock, sweep, lake, stamped, heard, lost, bounds>>

\* on_tick_compacting: the check reads the previous tick's slot, and never in
\* a capture window.
DispatchesThis == previous # None /\ slot \notin CaptureSlots /\ CompactDue(slot)
Dispatches == previous # None /\ slot \notin CaptureSlots /\ CompactDue(previous)

\* A spawn may fail, and the day is served all the same.
TickCompact ==
  /\ pc = "compact" /\ previous' = slot
  /\ pc' = IF skipped = {} THEN "launch" ELSE "skip"
  /\ IF Dispatches
     THEN /\ compactServed' = DayOf(previous)
          /\ \/ sweeps' = sweeps + 1 /\ UNCHANGED faults
             \/ faults < MaxFaults /\ now <= LastUpset
                /\ faults' = faults + 1 /\ UNCHANGED sweeps
     ELSE UNCHANGED <<compactServed, sweeps, faults>>
  /\ UNCHANGED <<now, ret, last, top, slot, skipped, inFlight, guardLast, waiting,
                 guardServed, pass, lock, scope, sealing, lake, stamped, heard,
                 lost, sleeps, crashes>>

\* The end of on_skipped_guarded: the guard that waited.
SkippedGuard ==
  /\ pc = "skipGuard" /\ waiting' = None
  /\ IF waiting = None THEN pc' = "launch" /\ UNCHANGED <<ret, guardServed>>
                       ELSE CheckGuard(waiting, "launch")
  /\ UNCHANGED <<now, last, top, slot, skipped, inFlight, guardLast, previous,
                 compactServed, pass, lock, sweep, lake, stamped, heard, lost,
                 bounds>>

\* The tail of the iteration: on a capture slot, one cycle on its own thread.
Launch ==
  /\ pc = "launch" /\ last' = slot /\ WaitFrom(slot) /\ skipped' = {}
  /\ inFlight' = IF slot \in CaptureSlots THEN Append(inFlight, Cycle(slot))
                                          ELSE inFlight
  /\ UNCHANGED <<now, ret, slot, hooks, pass, lock, sweep, lake, stamped, heard,
                 lost, bounds>>

-----------------------------------------------------------------------------
(* The gap passes. *)

\* The days _startup_missing visits for a surface: back from today, past the
\* sealed ones, to the first earlier day with nothing missing.
WalkedToday(sf, before) == {d \in Sessions : d = DayOf(before) /\ <<sf, d>> \notin sealed}
WalkedSealed(sf, before) == {d \in Sessions : d <= DayOf(before)}
Walked(sf, before) ==
  LET today == DayOf(before)
      open(d) == d \in Sessions /\ <<sf, d>> \notin sealed
  IN {d \in Sessions :
        /\ d <= today /\ open(d)
        /\ \A e \in d + 1 .. today - 1 : open(e) => Missing(sf, e, before) # {}}

Segment(sf, d, slots, kind) == [surface |-> sf, day |-> d, slots |-> slots, kind |-> kind]

\* on_start: under the lock, every owed minute through the one it started in.
StartupPass ==
  /\ pc = "startup" /\ lock = "free"
  /\ lock' = "pass" /\ pc' = "marking" /\ ret' = "wait"
  /\ marks' = {m \in {Segment(sf, d, Missing(sf, d, last + 1), "dead") :
                        sf \in Surfaces, d \in Sessions} :
                 m.slots # {} /\ m.day \in Walked(m.surface, last + 1)}
  /\ UNCHANGED <<now, last, top, slot, skipped, inFlight, hooks, seen, sweep,
                 lake, stamped, heard, lost, bounds>>

\* on_skipped: the tick's missed slots, read from no row.  Before today's close
\* it takes neither the lock nor the manifest's word on what is sealed.
SkippedPass ==
  /\ pc = "skip" /\ pc' = "marking" /\ ret' = "skipGuard"
  /\ LET locked == ~BeforeTodaysClose(skipped) IN
     /\ locked => lock = "free"
     /\ lock' = IF locked THEN "pass" ELSE lock
     /\ marks' = {m \in {Segment(sf, d, skipped \cap SlotsOf(d), "overrun") :
                           sf \in Surfaces, d \in Sessions} :
                    m.slots # {} /\ ~(locked /\ <<m.surface, m.day>> \in sealed)}
  /\ UNCHANGED <<now, last, top, slot, skipped, inFlight, hooks, seen, sweep,
                 lake, stamped, heard, lost, bounds>>

\* One segment per surface and day, a surface's days oldest first.  A write
\* that fails, or a name the same incarnation took, ends the surface's pass,
\* and the next start derives again what is left.
MarkSegment ==
  /\ pc = "marking"
  /\ \E m \in marks :
       LET name == <<m.surface, FirstOf(m.slots)>> IN
       /\ \A n \in marks : n.surface = m.surface => m.day <= n.day
       /\ \/ /\ name \notin stamped
             /\ journal' = Written(m.surface, m.slots, m.kind)
             /\ stamped' = stamped \cup {name} /\ marks' = marks \ {m}
             /\ UNCHANGED <<lost, faults>>
          \/ /\ name \in stamped \/ ("failed mark" \in Hazards /\ faults < MaxFaults)
             /\ faults' = IF name \in stamped THEN faults ELSE faults + 1
             /\ marks' = {n \in marks : n.surface # m.surface}
             /\ lost' = lost \cup UNION {{n.surface} \X n.slots : n \in marks \ marks'}
             /\ UNCHANGED <<journal, stamped>>
  /\ UNCHANGED <<now, loop, inFlight, hooks, seen, lock, sweep, partition, sealed,
                 heard, sleeps, crashes>>

PassDone ==
  /\ pc = "marking" /\ marks = {}
  /\ lock' = IF lock = "pass" THEN "free" ELSE lock
  /\ IF ret = "wait" THEN WaitFrom(last) ELSE pc' = ret /\ UNCHANGED top
  /\ UNCHANGED <<now, ret, last, slot, skipped, inFlight, hooks, pass, sweep, lake,
                 stamped, heard, lost, bounds>>

-----------------------------------------------------------------------------
(* The close+5 guard, of the day it was dispatched for. *)

GuardStep(next) ==
  /\ pc' = next
  /\ UNCHANGED <<now, ret, last, top, slot, skipped, inFlight, hooks, marks, lock,
                 sweep, partition, sealed, heard, lost, bounds>>

\* The prologue: one read of the manifest, with no lock.
GuardReads ==
  /\ pc = "guard" /\ seen' = sealed /\ GuardStep("spot")
  /\ UNCHANGED <<journal, stamped>>

\* _check_spot_close: any row at the equity close settles it.  A sweep that is
\* unlinking the day's segments may show it any part of them, or one that
\* vanishes as it is read.
SpotSettled ==
  LET d == guardServed IN
  /\ pc = "spot"
  /\ \/ <<"quotes", d>> \in seen \cup {sealing}
     \/ journal["quotes"][At(d, EquityClose)] # <<>>
  /\ GuardStep("option") /\ UNCHANGED <<seen, journal, stamped>>

SpotAbsent ==
  LET d == guardServed IN
  /\ pc = "spot" /\ <<"quotes", d>> \notin seen
  /\ \/ journal["quotes"][At(d, EquityClose)] = <<>>
     \/ sealing = <<"quotes", d>>
  /\ GuardStep("unobserved") /\ UNCHANGED <<seen, journal, stamped>>

\* Its marker, written with no lock, or refused by the name or the disk.
SpotMarked ==
  LET s == At(guardServed, EquityClose) IN
  /\ pc = "unobserved"
  /\ IF <<"quotes", s>> \in stamped
     THEN UNCHANGED <<journal, stamped>>
     ELSE /\ journal' = Written("quotes", {s}, "unobserved")
          /\ stamped' = stamped \cup {<<"quotes", s>>}
  /\ GuardStep("option") /\ UNCHANGED seen

\* _check_option_close: landed, or refused past close+5.
OptionSettled ==
  LET d == guardServed IN
  /\ pc = "option"
  /\ \/ <<"chains", d>> \in seen
     \/ HasData("chains", At(d, OptionClose))
     \/ now > At(d, Deadline)
  /\ GuardStep(ret) /\ UNCHANGED <<seen, journal, stamped>>

OptionOwed ==
  LET d == guardServed IN
  /\ pc = "option" /\ <<"chains", d>> \notin seen /\ now <= At(d, Deadline)
  /\ \/ ~HasData("chains", At(d, OptionClose))
     \/ sealing = <<"chains", d>>
  /\ GuardStep("fill") /\ UNCHANGED <<seen, journal, stamped>>

\* The fill, however long it takes: it lands, or captured nothing.
OptionFilled ==
  /\ pc = "fill"
  /\ \/ journal' = Written("chains", {At(guardServed, OptionClose)}, "fill")
     \/ UNCHANGED journal
  /\ GuardStep(ret) /\ UNCHANGED <<seen, stamped>>

-----------------------------------------------------------------------------
(* The compaction processes. *)

\* _sweep_scope: every day with segments whose close+5 has passed.
SweepScope == {sd \in Surfaces \X Sessions :
                 HasRows(sd[1], sd[2]) /\ now > At(sd[2], Deadline)}

\* The scope is read inside the hold.
SweepBegins ==
  /\ sweeps > 0 /\ lock = "free"
  /\ lock' = "sweep" /\ sweeps' = sweeps - 1
  /\ scope' = SweepScope
  /\ UNCHANGED <<now, loop, inFlight, hooks, pass, sealing, lake, stamped, heard,
                 lost, bounds>>

\* Merge, rename and append the manifest's line.
SweepSeals ==
  /\ lock = "sweep" /\ sealing = None
  /\ \E sd \in scope :
       /\ scope' = scope \ {sd} /\ sealing' = sd
       /\ sealed' = sealed \cup {sd}
       /\ partition' = IF sd \in sealed THEN partition
          ELSE [partition EXCEPT ![sd[1]] = [s \in CaptureSlots |->
                  IF s \in SlotsOf(sd[2]) THEN journal[sd[1]][s] ELSE @[s]]]
  /\ UNCHANGED <<now, loop, inFlight, hooks, pass, lock, sweeps, journal, stamped,
                 heard, lost, bounds>>

\* Unlink the day's segments: a sealed day's leftovers as debris.
SweepCleans ==
  /\ lock = "sweep" /\ sealing # None
  /\ journal' = [journal EXCEPT ![sealing[1]] = [s \in CaptureSlots |->
                   IF s \in SlotsOf(sealing[2]) THEN <<>> ELSE @[s]]]
  /\ sealing' = None
  /\ UNCHANGED <<now, loop, inFlight, hooks, pass, lock, sweeps, scope, partition,
                 sealed, stamped, heard, lost, bounds>>

SweepEnds ==
  /\ lock = "sweep" /\ sealing = None /\ scope = {} /\ lock' = "free"
  /\ UNCHANGED <<now, loop, inFlight, hooks, pass, sweep, lake, stamped, heard,
                 lost, bounds>>

\* The nightly vendor sweep ends in a compaction, on any day from its close+15
\* on, daemon or no daemon.  The day's last minute stands for 18:30.
OtherSweep ==
  /\ "other sweep" \in Hazards /\ sweeps = 0
  /\ now = At(DayOf(now), DayLength - 1)
  /\ sweeps' = 1
  /\ UNCHANGED <<now, loop, inFlight, hooks, pass, lock, scope, sealing, lake,
                 stamped, heard, lost, bounds>>

-----------------------------------------------------------------------------
GuardNext == GuardReads \/ SpotSettled \/ SpotAbsent \/ SpotMarked
             \/ OptionSettled \/ OptionOwed \/ OptionFilled
PassNext  == StartupPass \/ SkippedPass \/ MarkSegment \/ PassDone
TickNext  == CheckStart \/ ReachTop \/ HandedOn \/ TickGuard \/ TickCompact
             \/ SkippedGuard \/ Launch
LoopNext  == TickNext \/ HandOn \/ RaiseOn \/ GuardNext \/ PassNext

Cycles == \E i \in DOMAIN inFlight :
            CycleDone(i) \/ \E sf \in Surfaces : LandSurface(i, sf)
SweepNext == SweepBegins \/ SweepSeals \/ SweepCleans \/ SweepEnds

Next ==
  \/ Tick \/ Sleep \/ StepBack
  \/ Start \/ Crash
  \/ Cycles \/ \E i \in DOMAIN inFlight : CycleRaises(i)
  \/ LoopNext
  \/ SweepNext \/ OtherSweep

Spec == Init /\ [][Next]_vars

\* The service manager restarts the daemon, its threads and the compaction
\* processes run, and minutes pass.  flock serves everyone in the end.
EveningFairness ==
  /\ WF_vars(Tick) /\ WF_vars(Start) /\ WF_vars(Cycles)
  /\ WF_vars(TickNext \/ HandOn \/ RaiseOn \/ GuardNext)
  /\ SF_vars(PassNext) /\ SF_vars(SweepNext)
FairSpec == Spec /\ EveningFairness

-----------------------------------------------------------------------------
(* Properties. *)

Minutes == 0 .. Horizon + 1

TypeOK ==
  /\ now \in 0 .. Horizon
  /\ pc \in {"down", "checkStart", "startup", "wait", "hand", "tick", "compact",
             "skip", "skipGuard", "launch", "marking", "guard", "spot",
             "unobserved", "option", "fill"}
  /\ ret \in {"down", "startup", "compact", "launch", "wait", "skipGuard"}
  /\ {last, top, slot, guardLast, heard} \subseteq Minutes
  /\ {waiting, previous} \subseteq Minutes \cup {None}
  /\ {guardServed, compactServed} \subseteq {DayOf(t) : t \in Minutes} \cup {None}
  /\ skipped \subseteq CaptureSlots /\ inFlight \in Seq(Entries)
  /\ \A m \in marks : m.surface \in Surfaces /\ m.day \in Sessions
                      /\ m.slots \subseteq SlotsOf(m.day) /\ m.kind \in Kinds
  /\ lock \in {"free", "pass", "sweep"} /\ sweeps \in Nat
  /\ (scope \cup sealed \cup seen) \subseteq Surfaces \X Sessions
  /\ sealing \in (Surfaces \X Sessions) \cup {None}
  /\ {journal, partition} \subseteq [Surfaces -> [CaptureSlots -> Seq(Kinds)]]
  /\ sleeps \in 0 .. MaxSleeps /\ crashes \in 0 .. MaxCrashes /\ faults \in 0 .. MaxFaults

\* A minute's rows, in segments and partitions together.
Rows(sf, s) == IF sealing = <<sf, DayOf(s)>> THEN partition[sf][s]
               ELSE partition[sf][s] \o journal[sf][s]

\* However the loop's passes, the cycles, the guard, stalls and restarts fall,
\* a minute has at most one row of a surface: it is captured or marked, not
\* both, and marked once.  One fill may stand beside a gap row or a marker.
OneRowPerMinute ==
  \A sf \in Surfaces, s \in CaptureSlots :
    LET rows  == Rows(sf, s)
        fills == {i \in DOMAIN rows : rows[i] = "fill"}
    IN /\ Cardinality(fills) <= 1 /\ Cardinality(DOMAIN rows \ fills) <= 1
       /\ fills # {} => \A i \in DOMAIN rows : rows[i] # "data"
MinutesSound == TypeOK /\ OneRowPerMinute

\* A sealed day has a row for each of its minutes, which no later run could
\* add any more.  A minute whose row or marker the disk refused is excused.
SealedComplete ==
  \A sd \in sealed : \A s \in SlotsOf(sd[2]) :
    partition[sd[1]][s] # <<>> \/ <<sd[1], s>> \in lost

\* What Compaction assumes of its writers: none adds to a day once sealed, so
\* that what a later run finds beside the partition is debris.
NothingAfterSeal ==
  [][\A sd \in sealed : \A s \in SlotsOf(sd[2]) :
       Len(journal'[sd[1]][s]) <= Len(journal[sd[1]][s])]_vars

\* The watchdog hears every capture minute of an incarnation, once and in
\* order, as a cycle's result or within a stall.
HandedInOrder ==
  [][inFlight # <<>> /\ inFlight' = Tail(inFlight) /\ pc' # "down"
       => Head(inFlight).slots = {s \in CaptureSlots : heard < s /\ s <= heard'}]_vars

\* Why the startup walk may stop at a day with nothing missing: no unsealed
\* day below it has a minute nothing records.
CompleteFromBelow ==
  \A sf \in Surfaces : \A d, e \in Sessions :
    d < e /\ e < DayOf(now + 1) /\ {<<sf, d>>, <<sf, e>>} \cap sealed = {}
      /\ Missing(sf, e, now + 1) = {} /\ sealing = None
    => \A s \in Missing(sf, d, now + 1) :
         \/ <<sf, s>> \in lost
         \/ \E i \in DOMAIN inFlight : s \in inFlight[i].slots

\* Every session day is sealed in the end, without a hand and however the
\* evening's upsets fell.
DaysSeal == <>[](Surfaces \X Sessions \subseteq sealed)
=============================================================================
