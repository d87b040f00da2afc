# A verification of marketlake's lake

marketlake captures option chains, quotes and bars during a trading session,
journals every minute durably, and seals each ticker-day into one parquet
partition in the evening. This directory holds TLA+ models of that machinery,
the TLC instances that check them, and TLAPS proofs about them. Paths below
are those of the repository, whose Python package is `src/src/lake/`.

## The system

Two long-lived actors and several jobs share one directory tree, the lake.
The daemon captures; the jobs seal, verify, upload, trim and repair. They
meet in files, and in one lock.

| component | state it keeps | operations | speaks to |
|---|---|---|---|
| journal (`journal.py`) | one segment file per surface, ticker, day, start stamp and pid | open, write one batch durably, close, read the complete batches | written by the cycle, the gap marker and the close guard; read by compaction |
| capture cycle (`capture.py`) | a minute's outcomes until they are recorded | fetch, write segments, append their entries under the lock | journal, manifest |
| gap marker (`gap.py`) | nothing between passes | mark missing or skipped minutes | journal; past the close also manifest and lock |
| close guard (`close_guard.py`) | nothing between runs | mark an unobserved spot close, fill a missing option close | journal; reads the manifest |
| session clock (`session.py`, `calendar.py`) | the last fired slot of each dispatch | phases, close tags, skipped and missed slots, once-per-day dispatch | the daemon |
| daemon (`daemon.py`) | the cycle in flight, the last slot | tick, hand a cycle on, dispatch the evening's jobs | all of the above |
| manifest (`manifest.py`) | `manifest.jsonl`, append-only; the latest line of a partition wins | append, read, guard a row count, scrub, restore check | every writer of a sealed file |
| lake lock (`lock.py`) | a flock on the manifest | hold | capture, gap marker, compaction, sweep, trim, upload |
| compaction (`compact.py`) | the run's copy of the manifest and its ticker-day | sweep, seal, recover, refuse, recompact, retune | journal, manifest, trim, bucket, alerts |
| window trim (`trim.py`, `trimmed.py`, `window.py`) | `trimmed.jsonl` | select, verify the copy, record, unlink, restore | manifest, bucket |
| backup bucket (`bucket.py`) | the object store, upload baselines | sync, resync, range restore, rebuild | manifest, trim |
| bars sweep (`sweep.py`, `bars.py`, `bar_import.py`, `runner.py`) | sealed bar files | fetch owed bars, re-adjust, import, undo | manifest, splits |
| splits and actions (`splits.py`, `split_checkpoint.py`, `actions.py`) | a checkpoint per ticker, the actions ledger | walk sealed days for splits and dividends | manifest, trim |
| battery (`battery.py`, `signoff.py`, `settle.py`, `oi.py`) | `quarantine.jsonl` | check a session, quarantine, sign off | manifest, alerts |
| alerting (`alert.py`, `watchdog.py`, `deadman.py`, `outbox.py`) | what has already been paged | ping, page once, escalate | everything |
| tokens (`token_store.py`, `reauth.py`, `schwab.py`) | the token file | mint, pull, replace | vendor calls |
| roster and spans (`tickers.py`, `capture_spans.py`, `onboard.py`, `retire.py`) | the roster file, span ledger | onboard, retire, edit spans | daemon, guard |
| live upload and control plane (`live_upload.py`, `control_plane.py`) | a stream's position | push minutes, serve pages | journal |
| dashboard, reports, loader, probes | none of their own | read and render | sealed files |

What is hard here:

- *Sealing deletes.* A seal is a partition rename, a manifest line and a loop
  of unlinks, and it can die between any two. The next run tells "rebuild"
  from "verify and clean up" by the manifest alone.
- *Writers outside the lock.* Segments are written without it. Only their
  manifest entries need it, and a gap pass at or before the close does not
  even read the manifest. The order of the evening, not the lock, keeps a
  writer from touching a sealed day.
- *One read, many decisions.* A run reads the manifest once and decides every
  ticker-day from that copy; the close guard reads it with no lock at all.
- *A ledger of lines.* A short append leaves a fragment that fuses with the
  next line and hides every line after it.
- *Threads behind a loop.* The daemon's loop starts each minute's cycle on a
  thread, goes on, and hands the result to its hooks later and in order. A
  stall, a step of the clock, a death or a cycle's exception may fall between
  any two of its steps, and the evening's jobs are dispatched from the same
  loop.
- *Humans.* `recompact_ticker_day` may run at any time, with overrides.
- *Late answers.* The close+5 fill fetches without a deadline.

Properties that make each part correct, in short: no durable row is lost; a
day is sealed once, with everything, after its last writer; a sealed day
never shrinks by itself; nothing is deleted that was not verified; damaged
input never spreads; every day is eventually sealed. For the daemon, each
minute is captured or marked and never both, all of a day's before its seal,
and the watchdog hears them in order; what is down is paged once. For the
trim, nothing is dropped without a good copy in the bucket and a line that
explains the absence; for the uploads, the bucket's record names only what
the bucket was given; for the split walk, a walk resumed past trimmed days
lands what a walk over the whole lake would. For a host's token, no rotated
refresh token is lost. For the bars, a recorded bar is on disk and was judged
by its own session, and an undo withdraws nothing the bucket holds.

## The modules

`Compaction.tla` models the journal, the partitions, the manifest, the lock
and every process that touches them. A segment's name never repeats, so a
segment is a constant and stands for its own rows: a partition's content, its
row count and its hash are all read off the set of segments it holds.

| variable | code |
|---|---|
| `stage` | a ticker-day before its close cycle's deadline (`session`), in the guard window (`guard`), after it (`past`) |
| `file`, `present`, `limbo` | a segment's bytes; its directory entry; an unlink the directory has not been flushed after |
| `pending` | durable segments whose `append_entries` call still waits for the lock |
| `part` | `LakePaths.partition_path`: absent, unverifiable, or a set of rows |
| `ledger`, `synced` | what `parse_jsonl` and `_latest_by_partition` make of the manifest; the same of the flushed file |
| `lock` | the holder of the flock |
| `run` | the locals of `compact` or `recompact_ticker_day`: step, ticker-day, `segments`, merged table, `latest` |
| `poisoned`, `faults` | history: changed recorded segments that were merged; the bound on deaths |

A process waiting for the flock has no state, since scope, manifest and
listings are all read inside the hold. So a run starts by taking the lock.
Each action from there is one file-system effect or one early return: route
by the manifest (`OpenDay`), verify (`RecoverVerified`, `RecoverMismatch`),
hash and read and merge (`RefuseDamaged`, `ReadRaises`, `RefuseConflict`,
`GuardRefuses`, `MergeSegments`), rename (`WritePartition`, `VerifyFails`),
append (`AppendEntry`, `AppendTears`), unlink one by one (`UnlinkSegment`),
go on (`DayDone`, `SkipDay`) or end (`EndSweep`). `KillRun`, `DaemonDies`,
`DaemonDiesWriting`, `Rot` and `PowerLoss` may come between any two. What
the code permits and its documents argue away is switched on by `Hazards`:
short appends, power loss, a late fill, a repair of an open day,
`--allow-shrink`, and changing bytes.

`LakeDays.tla` is what a reader of the lake is promised: a ticker-day gathers
rows, is sealed once with all of them, and gathers no more. `Compaction`
implements it with `rows` mapped to the rows in segments or partition and
`sealed` to the manifest's entries (`SealedOnce`).

`CloseEvening.tla` takes the other side: who writes which minute, and when a
day is sealed. It does not assume what `Compaction` assumes of the order of an
evening (its `stage` and its writers' guards); it shows when that order holds.
A sweep is one step per surface-day here.

| variable | code |
|---|---|
| `now` | `SessionClock.snap_slot`, in minutes from the first midnight |
| `pc`, `ret` | where the loop thread of `run_loop` is, inside which hook; `down` without a daemon |
| `last`, `top`, `slot`, `skipped` | the locals of `run_loop` |
| `inFlight` | the queue `in_flight`: cycles (running, done, raised, with the surfaces still to land) and stalls |
| `guardLast`, `waiting`, `previous`, `guardServed`, `compactServed` | the closures' `guard_last`, `guard_waiting`, `previous_slot` and each `SessionDispatch._served` |
| `marks`, `stamped` | the segments a gap pass still owes; the names this pid has taken |
| `seen` | the guard's `latest_entries` |
| `lock`, `sweeps`, `scope`, `sealing` | the flock; compaction processes started and not yet in it; what the one inside has left, and the day between its manifest line and its unlinks |
| `journal`, `partition`, `sealed` | per surface and minute the rows in segments and in partitions; the manifest's partitions |
| `heard`, `lost` | history: the newest minute handed to a watchdog hook; minutes whose cycle could write neither row |

Its actions follow `run_loop`: `Start`, `CheckStart` (the guard's check in
`on_start`), `StartupPass`; then per minute `ReachTop`, `HandOn` or `RaiseOn`,
`HandedOn`, `TickGuard`, `TickCompact`, `SkippedPass`, `SkippedGuard`,
`Launch`. A pass writes by `MarkSegment` and ends by `PassDone`; the guard
goes `GuardReads`, `Spot...`, `Option...`; a cycle `LandSurface`, `CycleDone`
or `CycleRaises`; a sweep `SweepBegins`, `SweepSeals`, `SweepCleans`,
`SweepEnds`. `Tick`, `Sleep`, `StepBack` move the clock, `Crash` ends the
daemon and its threads but no compaction process, `OtherSweep` starts the
compaction behind the nightly vendor sweep. `MCCloseEvening.tla` is the module
its runs load.

`Hazards` switches on, in `CloseEvening`: a cycle's segment and its gap row
both refused by the disk (`lost write`), a marker refused (`failed mark`), a
clock stepped back (`clock back`), the nightly sweep's compaction (`other
sweep`), and three things a quiet evening does without, discussed below: the
clock passing between a daemon's start and its startup check (`late check`), a
daemon started while a sweep seals (`restart in a seal`), and a cycle, or a
compaction process short of the lock, that lasts past the next day's close+5
(`overnight`). Sleeps, deaths, raised cycles and failed spawns need no hazard.

`Watchdog.tla` is `watchdog.py`: what the daemon owes the operator. `Minute`
is one call of `observe` with the outcomes of a minute (each surface lands
data, or fails in one of its classes and was or was not journaled), `Stall`
is `loop_missed`, `NewSession` the reset a new day brings. `counts`, `paged`,
`absorbed`, `pagedCauses`, `letGo`, `outFor`, `pagedOut` and the `writes...`
variables are the object's fields; `pages` is what the call returns; the last
four are history. A counter stops at the threshold, past which only a page's
wording changes.

`BarImport.tla` is `bar_import.py`: an import lands a source's bars under the
lock (`ImportBegins`, `ImportDecides`, `ImportWrites`, `ImportRecords`, or
`ImportStops`, `ImportDies`), an undo checks the bucket twice and unlinks and
cuts the manifest (`Undo...`), and the nightly upload, the trim, a restore and
other writers go on around both. `BarSweep.tla` is the walk of `bars.py` over
the owed ticker-days: `Backfill` or `FetchSession` begins a run, `Passes` and
`Holds` judge a ticker-day, `Fetches` spends a request, `Renames` and
`Records` write under the lock, and `Dies` may come between; sessions close,
seal, are withheld, signed off, trimmed and restored meanwhile.

`Tokens.tla` is the Schwab token of one host (`token_store.py`, `schwab.py`,
`reauth.py`): clients of the daemon refresh under the process-wide lock
(`Build`, `Request`, `RefreshAnswered`, `RefreshRefused`), a refused write is
held in memory and tried again by the next read, a pull compares the token
parameter with the file and writes (`PullGet`, `PullCompare`, `PullWrite`), and
logins happen here or on the other host. The vendor decides whether a refresh
rotates the refresh token and whether a login revokes the one before.

`Backup.tla` is one primary host beside its bucket: the compaction's tail
(`RepairLedger`, `Upload...`, `Trim...`, `bucket.py` and `trim.py`), a first
upload by hand with its unlocked and its locked pass (`First...`), a range
restore (`Restore...`), and the sweep that lands bars and rewrites the split
checkpoint. A content stands for its sha256; `Rot` is bytes no hash names.

| variable | code |
|---|---|
| `disk`, `entry` | the bytes under each partition and checkpoint; each path's latest manifest entry |
| `ledger`, `torn`, `flushed` | `trimmed.jsonl`: its whole lines, bytes without a newline behind them, the lines a power loss cannot take |
| `fresh`, `copy` | paths whose latest entry lies past the bucket's `manifest.jsonl`; the latest entries of that copy |
| `objects`, `deleted` | the versions the bucket holds of each path; paths under a delete marker |
| `lock`, `job`, `first`, `restore` | the flock's holder and the locals of the three processes |
| `withheld`, `today` | what the quarantine ledger withholds; the session day |
| `lost` | history: partitions a fault took the last good copy of |

`SplitWalk.tla` is the split walk of one ticker (`splits.py`) beside the trim
that relies on its checkpoint (`split_checkpoint.py`, `trim.py`). A split is a
root no earlier session carried, and a line landed for one is never taken
back. `WalksDay` examines one sealed session; `MeetsTrim` is a walk that finds
a session gone; `WritesCheckpoint`, `RecordsCheckpoint` are the sweep's two
writes; the trim's line and unlink, restores, verdicts, master edits, late
marks and deaths fall between. The reference of `SplitsExact` is no walk: of
the sessions readable when the run listed them, as if nothing had been trimmed
(`ReadBy`), a root that no earlier one carried lands a line if the session
before was read, and is held if it was not (`LandedPast`, `FiledPast`).

`Resync.tla` is two or more hosts that take turns as the primary of one
bucket: each writes its own lake, the primary uploads, and `resync --apply`
brings a host level by replacing files, deleting files and rewriting the
manifest, one step each, with deaths between any two.

`LiveUpload.tla` is the thread of `live_upload.py` that puts each quotes
segment under the bucket's live prefix, and the alarm on the daemon's tick
that watches it. One read of the manifest's tail is one step, and so is one
request to S3 and its answer, which may be lost after S3 acted.

The modules whose names begin with `MC` give the instances their sets.
`MCWatchBars`, `MCFairParts`, `MCBackup` and `MCHostsLive` check several parts
that share no variable in one run: `subject` is chosen at the start, only that
part's actions are taken, and the others stay as they began. The states of
such a run are the sum of the parts' states and not their product, and a
property of a part is checked on exactly the behaviours of that part. The
fairness of a part is owed only where the behaviour is its own.

### What the abstractions leave out

Of `Compaction`: the surface and the ticker of a ticker-day are one index, and
the columns of a segment are one of two types. Retune, backup, ping, trim and
pruning follow the sweep's loop, touch none of its state, and are `Backup`'s or
left out. So is a manifest read that raises outright.

Of `CloseEvening`: one ticker with options, in scope all day, so no spans and
no roster. A row is its kind. A gap row is told from data only at the option
close, where the guard asks. The guard's series markers, a cycle's manifest
entries and unreadable segments are left out. A day without a session is a
weekday holiday, which the fallback dispatches on.

Of `Backup`: the manifest is its latest entries and the set past the bucket's
copy, which is all the watermark decides. A put is refused by S3 unless the
bytes have the entry's checksum. One restore at a time, of one partition.

Of `SplitWalk`: one ticker; a gained root lands or is held for an unread day;
strike scale, deliverables and the OCC mappings are left out; the security
master is the set of sessions it resolves the ticker on; a partial read counts
as a quarantine verdict; the proof by hash is `proved`.

Of `Tokens`: one pull at a time, the daemon is the only process that
refreshes, and the retry of a held write is one step with the read that makes
it. Three documented races are left to their documents: a login that lands
within one refresh request (`docs/design.md:117`), a pull that writes over a
login on this host after it compared (`:133`, `:171`; `told` excuses it), and
two primaries at once (`:853`).

Of `BarSweep`: one ticker, quotes fixed once sealed, a partial read or
disagreeing closes count as withheld, and later nights add no sessions, so
`BarsLand` speaks of a budget against requests that are wasted every night
(`docs/design.md:252`). An authentication failure at the vendor ends a run.
The report of unsettled and abandoned bars is left out.

Of `BarImport`: the dry run, the checks of a CSV or a candle, unreadable
files and power loss; one identity is undone at a time.

Of `LiveUpload`: entries whose digest cannot be used, `_waiting`, and the
counters of a status line. A re-read that fails in `_gone` is an upset. What
is owed is a set with the tick each segment became owed: a pass takes the
oldest first and, among those read in one tick, any, where the code keeps the
order of their lines.

Of `Watchdog`: the publisher's cap, the outbox and the dead-man switch.

## The runs

| run | what it asks | instance |
|---|---|---|
| `CompactionSafety` | nothing is lost, debris is only debris, a mismatch can be rebuilt, no automatic run shrinks a day, `LakeDays` is implemented, past days seal | two days, four segments (a cycle each day, a fill, a gap pass), a sweep, a human, changing bytes, one death |
| `CompactionHazards` | no damaged segment is merged and nothing unverified is deleted, with every hazard on | one day, two segments, two faults |
| `EveningSafety` | each minute one row, all of them before the seal and none after, the watchdog's order | one session day of three slots, a stall of any length, a death, one failed write, marker, spawn or cycle |
| `EveningDays` | the startup walk stops nowhere too early; what is down is paged, and once; an undo withdraws nothing sent, and an import refused over keys the bucket has can get them back; a bar is judged by its session | one part a behaviour: two session days with a stall that may span both; the watchdog over three surfaces, two tickers and every mixture of classes; three imports and undos of two sources of the same keys, with two deaths or lost files and another writer; the bars walk of the sweep beside a run by hand |
| `EveningNightly` | the nightly sweep's compaction is harmless after an awake evening | one day, no sleep, a death and a fault, a stepped-back clock |
| `EveningLiveness` | every session day is sealed; capture that lost its token comes back; every bar that can pass lands; rotated tokens are kept, one client refreshes | one part a behaviour: a session day and two holidays with a sleep and a fault; two clients, two logins, two refreshes, two troubles; the sweep alone over two sessions |
| `BackupSafety` | every absence is explained, the last good copy is never trimmed, the bucket's record is honest, what was restored stays; a resumed split walk is exact, and no trim runs ahead of it | one part a behaviour: a chains and a daily partition, two days, two compactions, a first upload, a restore, three faults, deaths or hand jobs; three sessions, a window of one, one adjusted root, one mishap |
| `ResyncHosts` | what a record says is there is there, no capture goes, no session is dropped, a dead resync is finished by the next; no segment is forgotten, sent twice or miscounted, a lag is paged | one part a behaviour: two hosts, a path of each class, four writes, one death or handoff; two segments of one day, two ticks of two dates, two upsets |
| `EveningOtherSweep` | expected violation of `SealedComplete` | the nightly sweep's compaction beside a daemon that slept or was dead |
| `EveningWake` | expected violation of `NothingAfterSeal` | two session days, a sleep from one close+15 past the next close+5 |
| `CompactionPowerLoss` | expected violation of `NothingLost` | one power loss |
| `LiveUploadStopped` | expected violation of `StoppedHeard` | a thread that stops while the upload is behind |

Some properties are conjunctions of what one part promises together:
`MinutesSound` (types and `OneRowPerMinute`), `DownIsPaged` (`Heard`,
`SecondDeathHeard`), `ImportSound` (`Withdrawn`, `OnlyKilled`, `Repairable`),
`BarsSound` (`EntryIsHeld`, `JudgedBySession`), `TokenSound` (`RotationKept`),
`UploadSound` (`CopyHonest`), `CheckpointSound` (`NoneTrimmedAhead`),
`RecordsServed` (`LevelIsWhole`, `CopyServed`), `LiveSound` (`LiveHonest`,
`NothingForgotten`), each with the types of its module.

### Bounds

Two ticker-days are what the order of a sweep can tell apart, the one it is on
and the one behind it. Two segments of one day are what it takes to die
between two unlinks and to disagree on a type. A sweep and a human make every
contention for the lock.

A day of the evening has as few minutes as keep its moments apart: seven with a
capture slot before the closes, six or five where more days are needed.
`LastUpset` is the last minute that a sleep, a death or a fault may reach,
`Horizon` the last minute at all, so that a behaviour has time to recover; one
sleep may take any number of minutes up to it. One stall and one death are
enough to put any two passes, or a pass and the guard, on the same minute.

In `Backup` two days and one session's window make a partition trimmable while
a newer checkpoint can still come; three events are what it takes to restore a
partition by hand, fail once, and fail again. A chains partition seals at
close+15 and a daily one lands in the sweep, the two ways into the lake. In
`SplitWalk` three sessions give a trimmed one, the one a resumed walk starts
from and a new one. In `LiveUpload` the first tick finds a lag and pages it, and the
second is of the next date; `BEHIND_AFTER` is what a tick is longer than.

`CHECK_DEADLOCK FALSE` stands only where time, sessions or runs end at a
bound.

Larger instances, checked by hand with no violation and left out of the runs
for their time: the watchdog with every ticker leaving the roster (50,623
states), the bars walk with a run by hand over all sessions (856,143), four
imports and two deaths (936,178), the split walk with four sessions (10.6
million) and with two mishaps (4.2 million), the token with longer clocks (1.6
million), three ticks of the live upload (548,918), and the evening of
`EveningDays` with the equity close at the open (323,548).

### Fairness

`CompactionSafety` takes `FairSpec` of `Compaction`, which only `PastDaysSeal`
needs: a run that holds the lock goes on (nothing in it waits for anyone), and
`compact` is started again and again and gets the lock when others release it
infinitely often (it is dispatched every session day, and `flock` blocks).
Nothing is assumed of humans or writers. `PastDaysSeal` excuses a day with
damaged or disagreeing segments of its own, and a day behind one that ends
every run, since `PartitionMismatch` and a read that raises are caught nowhere
in `compact`.

In `EveningLiveness`: minutes pass, the service manager restarts the daemon,
the loop, its threads and the compaction processes run (weak fairness), and
`flock` serves a pass or a sweep that asks again and again (strong fairness,
for both share the lock). Clients of the token build, ask and are answered,
slots come and a spawned pull runs; the nightly backfill starts and a run of
the bars walk goes on. No sleep, death, fault, login or hand run is assumed.

In `ResyncHosts`: a resync that was started goes on, and one that is needed is
started; the live upload's thread, which waits for nobody but S3, goes on
(`LiveSpec`). The primary, the faults and the alarm are not assumed to act.
`LiveCatchesUp` speaks of one of two segments that nothing tells apart.

### Where code and documents part

- `CompactionPowerLoss`. The partition is flushed, the manifest line is not,
  and the unlinks follow. `docs/design.md:296` promises that a failed run
  re-runs with nothing lost.
- `EveningOtherSweep`. The daemon delays its own dispatch by a tick so that a
  stall's markers come first (`daemon.py:1743-1755`). The compaction behind
  the nightly vendor sweep waits for nobody, and a sealed day is never marked.
- `EveningWake`. A compaction dispatched for yesterday sweeps every day whose
  close+5 has passed (`compact.py:825`), today included, while today's guard
  still runs. `daemon.py:1742-1745` says the seal still follows the guard, and
  `close_guard.py:361` that the guard's window closes before compaction's opens.
- `LiveUploadStopped`. `UploadAlarm.check` pages only when the upload was not
  behind (`live_upload.py:824`), so a thread that stops while it is behind is
  never paged. `live_upload.py:803-805` says that a stopped thread pages even on
  a date that already paged.

What the assumptions of the passing runs keep out. Each can be seen by adding
the hazard to a copy of the instance; none is among the runs.

- Short appends in `Compaction` (`short_append`). An append that writes short
  leaves a fragment, the next line fuses with it (`manifest.py:881`), and
  `parse_jsonl` stops there, so entries behind it are hidden from the sweep's
  routing and from the row-count guard alike. A sweep killed between two
  unlinks then makes the next one seal the leftovers over the full partition
  (`NoAutomaticShrink`; `docs/design.md:225` promises that no automatic run
  does this).
- A late fill (`guard_race`). The guard window is tested before the fill's
  fetch, and the fetch has no deadline (`capture.py:3283`). A fill that lands
  after the seal leaves a segment that the next sweep unlinks unread as debris
  (`DebrisOnly`; `docs/design.md:225` takes debris to be the only reachable
  leftover). Waking in the close+5 minute itself with yesterday's dispatch owed
  reaches the same.
- `late check`. `run_loop` takes its first slot from one read of the clock,
  `on_start_guarded` asks its dispatch with another (`daemon.py:576`, `:1698`).
  If the equity close and close+5 fall between the two, the guard marks the
  equity close and the first tick's stall pass marks it again
  (`OneRowPerMinute`).
- `restart in a seal`. A compaction process outlives its daemon. A successor
  whose guard reads the manifest before the seal's line, and the segments
  after its unlinks, marks a captured close as unobserved beside the partition
  (`NothingAfterSeal`, `OneRowPerMinute`).
- `overnight`. The loop waits for its cycles from a session day's close+5 on
  only, while a holiday falls back to compaction too: with a holiday behind
  the session day, a cycle that was in flight all that time lands after the
  seal (`NothingAfterSeal`). A compaction process kept from the lock until the
  next close+5 seals that day early (`SealedComplete`, two days). And a cycle
  that sleeps through a day, then raises after the stall pass completed that
  day, leaves a hole below it, where the startup walk does not look
  (`CompleteFromBelow`, two days).
- `failed mark` is on in `EveningSafety`, which excuses such minutes: they are
  derived again at the next start only, and the evening may seal the day
  first, although `gap.py:376` says that stopping never drops the work.
- A clock stepped back and then a restart capture a slot twice
  (`OneRowPerMinute`), for an incarnation remembers its last slot and its
  successor does not.
- `LateSeals` in `SplitWalk`. A seal of an older day between the walk's list
  and its check for segments moves the cutoff past a session never read
  (`splits.py:1481`, `:1455`), and a later resume lands a split that never
  was. A sweep's walk that overlaps a trim, with a verdict, sign-off or late
  mark between, leaves a trimmed session past the new cutoff; trim runs at
  16:30 and the sweep at 18:30, and the model keeps them apart.
- `BarImport`. An append refused after the renames leaves unrecorded files
  without a kill, where `bar_import.py` says that only a kill does. A source
  fetched anew that lost one key the bucket has and one it lacks is refused
  until the first is restored (`bar_import.py:1099`), after which its rerun
  writes the other; where another source took a key meanwhile, the rerun is
  refused until that import is undone, which `Repairable` excuses. A first
  upload's unlocked pass that races an undo while the bucket has no record is
  left out.
- `BarSweep`. A run that dies between rename and line over a recorded key
  leaves the file and the entry apart until the next run over it; `torn`
  excuses the key.

## The proofs

Each theorem is of every value of its module's constants, under the assumption
the module states by name (`ConstantsAssumption` and its like: finite sets,
natural bounds, markers that are no values). No theorem assumes a bound of a
run. Each safety property is reached through an inductive invariant that TLC
checked on an instance before it was proved.

`CompactionProofs`. Where a theorem says so it assumes `OnlyRot`: of the
hazards only changing bytes are let loose.

- `TypeInvariant`: `TypeOK` under every hazard, one step per action.
- `InductiveInvariant` (`OnlyRot`): the invariant `IInv`. The safety
  properties are not inductive: that nothing is lost depends on what an
  unlinking run has verified, which depends on what it merged, which depends
  on no writer adding to a day once its guard window ended. So `IInv` adds
  that a run holds the lock exactly while it runs (`Exclusive`), that its
  copy of the manifest is current, that an unsealed day's rows are all in its
  segments while a sealed day is over and its entry names every row
  (`DaySafe`), and what a run knows at each step (`RunSafe`). The one
  arithmetical step is `MergeFindsAll`: on a sealed day the row-count guard
  and `FS_Subset` leave a repair no merge but the full one. `OutsideStep`,
  `RestStep`, `RunningStep` and `LeaveDayStep` take the actions by groups.
- From it `NothingLostAlways`, `DebrisOnlyAlways`,
  `MismatchRepairableAlways`, `LatestIsCurrentAlways`,
  `NoAutomaticShrinkAlways`, and `SealedOnceAlways`, the refinement: writes
  map to `Gather`, `AppendEntry` to `Seal` or, for a repair, to a stutter.
- `NoPoisonAlways` and `UnlinkOnlyVerifiedAlways` under every hazard, from a
  weaker invariant `CareInv` that speaks only of what a run itself read and
  wrote under the lock.

`BackupProofs`: `BackupInvariant`, and from it `AbsenceExplainedAlways`,
`OneGoodCopyAlways`, `UploadSoundAlways` and `RestoredStaysAlways`. The four
promises rest on each other, so there is one invariant of seven parts.

- That an absence is explained does not survive a power loss by itself: the
  line that explains it could go. `FlushedFirst` says that it lies in the
  prefix of the ledger no power loss takes, and is the last of its partition
  in the whole ledger, so that neither a cut nor a later line of another
  partition unsettles it. That needs the order of a drop, line, record, flush,
  unlink (`TrimSound`), and that no line of a partition is written while it is
  off the disk (`RestoreSound`).
- `OneGoodCopy` needs what the trim knows from its read of the bucket until
  its unlink: a version with the entry's bytes, unless a fault has since been
  booked against it (`LineSound`). The bucket's objects only gain versions,
  and a version's body is what was stored or rot (`AsStored`).
- `UploadSound` needs what an upload has left to send: whatever lies past the
  bucket's copy and is not in its list was given (`UploadLeft`), the same for
  the two passes of a first upload (`FirstLeft`), and an entry that does not
  lie past the copy is the copy's (`CopyAgrees`).
- `RestoredStays` is about one line of the ledger against the checkpoint many
  steps later. `LinesInOrder` has a day's lines after those of the days
  before it, and `TrimsAfter` a trim line behind restore lines of earlier
  checkpoints only, so that looking at a partition's latest line, as the trim
  does, is looking at all of them. The proof made the property precise: what
  counts is the checkpoint the manifest records, since the file itself may rot
  between the trim's selection and its unlink.

`SplitWalkProofs`: `CheckpointSoundAlways` from `SplitInv`: a trimmed session
lies at or behind the checkpoint's cutoff, and a sweep's walk that will replace
the checkpoint started from one that covers what is trimmed, so its cutoff
never falls behind (`WalkForward`, `SweepCovers`).

`SplitsExactAlways`, from `ExactInv`: a resumed walk lands and files what the
whole lake says past its cutoff. The saved state is a claim about sessions that
may be gone when it is used, so the invariant has to say it at every step until
then. `StateExact` reads: the state is what a walk carries at its cutoff over
every session then in its master (`Carried`: the roots seen, the last session
read), and no session below the cutoff has segments left that could still be
sealed with roots nobody saw. A master edited since is what the resume refuses
by its stamp. `ListedAll` says that what a run listed is every sealed session
up to its last, `WalkExact` is the walk's own half at each session, and
`LakeKept` collects what the steps beside the walk leave alone: a sealed day
stays as it is, and a day gets an option close only out of segments. The
theorem has one hypothesis, `~LateSeals`: no day below a sealed one seals
beside a walk. Without it the property is false (see the hazards left off).

`BarsProofs`, the walk: `BarsSoundAlways` from `BarInv`: what a run knows (its
snapshot of sealed quotes and recorded minutes, and how its next daily bar was
judged) stays true while others act, for evidence and entries only ever come
(`Grows`), and only the ticker-day under the lock may differ from its entry.

`BarsProofs`, the imports: `ImportSoundAlways` and `NothingReplacedAlways` from
`ImportInv`. What an import decided under the lock must still hold when it
records, many writes later: each key it is to write is nobody's or its own, and
where the bucket has the key the content is the bucket's (`ImportFits`). The
undo decides before it takes the lock, and what it reads again under it is
exactly enough: the manifest it cuts ends in its own lines (`UndoFits`, carried
from the manifest it read), the bucket's copy lies within what it keeps, and
every file it cuts the line of is gone first. A file no line names belongs to a
killed import or to the one under the lock (`Accounted`). The lemmas are of
manifests: `TailIs` says that a manifest is what an undo keeps and then what it
cuts, `AppendedIs` what lines appended do to the last line of a key, `CutIs`
that a cut leaves every other key as it was. The proof, with larger instances,
refuted an earlier `Repairable`: the import of a source fetched anew was taken
to repair each of its own missing files.

`TokensProofs`: `TokenSoundAlways` and `RefreshSafeAlways` from `TokenInv`.
While nothing was told to the operator the file is readable and leads what the
daemon holds or has sent (`FileLeads`), the rotated token of the last login is
in it (`RotatedStored`), what a client reads next is the daemon's last refresh
or a later login (`NewestIsRead`), and a pull about to write brings a later
login than the file's or an outdated one (`PullBehind`).

`WatchdogProofs`: `DownIsPagedAlways` and `PagedOnceAlways` from `WatchInv`.
Which page speaks for a surface has to survive evidence that ends and comes
back, classes that change, and surfaces that leave. `paged` is exactly what
was named by a page of its own or taken in by a collapse (`Accounted`), a pair
of cause and surface is held or let go and never both (`CausesHold`), and a
dead-token page speaks for the quotes it named for as long as they are in the
cycle and land nothing, and has been told while its cause is live
(`TokenHeld`). The proof made `PagedOnce` precise: what a dead-token page may
not repeat are the quotes the earlier one named. When they all leave the
roster and others come, the code pages again.

`HostsLiveProofs`, the hosts: `RecordsServedAlways`, `CaptureStaysAlways` and
`NothingDroppedAlways` from `Inv`. The three are about the last entry of a
path, while a resync cuts a manifest and appends to it line by line, so the
invariant speaks of the order of entries.

- `Histories`: no entry is in a manifest twice, and two manifests agree on
  what came before an entry of a path. From it follow that two manifests with
  the same entries have the same last ones, and that a host that lacks nothing
  of the bucket may keep its own.
- `Published`: two hosts share only what the bucket has. `Clean`: a file that
  is not its host's last entry is the unfinished work of a resync, whose host
  lacks entries of the bucket and which the bucket says otherwise of; so a
  dead resync is one that `resync` will find again.
- `UploadSure` and `ResyncSure`: what the two runs know at each step of what
  is left to do, `ResyncSure` also of what a death at that step would leave.

`Resync` assumes that the contents of `Base` are those written first, in
order: a content is a number that no later write repeats.

`HostsLiveProofs`, the live upload: `LiveSoundAlways`, `CountedOnceAlways` and
`BehindHeardAlways` from `LiveInv`. A manifest may be cut back and grow again
past the thread's offset before the thread looks. That the anchor tells is the
invariant's core: a line that was ever written is of a file that came
(`LandedOnce`), so it is not written twice and the line the read ended on does
not come back; while it is in its place, every line before it is accounted for
(`Accounted`). `AtHand` says that what is being sent is owed, and what is owed
is neither settled nor refused (`OwedOnce`).

`EveningProofs`: `HandedInOrderAlways` from `QueueInvariant`: the queue between
the loop and the watchdog holds each capture slot since the one last heard
once, in order, through the minute the loop has reached (`Reached`).
`TypesAlways` is the type half of `MinutesSound`. Both hold under every hazard
and on every calendar.

The rest of the module is one invariant, `EveningInv`, and what follows from
it: `MinutesSoundAlways`, `SealedCompleteAlways`, `CompleteFromBelowAlways` and
`NothingAfterSealAlways`, for every calendar, every number of sleeps, deaths and
faults and every place they may fall. Unlike the two above they have
hypotheses, and each is needed:

- `QuietHazards`: the disk may refuse rows and markers, and the other hazards
  are off. Each of those breaks one of the properties, as told above under
  *Where code and documents part*.
- `DispatchPrompt`: no close+5 lies between the tick a compaction fell due at
  and its dispatch. `EveningWake` is the behaviour it leaves out.
- `CyclesPrompt`: a cycle is over before the next day opens. `CloseEvening`
  itself only has it over by the next day's close+5. In between, with one
  sleep and one death on two session days, TLC finds a behaviour that violates
  `CompleteFromBelow`: the cycle of one day is still running when the next
  day's last slot lands, the daemon dies with it, and the walk of the day after
  stops above the minute it lost. A fetch would have to hang for more than a
  night.

The invariant goes up in four layers, each preserved with the help of those
below it, with one lemma for each (`...Step`):

1. `LoopInv`: where the loop is between its clock, its hooks and its locks.
   What a tick skipped lies between its two slots; a startup is alone; past
   close+5 of a day its guard ran, runs or waits for the gap pass.
2. `QueueSound`, `MarksSound`, `DaysSound`, `GuardKnows`: an unfinished cycle
   is of a day the loop has not left behind; and before a sweep may seal a day
   (`IsDue`), the loop is past its close+5 with none of its cycles, marks or
   guard left (`Behind`, `GuardOff`). The guard's one read of the manifest,
   taken with no lock, is not overtaken. This is the order that replaces a
   lock between the sweep and the day's writers.
3. `RowsSound`: a minute's rows have one of four shapes, and whoever is about
   to write finds a shape its row fits (`RowsOwed`, `RowsGuarded`): what a
   cycle owes is empty, what a pass owes has at most a fill.
4. `KeptSound`: every minute the loop has reached is kept or claimed by
   someone (`Accounted`); a day is due for a sweep with nothing claimed
   (`DueComplete`); and a day whose `Probe` has a row has every unsealed day
   below it kept (`FromBelow`). The probe is the surface's slot that no guard
   writes: a guard may write on a day before the days below it are marked, so
   its rows say nothing of them. The startup walk stops at a day with no row
   missing, so its probe has one, and what lies below needs no mark.

Before they were proved, TLC checked the parts of `EveningInv` under `Prompt`
on all states of one session day (4.5 million), and on two session days on the
first millions of states and on random behaviours.

Only model-checked:

- liveness and `ENABLED`, which the prover does not do: `PastDaysSeal`,
  `EveningSeals`, `CaptureResumes`, `BarsLand`, `ResyncFinishes`,
  `LiveCatchesUp`;
- `EveningNightly`'s view of the evening: what stays true of it beside the
  nightly sweep and a stepped-back clock, where `QuietHazards` does not hold;
- the disagreements.

## Plan

Done: the modules above, their runs, and the proofs listed. Left, in order:

1. Models of quarantine and sign-off, of onboarding and retirement as edits
   of spans, and of stopping the virtual machine against a busy lake.
2. `Retune` and the dividends of the actions ledger, as operators against
   reference definitions.

## Not modelled

The projection of vendor bodies into columns, schema pins, dashboards,
reports, configuration and path formatting carry no protocol. The vendor's
HTTP client is external. The browser flow of a login, the publisher's cap and
the outbox, the scrub of the bucket and a full restore of a lake, and the
sweep's other jobs are parts of modelled components that are left out.
Quarantine and sign-off, the roster and the deployment's control plane are in
the plan. `PROJECT.json` lists each with its reason.
