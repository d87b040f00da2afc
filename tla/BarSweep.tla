------------------------------ MODULE BarSweep ------------------------------
(***************************************************************************)
(* The vendor's bars of one ticker (bars.py): the 18:30 sweep walks every  *)
(* closed session the lake holds no bars for, newest first, and a run by   *)
(* hand may overlap it.  A daily bar is judged before its request, against *)
(* the session's own sealed quotes, or against its 1-minute bars when the  *)
(* quotes offer no close.                                                  *)
(***************************************************************************)
EXTENDS Integers, FiniteSets

CONSTANTS
    LastSession,    \* the sessions are 1..LastSession
    Lookback,       \* how many sessions back the vendor still serves minutes
    Budget,         \* requests one backfill may spend
    Refused,        \* ticker-days whose answer never passes the checks
    Runs,           \* the runs,
    Backfills,      \* those over every session, and not one session by hand,
    Nightly,        \* and the sweep's among these
    Nothing,
    MaxHitches      \* bound on refusals, deaths, withholdings and trims

Days == 1..LastSession
TickerDays == {"1m", "1d"} \X Days
ASSUME BarSweepConstants ==
    /\ LastSession \in Nat /\ Lookback \in Nat /\ Budget \in Nat \ {0}
    /\ Refused \subseteq TickerDays /\ Nightly \in Backfills /\ Backfills \subseteq Runs
    /\ Nothing \notin Runs \cup {"close", "none", "quote", "minute"}
    /\ MaxHitches \in Nat

VARIABLES
    closed,     \* sessions whose equity close has passed: 1..closed
    quotes,     \* each session's sealed quotes: whether they offer a close
    withheld,   \* sessions the quarantine ledger withholds
    entry,      \* the run whose bars the latest manifest entry names
    file,       \* the run whose bars are at the partition's path
    torn,       \* recorded ticker-days a run died between rewriting and recording
    gatedBy,    \* what the recorded daily bars were compared with
    walk,       \* each run's place
    writer,     \* the run that holds the lake's lock
    hitches

evidence == <<closed, quotes, withheld>>
partitions == <<entry, file, torn, gatedBy>>
walkVars == <<evidence, partitions, walk, writer, hitches>>

Idle == [pc |-> "idle"]
Freq(d) == d[1]
Session(d) == d[2]
IsLanded(d) == entry[d] # Nothing
Sealed == {s \in Days : quotes[s] # Nothing}

WalkInit ==
    /\ closed = 0 /\ quotes = [s \in Days |-> Nothing] /\ withheld = {}
    /\ entry = [d \in TickerDays |-> Nothing] /\ file = entry
    /\ gatedBy = [s \in Days |-> Nothing] /\ torn = {}
    /\ walk = [r \in Runs |-> Idle] /\ writer = Nothing
    /\ hitches = 0

Hitch == hitches < MaxHitches /\ hitches' = hitches + 1

------------------------------------------------------------------------------
(* The walk. *)

\* Newest session first, and the minute half of a session before the daily one.
Before(d, e) == \/ Session(d) > Session(e)
                \/ Session(d) = Session(e) /\ Freq(d) = "1m" /\ Freq(e) = "1d"
\* Mutant: chronological, the order the budget replaced.
BeforeOldest(d, e) == \/ Session(d) < Session(e)
                      \/ Session(d) = Session(e) /\ Freq(d) = "1m" /\ Freq(e) = "1d"

Planned == {d \in TickerDays : Session(d) <= closed}
\* Mutant: the walk takes the oldest first.
FirstOldest(days) == CHOOSE d \in days : \A e \in days \ {d} : BeforeOldest(d, e)
First(days) == CHOOSE d \in days : \A e \in days \ {d} : Before(d, e)

\* The manifest is read once.
Begins(r, days, budget) ==
    /\ walk[r] = Idle /\ \E d \in days : ~IsLanded(d)
    /\ walk' = [walk EXCEPT ![r] =
          [pc |-> "walk", days |-> {d \in days : ~IsLanded(d)}, left |-> budget,
           sealed |-> Sealed, minutes |-> {s \in Days : IsLanded(<<"1m", s>>)}]]
    /\ UNCHANGED <<evidence, partitions, writer, hitches>>
Backfill(r) == r \in Backfills /\ Begins(r, Planned, Budget)
\* One session's bars, by hand: no budget.
FetchSession(r, s) == r \notin Backfills /\ Begins(r, {"1m", "1d"} \X {s}, 2)

\* What the session's own quotes say at the 16:15 minute.
QuoteGate(s) == IF quotes[s] = Nothing THEN "absent"
                ELSE IF s \in withheld THEN "withheld" ELSE quotes[s]
\* Mutant: a withheld session counts as one that never had a close.
GateLost(s) == QuoteGate(s) \in {"none", "withheld"}

\* Sealed without a close: nothing later changes that, so the minutes stand in.
GateIsLost(s) == QuoteGate(s) = "none"
FallsBack(w, s) == GateIsLost(s) /\ s \in w.sealed /\ s \in w.minutes

\* The gate's reference, read before the request: a daily bar without one is not fetched,
\* and reported unsettled or abandoned as w.sealed has its session or not.
Reference(w, d) ==
    CASE Freq(d) = "1m" -> "ungated"
      [] Freq(d) = "1d" /\ QuoteGate(Session(d)) = "close" -> "quote"
      [] Freq(d) = "1d" /\ FallsBack(w, Session(d)) /\ file[<<"1m", Session(d)>>] # Nothing -> "minute"
      [] OTHER -> "none"

\* The vendor's answer covers the session and agrees with the reference.
Served(d) ==
    /\ Session(d) <= closed /\ d \notin Refused
    /\ Freq(d) = "1m" => closed - Session(d) < Lookback

\* The walk ends once every ticker-day is passed, or none may be asked for any more.
Advance(w) ==
    LET rest == w.days \ {First(w.days)}
    IN  IF rest = {} \/ w.left = 0 THEN Idle ELSE [w EXCEPT !.pc = "walk", !.days = rest]
Spend(w) == [w EXCEPT !.left = @ - 1]

\* Skipped by its gate, and the walk goes on.
Passes(r) ==
    /\ walk[r].pc = "walk" /\ Reference(walk[r], First(walk[r].days)) = "none"
    /\ walk' = [walk EXCEPT ![r] = Advance(@)]
    /\ UNCHANGED <<evidence, partitions, writer, hitches>>

\* An answer that fails a check, or a vendor that refuses: held, and asked for by a later run.
Holds(r) ==
    LET d == First(walk[r].days) IN
    /\ walk[r].pc = "walk" /\ Reference(walk[r], d) # "none"
    /\ IF Served(d) THEN Hitch ELSE UNCHANGED hitches
    /\ walk' = [walk EXCEPT ![r] = Advance(Spend(@))]
    /\ UNCHANGED <<evidence, partitions, writer>>

Fetches(r) ==
    LET d == First(walk[r].days) IN
    /\ walk[r].pc = "walk" /\ Reference(walk[r], d) # "none" /\ Served(d)
    /\ walk' = [walk EXCEPT ![r] = [Spend(@) EXCEPT !.pc = Reference(walk[r], d)]]
    /\ UNCHANGED <<evidence, partitions, writer, hitches>>

Asked == {"ungated", "quote", "minute"}
\* Mutant: the file is renamed into place before the lock is taken.
RenamesUnlocked(r) ==
    /\ walk[r].pc \in Asked
    /\ file' = [file EXCEPT ![First(walk[r].days)] = r]
    /\ walk' = [walk EXCEPT ![r] = [pc |-> "record", by |-> walk[r].pc, of |-> walk[r]]]
    /\ UNCHANGED <<evidence, entry, torn, gatedBy, writer, hitches>>

\* The write and its manifest entry are under one hold of the lock, the fetch is not.
Renames(r) ==
    /\ walk[r].pc \in Asked /\ writer = Nothing
    /\ file' = [file EXCEPT ![First(walk[r].days)] = r]
    /\ walk' = [walk EXCEPT ![r] = [pc |-> "record", by |-> walk[r].pc, of |-> walk[r]]]
    /\ writer' = r
    /\ UNCHANGED <<evidence, entry, torn, gatedBy, hitches>>

Records(r) ==
    /\ walk[r].pc = "record"
    /\ LET w == walk[r].of
           d == First(w.days)
       IN  /\ entry' = [entry EXCEPT ![d] = r]
           /\ torn' = torn \ {d}
           /\ IF Freq(d) = "1m"
              THEN /\ walk' = [walk EXCEPT ![r] = Advance([w EXCEPT !.minutes = @ \cup {Session(d)}])]
                   /\ UNCHANGED gatedBy
              ELSE /\ walk' = [walk EXCEPT ![r] = Advance(w)]
                   /\ gatedBy' = [gatedBy EXCEPT ![Session(d)] = walk[r].by]
    /\ writer' = Nothing
    /\ UNCHANGED <<evidence, file, hitches>>

\* A death, or a dead token, which ends the run.
Dies(r) ==
    /\ walk[r] # Idle /\ Hitch
    /\ torn' = IF walk[r].pc = "record" THEN {d \in torn \cup {First(walk[r].of.days)} : IsLanded(d)}
                                       ELSE torn
    /\ writer' = IF writer = r THEN Nothing ELSE writer
    /\ walk' = [walk EXCEPT ![r] = Idle]
    /\ UNCHANGED <<evidence, entry, file, gatedBy>>

------------------------------------------------------------------------------
(* The day, the compaction, the battery and the trim. *)

Closes ==
    /\ closed < LastSession /\ closed' = closed + 1
    /\ UNCHANGED <<quotes, withheld, partitions, walk, writer, hitches>>

\* However late the compaction runs.
Seals(s) ==
    /\ s <= closed /\ s \notin Sealed /\ writer = Nothing
    /\ \E q \in {"close", "none"} : quotes' = [quotes EXCEPT ![s] = q]
    /\ UNCHANGED <<closed, withheld, partitions, walk, writer, hitches>>

Withholds(s) ==
    /\ s \in Sealed \ withheld /\ Hitch
    /\ withheld' = withheld \cup {s}
    /\ UNCHANGED <<closed, quotes, partitions, walk, writer>>
SignsOff(s) ==
    /\ s \in withheld /\ withheld' = withheld \ {s}
    /\ UNCHANGED <<closed, quotes, partitions, walk, writer, hitches>>

Trims(s) ==
    LET d == <<"1m", s>> IN
    /\ writer = Nothing /\ IsLanded(d) /\ file[d] = entry[d] /\ Hitch
    /\ file' = [file EXCEPT ![d] = Nothing]
    /\ UNCHANGED <<evidence, entry, torn, gatedBy, walk, writer>>
Restores(s) ==
    LET d == <<"1m", s>> IN
    /\ writer = Nothing /\ IsLanded(d) /\ file[d] = Nothing
    /\ file' = [file EXCEPT ![d] = entry[d]]
    /\ UNCHANGED <<evidence, entry, torn, gatedBy, walk, writer, hitches>>

Walks(r) == Passes(r) \/ Holds(r) \/ Fetches(r) \/ Renames(r) \/ Records(r)
WalkNext ==
    \/ \E r \in Runs : Backfill(r) \/ Walks(r) \/ Dies(r) \/ \E s \in Days : FetchSession(r, s)
    \/ Closes
    \/ \E s \in Days : Seals(s) \/ Withholds(s) \/ SignsOff(s) \/ Trims(s) \/ Restores(s)
WalkSpec == WalkInit /\ [][WalkNext]_walkVars

\* The timer starts the sweep every evening, and a run that is going goes on.
WalkFairness ==
    /\ WF_walkVars(Backfill(Nightly))
    /\ \A r \in Runs : WF_walkVars(Walks(r))
WalkFairSpec == WalkSpec /\ WalkFairness

------------------------------------------------------------------------------
Snapshot == [days : SUBSET TickerDays, sealed : SUBSET Days, minutes : SUBSET Days,
             left : Nat, pc : Asked \cup {"walk"}]
WalkTypeOK ==
    /\ closed \in 0..LastSession /\ hitches \in 0..MaxHitches
    /\ quotes \in [Days -> {"close", "none", Nothing}] /\ withheld \subseteq Sealed
    /\ entry \in [TickerDays -> Runs \cup {Nothing}] /\ file \in [TickerDays -> Runs \cup {Nothing}]
    /\ torn \subseteq TickerDays
    /\ gatedBy \in [Days -> {"quote", "minute", Nothing}]
    /\ walk \in [Runs -> {Idle} \cup Snapshot \cup [pc : {"record"}, by : Asked, of : Snapshot]]
    /\ \A r \in Runs : writer = r <=> walk[r].pc = "record"

\* What a manifest entry names is at its path or was trimmed, whichever of two overlapping
\* runs came last; only a run that died between its rename and its line breaks that.
EntryIsHeld ==
    writer = Nothing => \A d \in TickerDays \ torn : IsLanded(d) => file[d] \in {entry[d], Nothing}

\* A recorded daily bar was judged against its own session's sealed close or, where the
\* quotes were sealed without one for good, against minutes the manifest records.
JudgedBySession ==
    \A s \in Days : IsLanded(<<"1d", s>>) =>
        \/ gatedBy[s] = "quote" /\ quotes[s] = "close"
        \/ gatedBy[s] = "minute" /\ quotes[s] = "none" /\ IsLanded(<<"1m", s>>)
BarsSound == WalkTypeOK /\ EntryIsHeld /\ JudgedBySession

\* Once the hitches are over every bar that can pass its checks has landed, as long as the
\* requests wasted each night on newer ticker-days that cannot are fewer than the budget,
\* whatever is wasted on older ones.
Judgeable(d) ==
    /\ Served(d)
    /\ Freq(d) = "1d" => \/ QuoteGate(Session(d)) = "close"
                         \/ /\ QuoteGate(Session(d)) = "none"
                            /\ LET m == <<"1m", Session(d)>> IN IsLanded(m) /\ file[m] # Nothing
Wasted(d) == {e \in Planned : Before(e, d) /\ ~IsLanded(e) /\ ~Served(e)}
BarsLand ==
    <>[](\A d \in TickerDays :
             Judgeable(d) /\ Cardinality(Wasted(d)) < Budget => IsLanded(d))
=============================================================================
