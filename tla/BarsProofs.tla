----------------------------- MODULE BarsProofs ------------------------------
(***************************************************************************)
(* Theorems about the daily and minute bars: the walk of BarSweep, for     *)
(* every number of sessions and of overlapping runs, every budget and      *)
(* every set of answers that fail their checks; and the imports of         *)
(* BarImport, for every set of keys and of sources, and any number of      *)
(* imports, undos, deaths and other writers.                               *)
(***************************************************************************)
EXTENDS BarSweep, BarImport, SequenceTheorems, WellFoundedInduction, TLAPS

------------------------------------------------------------------------------
(* The walk (BarSweep). *)

(***************************************************************************)
(* What a run knows stays true while it walks: quotes once sealed and bars *)
(* once recorded are never taken back.                                     *)
(***************************************************************************)
RecordStates == [pc : {"record"}, by : Asked, of : Snapshot]
Shape(w) == w.days # {} /\ (w.pc = "walk" => w.left > 0)
Known(w) == w.sealed \subseteq Sealed /\ \A s \in w.minutes : IsLanded(<<"1m", s>>)
Judged(by, d) ==
    \/ by = "ungated" /\ Freq(d) = "1m"
    \/ by = "quote" /\ Freq(d) = "1d" /\ quotes[Session(d)] = "close"
    \/ by = "minute" /\ Freq(d) = "1d" /\ quotes[Session(d)] = "none"
         /\ IsLanded(<<"1m", Session(d)>>)

Place(r, v) ==
    \/ v = Idle
    \/ /\ v \in Snapshot /\ Shape(v) /\ Known(v)
       /\ v.pc \in Asked => Judged(v.pc, First(v.days))
    \/ /\ v \in RecordStates /\ v.of.days # {} /\ Known(v.of)
       /\ Judged(v.by, First(v.of.days)) /\ file[First(v.of.days)] = r

\* Only the ticker-day under the lock, and those a run died over, may differ from their entry.
EntryKept ==
    \A d \in TickerDays \ torn :
        IsLanded(d) => \/ file[d] \in {entry[d], Nothing}
                       \/ writer # Nothing /\ d = First(walk[writer].of.days)

BarInv ==
    /\ WalkTypeOK /\ JudgedBySession /\ EntryKept
    /\ writer \in Runs \cup {Nothing}
    /\ \A r \in Runs : Place(r, walk[r])

\* Evidence and entries only ever come.
Grows ==
    /\ \A s \in Days : quotes[s] # Nothing => quotes'[s] = quotes[s]
    /\ \A d \in TickerDays : IsLanded(d) => IsLanded(d)'

------------------------------------------------------------------------------
(* Lemmas about the operators. *)

LEMMA NewestSession ==
    ASSUME NEW S \in SUBSET Days, S # {}
    PROVE  \E x \in S : \A y \in S : y <= x
<1> DEFINE less == {ss \in Nat \X Nat : ss[1] < ss[2]}
           T == {LastSession - s : s \in S}
<1>1. S \subseteq Nat /\ T \subseteq Nat /\ T # {}
  <2>1. \A s \in S : s \in Nat /\ LastSession - s \in Nat
    BY BarSweepConstants DEF Days
  <2> QED
    BY <2>1
<1>2. IsWellFoundedOn(less, Nat)
  BY NatLessThanWellFounded DEF OpToRel
<1>3. PICK t \in T : \A u \in T : ~ (<<u, t>> \in less)
  <2> HIDE DEF less, T
  <2> QED
    BY <1>1, <1>2, WFMin
<1>4. PICK x \in S : t = LastSession - x
  OBVIOUS
<1>5. ASSUME NEW y \in S PROVE y <= x
  <2>1. LastSession - y \in T /\ LastSession - y \in Nat /\ t \in Nat
    BY <1>1
  <2>2. ~ (LastSession - y < t)
    BY <1>3, <2>1
  <2> QED
    BY <1>1, <1>4, <2>1, <2>2, BarSweepConstants
<1> QED
  BY <1>5

\* The walk takes a ticker-day of its own days.
LEMMA FirstIsOne ==
    ASSUME NEW days \in SUBSET TickerDays, days # {}
    PROVE  First(days) \in days
<1> DEFINE S == {Session(d) : d \in days}
<1>1. S \in SUBSET Days /\ S # {}
  BY DEF TickerDays, Session
<1>2. PICK x \in S : \A y \in S : y <= x
  <2> HIDE DEF S
  <2> QED
    BY <1>1, NewestSession
<1> DEFINE e == IF <<"1m", x>> \in days THEN <<"1m", x>> ELSE <<"1d", x>>
<1>3. e \in days
  BY DEF TickerDays, Session
<1>4. ASSUME NEW f \in days \ {e} PROVE Before(e, f)
  <2>1. Session(f) \in S /\ Session(f) <= x /\ Session(e) = x
    BY <1>2 DEF Session
  <2>2. x \in Int /\ Session(f) \in Int
    BY <1>1, <2>1 DEF Days
  <2>3. CASE Session(f) = x
    <3>1. f = <<"1m", x>> \/ f = <<"1d", x>>
      BY <2>3 DEF TickerDays, Session
    <3> QED
      BY <2>1, <2>3, <3>1 DEF Before, Freq, Session
  <2>4. CASE Session(f) # x
    BY <2>1, <2>2, <2>4 DEF Before
  <2> QED
    BY <2>3, <2>4
<1> HIDE DEF e
<1> QED
  BY <1>3, <1>4 DEF First

LEMMA AdvanceType ==
    ASSUME NEW w \in Snapshot, w.days # {}
    PROVE  \/ Advance(w) = Idle
           \/ /\ Advance(w) \in Snapshot /\ Shape(Advance(w)) /\ Advance(w).pc = "walk"
              /\ Advance(w).sealed = w.sealed /\ Advance(w).minutes = w.minutes
<1> DEFINE rest == w.days \ {First(w.days)}
<1>1. CASE rest = {} \/ w.left = 0
  BY <1>1 DEF Advance
<1>2. CASE ~(rest = {} \/ w.left = 0)
  <2>1. Advance(w) = [w EXCEPT !.pc = "walk", !.days = rest]
    BY <1>2 DEF Advance
  <2>2. rest \subseteq TickerDays /\ w.left > 0
    BY <1>2 DEF Snapshot
  <2> HIDE DEF rest
  <2> QED
    BY <1>2, <2>1, <2>2 DEF Snapshot, Shape
<1> QED
  BY <1>1, <1>2

LEMMA SpendType ==
    ASSUME NEW w \in Snapshot, w.left > 0
    PROVE  /\ Spend(w) \in Snapshot /\ Spend(w).days = w.days /\ Spend(w).pc = w.pc
           /\ Spend(w).sealed = w.sealed /\ Spend(w).minutes = w.minutes
BY DEF Snapshot, Spend

LEMMA KnownStays ==
    ASSUME Grows, NEW w \in Snapshot, Known(w)
    PROVE  Known(w)'
BY DEF Grows, Known, Sealed, IsLanded, TickerDays, Snapshot

LEMMA JudgedStays ==
    ASSUME Grows, NEW by, NEW d \in TickerDays, Judged(by, d)
    PROVE  Judged(by, d)'
<1>1. Session(d) \in Days /\ <<"1m", Session(d)>> \in TickerDays
  BY DEF TickerDays, Session
<1> QED
  BY <1>1, BarSweepConstants DEF Grows, Judged

------------------------------------------------------------------------------
(* The inductive invariant. *)

LEMMA PlaceType ==
    ASSUME BarInv, NEW r \in Runs
    PROVE  /\ walk[r] \in {Idle} \cup Snapshot \cup RecordStates
           /\ walk[r].pc \in {"idle", "walk", "record"} \cup Asked
           /\ walk[r].pc = "idle" => walk[r] = Idle
           /\ walk[r].pc \in Asked \cup {"walk"} =>
                /\ walk[r] \in Snapshot /\ Shape(walk[r]) /\ Known(walk[r])
                /\ First(walk[r].days) \in TickerDays
           /\ walk[r].pc \in Asked => Judged(walk[r].pc, First(walk[r].days))
           /\ walk[r].pc = "record" =>
                /\ walk[r] \in RecordStates /\ walk[r].of \in Snapshot /\ walk[r].of.days # {}
                /\ Known(walk[r].of) /\ First(walk[r].of.days) \in TickerDays
                /\ Judged(walk[r].by, First(walk[r].of.days))
                /\ file[First(walk[r].of.days)] = r /\ writer = r
<1>1. Place(r, walk[r])
  BY DEF BarInv
<1>2. CASE walk[r] = Idle
  BY <1>2 DEF Idle, Asked
<1>3. CASE walk[r] \in Snapshot /\ Shape(walk[r]) /\ Known(walk[r])
           /\ (walk[r].pc \in Asked => Judged(walk[r].pc, First(walk[r].days)))
  <2>1. walk[r].days \in SUBSET TickerDays /\ walk[r].days # {} /\ walk[r].pc \in Asked \cup {"walk"}
    BY <1>3 DEF Snapshot, Shape
  <2>2. First(walk[r].days) \in TickerDays
    BY <2>1, FirstIsOne
  <2> QED
    BY <1>3, <2>1, <2>2 DEF Asked
<1>4. CASE walk[r] \in RecordStates /\ walk[r].of.days # {} /\ Known(walk[r].of)
           /\ Judged(walk[r].by, First(walk[r].of.days)) /\ file[First(walk[r].of.days)] = r
  <2>1. walk[r].of \in Snapshot /\ walk[r].pc = "record"
    BY <1>4 DEF RecordStates
  <2>2. First(walk[r].of.days) \in TickerDays
    BY <1>4, <2>1, FirstIsOne DEF Snapshot
  <2>3. writer = r
    BY <2>1 DEF BarInv, WalkTypeOK
  <2> QED
    BY <1>4, <2>1, <2>2, <2>3 DEF Asked
<1> QED
  BY <1>1, <1>2, <1>3, <1>4 DEF Place

LEMMA PlaceStays ==
    ASSUME BarInv, Grows, NEW q \in Runs, walk'[q] = walk[q],
           walk[q].pc = "record" =>
               file'[First(walk[q].of.days)] = file[First(walk[q].of.days)]
    PROVE  Place(q, walk[q])'
<1>1. CASE walk[q].pc = "idle"
  BY <1>1, PlaceType DEF Place
<1>2. CASE walk[q].pc \in Asked \cup {"walk"}
  <2>1. /\ walk[q] \in Snapshot /\ Shape(walk[q]) /\ Known(walk[q])
        /\ First(walk[q].days) \in TickerDays
        /\ walk[q].pc \in Asked => Judged(walk[q].pc, First(walk[q].days))
    BY <1>2, PlaceType
  <2>2. PICK v \in Snapshot : v = walk[q]
    BY <2>1
  <2>3. Known(v)'
    BY <2>1, <2>2, KnownStays
  <2>4. v.pc \in Asked => Judged(v.pc, First(v.days))'
    BY <2>1, <2>2, JudgedStays
  <2>5. Shape(v)
    BY <2>1, <2>2
  <2>6. Place(q, v)'
    BY <2>3, <2>4, <2>5 DEF Place, Shape
  <2> QED
    BY <2>2, <2>6 DEF Place
<1>3. CASE walk[q].pc = "record"
  <2>1. /\ walk[q] \in RecordStates /\ walk[q].of \in Snapshot /\ walk[q].of.days # {}
        /\ Known(walk[q].of) /\ First(walk[q].of.days) \in TickerDays
        /\ Judged(walk[q].by, First(walk[q].of.days)) /\ file[First(walk[q].of.days)] = q
    BY <1>3, PlaceType
  <2>2. PICK v \in RecordStates : v = walk[q]
    BY <2>1
  <2>3. Known(v.of)'
    BY <2>1, <2>2, KnownStays
  <2>4. Judged(v.by, First(v.of.days))'
    BY <2>1, <2>2, JudgedStays
  <2>5. Place(q, v)'
    BY <1>3, <2>1, <2>2, <2>3, <2>4 DEF Place
  <2> QED
    BY <2>2, <2>5 DEF Place
<1> QED
  BY <1>1, <1>2, <1>3, PlaceType

\* What the walk of one run does to the others: nothing.
LEMMA RunMoves ==
    ASSUME BarInv, Grows, NEW r \in Runs, NEW v,
           walk' = [walk EXCEPT ![r] = v],
           Place(r, v)', v \in {Idle} \cup Snapshot \cup RecordStates,
           \A q \in Runs \ {r} : walk[q].pc = "record" =>
               file'[First(walk[q].of.days)] = file[First(walk[q].of.days)]
    PROVE  /\ \A q \in Runs : Place(q, walk[q])'
           /\ walk' \in [Runs -> {Idle} \cup Snapshot \cup RecordStates]
           /\ \A q \in Runs \ {r} : walk'[q] = walk[q]
           /\ walk'[r] = v
<1>1. walk \in [Runs -> {Idle} \cup Snapshot \cup RecordStates]
  BY DEF BarInv, WalkTypeOK, RecordStates
<1>2. walk'[r] = v /\ \A q \in Runs \ {r} : walk'[q] = walk[q]
  BY <1>1
<1>3. Place(r, walk[r])'
  BY <1>2 DEF Place
<1>4. ASSUME NEW q \in Runs \ {r} PROVE Place(q, walk[q])'
  BY <1>2, PlaceStays
<1> QED
  BY <1>1, <1>2, <1>3, <1>4

LEMMA BarInvInit == WalkInit => BarInv
<1> SUFFICES ASSUME WalkInit PROVE BarInv
  OBVIOUS
<1>1. WalkTypeOK
  <2>1. \A d \in TickerDays : entry[d] = Nothing /\ file[d] = Nothing
    BY DEF WalkInit
  <2>2. \A r \in Runs : writer # r /\ walk[r].pc # "record"
    BY BarSweepConstants DEF WalkInit, Idle
  <2> QED
    BY <2>1, <2>2, BarSweepConstants DEF WalkInit, WalkTypeOK, Sealed
<1>2. JudgedBySession /\ EntryKept
  BY DEF WalkInit, JudgedBySession, EntryKept, IsLanded, TickerDays
<1> QED
  BY <1>1, <1>2 DEF BarInv, WalkInit, Place

\* A step of a run that moves no partition, no evidence and not the lock.
LEMMA WalkStep ==
    ASSUME BarInv, NEW r \in Runs, NEW v, walk' = [walk EXCEPT ![r] = v],
           v \in {Idle} \cup Snapshot, Place(r, v)', walk[r].pc # "record",
           UNCHANGED <<evidence, partitions, writer>>, hitches' \in 0..MaxHitches
    PROVE  BarInv'
<1> USE DEF evidence, partitions
<1>1. Grows
  BY DEF Grows, IsLanded
<1>2. /\ \A q \in Runs : Place(q, walk[q])'
      /\ walk' \in [Runs -> {Idle} \cup Snapshot \cup RecordStates]
      /\ \A q \in Runs \ {r} : walk'[q] = walk[q]
      /\ walk'[r] = v
  BY <1>1, RunMoves
<1>3. v.pc # "record"
  BY DEF Idle, Snapshot, Asked
<1>4. WalkTypeOK'
  <2>1. \A q \in Runs : writer' = q <=> walk'[q].pc = "record"
    BY <1>2, <1>3 DEF BarInv, WalkTypeOK
  <2> QED
    BY <1>2, <2>1 DEF BarInv, WalkTypeOK, Sealed, RecordStates
<1>5. JudgedBySession'
  BY DEF BarInv, JudgedBySession, IsLanded
<1>6. EntryKept'
  <2>1. writer # Nothing => writer \in Runs \ {r}
    BY DEF BarInv, WalkTypeOK
  <2> QED
    BY <1>2, <2>1 DEF BarInv, EntryKept, IsLanded
<1> QED
  BY <1>2, <1>4, <1>5, <1>6 DEF BarInv

LEMMA BeginsStep ==
    ASSUME BarInv, NEW r \in Runs, NEW days \in SUBSET TickerDays, NEW budget \in Nat \ {0},
           Begins(r, days, budget)
    PROVE  BarInv'
<1>1. PICK v \in Snapshot :
        v = [pc |-> "walk", days |-> {d \in days : ~IsLanded(d)}, left |-> budget,
             sealed |-> Sealed, minutes |-> {s \in Days : IsLanded(<<"1m", s>>)}]
  BY DEF Snapshot, Sealed
<1>2. Shape(v) /\ v.pc = "walk" /\ Known(v)
  BY <1>1 DEF Shape, Known, Begins
<1>3. Known(v)'
  BY <1>2 DEF Begins, Known, Sealed, IsLanded, evidence, partitions
<1>4. Place(r, v)'
  BY <1>2, <1>3 DEF Place, Shape, Asked
<1>5. hitches' \in 0..MaxHitches
  BY DEF Begins, BarInv, WalkTypeOK
<1>6. walk' = [walk EXCEPT ![r] = v] /\ walk[r].pc # "record"
  BY <1>1 DEF Begins, Idle
<1> QED
  BY <1>4, <1>5, <1>6, WalkStep DEF Begins

\* Passed over or held, a ticker-day leaves the rest of the walk as it was.
LEMMA AdvancePlace ==
    ASSUME BarInv, NEW r \in Runs, NEW w \in Snapshot, w.days # {}, Known(w)'
    PROVE  Advance(w) \in {Idle} \cup Snapshot /\ Place(r, Advance(w))'
<1>1. CASE Advance(w) = Idle
  BY <1>1 DEF Place
<1>2. CASE Advance(w) # Idle
  <2>1. PICK v \in Snapshot : v = Advance(w)
    BY <1>2, AdvanceType
  <2>2. Shape(v) /\ v.pc = "walk" /\ v.sealed = w.sealed /\ v.minutes = w.minutes
    BY <1>2, <2>1, AdvanceType
  <2>3. Known(v)'
    BY <2>2 DEF Known
  <2>4. Place(r, v)'
    BY <2>2, <2>3 DEF Place, Shape, Asked
  <2> QED
    BY <2>1, <2>4 DEF Place
<1> QED
  BY <1>1, <1>2

LEMMA PassesStep == ASSUME BarInv, NEW r \in Runs, Passes(r) PROVE BarInv'
<1>1. walk[r].pc = "walk" /\ walk[r] \in Snapshot /\ walk[r].days # {} /\ Known(walk[r])
  BY PlaceType DEF Passes, Shape
<1>2. PICK w \in Snapshot : w = walk[r]
  BY <1>1
<1>3. Known(w)'
  BY <1>1, <1>2 DEF Passes, Known, Sealed, IsLanded, evidence, partitions
<1>4. Advance(w) \in {Idle} \cup Snapshot /\ Place(r, Advance(w))'
  BY <1>1, <1>2, <1>3, AdvancePlace
<1>5. hitches' \in 0..MaxHitches /\ walk' = [walk EXCEPT ![r] = Advance(w)]
  BY <1>2 DEF Passes, BarInv, WalkTypeOK
<1> QED
  BY <1>1, <1>4, <1>5, WalkStep DEF Passes

LEMMA HoldsStep == ASSUME BarInv, NEW r \in Runs, Holds(r) PROVE BarInv'
<1>1. walk[r].pc = "walk" /\ walk[r] \in Snapshot /\ Shape(walk[r]) /\ Known(walk[r])
  BY PlaceType DEF Holds
<1>2. PICK w \in Snapshot : w = Spend(walk[r]) /\ w.days # {} /\ w.sealed = walk[r].sealed
                            /\ w.minutes = walk[r].minutes
  BY <1>1, SpendType DEF Shape
<1>3. Known(w)'
  BY <1>1, <1>2 DEF Holds, Known, Sealed, IsLanded, evidence, partitions
<1>4. Advance(w) \in {Idle} \cup Snapshot /\ Place(r, Advance(w))'
  BY <1>2, <1>3, AdvancePlace
<1>5. hitches' \in 0..MaxHitches
  BY BarSweepConstants DEF Holds, BarInv, WalkTypeOK, Hitch
<1>6. walk' = [walk EXCEPT ![r] = Advance(w)]
  BY <1>2 DEF Holds
<1> QED
  BY <1>1, <1>4, <1>5, <1>6, WalkStep DEF Holds

\* The reference a request is made with is what the bar was judged by.
LEMMA ReferenceJudges ==
    ASSUME NEW w \in Snapshot, Known(w), NEW d \in TickerDays, Reference(w, d) # "none"
    PROVE  Reference(w, d) \in Asked /\ Judged(Reference(w, d), d)
<1>1. CASE Freq(d) = "1m"
  BY <1>1 DEF Reference, Judged, Asked
<1>2. CASE Freq(d) = "1d" /\ QuoteGate(Session(d)) = "close"
  <2>1. quotes[Session(d)] = "close"
    BY <1>2 DEF QuoteGate
  <2>2. Reference(w, d) = "quote"
    BY <1>2 DEF Reference, FallsBack, GateIsLost
  <2> QED
    BY <1>2, <2>1, <2>2 DEF Judged, Asked
<1>3. CASE Freq(d) = "1d" /\ QuoteGate(Session(d)) # "close"
  <2>1. FallsBack(w, Session(d)) /\ Reference(w, d) = "minute"
    BY <1>3 DEF Reference
  <2>2. quotes[Session(d)] = "none" /\ Session(d) \in w.minutes
    BY <2>1 DEF FallsBack, GateIsLost, QuoteGate
  <2> QED
    BY <1>3, <2>1, <2>2 DEF Judged, Asked, Known
<1> QED
  BY <1>1, <1>2, <1>3 DEF TickerDays, Freq

LEMMA FetchesStep == ASSUME BarInv, NEW r \in Runs, Fetches(r) PROVE BarInv'
<1>1. /\ walk[r].pc = "walk" /\ walk[r] \in Snapshot /\ Shape(walk[r]) /\ Known(walk[r])
      /\ First(walk[r].days) \in TickerDays
  BY PlaceType DEF Fetches
<1>2. PICK d \in TickerDays : d = First(walk[r].days)
  BY <1>1
<1>3. PICK by \in Asked : by = Reference(walk[r], d) /\ Judged(by, d)
  BY <1>1, <1>2, ReferenceJudges DEF Fetches
<1>4. PICK w \in Snapshot : w = Spend(walk[r]) /\ w.days = walk[r].days
                            /\ w.sealed = walk[r].sealed /\ w.minutes = walk[r].minutes
  BY <1>1, SpendType DEF Shape
<1>5. PICK v \in Snapshot : v = [w EXCEPT !.pc = by]
  BY DEF Snapshot
<1>6. /\ v.pc = by /\ v.days = walk[r].days /\ v.sealed = walk[r].sealed
      /\ v.minutes = walk[r].minutes
  BY <1>4, <1>5 DEF Snapshot
<1>7. walk' = [walk EXCEPT ![r] = v]
  BY <1>2, <1>3, <1>4, <1>5 DEF Fetches
<1>8. Shape(v) /\ First(v.days) = d
  BY <1>1, <1>2, <1>6 DEF Shape, Asked
<1>9. Known(v)'
  BY <1>1, <1>6 DEF Fetches, Known, Sealed, IsLanded, evidence, partitions
<1>10. Judged(by, d)'
  BY <1>3 DEF Fetches, Judged, IsLanded, evidence, partitions
<1>11. Place(r, v)'
  BY <1>6, <1>8, <1>9, <1>10 DEF Place, Shape
<1>12. hitches' \in 0..MaxHitches
  BY DEF Fetches, BarInv, WalkTypeOK
<1> QED
  BY <1>1, <1>7, <1>11, <1>12, WalkStep DEF Fetches

LEMMA RenamesStep == ASSUME BarInv, NEW r \in Runs, Renames(r) PROVE BarInv'
<1> USE DEF evidence
<1>1. /\ walk[r] \in Snapshot /\ Shape(walk[r]) /\ Known(walk[r]) /\ walk[r].pc \in Asked
      /\ First(walk[r].days) \in TickerDays /\ Judged(walk[r].pc, First(walk[r].days))
  BY PlaceType DEF Renames
<1>2. PICK w \in Snapshot : w = walk[r]
  BY <1>1
<1>3. PICK d \in TickerDays : d = First(w.days)
  BY <1>1, <1>2
<1>4. PICK v \in RecordStates : v = [pc |-> "record", by |-> w.pc, of |-> w]
  BY <1>1, <1>2 DEF RecordStates
<1>5. /\ walk' = [walk EXCEPT ![r] = v] /\ file' = [file EXCEPT ![d] = r]
      /\ writer = Nothing /\ writer' = r
      /\ UNCHANGED <<evidence, entry, torn, gatedBy, hitches>>
  BY <1>2, <1>3, <1>4 DEF Renames
<1>6. file \in [TickerDays -> Runs \cup {Nothing}]
  BY DEF BarInv, WalkTypeOK
<1>7. Grows
  BY <1>5 DEF Grows, IsLanded
<1>8. \A q \in Runs : walk[q].pc # "record"
  BY <1>5, BarSweepConstants DEF BarInv, WalkTypeOK
<1>9. Known(w)' /\ Judged(w.pc, d)'
  BY <1>1, <1>2, <1>3, <1>7, KnownStays, JudgedStays
<1>10. Place(r, v)'
  BY <1>1, <1>2, <1>3, <1>4, <1>5, <1>6, <1>9 DEF Place, Shape
<1>11. /\ \A q \in Runs : Place(q, walk[q])'
       /\ walk' \in [Runs -> {Idle} \cup Snapshot \cup RecordStates]
       /\ \A q \in Runs \ {r} : walk'[q] = walk[q]
       /\ walk'[r] = v
  BY <1>5, <1>7, <1>8, <1>10, RunMoves
<1>12. WalkTypeOK'
  <2>1. \A q \in Runs : writer' = q <=> walk'[q].pc = "record"
    BY <1>4, <1>5, <1>8, <1>11
  <2> QED
    BY <1>5, <1>6, <1>11, <2>1 DEF BarInv, WalkTypeOK, Sealed, RecordStates
<1>13. JudgedBySession'
  BY <1>5 DEF BarInv, JudgedBySession, IsLanded
<1>14. EntryKept'
  BY <1>3, <1>4, <1>5, <1>6, <1>11, BarSweepConstants DEF BarInv, EntryKept, IsLanded
<1> QED
  BY <1>5, <1>11, <1>12, <1>13, <1>14 DEF BarInv

LEMMA RecordsStep == ASSUME BarInv, NEW r \in Runs, Records(r) PROVE BarInv'
<1> USE DEF evidence
<1>1. /\ walk[r] \in RecordStates /\ walk[r].of \in Snapshot /\ walk[r].of.days # {}
      /\ Known(walk[r].of) /\ First(walk[r].of.days) \in TickerDays
      /\ Judged(walk[r].by, First(walk[r].of.days))
      /\ file[First(walk[r].of.days)] = r /\ writer = r
  BY PlaceType DEF Records
<1>2. PICK w \in Snapshot : w = walk[r].of
  BY <1>1
<1>3. PICK d \in TickerDays : d = First(w.days)
  BY <1>1, <1>2
<1>4. PICK by \in Asked : by = walk[r].by
  BY <1>1 DEF RecordStates
<1>5. Session(d) \in Days /\ d = <<Freq(d), Session(d)>> /\ Freq(d) \in {"1m", "1d"}
  BY DEF TickerDays, Session, Freq
<1>6. PICK u \in Snapshot :
        u = IF Freq(d) = "1m" THEN [w EXCEPT !.minutes = w.minutes \cup {Session(d)}] ELSE w
  BY <1>5 DEF Snapshot
<1>7. /\ walk' = [walk EXCEPT ![r] = Advance(u)] /\ entry' = [entry EXCEPT ![d] = r]
      /\ torn' = torn \ {d} /\ writer' = Nothing
      /\ gatedBy' = IF Freq(d) = "1m" THEN gatedBy ELSE [gatedBy EXCEPT ![Session(d)] = by]
      /\ UNCHANGED <<evidence, file, hitches>>
  BY <1>2, <1>3, <1>4, <1>6 DEF Records
<1>8. /\ entry \in [TickerDays -> Runs \cup {Nothing}] /\ r # Nothing
      /\ gatedBy \in [Days -> {"quote", "minute", Nothing}]
  BY BarSweepConstants DEF BarInv, WalkTypeOK
<1>9. Grows
  BY <1>7, <1>8 DEF Grows, IsLanded
<1>10. Known(w)' /\ Judged(by, d)'
  BY <1>1, <1>2, <1>3, <1>4, <1>9, KnownStays, JudgedStays
<1>11. u.days = w.days /\ Known(u)'
  BY <1>5, <1>6, <1>7, <1>8, <1>10 DEF Known, Snapshot, IsLanded
<1>12. Advance(u) \in {Idle} \cup Snapshot /\ Place(r, Advance(u))'
  BY <1>1, <1>2, <1>11, AdvancePlace
<1>13. /\ \A q \in Runs : Place(q, walk[q])'
       /\ walk' \in [Runs -> {Idle} \cup Snapshot \cup RecordStates]
       /\ \A q \in Runs \ {r} : walk'[q] = walk[q]
       /\ walk'[r] = Advance(u)
  BY <1>7, <1>9, <1>12, RunMoves
<1>14. WalkTypeOK'
  <2>1. Advance(u).pc # "record"
    BY <1>12 DEF Idle, Snapshot, Asked
  <2>2. \A q \in Runs : writer' = q <=> walk'[q].pc = "record"
    BY <1>1, <1>7, <1>8, <1>13, <2>1, BarSweepConstants DEF BarInv, WalkTypeOK
  <2>3. gatedBy' \in [Days -> {"quote", "minute", Nothing}]
    BY <1>5, <1>7, <1>8, <1>10 DEF Judged
  <2>4. entry' \in [TickerDays -> Runs \cup {Nothing}]
    BY <1>7, <1>8
  <2> QED
    BY <1>7, <1>13, <2>2, <2>3, <2>4 DEF BarInv, WalkTypeOK, Sealed, RecordStates
<1>15. JudgedBySession'
  <2> SUFFICES ASSUME NEW s \in Days, IsLanded(<<"1d", s>>)'
               PROVE  (\/ gatedBy[s] = "quote" /\ quotes[s] = "close"
                       \/ gatedBy[s] = "minute" /\ quotes[s] = "none" /\ IsLanded(<<"1m", s>>))'
    BY DEF JudgedBySession
  <2>1. <<"1m", s>> \in TickerDays /\ <<"1d", s>> \in TickerDays
    BY DEF TickerDays
  <2>2. CASE d = <<"1d", s>>
    <3>1. Session(d) = s /\ Freq(d) = "1d" /\ gatedBy'[s] = by
      BY <1>7, <1>8, <2>2 DEF Session, Freq
    <3> QED
      BY <1>10, <3>1 DEF Judged
  <2>3. CASE d # <<"1d", s>>
    <3>1. IsLanded(<<"1d", s>>) /\ gatedBy'[s] = gatedBy[s]
      BY <1>5, <1>7, <1>8, <2>1, <2>3 DEF IsLanded
    <3> QED
      BY <1>7, <1>9, <2>1, <3>1 DEF BarInv, JudgedBySession, Grows
  <2> QED
    BY <2>2, <2>3
<1>16. EntryKept'
  BY <1>1, <1>2, <1>3, <1>7, <1>8 DEF BarInv, EntryKept, IsLanded
<1> QED
  BY <1>7, <1>13, <1>14, <1>15, <1>16 DEF BarInv

LEMMA DiesStep == ASSUME BarInv, NEW r \in Runs, Dies(r) PROVE BarInv'
<1> USE DEF evidence
<1>1. Grows
  BY DEF Dies, Grows, IsLanded
<1>2. Place(r, Idle)' /\ walk' = [walk EXCEPT ![r] = Idle] /\ file' = file
  BY DEF Place, Dies
<1>3. /\ \A q \in Runs : Place(q, walk[q])'
      /\ walk' \in [Runs -> {Idle} \cup Snapshot \cup RecordStates]
      /\ \A q \in Runs \ {r} : walk'[q] = walk[q]
      /\ walk'[r] = Idle
  BY <1>1, <1>2, RunMoves
<1>4. walk[r].pc = "record" <=> writer = r
  BY DEF BarInv, WalkTypeOK
<1>5. WalkTypeOK'
  <2>1. \A q \in Runs : writer' = q <=> walk'[q].pc = "record"
    BY <1>3, <1>4, BarSweepConstants DEF Dies, BarInv, WalkTypeOK, Idle
  <2>2. torn' \subseteq TickerDays
    BY PlaceType DEF Dies, BarInv, WalkTypeOK
  <2>3. hitches' \in 0..MaxHitches
    BY BarSweepConstants DEF Dies, Hitch, BarInv, WalkTypeOK
  <2> QED
    BY <1>3, <2>1, <2>2, <2>3 DEF Dies, BarInv, WalkTypeOK, Sealed, RecordStates
<1>6. JudgedBySession'
  BY DEF Dies, BarInv, JudgedBySession, IsLanded
<1>7. EntryKept'
  <2>1. CASE writer = r
    BY <1>4, <2>1, BarSweepConstants DEF Dies, BarInv, EntryKept, IsLanded
  <2>2. CASE writer # r
    <3>1. writer' = writer /\ torn' = torn /\ (writer # Nothing => writer \in Runs \ {r})
      BY <1>4, <2>2 DEF Dies, BarInv
    <3> QED
      BY <1>3, <3>1 DEF Dies, BarInv, EntryKept, IsLanded
  <2> QED
    BY <2>1, <2>2
<1>8. writer' \in Runs \cup {Nothing}
  BY DEF Dies, BarInv
<1> QED
  BY <1>3, <1>5, <1>6, <1>7, <1>8 DEF BarInv

\* A step of the day, the compaction, the battery or the trim moves no run.
LEMMA DayStep ==
    ASSUME BarInv, Grows, UNCHANGED <<entry, torn, gatedBy, walk, writer>>, WalkTypeOK',
           EntryKept', \A d \in TickerDays : writer # Nothing => file'[d] = file[d]
    PROVE  BarInv'
<1>1. ASSUME NEW q \in Runs PROVE Place(q, walk[q])'
  <2>1. walk[q].pc = "record" =>
            file'[First(walk[q].of.days)] = file[First(walk[q].of.days)]
    BY PlaceType, BarSweepConstants
  <2> QED
    BY <2>1, PlaceStays
<1>2. JudgedBySession'
  <2>1. \A s \in Days : quotes[s] \in {"close", "none"} => quotes'[s] = quotes[s]
    BY BarSweepConstants DEF Grows
  <2> QED
    BY <2>1 DEF BarInv, JudgedBySession, IsLanded
<1> QED
  BY <1>1, <1>2 DEF BarInv

LEMMA EvidenceStep ==
    ASSUME BarInv, Closes \/ \E s \in Days : Seals(s) \/ Withholds(s) \/ SignsOff(s)
    PROVE  BarInv'
<1> USE DEF partitions
<1>1. UNCHANGED <<partitions, walk, writer>>
  BY DEF Closes, Seals, Withholds, SignsOff
<1>2. Grows
  <2>1. \A s \in Days : quotes[s] # Nothing => quotes'[s] = quotes[s]
    BY DEF Closes, Seals, Withholds, SignsOff, Sealed, BarInv, WalkTypeOK
  <2> QED
    BY <1>1, <2>1 DEF Grows, IsLanded
<1>3. EntryKept'
  BY <1>1 DEF BarInv, EntryKept, IsLanded
<1>4. CASE Closes
  BY <1>1, <1>2, <1>3, <1>4, DayStep, BarSweepConstants
     DEF Closes, BarInv, WalkTypeOK, Sealed
<1>5. ASSUME NEW s \in Days, Seals(s) PROVE BarInv'
  <2>1. WalkTypeOK'
    BY <1>1, <1>5, BarSweepConstants DEF Seals, BarInv, WalkTypeOK, Sealed
  <2> QED
    BY <1>1, <1>2, <1>3, <2>1, DayStep
<1>6. ASSUME NEW s \in Days, Withholds(s) \/ SignsOff(s) PROVE BarInv'
  <2>1. WalkTypeOK'
    BY <1>1, <1>6, BarSweepConstants DEF Withholds, SignsOff, Hitch, BarInv, WalkTypeOK, Sealed
  <2> QED
    BY <1>1, <1>2, <1>3, <2>1, DayStep
<1> QED
  BY <1>4, <1>5, <1>6

LEMMA TrimsStep ==
    ASSUME BarInv, NEW s \in Days, Trims(s) \/ Restores(s)
    PROVE  BarInv'
<1> USE DEF evidence
<1> DEFINE d == <<"1m", s>>
<1>1. d \in TickerDays
  BY DEF TickerDays
<1>2. /\ writer = Nothing /\ hitches' \in 0..MaxHitches
      /\ \E f \in {Nothing, entry[d]} : file' = [file EXCEPT ![d] = f]
      /\ UNCHANGED <<evidence, entry, torn, gatedBy, walk, writer>>
  BY BarSweepConstants DEF Trims, Restores, Hitch, BarInv, WalkTypeOK
<1> HIDE DEF d
<1>3. file' \in [TickerDays -> Runs \cup {Nothing}] /\ EntryKept'
  BY <1>1, <1>2 DEF BarInv, WalkTypeOK, EntryKept, IsLanded
<1>4. WalkTypeOK'
  BY <1>2, <1>3 DEF BarInv, WalkTypeOK, Sealed
<1>5. Grows
  BY <1>2 DEF Grows, IsLanded
<1> QED
  BY <1>2, <1>3, <1>4, <1>5, DayStep

LEMMA BarStutter == BarInv /\ UNCHANGED walkVars => BarInv'
<1> SUFFICES ASSUME BarInv, UNCHANGED walkVars PROVE BarInv'
  OBVIOUS
<1> USE DEF walkVars, evidence, partitions
<1>1. Grows /\ EntryKept' /\ WalkTypeOK'
  BY DEF Grows, BarInv, EntryKept, WalkTypeOK, IsLanded, Sealed
<1> QED
  BY <1>1, DayStep

LEMMA BarStep == BarInv /\ [WalkNext]_walkVars => BarInv'
<1> SUFFICES ASSUME BarInv, [WalkNext]_walkVars PROVE BarInv'
  OBVIOUS
<1>1. ASSUME NEW r \in Runs, Backfill(r) PROVE BarInv'
  BY <1>1, BeginsStep, BarSweepConstants DEF Backfill, Planned
<1>2. ASSUME NEW r \in Runs, NEW s \in Days, FetchSession(r, s) PROVE BarInv'
  <2>1. {"1m", "1d"} \X {s} \in SUBSET TickerDays
    BY DEF TickerDays
  <2> QED
    BY <1>2, <2>1, BeginsStep DEF FetchSession
<1>3. ASSUME NEW r \in Runs, Walks(r) PROVE BarInv'
  BY <1>3, PassesStep, HoldsStep, FetchesStep, RenamesStep, RecordsStep DEF Walks
<1>4. ASSUME NEW r \in Runs, Dies(r) PROVE BarInv'
  BY <1>4, DiesStep
<1>5. CASE Closes \/ \E s \in Days : Seals(s) \/ Withholds(s) \/ SignsOff(s)
  BY <1>5, EvidenceStep
<1>6. ASSUME NEW s \in Days, Trims(s) \/ Restores(s) PROVE BarInv'
  BY <1>6, TrimsStep
<1> QED
  BY <1>1, <1>2, <1>3, <1>4, <1>5, <1>6, BarStutter DEF WalkNext

\* The invariant behind BarsSound: what a run knows, it knows for good, and the lock keeps
\* every file but one in step with its entry.
THEOREM BarInvariant == WalkSpec => []BarInv
BY BarInvInit, BarStep, PTL DEF WalkSpec

\* However runs overlap and die, a manifest entry's file is on disk or was trimmed, unless a
\* run died over it, and every daily bar was judged by its own session.
THEOREM BarsSoundAlways == WalkSpec => []BarsSound
<1>1. BarInv => BarsSound
  <2> SUFFICES ASSUME BarInv PROVE EntryIsHeld
    BY DEF BarInv, BarsSound
  <2> QED
    BY DEF BarInv, EntryKept, EntryIsHeld
<1> QED
  BY <1>1, BarInvariant, PTL

------------------------------------------------------------------------------
(* The imports (BarImport). *)

(* A line of a manifest is another's, an import's, or of neither; a source that is  *)
(* not fetched anew has one content.                                                *)
Import == {line \in BarLine : /\ line.key \in Keys => line.source \in Sources
                              /\ line.source \notin Refetched => line.ver = 1}

------------------------------------------------------------------------------
(* Manifests. *)

LEMMA LinesAre ==
  ASSUME NEW m \in Seq(Import)
  PROVE  /\ Len(m) \in Nat /\ DOMAIN m = 1..Len(m)
         /\ \A i \in 1..Len(m) : m[i] \in Import
         /\ KeysOf(m) = {m[i].key : i \in 1..Len(m)} \cap Keys
<1>1. Len(m) \in Nat /\ DOMAIN m = 1..Len(m) /\ \A i \in 1..Len(m) : m[i] \in Import
  OBVIOUS
<1> QED
  BY <1>1 DEF KeysOf

(* A set of positions that has one has a last and a first one.                      *)
LEMMA HasEnds ==
  ASSUME NEW n \in Nat, NEW S \in SUBSET (0..n), S # {}
  PROVE  /\ \E i \in S : \A j \in S : j <= i
         /\ \E i \in S : \A j \in S : i <= j
<1>1. ASSUME NEW T \in SUBSET Nat, T # {} PROVE \E i \in T : \A j \in T : i <= j
  <2>1. PICK i \in T : \A j \in T : ~(<<j, i>> \in OpToRel(<, Nat))
    BY <1>1, NatLessThanWellFounded, WFMin
  <2>2. \A j \in T : ~(j < i)
    BY <2>1 DEF OpToRel
  <2>3. \A j \in T : i <= j
    BY <2>2
  <2> QED
    BY <2>3
<1>2. \E i \in S : \A j \in S : i <= j
  BY <1>1
<1>3. \E i \in S : \A j \in S : j <= i
  <2> DEFINE T == {n - j : j \in S}
  <2>1. T \in SUBSET Nat /\ T # {}
    <3>1. \A j \in S : n - j \in Nat
      OBVIOUS
    <3> QED
      BY <3>1
  <2>2. PICK t \in T : \A u \in T : t <= u
    BY <1>1, <2>1
  <2>3. PICK i \in S : t = n - i
    BY <2>2
  <2>4. ASSUME NEW j \in S PROVE j <= i
    <3>1. n - j \in T
      OBVIOUS
    <3>2. n - i <= n - j
      BY <2>2, <2>3, <3>1
    <3> QED
      BY <3>2
  <2> QED
    BY <2>4
<1> QED
  BY <1>2, <1>3

LEMMA LatestIs ==
  ASSUME NEW m \in Seq(Import), NEW k \in KeysOf(m)
  PROVE  \E i \in 1..Len(m) : /\ m[i].key = k /\ LatestOf(m, k) = m[i]
                              /\ \A j \in 1..Len(m) : m[j].key = k => j <= i
<1> DEFINE S == {i \in 1..Len(m) : m[i].key = k}
           P(i) == i \in 1..Len(m) /\ m[i].key = k /\ \A j \in 1..Len(m) : m[j].key = k => j <= i
<1>1. Len(m) \in Nat /\ DOMAIN m = 1..Len(m) /\ S # {} /\ S \in SUBSET (0..Len(m))
  BY LinesAre
<1>2. \E i : P(i)
  BY <1>1, HasEnds
<1>3. P(CHOOSE i : P(i))
  BY <1>2
<1>4. LatestOf(m, k) = m[CHOOSE i : P(i)]
  <2>1. (CHOOSE i \in DOMAIN m : m[i].key = k /\ \A j \in DOMAIN m : m[j].key = k => j <= i)
          = CHOOSE i : P(i)
    BY <1>1
  <2> QED
    BY <2>1 DEF LatestOf
<1> QED
  BY <1>3, <1>4

LEMMA LatestAt ==
  ASSUME NEW m \in Seq(Import), NEW i \in 1..Len(m), m[i].key \in Keys,
         \A j \in 1..Len(m) : m[j].key = m[i].key => j <= i
  PROVE  m[i].key \in KeysOf(m) /\ LatestOf(m, m[i].key) = m[i]
<1>1. Len(m) \in Nat /\ m[i].key \in KeysOf(m)
  BY LinesAre
<1>2. PICK n \in 1..Len(m) : /\ m[n].key = m[i].key /\ LatestOf(m, m[i].key) = m[n]
                             /\ \A j \in 1..Len(m) : m[j].key = m[i].key => j <= n
  BY <1>1, LatestIs
<1>3. n = i
  BY <1>1, <1>2
<1> QED
  BY <1>1, <1>2, <1>3

LEMMA LatestTyped ==
  ASSUME NEW m \in Seq(Import), NEW k \in KeysOf(m)
  PROVE  /\ k \in Keys /\ LatestOf(m, k) \in Import /\ LatestOf(m, k).key = k
         /\ LatestOf(m, k).source \in Sources /\ LatestOf(m, k).ver \in Version
<1>1. k \in Keys
  BY DEF KeysOf
<1>2. LatestOf(m, k) \in Import /\ LatestOf(m, k).key = k
  BY LatestIs, LinesAre
<1> QED
  BY <1>1, <1>2 DEF Import, BarLine

(* Lines appended: the last of a key is the last among them, or what it was.        *)
LEMMA AppendedIs ==
  ASSUME NEW m \in Seq(Import), NEW tail \in Seq(Import)
  PROVE  /\ m \o tail \in Seq(Import) /\ KeysOf(m \o tail) = KeysOf(m) \cup KeysOf(tail)
         /\ \A k \in KeysOf(tail) : LatestOf(m \o tail, k) = LatestOf(tail, k)
         /\ \A k \in KeysOf(m) \ KeysOf(tail) : LatestOf(m \o tail, k) = LatestOf(m, k)
<1> DEFINE a == m \o tail
<1>1. /\ Len(m) \in Nat /\ Len(tail) \in Nat /\ \A i \in 1..Len(m) : m[i] \in Import
      /\ \A i \in 1..Len(tail) : tail[i] \in Import
      /\ KeysOf(m) = {m[i].key : i \in 1..Len(m)} \cap Keys
      /\ KeysOf(tail) = {tail[i].key : i \in 1..Len(tail)} \cap Keys
  BY LinesAre
<1>2. a \in Seq(Import) /\ Len(a) = Len(m) + Len(tail)
  BY ConcatProperties
<1>3. \A i \in 1..(Len(m) + Len(tail)) : a[i] = IF i <= Len(m) THEN m[i] ELSE tail[i - Len(m)]
  BY ConcatProperties
<1>4. KeysOf(a) = {a[i].key : i \in 1..Len(a)} \cap Keys
  BY <1>2, LinesAre
<1> HIDE DEF a
<1>5. \A i \in 1..Len(m) : i \in 1..Len(a) /\ a[i] = m[i]
  BY <1>1, <1>2, <1>3
<1>6. \A i \in 1..Len(tail) : Len(m) + i \in 1..Len(a) /\ a[Len(m) + i] = tail[i]
  <2> TAKE i \in 1..Len(tail)
  <2>1. Len(m) + i \in 1..(Len(m) + Len(tail)) /\ ~(Len(m) + i <= Len(m)) /\ (Len(m) + i) - Len(m) = i
    BY <1>1
  <2> QED
    BY <1>2, <1>3, <2>1
<1>7. \A i \in 1..Len(a) : i \in 1..Len(m) \/ \E j \in 1..Len(tail) : i = Len(m) + j
  <2> TAKE i \in 1..Len(a)
  <2>1. CASE i <= Len(m)
    BY <1>1, <1>2, <2>1
  <2>2. CASE ~(i <= Len(m))
    <3>1. i - Len(m) \in 1..Len(tail) /\ i = Len(m) + (i - Len(m))
      BY <1>1, <1>2, <2>2
    <3> QED
      BY <3>1
  <2> QED
    BY <2>1, <2>2
<1>8. KeysOf(a) = KeysOf(m) \cup KeysOf(tail)
  <2>1. KeysOf(m) \cup KeysOf(tail) \subseteq KeysOf(a)
    BY <1>1, <1>4, <1>5, <1>6
  <2>2. KeysOf(a) \subseteq KeysOf(m) \cup KeysOf(tail)
    <3> SUFFICES ASSUME NEW k \in KeysOf(a) PROVE k \in KeysOf(m) \/ k \in KeysOf(tail)
      OBVIOUS
    <3>1. PICK i \in 1..Len(a) : a[i].key = k /\ k \in Keys
      BY <1>4
    <3>2. CASE i \in 1..Len(m)
      BY <1>1, <1>5, <3>1, <3>2
    <3>3. CASE \E j \in 1..Len(tail) : i = Len(m) + j
      BY <1>1, <1>6, <3>1, <3>3
    <3> QED
      BY <1>7, <3>2, <3>3
  <2> QED
    BY <2>1, <2>2
<1>9. ASSUME NEW k \in KeysOf(tail) PROVE LatestOf(a, k) = LatestOf(tail, k)
  <2>1. PICK i \in 1..Len(tail) : /\ tail[i].key = k /\ LatestOf(tail, k) = tail[i]
                                  /\ \A j \in 1..Len(tail) : tail[j].key = k => j <= i
    BY LatestIs
  <2>2. Len(m) + i \in 1..Len(a) /\ a[Len(m) + i] = tail[i] /\ k \in Keys
    BY <1>1, <1>6
  <2>3. ASSUME NEW j \in 1..Len(a), a[j].key = k PROVE j <= Len(m) + i
    <3>1. CASE j \in 1..Len(m)
      BY <1>1, <3>1
    <3>2. CASE \E x \in 1..Len(tail) : j = Len(m) + x
      <4>1. PICK x \in 1..Len(tail) : j = Len(m) + x
        BY <3>2
      <4>2. x <= i
        BY <1>6, <2>1, <2>3, <4>1
      <4> QED
        BY <1>1, <4>1, <4>2
    <3> QED
      BY <1>7, <3>1, <3>2
  <2>4. LatestOf(a, a[Len(m) + i].key) = a[Len(m) + i]
    <3>1. \A j \in 1..Len(a) : a[j].key = a[Len(m) + i].key => j <= Len(m) + i
      BY <2>1, <2>2, <2>3
    <3> QED
      BY <1>2, <2>1, <2>2, <3>1, LatestAt
  <2>5. a[Len(m) + i].key = k
    BY <2>1, <2>2
  <2> QED
    BY <2>1, <2>2, <2>4, <2>5
<1>10. ASSUME NEW k \in KeysOf(m) \ KeysOf(tail) PROVE LatestOf(a, k) = LatestOf(m, k)
  <2>1. PICK i \in 1..Len(m) : /\ m[i].key = k /\ LatestOf(m, k) = m[i]
                               /\ \A j \in 1..Len(m) : m[j].key = k => j <= i
    BY LatestIs
  <2>2. i \in 1..Len(a) /\ a[i] = m[i] /\ k \in Keys
    BY <1>1, <1>5
  <2>3. ASSUME NEW j \in 1..Len(a), a[j].key = k PROVE j <= i
    <3>1. CASE j \in 1..Len(m)
      BY <1>5, <2>1, <2>3, <3>1
    <3>2. CASE \E x \in 1..Len(tail) : j = Len(m) + x
      BY <1>1, <1>6, <2>2, <2>3, <3>2
    <3> QED
      BY <1>7, <3>1, <3>2
  <2>4. LatestOf(a, a[i].key) = a[i]
    <3>1. \A j \in 1..Len(a) : a[j].key = a[i].key => j <= i
      BY <2>1, <2>2, <2>3
    <3> QED
      BY <1>2, <2>1, <2>2, <3>1, LatestAt
  <2> QED
    BY <2>1, <2>2, <2>4
<1> QED
  BY <1>2, <1>8, <1>9, <1>10 DEF a

(* A manifest that another continues is found at its front.                         *)
LEMMA PrefixIs ==
  ASSUME NEW s \in Seq(Import), NEW t \in Seq(Import)
  PROVE  IsPrefix(s, t) <=> Len(s) <= Len(t) /\ \A i \in 1..Len(s) : s[i] = t[i]
<1>1. Len(s) \in Nat /\ Len(t) \in Nat /\ SubSeq(s, 1, Len(s)) = s
  BY SubSeqFull
<1>2. ASSUME Len(s) <= Len(t)
      PROVE  /\ SubSeq(t, 1, Len(s)) \in Seq(Import) /\ Len(SubSeq(t, 1, Len(s))) = Len(s)
             /\ \A i \in 1..Len(s) : SubSeq(t, 1, Len(s))[i] = t[i]
  BY <1>1, <1>2
<1>3. ASSUME Len(s) <= Len(t), \A i \in 1..Len(s) : s[i] = t[i]
      PROVE  s = SubSeq(t, 1, Len(s))
  BY <1>2, <1>3, SeqEqual
<1>4. ASSUME Len(s) <= Len(t), s = SubSeq(t, 1, Len(s))
      PROVE  \A i \in 1..Len(s) : s[i] = t[i]
  BY <1>2, <1>4
<1> QED
  BY <1>1, <1>3, <1>4 DEF IsPrefix

LEMMA PrefixGrows ==
  ASSUME NEW s \in Seq(Import), NEW m \in Seq(Import), NEW tail \in Seq(Import), IsPrefix(s, m)
  PROVE  IsPrefix(s, m \o tail)
<1>1. Len(s) \in Nat /\ Len(m) \in Nat /\ Len(tail) \in Nat
  OBVIOUS
<1>2. m \o tail \in Seq(Import) /\ Len(m \o tail) = Len(m) + Len(tail)
  BY ConcatProperties
<1>3. \A i \in 1..Len(m) : (m \o tail)[i] = m[i]
  <2> TAKE i \in 1..Len(m)
  <2>1. i \in 1..(Len(m) + Len(tail)) /\ i <= Len(m)
    BY <1>1
  <2> QED
    BY <2>1, ConcatProperties
<1>4. Len(s) <= Len(m) /\ \A i \in 1..Len(s) : s[i] = m[i]
  BY PrefixIs
<1>5. Len(s) <= Len(m \o tail) /\ \A i \in 1..Len(s) : s[i] = (m \o tail)[i]
  BY <1>1, <1>2, <1>3, <1>4
<1> QED
  BY <1>2, <1>5, PrefixIs

(* A manifest is what an undo keeps, and after it the lines the undo cuts.          *)
Cut(m, s) == SubSeq(m, TailStart(m, s) + 1, Len(m))
LEMMA TailIs ==
  ASSUME NEW m \in Seq(Import), NEW s \in Sources
  PROVE  /\ Kept(m, s) \in Seq(Import) /\ Cut(m, s) \in Seq(Import)
         /\ m = Kept(m, s) \o Cut(m, s) /\ Landed(m, s) = KeysOf(Cut(m, s))
<1> DEFINE n == TailStart(m, s)
           S == {i \in 0..Len(m) : \A j \in (i + 1)..Len(m) : m[j].source = s}
<1>1. Len(m) \in Nat /\ S \in SUBSET (0..Len(m))
  OBVIOUS
<1>2. Len(m) \in S
  BY <1>1
<1>3. PICK x \in S : \A y \in S : x <= y
  BY <1>1, <1>2, HasEnds
<1>4. x > 0 => m[x].source # s
  <2> SUFFICES ASSUME x > 0, m[x].source = s PROVE FALSE
    OBVIOUS
  <2>1. x - 1 \in 0..Len(m) /\ x \in 0..Len(m)
    BY <1>1, <1>3
  <2>2. ASSUME NEW j \in ((x - 1) + 1)..Len(m) PROVE m[j].source = s
    <3>1. j = x \/ j \in (x + 1)..Len(m)
      BY <1>1, <2>1
    <3> QED
      BY <1>3, <3>1
  <2>3. x - 1 \in S
    BY <2>1, <2>2
  <2>4. x <= x - 1
    BY <1>3, <2>3
  <2> QED
    BY <1>1, <2>1, <2>4
<1>5. n \in 0..Len(m)
  <2>1. \E y \in 0..Len(m) : /\ \A j \in (y + 1)..Len(m) : m[j].source = s
                             /\ y > 0 => m[y].source # s
    BY <1>3, <1>4
  <2> QED
    BY <2>1 DEF TailStart
<1> HIDE DEF n
<1>6. /\ SubSeq(m, 1, n) \in Seq(Import) /\ Len(SubSeq(m, 1, n)) = n
      /\ \A i \in 1..n : SubSeq(m, 1, n)[i] = m[i]
  <2>1. n \in Int /\ 1 \in Int /\ n - 1 + 1 = n /\ (1 <= n \/ n = 0)
    BY <1>1, <1>5
  <2>2. \A i \in 1..n : m[i] \in Import /\ 1 + i - 1 = i
    BY <1>1, <1>5
  <2> QED
    BY <2>1, <2>2, SubSeqProperties
<1>7. /\ SubSeq(m, n + 1, Len(m)) \in Seq(Import) /\ Len(SubSeq(m, n + 1, Len(m))) = Len(m) - n
      /\ \A i \in 1..(Len(m) - n) : SubSeq(m, n + 1, Len(m))[i] = m[n + i]
  <2>1. /\ n + 1 \in Int /\ Len(m) \in Int /\ Len(m) - (n + 1) + 1 = Len(m) - n
        /\ n + 1 <= Len(m) \/ Len(m) - n = 0
    BY <1>1, <1>5
  <2>2. \A i \in (n + 1)..Len(m) : m[i] \in Import
    BY <1>1, <1>5
  <2>3. \A i \in 1..(Len(m) - n) : (n + 1) + i - 1 = n + i
    BY <1>1, <1>5
  <2> QED
    BY <2>1, <2>2, <2>3, SubSeqProperties
<1> DEFINE k == SubSeq(m, 1, n)
           c == SubSeq(m, n + 1, Len(m))
<1>8. k = Kept(m, s) /\ c = Cut(m, s) /\ KeysOf(c) = Landed(m, s)
  BY DEF Kept, Cut, Landed, n
<1>9. m = k \o c
  <2> HIDE DEF k, c
  <2>1. k \in Seq(Import) /\ c \in Seq(Import) /\ Len(k) = n /\ Len(c) = Len(m) - n
    BY <1>6, <1>7 DEF k, c
  <2>2. k \o c \in Seq(Import) /\ Len(k \o c) = Len(m)
    BY <1>1, <1>5, <2>1, ConcatProperties
  <2>3. ASSUME NEW i \in 1..Len(m) PROVE (k \o c)[i] = m[i]
    <3>0. (k \o c)[i] = IF i <= Len(k) THEN k[i] ELSE c[i - Len(k)]
      <4>1. i \in 1..(Len(k) + Len(c))
        BY <1>1, <1>5, <2>1
      <4> QED
        BY <2>1, <4>1, ConcatProperties
    <3>1. CASE i <= n
      BY <1>1, <1>5, <1>6, <2>1, <3>0, <3>1 DEF k
    <3>2. CASE ~(i <= n)
      <4>1. i - n \in 1..(Len(m) - n) /\ n + (i - n) = i
        BY <1>1, <1>5, <3>2
      <4>2. c[i - n] = m[i]
        BY <1>7, <4>1 DEF c
      <4> QED
        BY <2>1, <3>0, <3>2, <4>2
    <3> QED
      BY <3>1, <3>2
  <2> QED
    BY <2>2, <2>3, SeqEqual
<1> QED
  BY <1>6, <1>7, <1>8, <1>9

(* A cut takes back what was landed and leaves every other key as it was.           *)
LEMMA CutIs ==
  ASSUME NEW m \in Seq(Import), NEW s \in Sources, Cuttable(m, s)
  PROVE  /\ Kept(m, s) \in Seq(Import) /\ KeysOf(Kept(m, s)) = KeysOf(m) \ Landed(m, s)
         /\ Landed(m, s) \subseteq KeysOf(m)
         /\ \A k \in KeysOf(Kept(m, s)) : LatestOf(Kept(m, s), k) = LatestOf(m, k)
<1>1. /\ Kept(m, s) \in Seq(Import) /\ Cut(m, s) \in Seq(Import)
      /\ m = Kept(m, s) \o Cut(m, s) /\ Landed(m, s) = KeysOf(Cut(m, s))
  BY TailIs
<1>2. Landed(m, s) \cap KeysOf(Kept(m, s)) = {}
  BY DEF Cuttable
<1>3. /\ KeysOf(m) = KeysOf(Kept(m, s)) \cup Landed(m, s)
      /\ \A k \in KeysOf(Kept(m, s)) \ Landed(m, s) : LatestOf(m, k) = LatestOf(Kept(m, s), k)
  <2>1. PICK a, b : a = Kept(m, s) /\ b = Cut(m, s)
    OBVIOUS
  <2>2. a \in Seq(Import) /\ b \in Seq(Import) /\ m = a \o b /\ KeysOf(b) = Landed(m, s)
    BY <1>1, <2>1
  <2>3. /\ KeysOf(m) = KeysOf(a) \cup KeysOf(b)
        /\ \A k \in KeysOf(a) \ KeysOf(b) : LatestOf(m, k) = LatestOf(a, k)
    BY <2>2, AppendedIs
  <2> QED
    BY <2>1, <2>2, <2>3
<1>4. KeysOf(Kept(m, s)) = KeysOf(m) \ Landed(m, s)
  BY <1>2, <1>3
<1>5. ASSUME NEW k \in KeysOf(Kept(m, s)) PROVE LatestOf(Kept(m, s), k) = LatestOf(m, k)
  <2>1. k \notin Landed(m, s)
    BY <1>2
  <2> QED
    BY <1>3, <2>1
<1>6. Landed(m, s) \subseteq KeysOf(m)
  BY <1>3
<1> QED
  BY <1>1, <1>4, <1>5, <1>6

(* What an import records: one line for each key it landed, of its source.          *)
LEMMA RecordsIs ==
  ASSUME NEW landed \in Seq(Keys), NEW s \in Sources, NEW v \in Version,
         s \notin Refetched => v = 1,
         NEW tail, tail = [i \in DOMAIN landed |-> [key |-> landed[i], source |-> s, ver |-> v]]
  PROVE  /\ tail \in Seq(Import) /\ KeysOf(tail) = ToSet(landed)
         /\ \A k \in ToSet(landed) : LatestOf(tail, k).source = s /\ LatestOf(tail, k).ver = v
<1>1. Len(landed) \in Nat /\ DOMAIN landed = 1..Len(landed) /\ \A i \in 1..Len(landed) : landed[i] \in Keys
  OBVIOUS
<1>2. \A i \in 1..Len(landed) : /\ tail[i] = [key |-> landed[i], source |-> s, ver |-> v]
                                /\ tail[i] \in Import /\ tail[i].key = landed[i]
                                /\ tail[i].source = s /\ tail[i].ver = v
  BY <1>1 DEF Import, BarLine
<1>3. tail \in Seq(Import) /\ Len(tail) = Len(landed)
  <2>1. tail \in [1..Len(landed) -> Import]
    BY <1>1, <1>2
  <2> QED
    BY <1>1, <2>1, LenProperties
<1>4. KeysOf(tail) = ToSet(landed)
  <2>1. KeysOf(tail) = {tail[i].key : i \in 1..Len(landed)} \cap Keys
    BY <1>3, LinesAre
  <2>2. ToSet(landed) = {landed[i] : i \in 1..Len(landed)}
    BY <1>1 DEF ToSet
  <2>3. {tail[i].key : i \in 1..Len(landed)} = {landed[i] : i \in 1..Len(landed)}
    <3>1. \A i \in 1..Len(landed) : tail[i].key = landed[i]
      BY <1>2
    <3> QED
      BY <3>1
  <2>4. {landed[i] : i \in 1..Len(landed)} \subseteq Keys
    BY <1>1
  <2> QED
    BY <2>1, <2>2, <2>3, <2>4
<1>5. ASSUME NEW k \in KeysOf(tail) PROVE LatestOf(tail, k).source = s /\ LatestOf(tail, k).ver = v
  BY <1>2, <1>3, LatestIs
<1> QED
  BY <1>3, <1>4, <1>5

LEMMA OtherIs ==
  /\ Other \in Import /\ <<Other>> \in Seq(Import) /\ KeysOf(<<Other>>) = {}
<1>1. Other \in Import /\ Other.key \notin Keys
  <2>1. Elsewhere \notin Keys
    BY BarConstants
  <2>2. Other \in BarLine /\ Other.key = Elsewhere /\ Other.ver = 1
    BY DEF Other, BarLine, Version
  <2> QED
    BY <2>1, <2>2 DEF Import
<1>2. <<Other>> \in Seq(Import) /\ Len(<<Other>>) = 1 /\ <<Other>>[1] = Other
  BY <1>1
<1>3. KeysOf(<<Other>>) = {}
  <2>1. PICK one : one = <<Other>>
    OBVIOUS
  <2>2. one \in Seq(Import) /\ Len(one) = 1 /\ one[1] = Other
    BY <1>2, <2>1
  <2>3. KeysOf(one) = {one[i].key : i \in 1..Len(one)} \cap Keys
    BY <2>2, LinesAre
  <2>4. \A i \in 1..Len(one) : one[i].key \notin Keys
    <3> TAKE i \in 1..Len(one)
    <3>1. i = 1
      BY <2>2
    <3> QED
      BY <1>1, <2>2, <3>1
  <2>5. KeysOf(one) = {}
    BY <2>3, <2>4
  <2> QED
    BY <2>1, <2>5
<1> QED
  BY <1>1, <1>2, <1>3

------------------------------------------------------------------------------
(* The inductive invariant.                                                         *)
Deciding == [pc : {"decide"}, source : Sources, ver : Version]
Writing == [pc : {"write"}, source : Sources, ver : Version, todo : SUBSET Keys, landed : Seq(Keys)]
Locking == [pc : {"lock"}, source : Sources, raw : Seq(BarLine), seen : Seq(BarLine)]
Unlinking == [pc : {"unlink"}, source : Sources, todo : SUBSET Keys]
Putting == [pc : {"put"}, todo : SUBSET Keys]

Shapes ==
    /\ manifest \in Seq(Import) /\ listing \in Seq(Import)
    /\ import \in {Away} \cup Deciding \cup Writing
    /\ undo \in {Away} \cup Locking \cup Unlinking
    /\ upload \in {Away} \cup Putting

(* What an import is to write, and wrote, is its own or nobody's, and the content   *)
(* it lands is that of the bucket where the bucket has one.                         *)
ImportFits ==
    /\ import.pc # "away" /\ import.source \notin Refetched => import.ver = 1
    /\ import.pc = "write" =>
         \A k \in import.todo \cup ToSet(import.landed) : Recorded(k) =>
              Entry(k).source = import.source /\ (Sent(k) => Entry(k).ver = import.ver)

(* An undo that holds the lock cuts the end of the manifest, which the bucket does  *)
(* not have, and takes the files of what it cuts first.                             *)
UndoFits ==
    /\ undo.pc = "lock" => Cuttable(undo.raw, undo.source)
    /\ undo.pc = "unlink" =>
         /\ Cuttable(manifest, undo.source) /\ Unsent(undo.source)
         /\ \A k \in Landed(manifest, undo.source) \ undo.todo : bar[k] = Absent

UploadFits == upload.pc = "put" => upload.todo \subseteq KeysOf(manifest)

(* A file no line names: a killed import's, or one the import under the lock landed. *)
Accounted ==
    \A k \in Keys : bar[k] # Absent /\ ~Recorded(k) =>
        k \in orphans \/ (import.pc = "write" /\ k \in ToSet(import.landed))

ImportInv ==
    BarTypeOK /\ Shapes /\ Withdrawn /\ ImportFits /\ UndoFits /\ UploadFits /\ Accounted

LEMMA States ==
  ASSUME BarTypeOK, Shapes
  PROVE  /\ import.pc \in {"away", "decide", "write"} /\ (import.pc = "away" <=> import = Away)
         /\ import.pc = "decide" => import \in Deciding
         /\ import.pc = "write" => import \in Writing
         /\ undo.pc \in {"away", "lock", "unlink"} /\ (undo.pc = "away" <=> undo = Away)
         /\ undo.pc = "lock" => undo \in Locking
         /\ undo.pc = "unlink" => undo \in Unlinking
         /\ upload.pc \in {"away", "put"} /\ (upload.pc = "away" <=> upload = Away)
         /\ upload.pc = "put" => upload \in Putting
BY DEF Shapes, Away, Deciding, Writing, Locking, Unlinking, Putting

LEMMA OneHolds ==
  ASSUME BarTypeOK
  PROVE  /\ holder = Absent => import.pc # "write" /\ undo.pc # "unlink" /\ upload.pc # "put"
         /\ import.pc = "write" => holder # Absent /\ undo.pc # "unlink" /\ upload.pc # "put"
         /\ undo.pc = "unlink" => holder # Absent /\ import.pc # "write" /\ upload.pc # "put"
         /\ upload.pc = "put" => holder # Absent /\ import.pc # "write" /\ undo.pc # "unlink"
BY BarConstants DEF BarTypeOK

(* What stays of the invariant when a step leaves alone what it is about.           *)
LEMMA SameLines ==
  ASSUME UNCHANGED <<manifest, object>>
  PROVE  \A k : /\ Recorded(k)' <=> Recorded(k)
                /\ Entry(k)' = Entry(k) /\ (Sent(k)' <=> Sent(k))
BY DEF Recorded, Entry, Sent

LEMMA WithdrawnKept ==
  ASSUME Withdrawn, UNCHANGED <<manifest, listing, object>>
  PROVE  Withdrawn'
BY SameLines DEF Withdrawn

LEMMA ImportKept ==
  ASSUME ImportFits, import' = import, import.pc # "write" \/ UNCHANGED <<manifest, object>>
  PROVE  ImportFits'
BY SameLines DEF ImportFits

LEMMA UndoKept ==
  ASSUME UndoFits, undo' = undo,
         \/ undo.pc # "unlink"
         \/ /\ UNCHANGED <<manifest, listing, object>>
            /\ \A k \in Keys : bar'[k] \in {bar[k], Absent}
  PROVE  UndoFits'
<1>1. CASE undo.pc # "unlink"
  BY <1>1 DEF UndoFits
<1>2. CASE /\ UNCHANGED <<manifest, listing, object>>
           /\ \A k \in Keys : bar'[k] \in {bar[k], Absent}
  <2>1. Unsent(undo.source)' <=> Unsent(undo.source)
    BY <1>2, SameLines DEF Unsent
  <2>2. \A k \in Landed(manifest, undo.source) : k \in Keys
    BY DEF Landed, KeysOf
  <2> QED
    BY <1>2, <2>1, <2>2 DEF UndoFits
<1> QED
  BY <1>1, <1>2

LEMMA UploadKept ==
  ASSUME UploadFits, upload' = upload, upload.pc # "put" \/ manifest' = manifest
  PROVE  UploadFits'
BY DEF UploadFits

LEMMA AccountedKept ==
  ASSUME Accounted, manifest' = manifest, orphans \subseteq orphans',
         \A k \in Keys : bar'[k] # Absent => bar[k] # Absent \/ Recorded(k),
         import' = import \/ import.pc # "write"
  PROVE  Accounted'
BY DEF Accounted, Recorded

LEMMA AppendSet ==
  ASSUME NEW S, NEW l \in Seq(S), NEW x \in S
  PROVE  Append(l, x) \in Seq(S) /\ ToSet(Append(l, x)) = ToSet(l) \cup {x}
<1>1. /\ Append(l, x) \in Seq(S) /\ Len(Append(l, x)) = Len(l) + 1 /\ Len(l) \in Nat
      /\ \A i \in 1..Len(l) : Append(l, x)[i] = l[i]
      /\ Append(l, x)[Len(l) + 1] = x
  OBVIOUS
<1>2. PICK a : a = Append(l, x)
  OBVIOUS
<1>3. ToSet(a) = {a[i] : i \in 1..(Len(l) + 1)} /\ ToSet(l) = {l[i] : i \in 1..Len(l)}
  BY <1>1, <1>2 DEF ToSet
<1>4. \A i \in 1..(Len(l) + 1) : i = Len(l) + 1 \/ i \in 1..Len(l)
  BY <1>1
<1>5. \A i \in 1..Len(l) : i \in 1..(Len(l) + 1) /\ a[i] = l[i]
  BY <1>1, <1>2
<1>6. Len(l) + 1 \in 1..(Len(l) + 1) /\ a[Len(l) + 1] = x
  BY <1>1, <1>2
<1>7. ToSet(a) = ToSet(l) \cup {x}
  <2>1. \A e \in ToSet(a) : e \in ToSet(l) \cup {x}
    BY <1>3, <1>4, <1>5, <1>6
  <2>2. \A e \in ToSet(l) \cup {x} : e \in ToSet(a)
    BY <1>3, <1>5, <1>6
  <2> QED
    BY <2>1, <2>2
<1> QED
  BY <1>1, <1>2, <1>7

------------------------------------------------------------------------------
(* The steps of an import keep the invariant.                                       *)

LEMMA ImportBeginsKeeps ==
  ASSUME ImportInv, NEW s \in Sources, ImportBegins(s)
  PROVE  ImportInv'
<1>1. /\ BarTypeOK /\ Shapes /\ Withdrawn /\ ImportFits /\ UndoFits /\ UploadFits /\ Accounted
      /\ import.pc = "away"
  BY DEF ImportInv, ImportBegins, Away
<1>2. /\ UNCHANGED <<manifest, bar, temps, trimmed, orphans, listing, object, holder, undo, upload>>
      /\ import' \in Deciding /\ import'.pc = "decide"
      /\ import'.source \notin Refetched => import'.ver = 1
  BY DEF ImportBegins, lakeVars, bucket, Deciding, Version
<1>3. BarTypeOK'
  BY <1>1, <1>2 DEF BarTypeOK
<1>4. Shapes'
  BY <1>1, <1>2 DEF Shapes
<1>5. ImportFits'
  BY <1>2 DEF ImportFits
<1> QED
  BY <1>1, <1>2, <1>3, <1>4, <1>5, WithdrawnKept, UndoKept, UploadKept, AccountedKept DEF ImportInv

LEMMA ImportDecidesKeeps ==
  ASSUME ImportInv, ImportDecides
  PROVE  ImportInv'
<1> DEFINE s == import.source
<1>1. /\ BarTypeOK /\ Shapes /\ Withdrawn /\ ImportFits /\ UndoFits /\ UploadFits /\ Accounted
      /\ import.pc = "decide" /\ import \in Deciding /\ holder = Absent
      /\ UNCHANGED <<manifest, bar, trimmed, orphans, listing, object, undo, upload>>
  BY States DEF ImportInv, ImportDecides, bucket
<1>2. undo.pc # "unlink" /\ upload.pc # "put"
  BY <1>1, OneHolds
<1>3. Withdrawn' /\ UndoFits' /\ UploadFits' /\ Accounted'
  BY <1>1, <1>2, WithdrawnKept, UndoKept, UploadKept, AccountedKept
<1>4. CASE Refuses(s)
  <2>1. import' = Away /\ import'.pc = "away" /\ UNCHANGED <<holder, temps>>
    BY <1>4 DEF ImportDecides, Away
  <2>2. BarTypeOK'
    BY <1>1, <2>1 DEF BarTypeOK
  <2>3. Shapes' /\ ImportFits'
    BY <1>1, <2>1 DEF Shapes, ImportFits
  <2> QED
    BY <1>3, <2>2, <2>3 DEF ImportInv
<1>5. CASE ~Refuses(s)
  <2>1. /\ holder' = "import" /\ temps' = temps \ Covers[s]
        /\ import' = [pc |-> "write", source |-> s, ver |-> import.ver,
                      todo |-> Todo(s), landed |-> <<>>]
    BY <1>5 DEF ImportDecides
  <2>2. s \in Sources /\ import.ver \in Version /\ (s \notin Refetched => import.ver = 1)
    BY <1>1 DEF Deciding, ImportFits
  <2>3. Todo(s) \subseteq Covers[s] /\ Covers[s] \subseteq Keys
    BY <2>2, BarConstants DEF Todo, Rewrites
  <2>4. import' \in Writing /\ import'.pc = "write"
    BY <2>1, <2>2, <2>3 DEF Writing
  <2>5. BarTypeOK'
    BY <1>1, <1>2, <2>1, <2>4 DEF BarTypeOK
  <2>6. Shapes'
    BY <1>1, <2>4 DEF Shapes
  <2>7. ASSUME NEW k \in Todo(s), Recorded(k)
        PROVE  Entry(k).source = s /\ (Sent(k) => Entry(k).ver = import.ver)
    <3>1. Entry(k).source = s
      BY <1>5, <2>3, <2>7 DEF Refuses, Conflict, HeldByAnother
    <3>2. ASSUME Sent(k) PROVE Entry(k).ver = import.ver
      <4>1. k \in Rewrites(s)
        BY <2>7 DEF Todo
      <4>2. s \notin Refetched
        BY <1>5, <3>2, <4>1 DEF Refuses, Replaces
      <4>3. Entry(k) \in Import
        BY <1>1, <2>7, LatestTyped DEF Shapes, Recorded, Entry
      <4> QED
        BY <2>2, <3>1, <4>2, <4>3 DEF Import
    <3> QED
      BY <3>1, <3>2
  <2>8. ImportFits'
    <3>1. import'.todo = Todo(s) /\ ToSet(import'.landed) = {} /\ import'.source = s /\ import'.ver = import.ver
      BY <2>1 DEF ToSet
    <3> QED
      BY <1>1, <2>2, <2>7, <3>1, SameLines DEF ImportFits
  <2> QED
    BY <1>3, <2>5, <2>6, <2>8 DEF ImportInv
<1> QED
  BY <1>4, <1>5

LEMMA ImportWritesKeeps ==
  ASSUME ImportInv, ImportWrites
  PROVE  ImportInv'
<1>1. /\ BarTypeOK /\ Shapes /\ Withdrawn /\ ImportFits /\ UndoFits /\ UploadFits /\ Accounted
      /\ import.pc = "write" /\ import \in Writing
      /\ UNCHANGED <<manifest, temps, trimmed, orphans, listing, object, holder, undo, upload>>
  BY States DEF ImportInv, ImportWrites, bucket
<1>2. PICK k \in import.todo :
        /\ bar' = [bar EXCEPT ![k] = [source |-> import.source, ver |-> import.ver]]
        /\ import' = [import EXCEPT !.todo = @ \ {k}, !.landed = Append(@, k)]
  BY DEF ImportWrites
<1>3. undo.pc # "unlink" /\ upload.pc # "put"
  BY <1>1, OneHolds
<1>4. /\ import.landed \in Seq(Keys) /\ import.todo \in SUBSET Keys /\ k \in Keys
      /\ import.source \in Sources /\ import.ver \in Version
  BY <1>1 DEF Writing
<1>5. /\ Append(import.landed, k) \in Seq(Keys)
      /\ ToSet(Append(import.landed, k)) = ToSet(import.landed) \cup {k}
  BY <1>4, AppendSet
<1>6. /\ import' \in Writing /\ import'.pc = "write" /\ import'.source = import.source
      /\ import'.ver = import.ver /\ import'.todo = import.todo \ {k}
      /\ import'.landed = Append(import.landed, k)
  BY <1>1, <1>2, <1>4, <1>5 DEF Writing
<1>7. BarTypeOK'
  BY <1>1, <1>2, <1>4, <1>6 DEF BarTypeOK, File
<1>8. Shapes'
  BY <1>1, <1>6 DEF Shapes
<1>9. ImportFits'
  <2>1. import'.todo \cup ToSet(import'.landed) = import.todo \cup ToSet(import.landed)
    BY <1>2, <1>5, <1>6
  <2> QED
    BY <1>1, <1>6, <2>1, SameLines DEF ImportFits
<1>10. Accounted'
  <2> SUFFICES ASSUME NEW x \in Keys, bar'[x] # Absent, ~Recorded(x)'
               PROVE  x \in orphans' \/ x \in ToSet(import'.landed)
    BY <1>6 DEF Accounted
  <2>1. ~Recorded(x)
    BY <1>1, SameLines
  <2>2. CASE x = k
    BY <1>5, <1>6, <2>2
  <2>3. CASE x # k
    <3>1. bar[x] # Absent
      BY <1>1, <1>2, <2>3 DEF BarTypeOK
    <3> QED
      BY <1>1, <1>5, <1>6, <2>1, <3>1 DEF Accounted
  <2> QED
    BY <2>2, <2>3
<1> QED
  BY <1>1, <1>3, <1>7, <1>8, <1>9, <1>10, WithdrawnKept, UndoKept, UploadKept DEF ImportInv

LEMMA ImportStopsKeeps ==
  ASSUME ImportInv, ImportStops
  PROVE  ImportInv'
<1>1. /\ BarTypeOK /\ Shapes /\ Withdrawn /\ ImportFits /\ UndoFits /\ UploadFits /\ Accounted
      /\ import.pc = "write" /\ import \in Writing /\ import' = [import EXCEPT !.todo = {}]
      /\ UNCHANGED <<manifest, bar, temps, trimmed, orphans, listing, object, holder, undo, upload>>
  BY States DEF ImportInv, ImportStops, lakeVars, bucket
<1>2. /\ import' \in Writing /\ import'.pc = "write" /\ import'.source = import.source
      /\ import'.ver = import.ver /\ import'.todo = {} /\ import'.landed = import.landed
  BY <1>1 DEF Writing
<1>3. BarTypeOK' /\ Shapes'
  BY <1>1, <1>2 DEF BarTypeOK, Shapes
<1>4. ImportFits'
  BY <1>1, <1>2, SameLines DEF ImportFits
<1>5. Accounted'
  BY <1>1, <1>2, SameLines DEF Accounted
<1> QED
  BY <1>1, <1>3, <1>4, <1>5, WithdrawnKept, UndoKept, UploadKept DEF ImportInv

(* What a recorded import adds to the manifest.                                     *)
LEMMA RecordedAre ==
  ASSUME ImportInv, ImportRecords
  PROVE  /\ manifest' \in Seq(Import) /\ IsPrefix(listing, manifest')
         /\ KeysOf(manifest') = KeysOf(manifest) \cup ToSet(import.landed)
         /\ \A k \in ToSet(import.landed) : /\ LatestOf(manifest', k).source = import.source
                                            /\ LatestOf(manifest', k).ver = import.ver
         /\ \A k \in KeysOf(manifest) \ ToSet(import.landed) :
               LatestOf(manifest', k) = LatestOf(manifest, k)
<1>1. /\ BarTypeOK /\ Shapes /\ Withdrawn /\ ImportFits
      /\ import.pc = "write" /\ import \in Writing
  BY States DEF ImportInv, ImportRecords
<1>2. PICK tail : tail = [i \in DOMAIN import.landed |-> LineFor(import.landed[i])]
  OBVIOUS
<1>3. manifest' = manifest \o tail
  BY <1>2 DEF ImportRecords
<1>4. /\ import.landed \in Seq(Keys) /\ import.source \in Sources /\ import.ver \in Version
      /\ import.source \notin Refetched => import.ver = 1
  BY <1>1 DEF Writing, ImportFits
<1>5. tail = [i \in DOMAIN import.landed |->
                [key |-> import.landed[i], source |-> import.source, ver |-> import.ver]]
  BY <1>2 DEF LineFor
<1>6. /\ tail \in Seq(Import) /\ KeysOf(tail) = ToSet(import.landed)
      /\ \A k \in ToSet(import.landed) : /\ LatestOf(tail, k).source = import.source
                                         /\ LatestOf(tail, k).ver = import.ver
  BY <1>4, <1>5, RecordsIs
<1>7. manifest \in Seq(Import) /\ listing \in Seq(Import) /\ IsPrefix(listing, manifest)
  BY <1>1 DEF Shapes, Withdrawn
<1>8. /\ manifest' \in Seq(Import) /\ KeysOf(manifest') = KeysOf(manifest) \cup KeysOf(tail)
      /\ \A k \in KeysOf(tail) : LatestOf(manifest', k) = LatestOf(tail, k)
      /\ \A k \in KeysOf(manifest) \ KeysOf(tail) : LatestOf(manifest', k) = LatestOf(manifest, k)
  BY <1>3, <1>6, <1>7, AppendedIs
<1>9. IsPrefix(listing, manifest')
  BY <1>3, <1>6, <1>7, PrefixGrows
<1> QED
  BY <1>6, <1>8, <1>9

LEMMA ImportRecordsKeeps ==
  ASSUME ImportInv, ImportRecords
  PROVE  ImportInv'
<1>1. /\ BarTypeOK /\ Shapes /\ Withdrawn /\ ImportFits /\ UndoFits /\ UploadFits /\ Accounted
      /\ import.pc = "write" /\ import \in Writing
      /\ orphans' = orphans \ ToSet(import.landed)
      /\ import' = Away /\ import'.pc = "away" /\ holder' = Absent
      /\ UNCHANGED <<bar, temps, trimmed, listing, object, undo, upload>>
  BY States DEF ImportInv, ImportRecords, bucket, Away
<1>2. undo.pc # "unlink" /\ upload.pc # "put"
  BY <1>1, OneHolds
<1>3. BarTypeOK'
  <2>1. \A line \in Import : line \in BarLine
    BY DEF Import
  <2>2. manifest' \in Seq(BarLine)
    BY <2>1, RecordedAre
  <2>3. holder' \notin {"import", "undo", "upload"}
    BY <1>1, BarConstants
  <2> QED
    BY <1>1, <1>2, <2>2, <2>3 DEF BarTypeOK
<1>4. Shapes'
  BY <1>1, RecordedAre DEF Shapes
<1>5. Withdrawn'
  <2>1. ASSUME NEW k \in Keys, Sent(k)' PROVE Recorded(k)' /\ object'[k] = Entry(k)'.ver
    <3>1. Sent(k) /\ Recorded(k) /\ object[k] = Entry(k).ver
      BY <1>1, <2>1 DEF Sent, Withdrawn
    <3>2. Recorded(k)'
      BY <3>1, RecordedAre DEF Recorded
    <3>3. CASE k \in ToSet(import.landed)
      <4>1. Entry(k).ver = import.ver
        BY <1>1, <3>1, <3>3 DEF ImportFits
      <4>2. Entry(k)'.ver = import.ver
        BY <3>3, RecordedAre DEF Entry
      <4> QED
        BY <1>1, <3>1, <3>2, <4>1, <4>2
    <3>4. CASE k \notin ToSet(import.landed)
      <4>1. Entry(k)' = Entry(k)
        BY <3>1, <3>4, RecordedAre DEF Entry, Recorded
      <4> QED
        BY <1>1, <3>1, <3>2, <4>1
    <3> QED
      BY <3>3, <3>4
  <2>2. IsPrefix(listing', manifest')
    BY <1>1, RecordedAre
  <2> QED
    BY <2>1, <2>2 DEF Withdrawn
<1>6. ImportFits'
  BY <1>1 DEF ImportFits
<1>7. Accounted'
  <2> SUFFICES ASSUME NEW k \in Keys, bar'[k] # Absent, ~Recorded(k)'
               PROVE  k \in orphans'
    BY DEF Accounted
  <2>1. ~Recorded(k) /\ k \notin ToSet(import.landed)
    BY RecordedAre DEF Recorded
  <2> QED
    BY <1>1, <2>1 DEF Accounted
<1> QED
  BY <1>1, <1>2, <1>3, <1>4, <1>5, <1>6, <1>7, UndoKept, UploadKept DEF ImportInv

LEMMA ImportDiesKeeps ==
  ASSUME ImportInv, ImportDies
  PROVE  ImportInv'
<1>1. /\ BarTypeOK /\ Shapes /\ Withdrawn /\ ImportFits /\ UndoFits /\ UploadFits /\ Accounted
      /\ import.pc = "write" /\ import \in Writing
      /\ orphans' = orphans \cup {k \in ToSet(import.landed) : ~Recorded(k)}
      /\ import' = Away /\ import'.pc = "away" /\ holder' = Absent
      /\ UNCHANGED <<manifest, bar, trimmed, listing, object, undo, upload>>
  BY States DEF ImportInv, ImportDies, bucket, Away
<1>2. PICK part \in SUBSET import.todo : temps' = temps \cup part
  BY DEF ImportDies
<1>3. undo.pc # "unlink" /\ upload.pc # "put"
  BY <1>1, OneHolds
<1>4. BarTypeOK'
  <2>1. part \subseteq Keys /\ ToSet(import.landed) \subseteq Keys
    BY <1>1 DEF Writing, ToSet
  <2>2. holder' \notin {"import", "undo", "upload"}
    BY <1>1, BarConstants
  <2> QED
    BY <1>1, <1>2, <1>3, <2>1, <2>2 DEF BarTypeOK
<1>5. Shapes' /\ ImportFits'
  BY <1>1 DEF Shapes, ImportFits
<1>6. Accounted'
  BY <1>1, SameLines DEF Accounted
<1> QED
  BY <1>1, <1>3, <1>4, <1>5, <1>6, WithdrawnKept, UndoKept, UploadKept DEF ImportInv

------------------------------------------------------------------------------
(* The steps of an undo keep it.                                                    *)

LEMMA UndoBeginsKeeps ==
  ASSUME ImportInv, NEW s \in Sources, UndoBegins(s)
  PROVE  ImportInv'
<1>1. /\ BarTypeOK /\ Shapes /\ Withdrawn /\ ImportFits /\ UndoFits /\ UploadFits /\ Accounted
      /\ undo.pc = "away" /\ Cuttable(manifest, s)
      /\ undo' = [pc |-> "lock", source |-> s, raw |-> manifest, seen |-> listing]
      /\ UNCHANGED <<manifest, bar, temps, trimmed, orphans, listing, object, holder, import, upload>>
  BY DEF ImportInv, UndoBegins, lakeVars, bucket, Away
<1>2. /\ undo' \in Locking /\ undo'.pc = "lock" /\ undo'.raw = manifest /\ undo'.source = s
  BY <1>1 DEF Locking, BarTypeOK
<1>3. BarTypeOK' /\ Shapes'
  BY <1>1, <1>2 DEF BarTypeOK, Shapes
<1>4. UndoFits'
  BY <1>1, <1>2 DEF UndoFits
<1> QED
  BY <1>1, <1>3, <1>4, WithdrawnKept, ImportKept, UploadKept, AccountedKept DEF ImportInv

LEMMA UndoLocksKeeps ==
  ASSUME ImportInv, UndoLocks
  PROVE  ImportInv'
<1>1. /\ BarTypeOK /\ Shapes /\ Withdrawn /\ ImportFits /\ UndoFits /\ UploadFits /\ Accounted
      /\ undo.pc = "lock" /\ undo \in Locking /\ holder = Absent
      /\ UNCHANGED <<manifest, bar, temps, trimmed, orphans, listing, object, import, upload>>
  BY States DEF ImportInv, UndoLocks, lakeVars, bucket
<1>2. import.pc # "write" /\ upload.pc # "put"
  BY <1>1, OneHolds
<1>3. Withdrawn' /\ ImportFits' /\ UploadFits' /\ Accounted'
  BY <1>1, WithdrawnKept, ImportKept, UploadKept, AccountedKept
<1>4. CASE StillUndoable
  <2>1. /\ holder' = "undo"
        /\ undo' = [pc |-> "unlink", source |-> undo.source, todo |-> Landed(manifest, undo.source)]
    BY <1>4 DEF UndoLocks
  <2>2. Landed(manifest, undo.source) \subseteq Keys
    BY DEF Landed, KeysOf
  <2>3. /\ undo' \in Unlinking /\ undo'.pc = "unlink" /\ undo'.source = undo.source
        /\ undo'.todo = Landed(manifest, undo.source)
    BY <1>1, <2>1, <2>2 DEF Locking, Unlinking
  <2>4. BarTypeOK' /\ Shapes'
    BY <1>1, <1>2, <2>1, <2>3 DEF BarTypeOK, Shapes
  <2>5. UndoFits'
    <3>1. Cuttable(manifest, undo.source)
      BY <1>1, <1>4 DEF StillUndoable, UndoFits
    <3>2. Unsent(undo.source)
      BY <1>4 DEF StillUndoable
    <3>3. Unsent(undo.source)'
      BY <1>1, <2>3, <3>2, SameLines DEF Unsent
    <3> QED
      BY <1>1, <2>3, <3>1, <3>3 DEF UndoFits
  <2> QED
    BY <1>3, <2>4, <2>5 DEF ImportInv
<1>5. CASE ~StillUndoable
  <2>1. undo' = Away /\ undo'.pc = "away" /\ holder' = holder
    BY <1>5 DEF UndoLocks, Away
  <2>2. BarTypeOK' /\ Shapes' /\ UndoFits'
    BY <1>1, <2>1 DEF BarTypeOK, Shapes, UndoFits
  <2> QED
    BY <1>3, <2>2 DEF ImportInv
<1> QED
  BY <1>4, <1>5

LEMMA UndoUnlinksKeeps ==
  ASSUME ImportInv, UndoUnlinks
  PROVE  ImportInv'
<1>1. /\ BarTypeOK /\ Shapes /\ Withdrawn /\ ImportFits /\ UndoFits /\ UploadFits /\ Accounted
      /\ undo.pc = "unlink" /\ undo \in Unlinking
      /\ UNCHANGED <<manifest, temps, trimmed, orphans, listing, object, holder, import, upload>>
  BY States DEF ImportInv, UndoUnlinks, bucket
<1>2. PICK k \in undo.todo : /\ bar' = [bar EXCEPT ![k] = Absent]
                             /\ undo' = [undo EXCEPT !.todo = @ \ {k}]
  BY DEF UndoUnlinks
<1>3. /\ undo' \in Unlinking /\ undo'.pc = "unlink" /\ undo'.source = undo.source
      /\ undo'.todo = undo.todo \ {k} /\ k \in Keys
  BY <1>1, <1>2 DEF Unlinking
<1>4. /\ bar' \in [Keys -> File \cup {Absent}] /\ bar'[k] = Absent
      /\ \A x \in Keys : bar'[x] \in {bar[x], Absent}
  BY <1>1, <1>2, <1>3 DEF BarTypeOK
<1>5. BarTypeOK' /\ Shapes'
  BY <1>1, <1>3, <1>4 DEF BarTypeOK, Shapes
<1>6. UndoFits'
  <2>1. Unsent(undo.source)'
    BY <1>1, <1>3, SameLines DEF Unsent, UndoFits
  <2>2. \A x \in Landed(manifest, undo.source) : x \in Keys
    BY DEF Landed, KeysOf
  <2>3. \A x \in Landed(manifest, undo.source) \ (undo.todo \ {k}) : bar'[x] = Absent
    BY <1>1, <1>4, <2>2 DEF UndoFits
  <2> QED
    BY <1>1, <1>3, <2>1, <2>3 DEF UndoFits
<1>7. Accounted'
  BY <1>1, <1>4, AccountedKept
<1> QED
  BY <1>1, <1>5, <1>6, <1>7, WithdrawnKept, ImportKept, UploadKept DEF ImportInv

(* What an undo leaves of the manifest.                                             *)
LEMMA CutLeaves ==
  ASSUME ImportInv, UndoCuts
  PROVE  /\ manifest' \in Seq(Import) /\ IsPrefix(listing, manifest')
         /\ KeysOf(manifest') = KeysOf(manifest) \ Landed(manifest, undo.source)
         /\ \A k \in KeysOf(manifest') : LatestOf(manifest', k) = LatestOf(manifest, k)
         /\ \A k \in Landed(manifest, undo.source) : ~Sent(k) /\ bar[k] = Absent
<1>1. /\ BarTypeOK /\ Shapes /\ UndoFits /\ undo.pc = "unlink" /\ undo \in Unlinking
      /\ undo.todo = {} /\ manifest' = Kept(manifest, undo.source)
  BY States DEF ImportInv, UndoCuts
<1>2. /\ Cuttable(manifest, undo.source) /\ Unsent(undo.source)
      /\ \A k \in Landed(manifest, undo.source) : bar[k] = Absent
  BY <1>1 DEF UndoFits
<1>3. undo.source \in Sources /\ manifest \in Seq(Import)
  BY <1>1 DEF Unlinking, Shapes
<1>4. /\ manifest' \in Seq(Import)
      /\ KeysOf(manifest') = KeysOf(manifest) \ Landed(manifest, undo.source)
      /\ \A k \in KeysOf(manifest') : LatestOf(manifest', k) = LatestOf(manifest, k)
  BY <1>1, <1>2, <1>3, CutIs
<1>5. IsPrefix(listing, manifest') /\ \A k \in Landed(manifest, undo.source) : ~Sent(k)
  BY <1>1, <1>2 DEF Unsent
<1> QED
  BY <1>2, <1>4, <1>5

LEMMA UndoCutsKeeps ==
  ASSUME ImportInv, UndoCuts
  PROVE  ImportInv'
<1>1. /\ BarTypeOK /\ Shapes /\ Withdrawn /\ ImportFits /\ UndoFits /\ UploadFits /\ Accounted
      /\ undo.pc = "unlink" /\ temps' = temps \ Landed(manifest, undo.source)
      /\ undo' = Away /\ undo'.pc = "away" /\ holder' = Absent
      /\ UNCHANGED <<bar, trimmed, orphans, listing, object, import, upload>>
  BY DEF ImportInv, UndoCuts, bucket, Away
<1>2. import.pc # "write" /\ upload.pc # "put"
  BY <1>1, OneHolds
<1>c. PICK cut : /\ cut = Landed(manifest, undo.source)
                 /\ KeysOf(manifest') = KeysOf(manifest) \ cut
                 /\ \A k \in KeysOf(manifest') : LatestOf(manifest', k) = LatestOf(manifest, k)
                 /\ \A k \in cut : ~Sent(k) /\ bar[k] = Absent
  BY CutLeaves
<1>3. BarTypeOK'
  <2>1. \A line \in Import : line \in BarLine
    BY DEF Import
  <2>2. manifest' \in Seq(BarLine)
    BY <2>1, CutLeaves
  <2>3. holder' \notin {"import", "undo", "upload"}
    BY <1>1, BarConstants
  <2> QED
    BY <1>1, <1>2, <2>2, <2>3 DEF BarTypeOK
<1>4. Shapes' /\ UndoFits'
  BY <1>1, CutLeaves DEF Shapes, UndoFits
<1>5. Withdrawn'
  <2>1. ASSUME NEW k \in Keys, Sent(k)' PROVE Recorded(k)' /\ object'[k] = Entry(k)'.ver
    <3>1. Sent(k) /\ Recorded(k) /\ object[k] = Entry(k).ver
      BY <1>1, <2>1 DEF Sent, Withdrawn
    <3>2. k \in KeysOf(manifest')
      BY <1>c, <3>1 DEF Recorded
    <3>3. Entry(k)' = Entry(k)
      BY <1>c, <3>2 DEF Entry
    <3> QED
      BY <1>1, <3>1, <3>2, <3>3 DEF Recorded
  <2> QED
    BY <1>1, <2>1, CutLeaves DEF Withdrawn
<1>6. Accounted'
  <2> SUFFICES ASSUME NEW k \in Keys, bar'[k] # Absent, ~Recorded(k)'
               PROVE  k \in orphans'
    BY DEF Accounted
  <2>1. bar[k] # Absent /\ k \notin cut
    BY <1>1, <1>c
  <2>2. ~Recorded(k)
    BY <1>c, <2>1 DEF Recorded
  <2> QED
    BY <1>1, <1>2, <2>1, <2>2 DEF Accounted
<1> QED
  BY <1>1, <1>2, <1>3, <1>4, <1>5, <1>6, ImportKept, UploadKept DEF ImportInv

LEMMA UndoDiesKeeps ==
  ASSUME ImportInv, UndoDies
  PROVE  ImportInv'
<1>1. /\ BarTypeOK /\ Shapes /\ Withdrawn /\ ImportFits /\ UndoFits /\ UploadFits /\ Accounted
      /\ undo.pc = "unlink" /\ undo' = Away /\ undo'.pc = "away" /\ holder' = Absent
      /\ UNCHANGED <<manifest, bar, temps, trimmed, orphans, listing, object, import, upload>>
  BY DEF ImportInv, UndoDies, lakeVars, bucket, Away
<1>2. import.pc # "write" /\ upload.pc # "put" /\ holder' \notin {"import", "undo", "upload"}
  BY <1>1, OneHolds, BarConstants
<1>3. BarTypeOK' /\ Shapes' /\ UndoFits'
  BY <1>1, <1>2 DEF BarTypeOK, Shapes, UndoFits
<1> QED
  BY <1>1, <1>3, WithdrawnKept, ImportKept, UploadKept, AccountedKept DEF ImportInv

------------------------------------------------------------------------------
(* The steps of the upload, the trim, a restore and other writers keep it.          *)

LEMMA UploadBeginsKeeps ==
  ASSUME ImportInv, UploadBegins
  PROVE  ImportInv'
<1>1. /\ BarTypeOK /\ Shapes /\ Withdrawn /\ ImportFits /\ UndoFits /\ UploadFits /\ Accounted
      /\ holder = Absent /\ holder' = "upload" /\ Len(listing) < Len(manifest)
      /\ upload' = [pc |-> "put",
                    todo |-> KeysOf(SubSeq(manifest, Len(listing) + 1, Len(manifest)))]
      /\ UNCHANGED <<manifest, bar, temps, trimmed, orphans, listing, object, import, undo>>
  BY DEF ImportInv, UploadBegins, lakeVars, bucket
<1>2. import.pc # "write" /\ undo.pc # "unlink"
  BY <1>1, OneHolds
<1> DEFINE rest == SubSeq(manifest, Len(listing) + 1, Len(manifest))
<1>3. KeysOf(rest) \subseteq KeysOf(manifest)
  <2>1. manifest \in Seq(Import) /\ listing \in Seq(Import)
    BY <1>1 DEF Shapes
  <2>2. Len(manifest) \in Nat /\ Len(listing) \in Nat /\ \A i \in 1..Len(manifest) : manifest[i] \in Import
    BY <2>1
  <2>3. /\ rest \in Seq(Import) /\ Len(rest) = Len(manifest) - Len(listing)
        /\ \A i \in 1..(Len(manifest) - Len(listing)) : rest[i] = manifest[Len(listing) + i]
    <3>1. /\ Len(listing) + 1 \in Int /\ Len(manifest) \in Int /\ Len(listing) + 1 <= Len(manifest)
          /\ Len(manifest) - (Len(listing) + 1) + 1 = Len(manifest) - Len(listing)
      BY <1>1, <2>2
    <3>2. \A i \in (Len(listing) + 1)..Len(manifest) : manifest[i] \in Import
      BY <2>2
    <3>3. \A i \in 1..(Len(manifest) - Len(listing)) : (Len(listing) + 1) + i - 1 = Len(listing) + i
      BY <2>2
    <3> QED
      BY <3>1, <3>2, <3>3, SubSeqProperties
  <2> HIDE DEF rest
  <2>4. KeysOf(rest) = {rest[i].key : i \in 1..Len(rest)} \cap Keys
    BY <2>3, LinesAre
  <2>5. KeysOf(manifest) = {manifest[i].key : i \in 1..Len(manifest)} \cap Keys
    BY <2>1, LinesAre
  <2>6. ASSUME NEW k \in KeysOf(rest) PROVE k \in KeysOf(manifest)
    <3>1. PICK i \in 1..Len(rest) : rest[i].key = k /\ k \in Keys
      BY <2>4
    <3>2. Len(listing) + i \in 1..Len(manifest) /\ manifest[Len(listing) + i].key = k
      BY <2>2, <2>3, <3>1
    <3> QED
      BY <2>5, <3>1, <3>2
  <2> QED
    BY <2>6
<1>4. /\ upload' \in Putting /\ upload'.pc = "put" /\ upload'.todo = KeysOf(rest)
  <2>1. KeysOf(rest) \subseteq Keys
    BY DEF KeysOf
  <2> QED
    BY <1>1, <2>1 DEF Putting
<1> HIDE DEF rest
<1>5. BarTypeOK' /\ Shapes'
  BY <1>1, <1>2, <1>4 DEF BarTypeOK, Shapes
<1>6. UploadFits'
  BY <1>1, <1>3, <1>4 DEF UploadFits
<1> QED
  BY <1>1, <1>5, <1>6, WithdrawnKept, ImportKept, UndoKept, AccountedKept DEF ImportInv

LEMMA UploadPutsKeeps ==
  ASSUME ImportInv, UploadPuts
  PROVE  /\ ImportInv'
         /\ manifest' = manifest /\ \A k \in Keys : Sent(k) => object'[k] = object[k]
<1>1. /\ BarTypeOK /\ Shapes /\ Withdrawn /\ ImportFits /\ UndoFits /\ UploadFits /\ Accounted
      /\ upload.pc = "put" /\ upload \in Putting
      /\ UNCHANGED <<manifest, bar, temps, trimmed, orphans, listing, import, undo>>
  BY States DEF ImportInv, UploadPuts, lakeVars
<1>2. import.pc # "write" /\ undo.pc # "unlink"
  BY <1>1, OneHolds
<1>3. PICK k \in upload.todo :
        IF bar[k] # Absent /\ bar[k].ver = Entry(k).ver
        THEN /\ object' = [object EXCEPT ![k] = Entry(k).ver]
             /\ upload' = [upload EXCEPT !.todo = @ \ {k}] /\ holder' = holder
        ELSE upload' = Away /\ holder' = Absent /\ object' = object
  BY DEF UploadPuts
<1>4. ImportFits' /\ UndoFits' /\ Accounted'
  BY <1>1, <1>2, ImportKept, UndoKept, AccountedKept
<1>5. CASE bar[k] # Absent /\ bar[k].ver = Entry(k).ver
  <2>1. k \in Keys /\ Recorded(k)
    BY <1>1 DEF Putting, UploadFits, Recorded
  <2>2. Entry(k).ver \in Version
    BY <1>1, <2>1, LatestTyped DEF Shapes, Recorded, Entry
  <2>3. /\ object' = [object EXCEPT ![k] = Entry(k).ver] /\ holder' = holder
        /\ upload' \in Putting /\ upload'.pc = "put" /\ upload'.todo = upload.todo \ {k}
    BY <1>1, <1>3, <1>5 DEF Putting
  <2>4. /\ object' \in [Keys -> Version \cup {Absent}] /\ object'[k] = Entry(k).ver
        /\ \A x \in Keys \ {k} : object'[x] = object[x]
    BY <1>1, <2>1, <2>2, <2>3 DEF BarTypeOK
  <2>5. BarTypeOK' /\ Shapes'
    BY <1>1, <2>3, <2>4 DEF BarTypeOK, Shapes
  <2>6. UploadFits'
    BY <1>1, <2>3 DEF UploadFits
  <2>7. Withdrawn'
    <3>1. ASSUME NEW x \in Keys, Sent(x)' PROVE Recorded(x)' /\ object'[x] = Entry(x)'.ver
      <4>1. Entry(x)' = Entry(x) /\ (Recorded(x)' <=> Recorded(x))
        BY <1>1 DEF Entry, Recorded
      <4>2. CASE x = k
        BY <2>1, <2>4, <4>1, <4>2
      <4>3. CASE x # k
        <5>1. object'[x] = object[x] /\ Sent(x)
          BY <2>4, <3>1, <4>3 DEF Sent
        <5> QED
          BY <1>1, <4>1, <5>1 DEF Withdrawn
      <4> QED
        BY <4>2, <4>3
    <3> QED
      BY <1>1, <3>1 DEF Withdrawn
  <2>8. ASSUME NEW x \in Keys, Sent(x) PROVE object'[x] = object[x]
    BY <1>1, <2>4, <2>8 DEF Withdrawn
  <2> QED
    BY <1>1, <1>4, <2>5, <2>6, <2>7, <2>8 DEF ImportInv
<1>6. CASE ~(bar[k] # Absent /\ bar[k].ver = Entry(k).ver)
  <2>1. upload' = Away /\ upload'.pc = "away" /\ holder' = Absent /\ object' = object
    BY <1>3, <1>6 DEF Away
  <2>2. holder' \notin {"import", "undo", "upload"}
    BY <2>1, BarConstants
  <2>3. BarTypeOK' /\ Shapes' /\ UploadFits'
    BY <1>1, <1>2, <2>1, <2>2 DEF BarTypeOK, Shapes, UploadFits
  <2> QED
    BY <1>1, <1>4, <2>1, <2>3, WithdrawnKept DEF ImportInv
<1> QED
  BY <1>5, <1>6

LEMMA UploadStopsKeeps ==
  ASSUME ImportInv, UploadEnds \/ UploadDies
  PROVE  ImportInv'
<1>1. /\ BarTypeOK /\ Shapes /\ Withdrawn /\ ImportFits /\ UndoFits /\ UploadFits /\ Accounted
      /\ upload.pc = "put" /\ upload' = Away /\ upload'.pc = "away" /\ holder' = Absent
      /\ listing' \in {listing, manifest}
      /\ UNCHANGED <<manifest, bar, temps, trimmed, orphans, object, import, undo>>
  BY DEF ImportInv, UploadEnds, UploadDies, lakeVars, bucket, Away
<1>2. import.pc # "write" /\ undo.pc # "unlink" /\ holder' \notin {"import", "undo", "upload"}
  BY <1>1, OneHolds, BarConstants
<1>3. BarTypeOK' /\ Shapes' /\ UploadFits'
  BY <1>1, <1>2 DEF BarTypeOK, Shapes, UploadFits
<1>4. Withdrawn'
  <2>1. manifest \in Seq(Import) /\ Len(manifest) \in Nat
    BY <1>1 DEF Shapes
  <2>2. IsPrefix(manifest, manifest)
    BY <2>1, PrefixIs
  <2> QED
    BY <1>1, <2>2, SameLines DEF Withdrawn
<1> QED
  BY <1>1, <1>2, <1>3, <1>4, ImportKept, UndoKept, AccountedKept DEF ImportInv

LEMMA FilesKeeps ==
  ASSUME ImportInv, NEW k \in Keys, Trim(k) \/ RestoreRange(k) \/ FileLost(k)
  PROVE  ImportInv' /\ UNCHANGED <<manifest, object>>
<1>1. /\ BarTypeOK /\ Shapes /\ Withdrawn /\ ImportFits /\ UndoFits /\ UploadFits /\ Accounted
      /\ UNCHANGED <<manifest, temps, orphans, listing, object, holder, import, undo, upload>>
      /\ trimmed' \in {trimmed, trimmed \cup {k}, trimmed \ {k}}
  BY DEF ImportInv, Trim, RestoreRange, FileLost, bucket
<1>2. CASE bar' = [bar EXCEPT ![k] = Absent]
  <2>1. /\ bar' \in [Keys -> File \cup {Absent}]
        /\ \A x \in Keys : bar'[x] \in {bar[x], Absent}
    BY <1>1, <1>2 DEF BarTypeOK
  <2>2. BarTypeOK' /\ Shapes'
    BY <1>1, <2>1 DEF BarTypeOK, Shapes
  <2> QED
    BY <1>1, <2>1, <2>2, WithdrawnKept, ImportKept, UndoKept, UploadKept, AccountedKept DEF ImportInv
<1>3. CASE RestoreRange(k)
  <2>1. /\ holder = Absent /\ Recorded(k)
        /\ bar' = [bar EXCEPT ![k] = [source |-> Entry(k).source, ver |-> Entry(k).ver]]
    BY <1>3 DEF RestoreRange, Restorable
  <2>2. Entry(k).source \in Sources /\ Entry(k).ver \in Version
    BY <1>1, <2>1, LatestTyped DEF Shapes, Recorded, Entry
  <2>3. /\ bar' \in [Keys -> File \cup {Absent}]
        /\ \A x \in Keys \ {k} : bar'[x] = bar[x]
    BY <1>1, <2>1, <2>2 DEF BarTypeOK, File
  <2>4. BarTypeOK' /\ Shapes'
    BY <1>1, <2>3 DEF BarTypeOK, Shapes
  <2>5. undo.pc # "unlink"
    BY <1>1, <2>1, OneHolds
  <2>6. Accounted'
    BY <1>1, <2>1, <2>3, AccountedKept
  <2> QED
    BY <1>1, <2>4, <2>5, <2>6, WithdrawnKept, ImportKept, UndoKept, UploadKept DEF ImportInv
<1> QED
  BY <1>1, <1>2, <1>3 DEF Trim, FileLost

LEMMA RecordElsewhereKeeps ==
  ASSUME ImportInv, RecordElsewhere
  PROVE  /\ ImportInv' /\ object' = object /\ KeysOf(manifest') = KeysOf(manifest)
         /\ \A k \in KeysOf(manifest) : LatestOf(manifest', k) = LatestOf(manifest, k)
<1>1. /\ BarTypeOK /\ Shapes /\ Withdrawn /\ ImportFits /\ UndoFits /\ UploadFits /\ Accounted
      /\ holder = Absent /\ manifest' = Append(manifest, Other)
      /\ UNCHANGED <<bar, temps, trimmed, orphans, listing, object, holder, import, undo, upload>>
  BY DEF ImportInv, RecordElsewhere, bucket
<1>2. import.pc # "write" /\ undo.pc # "unlink" /\ upload.pc # "put"
  BY <1>1, OneHolds
<1>3. PICK tail : tail = <<Other>> /\ tail \in Seq(Import) /\ KeysOf(tail) = {}
  BY OtherIs
<1>4. manifest \in Seq(Import) /\ listing \in Seq(Import) /\ IsPrefix(listing, manifest)
  BY <1>1 DEF Shapes, Withdrawn
<1>5. manifest' = manifest \o tail
  BY <1>1, <1>3, <1>4, OtherIs, AppendIsConcat
<1>6. /\ manifest' \in Seq(Import) /\ KeysOf(manifest') = KeysOf(manifest)
      /\ \A k \in KeysOf(manifest) : LatestOf(manifest', k) = LatestOf(manifest, k)
  <2>1. /\ manifest' \in Seq(Import) /\ KeysOf(manifest') = KeysOf(manifest) \cup KeysOf(tail)
        /\ \A k \in KeysOf(manifest) \ KeysOf(tail) : LatestOf(manifest', k) = LatestOf(manifest, k)
    <3>1. tail \in Seq(Import)
      BY <1>3
    <3> QED
      BY <1>4, <1>5, <3>1, AppendedIs
  <2> QED
    BY <1>3, <2>1
<1>7. IsPrefix(listing', manifest')
  BY <1>1, <1>3, <1>4, <1>5, PrefixGrows
<1>8. BarTypeOK' /\ Shapes'
  <2>1. \A line \in Import : line \in BarLine
    BY DEF Import
  <2>2. manifest' \in Seq(BarLine)
    BY <1>6, <2>1
  <2> QED
    BY <1>1, <1>6, <2>2 DEF BarTypeOK, Shapes
<1>9. \A k : /\ Recorded(k)' <=> Recorded(k)
             /\ Recorded(k) => Entry(k)' = Entry(k)
             /\ Sent(k)' <=> Sent(k)
  BY <1>1, <1>6 DEF Recorded, Entry, Sent
<1>10. Withdrawn'
  BY <1>1, <1>7, <1>9 DEF Withdrawn
<1>11. Accounted'
  BY <1>1, <1>9 DEF Accounted
<1> QED
  BY <1>1, <1>2, <1>6, <1>8, <1>10, <1>11, ImportKept, UndoKept, UploadKept DEF ImportInv

------------------------------------------------------------------------------
(* The theorems.                                                                    *)

LEMMA ImportStarts == BarInit => ImportInv
<1> SUFFICES ASSUME BarInit PROVE ImportInv
  OBVIOUS
<1>1. /\ manifest = <<Other>> /\ listing = <<Other>>
      /\ bar = [k \in Keys |-> Absent] /\ object = [k \in Keys |-> Absent]
      /\ temps = {} /\ trimmed = {} /\ orphans = {} /\ holder = Absent
      /\ import = Away /\ undo = Away /\ upload = Away /\ Away.pc = "away"
  BY DEF BarInit, Away
<1>2. manifest \in Seq(Import) /\ Len(manifest) \in Nat /\ IsPrefix(listing, manifest)
  <2>1. manifest \in Seq(Import) /\ listing = manifest
    BY <1>1, OtherIs
  <2>2. Len(manifest) \in Nat
    BY <2>1
  <2> QED
    BY <2>1, <2>2, PrefixIs
<1>3. Shapes
  BY <1>1, <1>2 DEF Shapes
<1>4. BarTypeOK
  <2>1. manifest \in Seq(BarLine)
    BY <1>2 DEF Import
  <2> QED
    BY <1>1, <2>1, BarConstants DEF BarTypeOK
<1>5. Withdrawn
  BY <1>1, <1>2 DEF Withdrawn, Sent
<1>6. ImportFits /\ UndoFits /\ UploadFits /\ Accounted
  BY <1>1 DEF ImportFits, UndoFits, UploadFits, Accounted
<1> QED
  BY <1>3, <1>4, <1>5, <1>6 DEF ImportInv

LEMMA ImportKeeps ==
  ASSUME ImportInv, [BarNext]_barVars
  PROVE  ImportInv'
<1>1. CASE UNCHANGED barVars
  <2>1. UNCHANGED <<manifest, bar, temps, trimmed, orphans, listing, object, holder, import, undo, upload>>
    BY <1>1 DEF barVars, lakeVars, bucket
  <2>2. BarTypeOK' /\ Shapes'
    BY <2>1 DEF ImportInv, BarTypeOK, Shapes
  <2> QED
    BY <2>1, <2>2, WithdrawnKept, ImportKept, UndoKept, UploadKept, AccountedKept DEF ImportInv
<1>2. CASE BarNext
  <2>1. CASE Imports
    BY <2>1, ImportDecidesKeeps, ImportWritesKeeps, ImportStopsKeeps, ImportRecordsKeeps,
       ImportDiesKeeps DEF Imports
  <2>2. CASE Undoes
    BY <2>2, UndoLocksKeeps, UndoUnlinksKeeps, UndoCutsKeeps, UndoDiesKeeps DEF Undoes
  <2>3. CASE Uploads
    BY <2>3, UploadBeginsKeeps, UploadPutsKeeps, UploadStopsKeeps DEF Uploads
  <2>4. CASE RecordElsewhere
    BY <2>4, RecordElsewhereKeeps
  <2>5. CASE \E s \in Sources : ImportBegins(s) \/ UndoBegins(s)
    BY <2>5, ImportBeginsKeeps, UndoBeginsKeeps
  <2>6. CASE \E k \in Keys : Trim(k) \/ RestoreRange(k) \/ FileLost(k)
    BY <2>6, FilesKeeps
  <2> QED
    BY <1>2, <2>1, <2>2, <2>3, <2>4, <2>5, <2>6 DEF BarNext
<1> QED
  BY <1>1, <1>2

(* The invariant of the imports, the undos and what runs beside them.               *)
THEOREM ImportInvariant == BarSpec => []ImportInv
<1>1. ImportInv /\ [BarNext]_barVars => ImportInv'
  BY ImportKeeps
<1> QED
  BY ImportStarts, <1>1, PTL DEF BarSpec

(* An undo withdraws nothing the bucket has, a stop leaves nothing unrecorded, and  *)
(* an import refused for what the bucket holds can have its missing keys back.      *)
THEOREM ImportSoundAlways == BarSpec => []ImportSound
<1>1. ImportInv => ImportSound
  <2> SUFFICES ASSUME ImportInv PROVE ImportSound
    OBVIOUS
  <2>1. BarTypeOK /\ Withdrawn /\ Accounted
    BY DEF ImportInv
  <2>2. OnlyKilled
    BY <2>1, OneHolds DEF OnlyKilled, Accounted
  <2>3. Repairable
    <3> SUFFICES ASSUME NEW s \in Sources, NEW k \in Rewrites(s), Sent(k)
                 PROVE  Restorable(k)
      BY DEF Repairable
    <3>1. k \in Keys /\ Recorded(k) /\ bar[k] = Absent
      BY BarConstants DEF Rewrites
    <3> QED
      BY <2>1, <3>1 DEF Restorable, Withdrawn
  <2> QED
    BY <2>1, <2>2, <2>3 DEF ImportSound
<1> QED
  BY <1>1, ImportInvariant, PTL

(* No step gives a recorded key another source, or what the bucket has another      *)
(* content.                                                                         *)
THEOREM NothingReplacedAlways == BarSpec => NothingReplaced
<1> DEFINE Step == \A k \in Keys :
               /\ Sent(k) => object'[k] = object[k]
               /\ Recorded(k) /\ k \in KeysOf(manifest') =>
                      LatestOf(manifest', k).source = Entry(k).source
<1>1. ASSUME ImportInv, [BarNext]_barVars PROVE [Step]_barVars
  <2>1. ASSUME UNCHANGED <<manifest, object>> PROVE Step
    BY <2>1 DEF Entry
  <2>2. CASE ImportRecords
    <3>1. ASSUME NEW k \in Keys, Recorded(k)
          PROVE  LatestOf(manifest', k).source = Entry(k).source
      <4>1. CASE k \in ToSet(import.landed)
        BY <1>1, <2>2, <3>1, <4>1, RecordedAre DEF ImportInv, ImportFits, ImportRecords
      <4>2. CASE k \notin ToSet(import.landed)
        BY <1>1, <2>2, <3>1, <4>2, RecordedAre DEF Recorded, Entry
      <4> QED
        BY <4>1, <4>2
    <3> QED
      BY <2>2, <3>1 DEF ImportRecords, bucket
  <2>3. CASE UndoCuts
    <3>1. \A k \in KeysOf(manifest') : LatestOf(manifest', k) = LatestOf(manifest, k)
      BY <1>1, <2>3, CutLeaves
    <3> QED
      BY <2>3, <3>1 DEF UndoCuts, bucket, Entry
  <2>4. CASE UploadPuts
    <3>1. manifest' = manifest /\ \A k \in Keys : Sent(k) => object'[k] = object[k]
      BY <1>1, <2>4, UploadPutsKeeps
    <3> QED
      BY <3>1 DEF Entry
  <2>5. CASE RecordElsewhere
    <3>1. /\ object' = object
          /\ \A k \in KeysOf(manifest) : LatestOf(manifest', k) = LatestOf(manifest, k)
      BY <1>1, <2>5, RecordElsewhereKeeps
    <3> QED
      BY <3>1 DEF Entry, Recorded
  <2>6. CASE ImportDecides \/ ImportWrites \/ ImportStops \/ ImportDies
    BY <2>1, <2>6 DEF ImportDecides, ImportWrites, ImportStops, ImportDies, lakeVars, bucket
  <2>7. CASE UndoLocks \/ UndoUnlinks \/ UndoDies
    BY <2>1, <2>7 DEF UndoLocks, UndoUnlinks, UndoDies, lakeVars, bucket
  <2>8. CASE UploadBegins \/ UploadEnds \/ UploadDies
    BY <2>1, <2>8 DEF UploadBegins, UploadEnds, UploadDies, lakeVars, bucket
  <2>9. CASE \E s \in Sources : ImportBegins(s) \/ UndoBegins(s)
    BY <2>1, <2>9 DEF ImportBegins, UndoBegins, lakeVars, bucket
  <2>10. CASE \E k \in Keys : Trim(k) \/ RestoreRange(k) \/ FileLost(k)
    BY <1>1, <2>1, <2>10, FilesKeeps
  <2>11. CASE UNCHANGED barVars
    BY <2>11
  <2> HIDE DEF Step
  <2> QED
    BY <1>1, <2>2, <2>3, <2>4, <2>5, <2>6, <2>7, <2>8, <2>9, <2>10, <2>11
       DEF BarNext, Imports, Undoes, Uploads
<1> QED
  BY <1>1, ImportInvariant, PTL DEF BarSpec, NothingReplaced
==============================================================================
