-------------------------- MODULE SplitWalkProofs --------------------------
(* Theorems about SplitWalk, for every number of sessions and roots, every  *)
(* window and every number of mishaps.                                      *)
EXTENDS SplitWalk, FiniteSetTheorems, WellFoundedInduction, TLAPS

(***************************************************************************)
(* Types of a run, which SplitTypeOK leaves open.                          *)
(***************************************************************************)
Starts == {<<>>} \cup {<<s>> : s \in SavedStates}
SessionWalks ==
    [last : 0..LastDay, previous : 0..LastDay, seen : SUBSET Adjusted, unread : Nat,
     placed : BOOLEAN, state : Starts, stopped : BOOLEAN, landed : SUBSET (Sessions \X Adjusted),
     filed : SUBSET Sessions, doubted : SUBSET Sessions, master : SUBSET Sessions, start : Starts]
ReadCheckpoints ==
    [status : {"read"}, night : Sessions, proved : BOOLEAN, state : SavedStates,
     mappings : SUBSET Sessions]
SplitRuns ==
    [pc : {"walk", "walked"}, sweep : BOOLEAN, refused : BOOLEAN, night : Sessions, edge : Int,
     manifested : SUBSET Sessions, walk : SessionWalks, saved : Checkpoints,
     ahead : SUBSET Sessions]

\* The cutoff a run would write never falls behind the one it started from.
CutoffOf(start) == StateOf(start).cutoff
WalkForward(r) ==
    /\ CutoffOf(r.walk.start) <= r.walk.last
    /\ CutoffOf(r.walk.start) <= CutoffOf(r.walk.state)
    /\ \A d \in r.ahead : CutoffOf(r.walk.start) < d
    /\ r.walk.start = <<>> \/ (r.saved.status = "read" /\ r.walk.start = <<r.saved.state>>)

\* What is trimmed away while the sweep's run goes on lies behind the cutoff it started from.
SweepCovers(r) ==
    /\ r.saved.status = "read" => \A d \in TrimmedAway : d <= r.saved.state.cutoff
    /\ ~r.refused /\ r.walk.start = <<>> => TrimmedAway = {}

WalkerOK ==
    \/ walker = Resting
    \/ walker = [pc |-> "record"] /\ checkpoint.status = "read" /\ trimming = 0
    \/ /\ walker \in SplitRuns /\ WalkForward(walker)
       /\ walker.sweep => trimming = 0 /\ SweepCovers(walker)

CapturedPast == \A d \in Sessions : chains[d] # "none" => d <= session
TrimBehind == trimming # 0 => checkpoint.status = "read" /\ trimming <= checkpoint.state.cutoff

SplitInv == SplitTypeOK /\ NoneTrimmedAhead /\ CapturedPast /\ TrimBehind /\ WalkerOK

------------------------------------------------------------------------------
(* Lemmas about the operators. *)

LEMMA SessionsNat == Sessions \subseteq Nat /\ 0 \notin Sessions
BY SplitWalkConstants DEF Sessions

LEMMA NoStateSaved == NoState \in SavedStates /\ NoState.cutoff = 0
BY SplitWalkConstants DEF NoState, SavedStates

LEMMA StateOfSaved ==
    ASSUME NEW start \in Starts
    PROVE  /\ StateOf(start) \in SavedStates
           /\ CutoffOf(start) \in 0..LastDay
           /\ start # <<>> => start = <<StateOf(start)>>
BY NoStateSaved DEF Starts, StateOf, CutoffOf, SavedStates

LEMMA ReadIsRead ==
    ASSUME NEW c \in Checkpoints, c.status = "read"
    PROVE  c \in ReadCheckpoints
BY DEF Checkpoints, ReadCheckpoints, NoCheckpoint

\* The walk takes the sessions ahead one at a time, the earliest first.
LEMMA LeastAhead ==
    ASSUME NEW S \in SUBSET Sessions, S # {}
    PROVE  Min(S) \in S /\ \A y \in S : Min(S) <= y
<1> DEFINE less == {ss \in Nat \X Nat : ss[1] < ss[2]}
<1>1. S \subseteq Nat
  BY SessionsNat
<1>2. IsWellFoundedOn(less, Nat)
  BY NatLessThanWellFounded DEF OpToRel
<1>3. PICK x \in S : \A y \in S : ~ (<<y, x>> \in less)
  <2> HIDE DEF less
  <2> QED
    BY <1>1, <1>2, WFMin
<1>4. \A y \in S : x <= y
  <2> SUFFICES ASSUME NEW y \in S PROVE x <= y
    OBVIOUS
  <2>1. x \in Nat /\ y \in Nat /\ <<y, x>> \notin less
    BY <1>1, <1>3
  <2>2. ~ (y < x)
    BY <2>1
  <2> QED
    BY <2>1, <2>2
<1> QED
  BY <1>3, <1>4 DEF Min

LEMMA UncapturedCount ==
    ASSUME NEW w \in SessionWalks, NEW d \in Sessions
    PROVE  Cardinality(Uncaptured(w, d)) \in Nat
<1>1. w.last \in Int /\ d \in Int
  BY SessionsNat, SplitWalkConstants DEF SessionWalks
<1>2. Uncaptured(w, d) = {} \/ Uncaptured(w, d) = (w.last + 1)..(d - 1)
  BY DEF Uncaptured
<1>3. \A a, b \in Int : Cardinality(a..b) \in Nat
  <2> SUFFICES ASSUME NEW a \in Int, NEW b \in Int PROVE Cardinality(a..b) \in Nat
    OBVIOUS
  <2>1. Cardinality(a..b) = IF a > b THEN 0 ELSE b - a + 1
    BY FS_Interval
  <2> QED
    BY <2>1
<1>4. Cardinality({}) = 0
  BY FS_EmptySet
<1>5. w.last + 1 \in Int /\ d - 1 \in Int
  BY <1>1
<1>6. Cardinality((w.last + 1)..(d - 1)) \in Nat
  BY <1>3, <1>5, Zenon
<1> QED
  BY <1>2, <1>4, <1>6

LEMMA StopAtType ==
    ASSUME NEW w \in SessionWalks, NEW here \in BOOLEAN
    PROVE  /\ StopAt(w, here) \in SessionWalks
           /\ StopAt(w, here).start = w.start
           /\ StopAt(w, here).last = w.last
           /\ \/ StopAt(w, here).state = w.state
              \/ w.last # 0 /\ CutoffOf(StopAt(w, here).state) = w.last
<1> DEFINE saved == [cutoff |-> w.last, previous |-> w.previous, seen |-> w.seen,
                     unread |-> w.unread]
           state == IF w.last = 0 THEN w.state ELSE <<saved>>
<1>1. saved \in SavedStates
  BY DEF SessionWalks, SavedStates
<1>2. state \in Starts /\ (state = w.state \/ (w.last # 0 /\ CutoffOf(state) = w.last))
  BY <1>1 DEF SessionWalks, Starts, CutoffOf, StateOf
<1>3. CASE here /\ ~w.stopped
  <2>1. StopAt(w, here) = [w EXCEPT !.stopped = TRUE, !.state = state]
    BY <1>3 DEF StopAt
  <2> HIDE DEF state
  <2> QED
    BY <2>1, <1>2 DEF SessionWalks
<1>4. CASE ~(here /\ ~w.stopped)
  BY <1>4 DEF StopAt
<1> QED
  BY <1>3, <1>4

LEMMA ExamineType ==
    ASSUME NEW w \in SessionWalks, NEW d \in Sessions, NEW onDisk, NEW doubted, NEW edge,
           roots \in [Sessions -> SUBSET Adjusted]
    PROVE  /\ Examine(w, d, onDisk, doubted, edge) \in SessionWalks
           /\ Examine(w, d, onDisk, doubted, edge).start = w.start
           /\ Examine(w, d, onDisk, doubted, edge).last = d
           /\ \/ Examine(w, d, onDisk, doubted, edge).state = w.state
              \/ w.last # 0 /\ CutoffOf(Examine(w, d, onDisk, doubted, edge).state) = w.last
<1> DEFINE unread == w.unread + IF w.previous = 0 THEN 0 ELSE Cardinality(Uncaptured(w, d))
           reading == Reading(w, d, onDisk, doubted)
           gained == IF reading = "read" THEN Gained(w, d) ELSE {}
           stops == \/ d > edge \/ UnsealedBefore(w, d)
                    \/ reading = "out of scope" /\ w.placed
                    \/ reading \in Reversible
                    \/ gained # {} /\ unread > 0
           stopped == StopAt(w, stops)
           placed == stopped.placed \/ reading # "out of scope"
           withheld == stopped.doubted \cup IF reading = "quarantined" THEN {d} ELSE {}
           at == [stopped EXCEPT !.last = d, !.placed = placed, !.doubted = withheld]
           unseen == [at EXCEPT !.unread = unread + 1]
           read == [at EXCEPT !.previous = d, !.seen = @ \cup roots[d], !.unread = 0,
                        !.landed = @ \cup IF unread = 0 THEN {d} \X gained ELSE {},
                        !.filed = @ \cup IF unread > 0 /\ gained # {} THEN {d} ELSE {}]
<1>1. unread \in Nat
  BY UncapturedCount DEF SessionWalks
<1>2. gained \subseteq Adjusted /\ roots[d] \subseteq Adjusted
  BY DEF Gained
<1>3. /\ stopped \in SessionWalks /\ stopped.start = w.start
      /\ stopped.state = w.state \/ (w.last # 0 /\ CutoffOf(stopped.state) = w.last)
  <2>1. stops \in BOOLEAN
    BY DEF UnsealedBefore
  <2> HIDE DEF stops
  <2> QED
    BY <2>1, StopAtType
<1>4. d \in 0..LastDay
  BY DEF Sessions
<1>5. placed \in BOOLEAN /\ withheld \subseteq Sessions
  <2> HIDE DEF stopped
  <2> QED
    BY <1>3 DEF SessionWalks
<1> HIDE DEF unread, stops, stopped, placed, withheld, gained
<1>6. at \in SessionWalks /\ at.start = w.start /\ at.last = d /\ at.state = stopped.state
  BY <1>3, <1>4, <1>5 DEF SessionWalks
<1> HIDE DEF at
<1>7. /\ unseen \in SessionWalks /\ unseen.start = w.start /\ unseen.last = d
      /\ unseen.state = stopped.state
  BY <1>1, <1>6 DEF SessionWalks
<1>8. /\ read \in SessionWalks /\ read.start = w.start /\ read.last = d
      /\ read.state = stopped.state
  BY ZenonT(40), <1>2, <1>4, <1>6 DEF SessionWalks
<1>9. Examine(w, d, onDisk, doubted, edge) = IF reading # "read" THEN unseen ELSE read
  BY DEF Examine, at, withheld, placed, stopped, stops, gained, unread
<1> HIDE DEF unseen, read, reading
<1> QED
  BY <1>3, <1>7, <1>8, <1>9

LEMMA FromType ==
    ASSUME NEW start \in Starts, NEW master \in SUBSET Sessions
    PROVE  /\ From(start, master) \in SessionWalks
           /\ From(start, master).start = start /\ From(start, master).state = start
           /\ From(start, master).last = CutoffOf(start)
<1> DEFINE placed == MappingsAt(master, StateOf(start).cutoff) # {}
<1>1. StateOf(start) \in SavedStates /\ placed \in BOOLEAN
  BY StateOfSaved
<1> HIDE DEF placed
<1>2. From(start, master) =
        [last |-> StateOf(start).cutoff, previous |-> StateOf(start).previous,
         seen |-> StateOf(start).seen, unread |-> StateOf(start).unread, placed |-> placed,
         state |-> start, stopped |-> FALSE, landed |-> {}, filed |-> {}, doubted |-> {},
         master |-> master, start |-> start]
  BY DEF From, placed
<1> QED
  BY <1>1, <1>2 DEF SessionWalks, SavedStates, CutoffOf

------------------------------------------------------------------------------
(* The inductive invariant. *)

LEMMA SplitInvInit == SplitInit => SplitInv
<1> SUFFICES ASSUME SplitInit PROVE SplitInv
  OBVIOUS
<1>1. SplitTypeOK
  BY SplitWalkConstants
     DEF SplitInit, SplitTypeOK, Sessions, Manifested, Checkpoints, Resting
<1>2. NoneTrimmedAhead /\ TrimBehind /\ CapturedPast /\ WalkerOK
  BY DEF SplitInit, NoneTrimmedAhead, TrimBehind, CapturedPast, WalkerOK, NoCheckpoint
<1> QED
  BY <1>1, <1>2 DEF SplitInv

\* What leaves the run alone keeps what is known of it, unless it trims under the sweep's.
LEMMA WalkerKept ==
    ASSUME SplitInv, walker' = walker,
           walker.pc = "record" => checkpoint'.status = "read" /\ trimming' = 0,
           SweepWalks => trimming' = 0 /\ TrimmedAway' \subseteq TrimmedAway
    PROVE  WalkerOK'
<1>1. CASE walker \in SplitRuns /\ WalkForward(walker) /\ (walker.sweep => trimming = 0 /\ SweepCovers(walker))
  <2>1. WalkForward(walker)'
    BY <1>1 DEF WalkForward, CutoffOf, StateOf, NoState
  <2>2. ASSUME walker.sweep PROVE trimming' = 0 /\ SweepCovers(walker)'
    <3>1. SweepWalks
      BY <1>1, <2>2 DEF SweepWalks, SplitRuns
    <3> QED
      BY <1>1, <2>2, <3>1 DEF SweepCovers
  <2>3. walker' \in SplitRuns
    BY <1>1 DEF SplitRuns
  <2> QED
    BY <2>1, <2>2, <2>3 DEF WalkerOK
<1>2. CASE walker = Resting \/ walker = [pc |-> "record"]
  BY <1>2 DEF WalkerOK, Resting
<1> QED
  BY <1>1, <1>2 DEF SplitInv, WalkerOK

LEMMA BeginStep ==
    ASSUME SplitInv, NEW sweep \in BOOLEAN, SplitsBegin(sweep)
    PROVE  WalkerOK'
<1> DEFINE start == IF TrimmedAway = {} THEN <<>> ELSE <<checkpoint.state>>
           refused == TrimmedAway # {} /\ Refusal
           from == IF refused THEN <<>> ELSE start
           walk == From(from, resolved)
           ahead == {d \in Manifested : d > CutoffOf(from)}
           edge == IF sweep THEN EdgeOf(session) ELSE LastDay
<1>1. ~refused /\ TrimmedAway # {} =>
        checkpoint.status = "read" /\ checkpoint \in ReadCheckpoints
  BY ReadIsRead DEF Refusal, SplitInv, SplitTypeOK
<1>2. from \in Starts
  BY <1>1 DEF Starts, ReadCheckpoints
<1>3. resolved \in SUBSET Sessions /\ checkpoint \in Checkpoints /\ Manifested \subseteq Sessions
  BY DEF SplitInv, SplitTypeOK, Manifested
<1>4. /\ walk \in SessionWalks /\ walk.start = from /\ walk.state = from
      /\ walk.last = CutoffOf(from)
  BY <1>2, <1>3, FromType
<1>5. session \in Sessions /\ edge \in Int
  <2>1. PICK d \in Manifested : TRUE
    BY DEF SplitsBegin
  <2>2. d <= session /\ d \in Sessions
    BY <2>1 DEF SplitInv, CapturedPast, Manifested
  <2> QED
    BY <2>2, SplitWalkConstants DEF SplitInv, SplitTypeOK, Sessions, EdgeOf
<1>6. walker' = [pc |-> IF refused THEN "walked" ELSE "walk", sweep |-> sweep,
                 refused |-> refused, night |-> session, edge |-> edge,
                 manifested |-> Manifested, walk |-> walk, saved |-> checkpoint,
                 ahead |-> ahead]
  <2>1. CASE refused
    BY <2>1, <1>4 DEF SplitsBegin, Run, CutoffOf
  <2>2. CASE ~refused
    BY <2>2, <1>4 DEF SplitsBegin, Run, CutoffOf
  <2> QED
    BY <2>1, <2>2
<1>7. refused \in BOOLEAN /\ ahead \subseteq Sessions
  BY <1>3
<1>8. TrimmedAway' = TrimmedAway /\ trimming' = trimming /\ (sweep => trimming = 0)
  BY DEF SplitsBegin, TrimmedAway, trimSide
<1>9. ~refused /\ from # <<>> => from = <<checkpoint.state>> /\ TrimmedAway # {}
  OBVIOUS
<1>10. ~refused /\ from = <<>> => TrimmedAway = {}
  OBVIOUS
<1>11. CutoffOf(from) \in 0..LastDay
  BY <1>2, StateOfSaved
<1> HIDE DEF walk, ahead, edge, refused
<1>12. walker' \in SplitRuns
  BY <1>3, <1>4, <1>5, <1>6, <1>7 DEF SplitRuns
<1>13. WalkForward(walker')
  <2>1. from = <<>> \/ (checkpoint.status = "read" /\ from = <<checkpoint.state>>)
    BY <1>1, <1>9 DEF refused
  <2> HIDE DEF from
  <2> QED
    BY <1>4, <1>6, <1>11, <2>1 DEF WalkForward, ahead
<1>14. sweep => SweepCovers(walker)'
  <2>1. checkpoint.status = "read" => \A d \in TrimmedAway : d <= checkpoint.state.cutoff
    BY DEF SplitInv, NoneTrimmedAhead
  <2> HIDE DEF from
  <2> QED
    BY <1>4, <1>6, <1>8, <1>10, <2>1 DEF SweepCovers
<1>15. WalkForward(walker)' /\ (walker'.sweep => trimming' = 0 /\ SweepCovers(walker)')
  BY <1>6, <1>8, <1>13, <1>14 DEF WalkForward, CutoffOf, StateOf, NoState, SweepCovers
<1> QED
  BY <1>12, <1>15 DEF WalkerOK

LEMMA RunningType ==
    ASSUME SplitInv, walker.pc \in {"walk", "walked"}
    PROVE  /\ walker \in SplitRuns /\ WalkForward(walker)
           /\ walker.sweep => trimming = 0 /\ SweepCovers(walker)
BY DEF SplitInv, WalkerOK, Resting

\* A step of the walk itself: the state it would write moves on, or stays.
LEMMA WalkMoves ==
    ASSUME SplitInv, walker.pc \in {"walk", "walked"}, UNCHANGED trimSide,
           NEW walk \in SessionWalks, NEW refused \in BOOLEAN, NEW pc \in {"walk", "walked"},
           NEW ahead \in SUBSET walker.ahead,
           walker' = [walker EXCEPT !.pc = pc, !.refused = refused, !.ahead = ahead,
                                    !.walk = walk],
           walker.refused => refused,
           walk.start = walker.walk.start, CutoffOf(walk.start) <= walk.last,
           \/ walk.state = walker.walk.state
           \/ walker.walk.last # 0 /\ CutoffOf(walk.state) = walker.walk.last
    PROVE  WalkerOK'
<1>1. /\ walker \in SplitRuns /\ WalkForward(walker)
      /\ walker.sweep => trimming = 0 /\ SweepCovers(walker)
  BY RunningType
<1>2. walker' \in SplitRuns
  BY <1>1 DEF SplitRuns
<1>3. /\ walker'.walk = walk /\ walker'.ahead = ahead /\ walker'.saved = walker.saved
      /\ walker'.sweep = walker.sweep /\ walker'.refused = refused
  BY <1>1 DEF SplitRuns
<1>4. walker.walk \in SessionWalks /\ walker.walk.start \in Starts
  BY <1>1 DEF SplitRuns, SessionWalks
<1>5. /\ CutoffOf(walk.start) \in Int /\ CutoffOf(walk.state) \in Int
      /\ walker.walk.last \in Int /\ walk.last \in Int
  BY <1>4, StateOfSaved, SplitWalkConstants DEF SessionWalks
<1>6. WalkForward(walker)'
  <2>1. /\ CutoffOf(walk.start) <= walk.last /\ CutoffOf(walk.start) <= CutoffOf(walk.state)
        /\ \A d \in ahead : CutoffOf(walk.start) < d
        /\ walk.start = <<>> \/ (walker.saved.status = "read" /\ walk.start = <<walker.saved.state>>)
    BY <1>1, <1>5 DEF WalkForward
  <2>2. WalkForward(walker')
    BY <1>3, <2>1 DEF WalkForward
  <2> QED
    BY <2>2 DEF WalkForward, CutoffOf, StateOf, NoState
<1>7. walker'.sweep => trimming' = 0 /\ SweepCovers(walker)'
  BY <1>1, <1>3 DEF SweepCovers, TrimmedAway, trimSide
<1> QED
  BY <1>2, <1>6, <1>7 DEF WalkerOK

LEMMA MeetsTrimStep == SplitInv /\ MeetsTrim => WalkerOK'
<1> SUFFICES ASSUME SplitInv, MeetsTrim PROVE WalkerOK'
  OBVIOUS
<1>1. walker \in SplitRuns
  BY RunningType DEF MeetsTrim
<1>2. walker.walk \in SessionWalks /\ CutoffOf(walker.walk.start) <= walker.walk.last
  BY <1>1, RunningType DEF MeetsTrim, SplitRuns, WalkForward
<1>3. walker' = [walker EXCEPT !.pc = "walked", !.refused = TRUE, !.ahead = walker.ahead,
                               !.walk = walker.walk]
  BY <1>1 DEF MeetsTrim, SplitRuns
<1> QED
  BY <1>2, <1>3, WalkMoves DEF MeetsTrim

LEMMA WalksDayStep == SplitInv /\ WalksDay => WalkerOK'
<1> SUFFICES ASSUME SplitInv, WalksDay PROVE WalkerOK'
  OBVIOUS
<1> DEFINE walk == Examine(walker.walk, Upcoming, held, distrusted, walker.edge)
           ahead == walker.ahead \ {Upcoming}
<1>1. walker \in SplitRuns /\ WalkForward(walker) /\ walker.pc = "walk"
  BY RunningType DEF WalksDay
<1>2. Upcoming \in walker.ahead /\ Upcoming \in Sessions
  <2>1. walker.ahead \in SUBSET Sessions /\ walker.ahead # {}
    BY <1>1 DEF SplitRuns, WalksDay
  <2> QED
    BY <2>1, LeastAhead DEF Upcoming
<1>3. walker.walk \in SessionWalks /\ roots \in [Sessions -> SUBSET Adjusted]
  BY <1>1 DEF SplitRuns, SplitInv, SplitTypeOK
<1>4. /\ walk \in SessionWalks /\ walk.start = walker.walk.start /\ walk.last = Upcoming
      /\ walk.state = walker.walk.state
         \/ (walker.walk.last # 0 /\ CutoffOf(walk.state) = walker.walk.last)
  BY <1>2, <1>3, ExamineType
<1>5. walker' = [walker EXCEPT !.pc = "walk", !.refused = walker.refused, !.ahead = ahead,
                               !.walk = walk]
  BY <1>1 DEF WalksDay, SplitRuns
<1> HIDE DEF walk
<1>6. CutoffOf(walk.start) <= walk.last
  BY <1>1, <1>2, <1>3, <1>4, StateOfSaved, SplitWalkConstants
     DEF WalkForward, SessionWalks, Sessions
<1>7. walker.refused \in BOOLEAN /\ ahead \in SUBSET walker.ahead
  BY <1>1 DEF SplitRuns
<1> QED
  BY ZenonT(40), <1>1, <1>4, <1>5, <1>6, <1>7, WalkMoves DEF WalksDay

LEMMA WalkEndsStep == SplitInv /\ WalkEnds => WalkerOK'
<1> SUFFICES ASSUME SplitInv, WalkEnds PROVE WalkerOK'
  OBVIOUS
<1> DEFINE walk == StopAt(walker.walk, TRUE)
<1>1. walker \in SplitRuns /\ WalkForward(walker) /\ walker.pc = "walk"
  BY RunningType DEF WalkEnds
<1>2. walker.walk \in SessionWalks
  BY <1>1 DEF SplitRuns
<1>3. /\ walk \in SessionWalks /\ walk.start = walker.walk.start
      /\ walk.last = walker.walk.last
      /\ walk.state = walker.walk.state
         \/ (walker.walk.last # 0 /\ CutoffOf(walk.state) = walker.walk.last)
  BY <1>2, StopAtType
<1>4. walker' = [walker EXCEPT !.pc = "walked", !.refused = walker.refused,
                               !.ahead = walker.ahead, !.walk = walk]
  BY <1>1 DEF WalkEnds, SplitRuns
<1> HIDE DEF walk
<1>5. CutoffOf(walk.start) <= walk.last
  BY <1>1, <1>3 DEF WalkForward
<1>6. walker.refused \in BOOLEAN
  BY <1>1 DEF SplitRuns
<1> QED
  BY <1>1, <1>3, <1>4, <1>5, <1>6, WalkMoves DEF WalkEnds

\* What the sweep writes covers every session that is trimmed away.
LEMMA EntryType ==
    ASSUME SplitInv, WritesCheckpoint
    PROVE  /\ Entry[1].state \in SavedStates /\ Entry[1].mappings \in SUBSET Sessions
           /\ walker.night \in Sessions
           /\ \A d \in TrimmedAway : d <= Entry[1].state.cutoff
<1>1. /\ walker \in SplitRuns /\ WalkForward(walker) /\ SweepCovers(walker)
      /\ walker.walk \in SessionWalks /\ walker.saved \in Checkpoints
      /\ TrimmedAway \subseteq Sessions
  BY RunningType
     DEF WritesCheckpoint, SplitRuns, SplitInv, SplitTypeOK, TrimmedAway, Manifested
<1>2. walker.saved.status = "read" => walker.saved \in ReadCheckpoints
  BY <1>1, ReadIsRead
<1>3. CASE walker.refused
  <2>1. walker.saved.status = "read"
    BY <1>3 DEF WritesCheckpoint, Entry
  <2>2. Entry[1].state = walker.saved.state /\ Entry[1].mappings = walker.saved.mappings
    BY <1>3, <2>1 DEF Entry
  <2> QED
    BY <1>1, <1>2, <2>1, <2>2 DEF ReadCheckpoints, SweepCovers, SplitRuns
<1>4. CASE ~walker.refused
  <2> DEFINE state == StateOf(walker.walk.state)
  <2>1. Entry[1].state = state /\ Entry[1].mappings = MappingsAt(walker.walk.master, state.cutoff)
    BY <1>4 DEF Entry, StateOf
  <2>2. walker.walk.state \in Starts /\ walker.walk.start \in Starts
    BY <1>1 DEF SessionWalks
  <2>3. /\ state \in SavedStates /\ CutoffOf(walker.walk.state) = state.cutoff
        /\ state.cutoff \in 0..LastDay /\ CutoffOf(walker.walk.start) \in 0..LastDay
    BY <2>2, StateOfSaved DEF CutoffOf
  <2>4. MappingsAt(walker.walk.master, state.cutoff) \in SUBSET Sessions
    BY <1>1 DEF MappingsAt, SessionWalks
  <2>5. ASSUME NEW d \in TrimmedAway PROVE d <= state.cutoff
    <3>1. walker.walk.start # <<>>
      BY <1>1, <1>4, <2>5 DEF SweepCovers
    <3>2. walker.saved.status = "read" /\ walker.walk.start = <<walker.saved.state>>
      BY <1>1, <3>1 DEF WalkForward
    <3>3. CutoffOf(walker.walk.start) = walker.saved.state.cutoff
      BY <3>1, <3>2 DEF CutoffOf, StateOf
    <3>4. d <= walker.saved.state.cutoff /\ d \in Sessions
      BY <1>1, <3>2, <2>5 DEF SweepCovers
    <3>5. CutoffOf(walker.walk.start) <= state.cutoff
      BY <1>1, <2>3 DEF WalkForward
    <3> QED
      BY <2>3, <3>3, <3>4, <3>5, SessionsNat, SplitWalkConstants
  <2> QED
    BY <1>1, <2>1, <2>3, <2>4, <2>5 DEF SplitRuns
<1> QED
  BY <1>3, <1>4

LEMMA WritesStep == SplitInv /\ WritesCheckpoint => SplitInv'
<1> SUFFICES ASSUME SplitInv, WritesCheckpoint PROVE SplitInv'
  OBVIOUS
<1>1. /\ checkpoint' = [status |-> "read", night |-> walker.night, proved |-> FALSE,
                        state |-> Entry[1].state, mappings |-> Entry[1].mappings]
      /\ walker' = [pc |-> "record"] /\ trimming = 0
      /\ UNCHANGED <<lakeSide, trimSide, slips>>
  BY DEF WritesCheckpoint
<1>2. checkpoint' \in Checkpoints
  BY <1>1, EntryType DEF Checkpoints
<1>3. SplitTypeOK'
  BY <1>1, <1>2 DEF SplitInv, SplitTypeOK, lakeSide, trimSide, Manifested
<1>4. NoneTrimmedAhead'
  BY <1>1, EntryType DEF NoneTrimmedAhead, TrimmedAway, trimSide
<1>5. CapturedPast' /\ TrimBehind' /\ WalkerOK'
  BY <1>1 DEF SplitInv, CapturedPast, TrimBehind, WalkerOK, lakeSide, trimSide
<1> QED
  BY <1>3, <1>4, <1>5 DEF SplitInv

LEMMA RecordsStep == SplitInv /\ RecordsCheckpoint => SplitInv'
<1> SUFFICES ASSUME SplitInv, RecordsCheckpoint PROVE SplitInv'
  OBVIOUS
<1>1. checkpoint \in ReadCheckpoints /\ trimming = 0
  BY ReadIsRead DEF SplitInv, SplitTypeOK, WalkerOK, RecordsCheckpoint, Resting, SplitRuns
<1>2. /\ checkpoint' \in ReadCheckpoints /\ checkpoint'.state = checkpoint.state
      /\ checkpoint'.status = "read" /\ checkpoint.status = "read"
  BY <1>1 DEF RecordsCheckpoint, ReadCheckpoints
<1>3. SplitTypeOK'
  BY <1>2 DEF SplitInv, SplitTypeOK, RecordsCheckpoint, ReadCheckpoints, Checkpoints, Resting,
              lakeSide, trimSide, Manifested
<1>4. NoneTrimmedAhead' /\ CapturedPast' /\ TrimBehind' /\ WalkerOK'
  BY <1>1, <1>2 DEF SplitInv, NoneTrimmedAhead, TrimmedAway, CapturedPast, TrimBehind, WalkerOK,
                    RecordsCheckpoint, lakeSide, trimSide
<1> QED
  BY <1>3, <1>4 DEF SplitInv

LEMMA RunStep == SplitInv /\ SplitRun => SplitInv'
<1> SUFFICES ASSUME SplitInv, SplitRun PROVE SplitInv'
  OBVIOUS
<1>1. ASSUME UNCHANGED <<lakeSide, trimSide, checkpoint>>, WalkerOK', slips' \in 0..MaxSlips,
             walker'.pc \in {"rest", "walk", "walked", "record"}
      PROVE  SplitInv'
  BY <1>1 DEF SplitInv, SplitTypeOK, NoneTrimmedAhead, TrimmedAway, CapturedPast, TrimBehind,
              lakeSide, trimSide, Manifested
<1>2. slips \in 0..MaxSlips
  BY DEF SplitInv, SplitTypeOK
<1>3. WalkerOK' => walker'.pc \in {"rest", "walk", "walked", "record"}
  BY DEF WalkerOK, Resting, SplitRuns
<1>4. ASSUME NEW sweep \in BOOLEAN, SplitsBegin(sweep) PROVE SplitInv'
  BY <1>1, <1>2, <1>3, <1>4, BeginStep DEF SplitsBegin
<1>5. CASE MeetsTrim
  BY <1>1, <1>2, <1>3, <1>5, MeetsTrimStep DEF MeetsTrim
<1>6. CASE WalksDay
  BY <1>1, <1>2, <1>3, <1>6, WalksDayStep DEF WalksDay
<1>7. CASE WalkEnds
  BY <1>1, <1>2, <1>3, <1>7, WalkEndsStep DEF WalkEnds
<1>8. CASE WritesCheckpoint
  BY <1>8, WritesStep
<1>9. CASE RecordsCheckpoint
  BY <1>9, RecordsStep
<1>10. CASE SplitsEnd
  BY <1>1, <1>2, <1>3, <1>10 DEF SplitsEnd, WalkerOK
<1>11. CASE WalkerDies
  <2>1. slips' \in 0..MaxSlips
    BY <1>2, <1>11, SplitWalkConstants DEF WalkerDies, Slip
  <2> QED
    BY <1>1, <1>3, <1>11, <2>1 DEF WalkerDies, WalkerOK
<1> QED
  BY <1>4, <1>5, <1>6, <1>7, <1>8, <1>9, <1>10, <1>11 DEF SplitRun

LEMMA TrimStep == SplitInv /\ WindowTrim => SplitInv'
<1> SUFFICES ASSUME SplitInv, WindowTrim PROVE SplitInv'
  OBVIOUS
<1> USE DEF lakeSide, Manifested, TrimmedAway
<1>1. walker' = walker /\ checkpoint' = checkpoint
  BY DEF WindowTrim, TrimUnlinks, TrimDies, TrimLines, TrimKeeps, RangeRestore
<1>2. walker.pc = "record" => checkpoint.status = "read" /\ trimming = 0
  BY DEF SplitInv, WalkerOK, Resting, SplitRuns
<1>3. SweepWalks => trimming = 0
  BY RunningType DEF SweepWalks
<1>4. CapturedPast'
  BY DEF SplitInv, CapturedPast, WindowTrim, TrimUnlinks, TrimDies, TrimLines, TrimKeeps,
         RangeRestore
<1>5. ASSUME SplitTypeOK', NoneTrimmedAhead', TrimBehind', trimming = 0 => trimming' = 0,
             SweepWalks => TrimmedAway' \subseteq TrimmedAway
      PROVE  SplitInv'
  <2>1. WalkerOK'
    BY <1>1, <1>2, <1>3, <1>5, WalkerKept
  <2> QED
    BY <1>4, <1>5, <2>1 DEF SplitInv
<1>6. CASE TrimUnlinks
  <2>1. SplitTypeOK' /\ TrimBehind' /\ (trimming = 0 => trimming' = 0)
    BY <1>6 DEF SplitInv, SplitTypeOK, TrimBehind, TrimUnlinks
  <2>2. NoneTrimmedAhead'
    BY <1>6 DEF SplitInv, NoneTrimmedAhead, TrimBehind, TrimUnlinks
  <2> QED
    BY <1>3, <1>5, <1>6, <2>1, <2>2 DEF TrimUnlinks
<1>7. CASE TrimDies
  BY <1>5, <1>7 DEF SplitInv, SplitTypeOK, NoneTrimmedAhead, TrimBehind, TrimDies
<1>8. ASSUME NEW d \in Sessions, TrimLines(d) PROVE SplitInv'
  <2>1. ~SweepWalks /\ walker.pc # "record"
    BY <1>8 DEF TrimLines, TrimRuns, Unlocked
  <2>2. SplitTypeOK'
    BY <1>8, SplitWalkConstants DEF SplitInv, SplitTypeOK, TrimLines
  <2>3. NoneTrimmedAhead' /\ TrimBehind'
    BY <1>8 DEF SplitInv, NoneTrimmedAhead, TrimBehind, TrimLines, TrimRuns, Trimmable
  <2>4. WalkerOK'
    BY <1>1, <2>1, WalkerKept
  <2> QED
    BY <1>4, <2>2, <2>3, <2>4 DEF SplitInv
<1>9. ASSUME NEW d \in Sessions, TrimKeeps(d) PROVE SplitInv'
  <2>1. SplitTypeOK'
    BY <1>9, SplitWalkConstants DEF SplitInv, SplitTypeOK, TrimKeeps, TrimRuns, Unlocked
  <2>2. NoneTrimmedAhead' /\ TrimBehind' /\ TrimmedAway' \subseteq TrimmedAway
    BY <1>9 DEF SplitInv, NoneTrimmedAhead, TrimBehind, TrimKeeps, TrimRuns, Unlocked
  <2> QED
    BY <1>5, <1>9, <2>1, <2>2 DEF TrimKeeps
<1>10. ASSUME NEW d \in Sessions, RangeRestore(d) PROVE SplitInv'
  <2>1. SplitTypeOK'
    BY <1>10, SplitWalkConstants DEF SplitInv, SplitTypeOK, RangeRestore, Unlocked, Slip
  <2>2. NoneTrimmedAhead' /\ TrimBehind' /\ TrimmedAway' \subseteq TrimmedAway
    BY <1>10 DEF SplitInv, NoneTrimmedAhead, TrimBehind, RangeRestore, Unlocked
  <2> QED
    BY <1>5, <1>10, <2>1, <2>2 DEF RangeRestore
<1> QED
  BY <1>6, <1>7, <1>8, <1>9, <1>10 DEF WindowTrim

LEMMA EveningStep == SplitInv /\ Evening => SplitInv'
<1> SUFFICES ASSUME SplitInv, Evening PROVE SplitInv'
  OBVIOUS
<1> USE DEF trimSide, Manifested
<1>1. walker' = walker /\ trimming' = trimming
  BY DEF Evening, DayCloses, CheckpointSpoils, DaySeals, MarkedLate, Distrusts, TrustsAgain,
         EditsMaster
<1>2. walker.pc = "record" => checkpoint.status = "read" /\ trimming = 0
  BY DEF SplitInv, WalkerOK, Resting, SplitRuns
<1>3. SweepWalks => trimming = 0
  BY RunningType DEF SweepWalks
<1>4. ASSUME SplitTypeOK', CapturedPast', checkpoint' = checkpoint,
             TrimmedAway' \subseteq TrimmedAway
      PROVE  SplitInv'
  <2>1. WalkerOK'
    BY <1>1, <1>2, <1>3, <1>4, WalkerKept
  <2>2. NoneTrimmedAhead' /\ TrimBehind'
    BY <1>1, <1>4 DEF SplitInv, NoneTrimmedAhead, TrimBehind
  <2> QED
    BY <1>4, <2>1, <2>2 DEF SplitInv
<1>5. CASE DayCloses
  <2>1. session + 1 \in Sessions /\ chains[session + 1] = "none"
    BY <1>5, SplitWalkConstants DEF DayCloses, SplitInv, SplitTypeOK, CapturedPast, Sessions
  <2>2. SplitTypeOK'
    BY <1>5, <2>1, SplitWalkConstants DEF DayCloses, SplitInv, SplitTypeOK
  <2>3. CapturedPast'
    BY <1>5, <2>1, SplitWalkConstants DEF DayCloses, SplitInv, SplitTypeOK, CapturedPast, Sessions
  <2> QED
    BY <1>4, <1>5, <2>2, <2>3 DEF DayCloses, TrimmedAway
<1>6. CASE CheckpointSpoils
  <2>1. SplitTypeOK'
    BY <1>6, SplitWalkConstants DEF CheckpointSpoils, SplitInv, SplitTypeOK, lakeSide, Slip,
                                    Checkpoints
  <2>2. NoneTrimmedAhead' /\ CapturedPast' /\ TrimBehind' /\ TrimmedAway' = TrimmedAway
    BY <1>6 DEF CheckpointSpoils, SplitInv, NoneTrimmedAhead, CapturedPast, TrimBehind, lakeSide,
                TrimmedAway, Unlocked
  <2>3. WalkerOK'
    BY <1>1, <1>3, <1>6, <2>2, WalkerKept DEF CheckpointSpoils, Unlocked
  <2> QED
    BY <2>1, <2>2, <2>3 DEF SplitInv
<1>7. ASSUME NEW d \in Sessions, DaySeals(d) PROVE SplitInv'
  <2>1. SplitTypeOK'
    BY <1>7 DEF DaySeals, SplitInv, SplitTypeOK, Unlocked
  <2>2. CapturedPast'
    BY <1>7 DEF DaySeals, SplitInv, CapturedPast, SplitTypeOK, Unsealed
  <2> QED
    BY <1>4, <1>7, <2>1, <2>2 DEF DaySeals, TrimmedAway
<1>8. ASSUME NEW d \in Sessions, MarkedLate(d) PROVE SplitInv'
  <2>1. SplitTypeOK'
    BY <1>8, SplitWalkConstants DEF MarkedLate, SplitInv, SplitTypeOK, Slip
  <2>2. CapturedPast'
    BY <1>8, SessionsNat DEF MarkedLate, SplitInv, CapturedPast, SplitTypeOK
  <2> QED
    BY <1>4, <1>8, <2>1, <2>2 DEF MarkedLate, TrimmedAway
<1>9. ASSUME NEW d \in Sessions, Distrusts(d) \/ TrustsAgain(d) \/ EditsMaster(d) PROVE SplitInv'
  <2>1. SplitTypeOK'
    BY <1>9, SplitWalkConstants
       DEF Distrusts, TrustsAgain, EditsMaster, SplitInv, SplitTypeOK, Slip
  <2>2. CapturedPast' /\ checkpoint' = checkpoint /\ TrimmedAway' = TrimmedAway
    BY <1>9 DEF Distrusts, TrustsAgain, EditsMaster, SplitInv, CapturedPast, TrimmedAway
  <2> QED
    BY <1>4, <2>1, <2>2
<1> QED
  BY <1>5, <1>6, <1>7, <1>8, <1>9 DEF Evening

LEMMA SplitStutter == SplitInv /\ UNCHANGED splitVars => SplitInv'
<1> SUFFICES ASSUME SplitInv, UNCHANGED splitVars PROVE SplitInv'
  OBVIOUS
<1> USE DEF splitVars, lakeSide, trimSide, TrimmedAway, Manifested
<1>1. walker.pc = "record" => checkpoint.status = "read" /\ trimming = 0
  BY DEF SplitInv, WalkerOK, Resting, SplitRuns
<1>2. WalkerOK'
  BY <1>1, RunningType, WalkerKept DEF SweepWalks
<1> QED
  BY <1>2 DEF SplitInv, SplitTypeOK, NoneTrimmedAhead, CapturedPast, TrimBehind

\* The trim and the walk keep out of each other's way: the invariant behind CheckpointSound.
THEOREM SplitInvariant == SplitSpec => []SplitInv
<1>1. SplitInv /\ [SplitNext]_splitVars => SplitInv'
  BY RunStep, TrimStep, EveningStep, SplitStutter DEF SplitNext
<1> QED
  BY <1>1, SplitInvInit, PTL DEF SplitSpec

\* A session leaves the disk only once the state that every later walk resumes from has
\* read it, however walks, trims, restores, verdicts, edits and deaths fall.
THEOREM CheckpointSoundAlways == SplitSpec => []CheckpointSound
<1>1. SplitInv => CheckpointSound
  BY DEF SplitInv, CheckpointSound
<1> QED
  BY <1>1, SplitInvariant, PTL

------------------------------------------------------------------------------
(***************************************************************************)
(* A walk is exact: what is known at each session it has passed, with the  *)
(* chains ch and the roots rt of the lake as parameters.                   *)
(***************************************************************************)
SealedIn(ch) == {d \in Sessions : ch[d] \in {"sealed", "thin"}}
ReadOf(ch, w, listed) == {d \in listed \cap (w.master \ w.doubted) : ch[d] = "sealed"}
Reached(ch, w, listed) == {d \in ReadOf(ch, w, listed) : d <= w.last}
ReadThrough(ch, c, m) == {d \in m : d <= c /\ ch[d] = "sealed"}
NewOf(rt, read, d) ==
    IF {e \in read : e < d} = {} THEN {} ELSE rt[d] \ UNION {rt[e] : e \in {e \in read : e < d}}
LandedOf(rt, from, read) ==
    {x \in read \X Adjusted : from < x[1] /\ x[1] - 1 \in read /\ x[2] \in NewOf(rt, read, x[1])}
FiledOf(rt, from, read) ==
    {d \in read : from < d /\ d - 1 \notin read /\ NewOf(rt, read, d) # {}}

\* What the walk carries says which sessions it has read: the last, the roots of them all, and
\* how many sessions lie after the last.
Carried(rt, s, last, read) ==
    /\ read = {} => s.previous = 0
    /\ read # {} => /\ s.previous \in read /\ \A e \in read : e <= s.previous
                    /\ s.unread = last - s.previous
    /\ s.seen = UNION {rt[e] : e \in read}

\* A saved state is what a walk over the whole lake carries at its cutoff, and no session below
\* the cutoff can change that any more: one with segments could still be sealed and read.
StateExact(ch, rt, s, m) ==
    /\ s.cutoff # 0 => s.cutoff \in SealedIn(ch)
    /\ \A d \in Sessions : d < s.cutoff => ch[d] # "segments"
    /\ Carried(rt, s, s.cutoff, ReadThrough(ch, s.cutoff, m))

WalkExact(ch, rt, r) ==
    /\ r.walk.last # 0 => r.walk.last \in r.manifested
    /\ r.ahead = {d \in r.manifested : d > r.walk.last}
    /\ \A d \in r.walk.doubted : CutoffOf(r.walk.start) < d /\ d <= r.walk.last
    /\ Carried(rt, r.walk, r.walk.last, Reached(ch, r.walk, r.manifested))
    /\ r.walk.landed =
         LandedOf(rt, CutoffOf(r.walk.start), Reached(ch, r.walk, r.manifested))
    /\ r.walk.filed =
         FiledOf(rt, CutoffOf(r.walk.start), Reached(ch, r.walk, r.manifested))
    /\ ~r.walk.stopped => /\ r.walk.doubted = {}
                          /\ \A d \in Sessions : d < r.walk.last => ch[d] # "segments"
    /\ StateExact(ch, rt, StateOf(r.walk.state), r.walk.master)

\* No session is sealed among those a run has listed.
ListedAll(ch, r) ==
    /\ r.manifested \subseteq SealedIn(ch)
    /\ \A d \in SealedIn(ch) : (\E e \in r.manifested : d <= e) => d \in r.manifested
RunExact(ch, rt, r) ==
    /\ ListedAll(ch, r)
    /\ r.saved.status = "read" => StateExact(ch, rt, r.saved.state, r.saved.mappings)
    /\ ~r.refused => WalkExact(ch, rt, r) /\ (r.pc = "walked" => r.ahead = {})

ExactInv ==
    /\ walker.pc \in {"walk", "walked"} => RunExact(chains, roots, walker)
    /\ checkpoint.status = "read" =>
         StateExact(chains, roots, checkpoint.state, checkpoint.mappings)
    /\ Manifested \subseteq held \cup trimLine

LEMMA UncapturedExact ==
    ASSUME NEW w \in SessionWalks, NEW d \in Sessions, w.last # 0, w.last < d
    PROVE  Cardinality(Uncaptured(w, d)) = d - 1 - w.last
<1>1. w.last + 1 \in Int /\ d - 1 \in Int /\ w.last \in Int /\ d \in Int
  BY SessionsNat, SplitWalkConstants DEF SessionWalks
<1>2. Uncaptured(w, d) = (w.last + 1)..(d - 1)
  BY DEF Uncaptured
<1>3. \A a, b \in Int : Cardinality(a..b) = IF a > b THEN 0 ELSE b - a + 1
  BY FS_Interval
<1>4. Cardinality((w.last + 1)..(d - 1)) =
        IF w.last + 1 > d - 1 THEN 0 ELSE (d - 1) - (w.last + 1) + 1
  BY <1>1, <1>3
<1> QED
  BY <1>1, <1>2, <1>4

\* The unread sessions a session is examined with, and what stops the walk there.
UnreadAt(w, d) == w.unread + IF w.previous = 0 THEN 0 ELSE Cardinality(Uncaptured(w, d))
GainedAt(w, d, reading) == IF reading = "read" THEN Gained(w, d) ELSE {}
StopsAt(w, d, reading, edge) ==
    \/ d > edge \/ UnsealedBefore(w, d)
    \/ reading = "out of scope" /\ w.placed
    \/ reading \in Reversible
    \/ GainedAt(w, d, reading) # {} /\ UnreadAt(w, d) > 0
SavedOf(w) == [cutoff |-> w.last, previous |-> w.previous, seen |-> w.seen, unread |-> w.unread]

LEMMA StopAtFields ==
    ASSUME NEW w \in SessionWalks, NEW here \in BOOLEAN
    PROVE  /\ StopAt(w, here) \in SessionWalks
           /\ StopAt(w, here).stopped = (w.stopped \/ here)
           /\ StopAt(w, here).state =
                IF here /\ ~w.stopped /\ w.last # 0 THEN <<SavedOf(w)>> ELSE w.state
           /\ StopAt(w, here).last = w.last /\ StopAt(w, here).previous = w.previous
           /\ StopAt(w, here).seen = w.seen /\ StopAt(w, here).unread = w.unread
           /\ StopAt(w, here).landed = w.landed /\ StopAt(w, here).filed = w.filed
           /\ StopAt(w, here).doubted = w.doubted /\ StopAt(w, here).master = w.master
           /\ StopAt(w, here).start = w.start /\ StopAt(w, here).placed = w.placed
<1> DEFINE state == IF w.last = 0 THEN w.state ELSE <<SavedOf(w)>>
<1>1. StopAt(w, here) \in SessionWalks
  BY StopAtType
<1>2. CASE here /\ ~w.stopped
  <2>1. StopAt(w, here) = [w EXCEPT !.stopped = TRUE, !.state = state]
    BY <1>2 DEF StopAt, SavedOf
  <2> HIDE DEF state
  <2>2. StopAt(w, here).state = state
    BY <2>1 DEF SessionWalks
  <2>3. state = IF here /\ ~w.stopped /\ w.last # 0 THEN <<SavedOf(w)>> ELSE w.state
    BY <1>2 DEF state
  <2> QED
    BY <1>1, <1>2, <2>1, <2>2, <2>3 DEF SessionWalks
<1>3. CASE ~(here /\ ~w.stopped)
  <2>1. StopAt(w, here) = w
    BY <1>3 DEF StopAt
  <2>2. w.stopped = (w.stopped \/ here)
    BY <1>3 DEF SessionWalks
  <2> QED
    BY <1>1, <1>3, <2>1, <2>2
<1> QED
  BY <1>2, <1>3

LEMMA ExamineFields ==
    ASSUME NEW w \in SessionWalks, NEW d \in Sessions, NEW onDisk, NEW doubted, NEW edge,
           roots \in [Sessions -> SUBSET Adjusted],
           NEW reading, reading = Reading(w, d, onDisk, doubted),
           NEW next, next = Examine(w, d, onDisk, doubted, edge)
    PROVE  /\ next.last = d /\ next.master = w.master /\ next.start = w.start
           /\ next.doubted = w.doubted \cup IF reading = "quarantined" THEN {d} ELSE {}
           /\ next.stopped = (w.stopped \/ StopsAt(w, d, reading, edge))
           /\ next.state = IF StopsAt(w, d, reading, edge) /\ ~w.stopped /\ w.last # 0
                           THEN <<SavedOf(w)>> ELSE w.state
           /\ reading # "read" =>
                /\ next.previous = w.previous /\ next.seen = w.seen
                /\ next.unread = UnreadAt(w, d) + 1
                /\ next.landed = w.landed /\ next.filed = w.filed
           /\ reading = "read" =>
                /\ next.previous = d /\ next.seen = w.seen \cup roots[d] /\ next.unread = 0
                /\ next.landed = w.landed
                     \cup IF UnreadAt(w, d) = 0 THEN {d} \X Gained(w, d) ELSE {}
                /\ next.filed = w.filed
                     \cup IF UnreadAt(w, d) > 0 /\ Gained(w, d) # {} THEN {d} ELSE {}
<1> DEFINE stops == StopsAt(w, d, reading, edge)
           unread == UnreadAt(w, d)
           gained == GainedAt(w, d, reading)
           stopped == StopAt(w, stops)
           placed == stopped.placed \/ reading # "out of scope"
           withheld == stopped.doubted \cup IF reading = "quarantined" THEN {d} ELSE {}
           at == [stopped EXCEPT !.last = d, !.placed = placed, !.doubted = withheld]
           landed == at.landed \cup IF unread = 0 THEN {d} \X gained ELSE {}
           filed == at.filed \cup IF unread > 0 /\ gained # {} THEN {d} ELSE {}
           seen == at.seen \cup roots[d]
           unseen == [at EXCEPT !.unread = unread + 1]
           read == [at EXCEPT !.previous = d, !.seen = seen, !.unread = 0,
                        !.landed = landed, !.filed = filed]
<1>1. next = IF reading # "read" THEN unseen ELSE read
  BY DEF Examine, StopsAt, UnreadAt, GainedAt
<1>2. stops \in BOOLEAN
  BY DEF StopsAt, UnsealedBefore
<1>3. /\ stopped \in SessionWalks /\ stopped.stopped = (w.stopped \/ stops)
      /\ stopped.state = IF stops /\ ~w.stopped /\ w.last # 0 THEN <<SavedOf(w)>> ELSE w.state
      /\ stopped.previous = w.previous /\ stopped.seen = w.seen
      /\ stopped.landed = w.landed /\ stopped.filed = w.filed
      /\ stopped.doubted = w.doubted /\ stopped.master = w.master /\ stopped.start = w.start
  <2> HIDE DEF stops
  <2> QED
    BY <1>2, StopAtFields
<1> HIDE DEF stops, stopped, placed, withheld
<1>4. /\ at.last = d /\ at.doubted = withheld /\ at.stopped = stopped.stopped
      /\ at.state = stopped.state /\ at.master = stopped.master /\ at.start = stopped.start
      /\ at.previous = stopped.previous /\ at.seen = stopped.seen
      /\ at.landed = stopped.landed /\ at.filed = stopped.filed
      /\ DOMAIN at = DOMAIN stopped
      /\ {"last", "previous", "seen", "unread", "state", "stopped", "landed", "filed",
          "doubted", "master", "start"} \subseteq DOMAIN stopped
  BY <1>3 DEF SessionWalks
<1> HIDE DEF at, unread, gained, landed, filed, seen
<1>5. /\ unseen.last = at.last /\ unseen.doubted = at.doubted /\ unseen.stopped = at.stopped
      /\ unseen.state = at.state /\ unseen.master = at.master /\ unseen.start = at.start
      /\ unseen.previous = at.previous /\ unseen.seen = at.seen
      /\ unseen.landed = at.landed /\ unseen.filed = at.filed
      /\ unseen.unread = unread + 1
  BY <1>4
<1>6. /\ read.last = at.last /\ read.doubted = at.doubted /\ read.stopped = at.stopped
      /\ read.state = at.state /\ read.master = at.master /\ read.start = at.start
      /\ read.previous = d /\ read.seen = seen /\ read.unread = 0
      /\ read.landed = landed /\ read.filed = filed
  BY <1>4
<1> HIDE DEF unseen, read
<1>7. CASE reading # "read"
  BY <1>1, <1>3, <1>4, <1>5, <1>7 DEF withheld, stops, unread
<1>8. CASE reading = "read"
  <2>1. gained = Gained(w, d)
    BY <1>8 DEF gained, GainedAt
  <2>2. next = read
    BY <1>1, <1>8
  <2>3. landed = w.landed \cup IF UnreadAt(w, d) = 0 THEN {d} \X Gained(w, d) ELSE {}
    BY <1>3, <1>4, <2>1 DEF landed, unread
  <2>4. filed = w.filed \cup IF UnreadAt(w, d) > 0 /\ Gained(w, d) # {} THEN {d} ELSE {}
    BY <1>3, <1>4, <2>1 DEF filed, unread
  <2>5. seen = w.seen \cup roots[d]
    BY <1>3, <1>4 DEF seen
  <2> QED
    BY <1>3, <1>4, <1>6, <1>8, <2>2, <2>3, <2>4, <2>5 DEF withheld, stops
<1> QED
  BY <1>7, <1>8

\* One session more, later than every session read: the new roots of the earlier ones stay.
LEMMA NewRootsLast ==
    ASSUME NEW rt \in [Sessions -> SUBSET Adjusted], NEW read \in SUBSET Sessions,
           NEW d \in Sessions, \A e \in read : e < d
    PROVE  NewOf(rt, read \cup {d}, d) =
             IF read = {} THEN {} ELSE rt[d] \ UNION {rt[e] : e \in read}
<1> DEFINE more == read \cup {d}
<1>1. ~ (d < d)
  BY SessionsNat
<1>2. \A e \in more : e < d <=> e \in read
  BY <1>1
<1>3. {e \in more : e < d} = read
  BY <1>2
<1> HIDE DEF more
<1>4. NewOf(rt, more, d) = IF read = {} THEN {} ELSE rt[d] \ UNION {rt[e] : e \in read}
  BY <1>3 DEF NewOf
<1> QED
  BY <1>4 DEF more

LEMMA NewRootsKept ==
    ASSUME NEW rt \in [Sessions -> SUBSET Adjusted], NEW read \in SUBSET Sessions,
           NEW d \in Sessions, \A e \in read : e < d, NEW c \in read
    PROVE  NewOf(rt, read \cup {d}, c) = NewOf(rt, read, c)
<1>1. d \in Int /\ read \subseteq Int
  BY SessionsNat
<1>2. {e \in read \cup {d} : e < c} = {e \in read : e < c}
  BY <1>1
<1> QED
  BY <1>2 DEF NewOf

LEMMA LandedOneMore ==
    ASSUME NEW rt \in [Sessions -> SUBSET Adjusted], NEW read \in SUBSET Sessions,
           NEW d \in Sessions, NEW from \in Int, \A e \in read : e < d, from < d
    PROVE  LandedOf(rt, from, read \cup {d}) = LandedOf(rt, from, read)
             \cup IF d - 1 \in read THEN {d} \X NewOf(rt, read \cup {d}, d) ELSE {}
<1> DEFINE more == read \cup {d}
<1>1. d \in Int /\ read \subseteq Int /\ d \notin read
  BY SessionsNat
<1>2. \A c \in read : NewOf(rt, more, c) = NewOf(rt, read, c)
  BY NewRootsKept
<1>3. NewOf(rt, more, d) \subseteq Adjusted
  <2>1. NewOf(rt, more, d) = IF read = {} THEN {} ELSE rt[d] \ UNION {rt[e] : e \in read}
    BY NewRootsLast
  <2>2. rt[d] \subseteq Adjusted
    OBVIOUS
  <2> QED
    BY <2>1, <2>2
<1>4. /\ \A c \in read : c - 1 \in more <=> c - 1 \in read
      /\ d - 1 \in more <=> d - 1 \in read
  BY <1>1
<1>5. more = read \cup {d}
  OBVIOUS
<1> HIDE DEF more
<1>6. ASSUME NEW x \in more \X Adjusted
      PROVE  x \in LandedOf(rt, from, more) <=>
               x \in LandedOf(rt, from, read)
                 \cup IF d - 1 \in read THEN {d} \X NewOf(rt, more, d) ELSE {}
  <2>1. PICK c \in more, r \in Adjusted : x = <<c, r>>
    OBVIOUS
  <2>2. x \in LandedOf(rt, from, more) <=>
          from < c /\ c - 1 \in more /\ r \in NewOf(rt, more, c)
    BY <2>1 DEF LandedOf
  <2>3. x \in LandedOf(rt, from, read) <=>
          c \in read /\ from < c /\ c - 1 \in read /\ r \in NewOf(rt, read, c)
    BY <2>1 DEF LandedOf
  <2>4. CASE c \in read
    <3>1. c # d
      BY <1>1, <2>4
    <3> QED
      BY <1>2, <1>4, <2>1, <2>2, <2>3, <2>4, <3>1
  <2>5. CASE c = d
    BY <1>1, <1>4, <2>1, <2>2, <2>3, <2>5
  <2> QED
    BY <1>5, <2>4, <2>5
<1>7. /\ LandedOf(rt, from, more) \subseteq more \X Adjusted
      /\ LandedOf(rt, from, read) \subseteq more \X Adjusted
      /\ {d} \X NewOf(rt, more, d) \subseteq more \X Adjusted
  BY <1>3, <1>5 DEF LandedOf
<1>8. LandedOf(rt, from, more) = LandedOf(rt, from, read)
         \cup IF d - 1 \in read THEN {d} \X NewOf(rt, more, d) ELSE {}
  BY <1>6, <1>7
<1> QED
  BY <1>5, <1>8

LEMMA FiledOneMore ==
    ASSUME NEW rt \in [Sessions -> SUBSET Adjusted], NEW read \in SUBSET Sessions,
           NEW d \in Sessions, NEW from \in Int, \A e \in read : e < d, from < d
    PROVE  /\ d \in FiledOf(rt, from, read \cup {d}) <=>
                d - 1 \notin read /\ NewOf(rt, read \cup {d}, d) # {}
           /\ FiledOf(rt, from, read \cup {d}) \ {d} = FiledOf(rt, from, read)
<1> DEFINE more == read \cup {d}
<1>1. d \in Int /\ read \subseteq Int /\ d \notin read
  BY SessionsNat
<1>2. \A c \in read : NewOf(rt, more, c) = NewOf(rt, read, c)
  BY NewRootsKept
<1>3. /\ \A c \in read : c - 1 \in more <=> c - 1 \in read
      /\ d - 1 \in more <=> d - 1 \in read
  BY <1>1
<1>4. more = read \cup {d}
  OBVIOUS
<1> HIDE DEF more
<1>5. \A c \in read : c \in FiledOf(rt, from, more) <=> c \in FiledOf(rt, from, read)
  BY <1>2, <1>3, <1>4 DEF FiledOf
<1>6. d \in FiledOf(rt, from, more) <=> d - 1 \notin read /\ NewOf(rt, more, d) # {}
  BY <1>3, <1>4 DEF FiledOf
<1>7. FiledOf(rt, from, more) \subseteq more /\ FiledOf(rt, from, read) \subseteq read
  BY DEF FiledOf
<1>8. FiledOf(rt, from, more) \ {d} = FiledOf(rt, from, read)
  BY <1>1, <1>4, <1>5, <1>7
<1> QED
  BY <1>4, <1>6, <1>8

\* What the walk computes from what it carries is what the sessions read say.
LEMMA ExamineSees ==
    ASSUME roots \in [Sessions -> SUBSET Adjusted], NEW w \in SessionWalks,
           NEW read \in SUBSET Sessions, NEW d \in Sessions, w.last < d,
           Carried(roots, w, w.last, read), \A e \in read : e <= w.last
    PROVE  /\ Gained(w, d) = IF read = {} THEN {} ELSE roots[d] \ UNION {roots[e] : e \in read}
           /\ read # {} => UnreadAt(w, d) = d - 1 - w.previous
           /\ read # {} => (UnreadAt(w, d) = 0 <=> d - 1 \in read)
           /\ UnreadAt(w, d) \in Nat
<1>1. d \in Int /\ w.last \in Int /\ read \subseteq Nat /\ 0 \notin read /\ w.unread \in Nat
  BY SessionsNat, SplitWalkConstants DEF SessionWalks
<1>2. UnreadAt(w, d) \in Nat
  BY <1>1, UncapturedCount DEF UnreadAt
<1>3. CASE read = {}
  <2>1. w.previous = 0
    BY <1>3 DEF Carried
  <2> QED
    BY <1>2, <1>3, <2>1 DEF Gained
<1>4. CASE read # {}
  <2>1. /\ w.previous \in read /\ \A e \in read : e <= w.previous
        /\ w.unread = w.last - w.previous /\ w.seen = UNION {roots[e] : e \in read}
    BY <1>4 DEF Carried
  <2>2. w.previous # 0 /\ w.previous \in Int /\ w.previous <= w.last /\ w.last # 0
    <3>1. PICK p \in read : p = w.previous
      BY <2>1
    <3>2. p \in Nat /\ p # 0 /\ p <= w.last
      BY <1>1, <3>1
    <3> QED
      BY <1>1, <3>1, <3>2
  <2>3. Cardinality(Uncaptured(w, d)) = d - 1 - w.last
    BY <2>2, UncapturedExact
  <2>4. UnreadAt(w, d) = d - 1 - w.previous
    BY <1>1, <2>1, <2>2, <2>3 DEF UnreadAt
  <2>5. roots[w.previous] \subseteq w.seen
    BY <2>1
  <2>6. Gained(w, d) = roots[d] \ UNION {roots[e] : e \in read}
    BY <2>1, <2>2, <2>5 DEF Gained
  <2>7. UnreadAt(w, d) = 0 <=> d - 1 \in read
    <3>1. UnreadAt(w, d) = 0 => d - 1 = w.previous
      BY <1>1, <2>2, <2>4
    <3>2. d - 1 \in read => d - 1 <= w.previous
      BY <2>1
    <3>3. w.previous <= d - 1
      BY <1>1, <2>2
    <3> QED
      BY <1>1, <2>1, <2>2, <2>4, <3>1, <3>2, <3>3
  <2> QED
    BY <1>2, <1>4, <2>4, <2>6, <2>7
<1> QED
  BY <1>3, <1>4

\* What a day's read finds when its partition is on disk.
LEMMA ReadingOf ==
    ASSUME NEW w \in SessionWalks, NEW d \in Sessions, NEW onDisk, NEW doubted,
           chains[d] = "sealed" \/ chains[d] = "thin", d \in w.master => d \in onDisk,
           NEW reading, reading = Reading(w, d, onDisk, doubted)
    PROVE  /\ reading # "absent"
           /\ reading = "read" <=> /\ d \in w.master /\ chains[d] = "sealed"
                                   /\ reading # "quarantined"
<1>1. CASE d \notin w.master
  <2>1. reading = "out of scope"
    BY <1>1 DEF Reading
  <2> QED
    BY <1>1, <2>1
<1>2. CASE d \in w.master \cap onDisk \cap doubted
  <2>1. reading = "quarantined"
    BY <1>2 DEF Reading
  <2> QED
    BY <2>1
<1>3. CASE d \in (w.master \cap onDisk) \ doubted
  <2>1. reading = IF chains[d] = "thin" THEN "thin" ELSE "read"
    BY <1>3 DEF Reading
  <2> QED
    BY <1>3, <2>1
<1> QED
  BY <1>1, <1>2, <1>3

LEMMA ReachedType ==
    ASSUME NEW w \in SessionWalks, NEW listed \in SUBSET Sessions
    PROVE  /\ Reached(chains, w, listed) \in SUBSET Sessions
           /\ \A e \in Reached(chains, w, listed) : e <= w.last
BY DEF Reached, ReadOf

\* The sessions a walk carries once it has examined one more.
LEMMA ReachedOneMore ==
    ASSUME NEW w \in SessionWalks, NEW next \in SessionWalks, NEW listed \in SUBSET Sessions,
           NEW d \in listed, w.last < d, \A e \in listed : e <= w.last \/ d <= e,
           next.last = d, next.master = w.master, \A e \in w.doubted : e <= w.last,
           NEW reading,
           next.doubted = w.doubted \cup IF reading = "quarantined" THEN {d} ELSE {},
           reading = "read" <=> /\ d \in w.master /\ chains[d] = "sealed"
                                /\ reading # "quarantined"
    PROVE  Reached(chains, next, listed) =
             Reached(chains, w, listed) \cup IF reading = "read" THEN {d} ELSE {}
<1>1. listed \subseteq Int /\ w.last \in Int /\ d \in Int /\ w.doubted \subseteq Sessions
  BY SessionsNat, SplitWalkConstants DEF SessionWalks
<1>2. d \notin w.doubted
  BY <1>1
<1>3. \A e \in listed : e <= d <=> e <= w.last \/ e = d
  BY <1>1
<1>4. ASSUME NEW e \in listed, e # d
      PROVE  e \in Reached(chains, next, listed) <=> e \in Reached(chains, w, listed)
  BY <1>3, <1>4 DEF Reached, ReadOf
<1>5. d \in Reached(chains, next, listed) <=> reading = "read"
  BY <1>1, <1>2 DEF Reached, ReadOf
<1>6. d \notin Reached(chains, w, listed)
  BY <1>1 DEF Reached
<1>7. Reached(chains, next, listed) \subseteq listed /\ Reached(chains, w, listed) \subseteq listed
  BY DEF Reached, ReadOf
<1> QED
  BY <1>4, <1>5, <1>6, <1>7

\* The state saved at the last session examined: nothing stopped the walk before.
LEMMA SavedExact ==
    ASSUME NEW r \in SplitRuns, ListedAll(chains, r), WalkExact(chains, roots, r),
           ~r.walk.stopped
    PROVE  r.walk.last # 0 => StateExact(chains, roots, SavedOf(r.walk), r.walk.master)
<1> DEFINE w == r.walk
<1> SUFFICES ASSUME w.last # 0 PROVE StateExact(chains, roots, SavedOf(w), w.master)
  OBVIOUS
<1>1. /\ w \in SessionWalks /\ w.master \in SUBSET Sessions /\ w.last \in Int
      /\ r.manifested \in SUBSET Sessions
  BY SplitWalkConstants DEF SplitRuns, SessionWalks
<1>2. /\ w.last \in r.manifested /\ w.doubted = {}
      /\ \A d \in Sessions : d < w.last => chains[d] # "segments"
      /\ Carried(roots, w, w.last, Reached(chains, w, r.manifested))
  BY DEF WalkExact
<1>3. w.last \in SealedIn(chains)
  BY <1>2 DEF ListedAll
<1>4. Reached(chains, w, r.manifested) = ReadThrough(chains, w.last, w.master)
  <2>1. ASSUME NEW d \in Sessions
        PROVE  d \in Reached(chains, w, r.manifested) <=> d \in ReadThrough(chains, w.last, w.master)
    <3>1. d <= w.last /\ chains[d] = "sealed" => d \in r.manifested
      BY <1>2 DEF ListedAll, SealedIn
    <3> QED
      BY <1>2, <3>1 DEF Reached, ReadOf, ReadThrough
  <2>2. Reached(chains, w, r.manifested) \subseteq Sessions
    BY <1>1 DEF Reached, ReadOf
  <2>3. ReadThrough(chains, w.last, w.master) \subseteq Sessions
    BY <1>1 DEF ReadThrough
  <2> QED
    BY <2>1, <2>2, <2>3
<1>5. /\ SavedOf(w).cutoff = w.last /\ SavedOf(w).previous = w.previous
      /\ SavedOf(w).seen = w.seen /\ SavedOf(w).unread = w.unread
  BY DEF SavedOf
<1> HIDE DEF w
<1>6. Carried(roots, SavedOf(w), w.last, ReadThrough(chains, w.last, w.master))
  BY <1>2, <1>4, <1>5 DEF Carried
<1> QED
  BY <1>2, <1>3, <1>5, <1>6 DEF StateExact

LEMMA StateOfOne == ASSUME NEW s PROVE StateOf(<<s>>) = s
BY DEF StateOf

\* One session examined keeps a walk exact.
LEMMA ExamineExact ==
    ASSUME roots \in [Sessions -> SUBSET Adjusted], NEW r \in SplitRuns, r.pc = "walk",
           WalkForward(r), ListedAll(chains, r), WalkExact(chains, roots, r),
           NEW d \in r.ahead, \A e \in r.ahead : d <= e,
           NEW onDisk, NEW doubted, d \in r.walk.master => d \in onDisk,
           NEW next, next = Examine(r.walk, d, onDisk, doubted, r.edge),
           NEW r2, r2 = [r EXCEPT !.ahead = @ \ {d}, !.walk = next]
    PROVE  WalkExact(chains, roots, r2)
<1> DEFINE w == r.walk
           from == CutoffOf(w.start)
           listed == r.manifested
           read == Reached(chains, w, listed)
           read2 == Reached(chains, next, listed)
<1>1. /\ w \in SessionWalks /\ listed \in SUBSET Sessions /\ r.ahead \in SUBSET Sessions
      /\ w.last \in Int /\ w.last \in 0..LastDay /\ w.start \in Starts /\ w.stopped \in BOOLEAN
  BY SplitWalkConstants DEF SplitRuns, SessionWalks
<1>2. /\ r2.walk = next /\ r2.ahead = r.ahead \ {d} /\ r2.manifested = listed
  BY DEF SplitRuns
<1>3. /\ w.last # 0 => w.last \in listed
      /\ r.ahead = {e \in listed : e > w.last}
      /\ \A e \in w.doubted : from < e /\ e <= w.last
      /\ Carried(roots, w, w.last, read)
      /\ w.landed = LandedOf(roots, from, read) /\ w.filed = FiledOf(roots, from, read)
      /\ ~w.stopped => w.doubted = {} /\ \A e \in Sessions : e < w.last => chains[e] # "segments"
      /\ StateExact(chains, roots, StateOf(w.state), w.master)
  BY DEF WalkExact
<1>4. /\ d \in listed /\ d \in Sessions /\ d \in Int /\ w.last < d
      /\ from \in Int /\ from <= w.last /\ from < d
  <2>1. from \in Int
    BY <1>1, StateOfSaved, SplitWalkConstants
  <2>2. from <= w.last /\ from < d
    BY DEF WalkForward
  <2> QED
    BY <1>1, <1>3, <2>1, <2>2, SessionsNat
<1>5. \A e \in listed : e <= w.last \/ d <= e
  <2> SUFFICES ASSUME NEW e \in listed, ~ (d <= e) PROVE e <= w.last
    OBVIOUS
  <2>1. e \notin r.ahead
    OBVIOUS
  <2>2. ~ (e > w.last) /\ e \in Int
    BY <1>1, <1>3, <2>1, SessionsNat
  <2> QED
    BY <1>1, <2>2
<1>6. chains[d] \in {"sealed", "thin"}
  BY <1>4 DEF ListedAll, SealedIn
<1>7. PICK reading : reading = Reading(w, d, onDisk, doubted)
  OBVIOUS
<1>8. /\ reading # "absent"
      /\ reading = "read" <=> /\ d \in w.master /\ chains[d] = "sealed"
                              /\ reading # "quarantined"
  <2>1. chains[d] = "sealed" \/ chains[d] = "thin"
    BY <1>6
  <2> QED
    BY <1>1, <1>4, <1>7, <2>1, ReadingOf
<1>9. next \in SessionWalks
  BY <1>1, <1>4, ExamineType
<1> HIDE DEF w, from, listed, read, read2
<1>10. /\ next.last = d /\ next.master = w.master /\ next.start = w.start
       /\ next.doubted = w.doubted \cup IF reading = "quarantined" THEN {d} ELSE {}
       /\ next.stopped = (w.stopped \/ StopsAt(w, d, reading, r.edge))
       /\ next.state = IF StopsAt(w, d, reading, r.edge) /\ ~w.stopped /\ w.last # 0
                       THEN <<SavedOf(w)>> ELSE w.state
       /\ reading # "read" =>
            /\ next.previous = w.previous /\ next.seen = w.seen
            /\ next.unread = UnreadAt(w, d) + 1
            /\ next.landed = w.landed /\ next.filed = w.filed
       /\ reading = "read" =>
            /\ next.previous = d /\ next.seen = w.seen \cup roots[d] /\ next.unread = 0
            /\ next.landed = w.landed
                 \cup IF UnreadAt(w, d) = 0 THEN {d} \X Gained(w, d) ELSE {}
            /\ next.filed = w.filed
                 \cup IF UnreadAt(w, d) > 0 /\ Gained(w, d) # {} THEN {d} ELSE {}
  BY <1>1, <1>4, <1>7, ExamineFields DEF w
<1>11. read2 = read \cup IF reading = "read" THEN {d} ELSE {}
  <2>1. next.last = d /\ next.master = w.master
    BY <1>10
  <2>2. next.doubted = w.doubted \cup IF reading = "quarantined" THEN {d} ELSE {}
    BY <1>10
  <2>3. \A e \in w.doubted : e <= w.last
    BY <1>3
  <2>4. reading = "read" <=> /\ d \in w.master /\ chains[d] = "sealed"
                             /\ reading # "quarantined"
    BY <1>8
  <2> QED
    BY <1>1, <1>4, <1>5, <1>9, <2>1, <2>2, <2>3, <2>4, ReachedOneMore DEF read, read2
<1>12. read \in SUBSET Sessions /\ (\A e \in read : e <= w.last) /\ (\A e \in read : e < d)
  <2>1. read \in SUBSET Sessions /\ \A e \in read : e <= w.last
    BY <1>1, ReachedType DEF read
  <2> QED
    BY <1>1, <1>4, <2>1, SessionsNat
<1>13. /\ Gained(w, d) = IF read = {} THEN {} ELSE roots[d] \ UNION {roots[e] : e \in read}
       /\ read # {} => UnreadAt(w, d) = d - 1 - w.previous
       /\ read # {} => (UnreadAt(w, d) = 0 <=> d - 1 \in read)
       /\ UnreadAt(w, d) \in Nat
  BY <1>1, <1>3, <1>4, <1>12, ExamineSees
<1>14. /\ NewOf(roots, read \cup {d}, d) = Gained(w, d)
       /\ LandedOf(roots, from, read \cup {d}) = LandedOf(roots, from, read)
            \cup IF d - 1 \in read THEN {d} \X NewOf(roots, read \cup {d}, d) ELSE {}
       /\ FiledOf(roots, from, read \cup {d}) = FiledOf(roots, from, read)
            \cup IF d - 1 \notin read /\ NewOf(roots, read \cup {d}, d) # {} THEN {d} ELSE {}
  <2>1. /\ NewOf(roots, read \cup {d}, d) =
             IF read = {} THEN {} ELSE roots[d] \ UNION {roots[e] : e \in read}
        /\ LandedOf(roots, from, read \cup {d}) = LandedOf(roots, from, read)
             \cup IF d - 1 \in read THEN {d} \X NewOf(roots, read \cup {d}, d) ELSE {}
        /\ FiledOf(roots, from, read \cup {d}) = FiledOf(roots, from, read)
             \cup IF d - 1 \notin read /\ NewOf(roots, read \cup {d}, d) # {} THEN {d} ELSE {}
    <3>1. /\ roots \in [Sessions -> SUBSET Adjusted] /\ read \in SUBSET Sessions
          /\ d \in Sessions /\ from \in Int /\ from < d /\ \A e \in read : e < d
      BY <1>4, <1>12
    <3> PICK rt \in [Sessions -> SUBSET Adjusted], past \in SUBSET Sessions, day \in Sessions,
             cut \in Int : rt = roots /\ past = read /\ day = d /\ cut = from
      BY <3>1
    <3>2. /\ rt \in [Sessions -> SUBSET Adjusted] /\ past \in SUBSET Sessions
          /\ day \in Sessions /\ cut \in Int /\ cut < day /\ \A e \in past : e < day
      BY <3>1
    <3>3. NewOf(rt, past \cup {day}, day) =
            IF past = {} THEN {} ELSE rt[day] \ UNION {rt[e] : e \in past}
      BY ONLY <3>2, NewRootsLast
    <3>4. LandedOf(rt, cut, past \cup {day}) = LandedOf(rt, cut, past)
            \cup IF day - 1 \in past THEN {day} \X NewOf(rt, past \cup {day}, day) ELSE {}
      BY ONLY <3>2, LandedOneMore
    <3>5. FiledOf(rt, cut, past \cup {day}) = FiledOf(rt, cut, past)
            \cup IF day - 1 \notin past /\ NewOf(rt, past \cup {day}, day) # {} THEN {day} ELSE {}
      <4>1. /\ day \in FiledOf(rt, cut, past \cup {day}) <=>
                 day - 1 \notin past /\ NewOf(rt, past \cup {day}, day) # {}
            /\ FiledOf(rt, cut, past \cup {day}) \ {day} = FiledOf(rt, cut, past)
        BY ONLY <3>2, FiledOneMore
      <4> QED
        BY ONLY <4>1
    <3>6. rt = roots /\ past = read /\ day = d /\ cut = from
      OBVIOUS
    <3>7. NewOf(roots, read \cup {d}, d) =
            IF read = {} THEN {} ELSE roots[d] \ UNION {roots[e] : e \in read}
      BY ONLY <3>3, <3>6
    <3>8. LandedOf(roots, from, read \cup {d}) = LandedOf(roots, from, read)
            \cup IF d - 1 \in read THEN {d} \X NewOf(roots, read \cup {d}, d) ELSE {}
      BY ONLY <3>4, <3>6
    <3>9. FiledOf(roots, from, read \cup {d}) = FiledOf(roots, from, read)
            \cup IF d - 1 \notin read /\ NewOf(roots, read \cup {d}, d) # {} THEN {d} ELSE {}
      BY ONLY <3>5, <3>6
    <3> QED
      BY ONLY <3>7, <3>8, <3>9
  <2> QED
    BY <1>13, <2>1
<1>15. Carried(roots, next, next.last, read2)
  <2>1. CASE reading # "read"
    <3>1. read2 = read
      BY <1>11, <2>1
    <3>2. read # {} => /\ w.previous \in read /\ \A e \in read : e <= w.previous
      BY <1>3 DEF Carried
    <3>3. read # {} => next.unread = d - next.previous
      BY <1>4, <1>10, <1>12, <1>13, <2>1, <3>2, SessionsNat
    <3> QED
      BY <1>3, <1>10, <2>1, <3>1, <3>2, <3>3 DEF Carried
  <2>2. CASE reading = "read"
    <3>1. read2 = read \cup {d}
      BY <1>11, <2>2
    <3>2. \A e \in read2 : e <= d
      BY <1>4, <1>12, <3>1, SessionsNat
    <3>3. next.seen = UNION {roots[e] : e \in read2}
      BY <1>3, <1>10, <2>2, <3>1 DEF Carried
    <3> QED
      BY <1>4, <1>10, <2>2, <3>1, <3>2, <3>3 DEF Carried
  <2> QED
    BY <2>1, <2>2
<1>16. next.landed = LandedOf(roots, from, read2) /\ next.filed = FiledOf(roots, from, read2)
  <2>1. CASE reading # "read"
    <3>1. read2 = read
      BY <1>11, <2>1
    <3> QED
      BY <1>3, <1>10, <2>1, <3>1
  <2>2. CASE reading = "read"
    <3>1. read2 = read \cup {d}
      BY <1>11, <2>2
    <3>2. CASE read = {}
      <4>1. Gained(w, d) = {} /\ d - 1 \notin read
        BY <1>13, <3>2
      <4>2. {d} \X Gained(w, d) = {}
        BY <4>1
      <4> QED
        BY <1>3, <1>10, <1>14, <2>2, <3>1, <4>1, <4>2
    <3>3. CASE read # {}
      <4>1. UnreadAt(w, d) = 0 <=> d - 1 \in read
        BY <1>13, <3>3
      <4>2. UnreadAt(w, d) > 0 <=> d - 1 \notin read
        BY <1>13, <4>1
      <4> QED
        BY <1>3, <1>10, <1>14, <2>2, <3>1, <4>1, <4>2
    <3> QED
      BY <3>2, <3>3
  <2> QED
    BY <2>1, <2>2
<1>17. ASSUME ~next.stopped
       PROVE  next.doubted = {} /\ \A e \in Sessions : e < d => chains[e] # "segments"
  <2>1. ~w.stopped /\ ~StopsAt(w, d, reading, r.edge)
    BY <1>10, <1>17
  <2>2. reading # "quarantined" /\ ~UnsealedBefore(w, d)
    BY <2>1 DEF StopsAt, Reversible
  <2>3. ASSUME NEW e \in Sessions, e < d PROVE chains[e] # "segments"
    <3>1. CASE e < w.last
      BY <1>3, <2>1, <3>1
    <3>2. CASE e = w.last
      <4>1. e \in listed
        BY <1>3, <3>2, SessionsNat
      <4> QED
        BY <4>1 DEF ListedAll, SealedIn, listed
    <3>3. CASE w.last < e
      <4>1. e \in Int /\ 1 <= e
        BY SplitWalkConstants DEF Sessions
      <4>2. e \in (IF w.last = 0 THEN 1..(d - 1) ELSE Uncaptured(w, d))
        BY <1>1, <1>4, <2>3, <3>3, <4>1 DEF Uncaptured
      <4>3. e \notin Unsealed
        BY <2>2, <4>2 DEF UnsealedBefore
      <4> QED
        BY <4>3 DEF Unsealed
    <3> QED
      BY <1>1, <2>3, <3>1, <3>2, <3>3, SessionsNat
  <2> QED
    BY <1>3, <1>10, <2>1, <2>2, <2>3
<1>18. StateExact(chains, roots, StateOf(next.state), next.master)
  <2>1. CASE StopsAt(w, d, reading, r.edge) /\ ~w.stopped /\ w.last # 0
    <3>1. StateExact(chains, roots, SavedOf(w), w.master)
      BY <2>1, SavedExact DEF w
    <3>2. next.state = <<SavedOf(w)>>
      BY <1>10, <2>1
    <3> QED
      BY <1>10, <3>1, <3>2, StateOfOne
  <2>2. CASE ~ (StopsAt(w, d, reading, r.edge) /\ ~w.stopped /\ w.last # 0)
    BY <1>3, <1>10, <2>2
  <2> QED
    BY <2>1, <2>2
<1>19. \A e \in next.doubted : from < e /\ e <= d
  <2>1. \A e \in w.doubted : from < e /\ e <= d
    BY <1>1, <1>3, <1>4, SessionsNat DEF SessionWalks
  <2> QED
    BY <1>4, <1>10, <2>1
<1>20. r.ahead \ {d} = {e \in listed : e > d}
  <2>1. ASSUME NEW e \in listed PROVE e \in r.ahead \ {d} <=> e > d
    <3>1. e \in Int
      BY <1>1, SessionsNat
    <3>2. e \in r.ahead <=> e > w.last
      BY <1>3
    <3>3. e <= w.last \/ d <= e
      BY <1>5
    <3> QED
      BY <1>1, <1>4, <3>1, <3>2, <3>3
  <2> QED
    BY <1>3, <2>1
<1> QED
  <2>1. CutoffOf(next.start) = from
    BY <1>10 DEF from
  <2> QED
    BY <1>2, <1>4, <1>10, <1>15, <1>16, <1>17, <1>18, <1>19, <1>20, <2>1
       DEF WalkExact, read2, listed

LEMMA WalksDayExact ==
    ASSUME SplitInv, ExactInv, WalksDay
    PROVE  RunExact(chains, roots, walker')
<1>1. walker \in SplitRuns /\ WalkForward(walker) /\ walker.pc = "walk"
  BY RunningType DEF WalksDay
<1>2. RunExact(chains, roots, walker)
  BY <1>1 DEF ExactInv
<1>3. /\ Upcoming \in walker.ahead /\ Upcoming \in Sessions
      /\ \A e \in walker.ahead : Upcoming <= e
  <2>1. walker.ahead \in SUBSET Sessions /\ walker.ahead # {}
    BY <1>1 DEF SplitRuns, WalksDay
  <2> QED
    BY <2>1, LeastAhead DEF Upcoming
<1>4. PICK next : next = Examine(walker.walk, Upcoming, held, distrusted, walker.edge)
  OBVIOUS
<1>5. PICK r2 : r2 = [walker EXCEPT !.ahead = @ \ {Upcoming}, !.walk = next]
  OBVIOUS
<1>6. walker' = r2
  BY <1>1, <1>4, <1>5 DEF WalksDay, SplitRuns
<1>7. /\ r2.manifested = walker.manifested /\ r2.saved = walker.saved
      /\ r2.refused = walker.refused /\ r2.pc = "walk"
  BY <1>1, <1>5 DEF SplitRuns
<1>8. ASSUME ~walker.refused PROVE WalkExact(chains, roots, r2)
  <2>1. WalkExact(chains, roots, walker) /\ ListedAll(chains, walker)
    BY <1>2, <1>8 DEF RunExact
  <2>2. walker.walk \in SessionWalks /\ roots \in [Sessions -> SUBSET Adjusted]
    BY <1>1 DEF SplitRuns, SplitInv, SplitTypeOK
  <2>3. Upcoming \in walker.manifested /\ Upcoming \in Manifested
    BY <1>3, <2>1 DEF WalkExact, ListedAll, SealedIn, Manifested
  <2>4. Upcoming \in walker.walk.master => Upcoming \in held
    <3> SUFFICES ASSUME Upcoming \in walker.walk.master, Upcoming \notin held PROVE FALSE
      OBVIOUS
    <3>1. Upcoming \in TrimmedAway
      BY <2>3 DEF ExactInv, TrimmedAway
    <3>2. Reading(walker.walk, Upcoming, held, distrusted) = "absent"
      BY DEF Reading
    <3> QED
      BY <3>1, <3>2 DEF WalksDay, OnTrimmed
  <2>5. PICK r : r = walker
    OBVIOUS
  <2>6. PICK d : d = Upcoming
    OBVIOUS
  <2>7. /\ r \in SplitRuns /\ r.pc = "walk" /\ WalkForward(r) /\ ListedAll(chains, r)
        /\ WalkExact(chains, roots, r) /\ d \in r.ahead /\ (\A e \in r.ahead : d <= e)
        /\ (d \in r.walk.master => d \in held)
        /\ next = Examine(r.walk, d, held, distrusted, r.edge)
        /\ r2 = [r EXCEPT !.ahead = @ \ {d}, !.walk = next]
    BY <1>1, <1>3, <1>4, <1>5, <2>1, <2>4, <2>5, <2>6
  <2> QED
    BY ONLY <2>2, <2>7, ExamineExact
<1>9. RunExact(chains, roots, r2)
  BY <1>2, <1>7, <1>8 DEF RunExact, ListedAll
<1> QED
  BY <1>6, <1>9

LEMMA WalkEndsExact ==
    ASSUME SplitInv, ExactInv, WalkEnds
    PROVE  RunExact(chains, roots, walker')
<1>1. walker \in SplitRuns /\ walker.pc = "walk"
  BY RunningType DEF WalkEnds
<1>2. RunExact(chains, roots, walker)
  BY <1>1 DEF ExactInv
<1>3. PICK r : r = walker
  OBVIOUS
<1>4. PICK next : next = StopAt(r.walk, TRUE)
  OBVIOUS
<1>5. PICK r2 : r2 = [r EXCEPT !.pc = "walked", !.walk = next]
  OBVIOUS
<1>6. walker' = r2
  BY <1>1, <1>3, <1>4, <1>5 DEF WalkEnds, SplitRuns
<1>7. /\ r2.manifested = r.manifested /\ r2.saved = r.saved /\ r2.ahead = r.ahead
      /\ r2.refused = r.refused /\ r2.pc = "walked" /\ r2.walk = next /\ r.ahead = {}
  BY <1>1, <1>3, <1>5 DEF SplitRuns, WalkEnds
<1>8. ASSUME ~r.refused PROVE WalkExact(chains, roots, r2)
  <2>1. WalkExact(chains, roots, r) /\ ListedAll(chains, r)
    BY <1>2, <1>3, <1>8 DEF RunExact
  <2>2. r \in SplitRuns /\ r.walk \in SessionWalks
    BY <1>1, <1>3 DEF SplitRuns
  <2>3. /\ next.stopped
        /\ next.state = IF ~r.walk.stopped /\ r.walk.last # 0
                        THEN <<SavedOf(r.walk)>> ELSE r.walk.state
        /\ next.last = r.walk.last /\ next.previous = r.walk.previous
        /\ next.seen = r.walk.seen /\ next.unread = r.walk.unread
        /\ next.landed = r.walk.landed /\ next.filed = r.walk.filed
        /\ next.doubted = r.walk.doubted /\ next.master = r.walk.master
        /\ next.start = r.walk.start
    BY <1>4, <2>2, StopAtFields
  <2>4. StateExact(chains, roots, StateOf(next.state), next.master)
    <3>1. CASE ~r.walk.stopped /\ r.walk.last # 0
      <4>1. StateExact(chains, roots, SavedOf(r.walk), r.walk.master)
        BY <2>1, <2>2, <3>1, SavedExact
      <4> QED
        BY <2>3, <3>1, <4>1, StateOfOne
    <3>2. CASE ~ (~r.walk.stopped /\ r.walk.last # 0)
      BY <2>1, <2>3, <3>2 DEF WalkExact
    <3> QED
      BY <3>1, <3>2
  <2>5. Reached(chains, next, r.manifested) = Reached(chains, r.walk, r.manifested)
    BY <2>3 DEF Reached, ReadOf
  <2> QED
    BY <1>7, <2>1, <2>3, <2>4, <2>5 DEF WalkExact, Carried
<1>9. RunExact(chains, roots, r2)
  BY <1>2, <1>3, <1>7, <1>8 DEF RunExact, ListedAll
<1> QED
  BY <1>6, <1>9

LEMMA NoStateExact ==
    ASSUME NEW master \in SUBSET Sessions
    PROVE  StateExact(chains, roots, NoState, master)
<1>1. NoState.cutoff = 0 /\ NoState.previous = 0 /\ NoState.seen = {}
  BY DEF NoState
<1>2. \A d \in Sessions : ~ (d < 0) /\ ~ (d <= 0)
  BY SplitWalkConstants DEF Sessions
<1>3. ReadThrough(chains, 0, master) = {}
  BY <1>2 DEF ReadThrough
<1>4. Carried(roots, NoState, 0, {})
  BY <1>1 DEF Carried
<1> QED
  BY <1>1, <1>2, <1>3, <1>4 DEF StateExact

\* A walk just begun is exact: it carries what the state it starts from carries.
LEMMA FromExact ==
    ASSUME NEW start \in Starts, NEW master \in SUBSET Sessions, NEW r,
           StateExact(chains, roots, StateOf(start), master),
           r.walk = From(start, master), r.manifested = SealedIn(chains),
           r.ahead = {d \in SealedIn(chains) : d > CutoffOf(start)}
    PROVE  WalkExact(chains, roots, r)
<1> DEFINE s == StateOf(start)
           w == r.walk
           read == Reached(chains, w, SealedIn(chains))
<1>1. s \in SavedStates /\ s.cutoff \in Int /\ s.cutoff = CutoffOf(start)
  BY StateOfSaved, SplitWalkConstants DEF SavedStates, CutoffOf
<1> HIDE DEF s
<1>2. /\ w.last = s.cutoff /\ w.previous = s.previous /\ w.seen = s.seen /\ w.unread = s.unread
      /\ w.state = start /\ w.stopped = FALSE /\ w.landed = {} /\ w.filed = {}
      /\ w.doubted = {} /\ w.master = master /\ w.start = start
  BY DEF From, s
<1> HIDE DEF w, read
<1>3. read = ReadThrough(chains, s.cutoff, master)
  BY <1>2 DEF read, Reached, ReadOf, ReadThrough, SealedIn
<1>4. /\ s.cutoff # 0 => s.cutoff \in SealedIn(chains)
      /\ \A d \in Sessions : d < s.cutoff => chains[d] # "segments"
      /\ Carried(roots, s, s.cutoff, read)
  BY <1>3 DEF StateExact, s
<1>5. Carried(roots, w, w.last, read)
  BY <1>2, <1>4 DEF Carried
<1>6. \A d \in read : ~ (s.cutoff < d)
  <2> SUFFICES ASSUME NEW d \in read PROVE ~ (s.cutoff < d)
    OBVIOUS
  <2>1. d \in Sessions /\ d <= s.cutoff
    BY <1>3 DEF ReadThrough
  <2> QED
    BY <1>1, <2>1, SessionsNat
<1>7. LandedOf(roots, s.cutoff, read) = {} /\ FiledOf(roots, s.cutoff, read) = {}
  BY <1>6 DEF LandedOf, FiledOf
<1>8. StateExact(chains, roots, StateOf(w.state), w.master)
  BY <1>2
<1> QED
  BY <1>1, <1>2, <1>4, <1>5, <1>7, <1>8 DEF WalkExact, w, read

\* What a state carries depends on the mappings up to its cutoff only.
LEMMA MappingsEnough ==
    ASSUME NEW s \in SavedStates, NEW m, NEW n, MappingsAt(m, s.cutoff) = MappingsAt(n, s.cutoff),
           m \subseteq Sessions, n \subseteq Sessions, StateExact(chains, roots, s, m)
    PROVE  StateExact(chains, roots, s, n)
<1>1. s.cutoff \in Int /\ \A d \in Sessions : d \in Int /\ 1 <= d
  BY SplitWalkConstants DEF SavedStates, Sessions
<1>2. \A d \in Sessions : d <= s.cutoff => (d \in m <=> d \in n)
  BY <1>1 DEF MappingsAt
<1>3. ReadThrough(chains, s.cutoff, m) = ReadThrough(chains, s.cutoff, n)
  BY <1>2 DEF ReadThrough
<1> QED
  BY <1>3 DEF StateExact

LEMMA BeginExact ==
    ASSUME SplitInv, ExactInv, NEW sweep \in BOOLEAN, SplitsBegin(sweep)
    PROVE  RunExact(chains, roots, walker')
<1>1. Manifested = SealedIn(chains) /\ Manifested \subseteq Sessions
  BY DEF Manifested, SealedIn
<1>2. resolved \in SUBSET Sessions /\ checkpoint \in Checkpoints
  BY DEF SplitInv, SplitTypeOK
<1>3. checkpoint.status = "read" =>
        StateExact(chains, roots, checkpoint.state, checkpoint.mappings)
  BY DEF ExactInv
<1>4. ASSUME NEW r, r.manifested = Manifested, r.saved = checkpoint, r.refused = TRUE
      PROVE  RunExact(chains, roots, r)
  BY <1>1, <1>3, <1>4 DEF RunExact, ListedAll
<1>5. ASSUME NEW r, NEW start \in Starts, r.manifested = Manifested, r.saved = checkpoint,
             r.pc = "walk", StateExact(chains, roots, StateOf(start), resolved),
             r.walk = From(start, resolved),
             r.ahead = {d \in Manifested : d > CutoffOf(start)}
      PROVE  RunExact(chains, roots, r)
  <2>1. WalkExact(chains, roots, r)
    BY <1>1, <1>2, <1>5, FromExact
  <2> QED
    BY <1>1, <1>3, <1>5, <2>1 DEF RunExact, ListedAll
<1>6. CASE TrimmedAway # {} /\ Refusal
  <2>1. walker' = Run(sweep, "walked", TRUE, From(<<>>, resolved))
    BY <1>6 DEF SplitsBegin
  <2>2. walker'.manifested = Manifested /\ walker'.saved = checkpoint /\ walker'.refused = TRUE
    BY <2>1 DEF Run
  <2>3. PICK r : r = walker'
    OBVIOUS
  <2>4. RunExact(chains, roots, r)
    BY <1>4, <2>2, <2>3
  <2> QED
    BY <2>3, <2>4
<1>7. CASE ~ (TrimmedAway # {} /\ Refusal)
  <2> DEFINE start == IF TrimmedAway = {} THEN <<>> ELSE <<checkpoint.state>>
  <2>1. walker' = Run(sweep, "walk", FALSE, From(start, resolved))
    BY <1>7 DEF SplitsBegin
  <2>2. start \in Starts /\ StateExact(chains, roots, StateOf(start), resolved)
    <3>1. CASE TrimmedAway = {}
      <4>1. StateOf(start) = NoState /\ start \in Starts
        BY <3>1 DEF StateOf, Starts
      <4> QED
        BY <1>2, <4>1, NoStateExact
    <3>2. CASE TrimmedAway # {}
      <4>1. /\ checkpoint.status = "read"
            /\ MappingsAt(resolved, checkpoint.state.cutoff) = checkpoint.mappings
        BY <1>7, <3>2 DEF Refusal
      <4>2. checkpoint \in ReadCheckpoints
        BY <1>2, <4>1, ReadIsRead
      <4>3. checkpoint.state \in SavedStates /\ checkpoint.mappings \subseteq Sessions
        BY <4>2 DEF ReadCheckpoints
      <4>4. start \in Starts /\ StateOf(start) = checkpoint.state
        BY <3>2, <4>3, StateOfOne DEF Starts
      <4>5. MappingsAt(checkpoint.mappings, checkpoint.state.cutoff)
              = MappingsAt(resolved, checkpoint.state.cutoff)
        BY <4>1 DEF MappingsAt
      <4>6. StateExact(chains, roots, checkpoint.state, resolved)
        BY <1>2, <1>3, <4>1, <4>3, <4>5, MappingsEnough
      <4> QED
        BY <4>4, <4>6
    <3> QED
      BY <3>1, <3>2
  <2>3. From(start, resolved).start = start
    BY DEF From
  <2> HIDE DEF start
  <2>4. /\ walker'.manifested = Manifested /\ walker'.saved = checkpoint /\ walker'.pc = "walk"
        /\ walker'.walk = From(start, resolved)
        /\ walker'.ahead = {d \in Manifested : d > CutoffOf(start)}
    BY <2>1, <2>3 DEF Run, CutoffOf
  <2>5. PICK r : r = walker'
    OBVIOUS
  <2>6. PICK from \in Starts : from = start
    BY <2>2
  <2>7. RunExact(chains, roots, r)
    BY <1>5, <2>2, <2>4, <2>5, <2>6
  <2> QED
    BY <2>5, <2>7
<1> QED
  BY <1>6, <1>7

(***************************************************************************)
(* The rest of the lake moves on beside a walk.                            *)
(***************************************************************************)
\* What one step may do to the sealed sessions: what is sealed stays as it is, and a session
\* seals with an option close only out of segments.
LakeKept ==
    /\ \A d \in SealedIn(chains) : chains'[d] = chains[d] /\ roots'[d] = roots[d]
    /\ \A d \in Sessions : chains'[d] = "sealed" /\ chains[d] # "sealed" => chains[d] = "segments"
    /\ \A d \in Sessions : chains'[d] = "segments" /\ chains[d] # "segments" =>
         \A e \in SealedIn(chains) : e < d

LEMMA StateKept ==
    ASSUME LakeKept, NEW s \in SavedStates, NEW m \in SUBSET Sessions,
           StateExact(chains, roots, s, m)
    PROVE  StateExact(chains', roots', s, m)
<1>1. s.cutoff \in Int /\ Sessions \subseteq Int /\ \A d \in Sessions : 1 <= d
  BY SplitWalkConstants DEF SavedStates, Sessions
<1>2. s.cutoff # 0 => s.cutoff \in SealedIn(chains) /\ s.cutoff \in SealedIn(chains')
  BY DEF StateExact, LakeKept, SealedIn
<1>3. ASSUME NEW d \in Sessions, d < s.cutoff PROVE chains'[d] # "segments"
  <2>1. s.cutoff \in SealedIn(chains)
    BY <1>1, <1>2, <1>3
  <2>2. chains[d] # "segments"
    BY <1>3 DEF StateExact
  <2>3. ~ (s.cutoff < d)
    BY <1>1, <1>3
  <2> QED
    BY <2>1, <2>2, <2>3 DEF LakeKept
<1>4. ASSUME NEW d \in Sessions, d <= s.cutoff
      PROVE  /\ chains'[d] = "sealed" <=> chains[d] = "sealed"
             /\ chains[d] = "sealed" => roots'[d] = roots[d]
  <2>1. chains[d] # "segments"
    BY <1>1, <1>2, <1>4 DEF StateExact, SealedIn
  <2>2. chains[d] = "sealed" => d \in SealedIn(chains)
    BY DEF SealedIn
  <2> QED
    BY <2>1, <2>2 DEF LakeKept
<1>5. ReadThrough(chains', s.cutoff, m) = ReadThrough(chains, s.cutoff, m)
  BY <1>4 DEF ReadThrough
<1>6. \A d \in ReadThrough(chains, s.cutoff, m) : roots'[d] = roots[d]
  BY <1>4 DEF ReadThrough
<1>7. {roots'[d] : d \in ReadThrough(chains, s.cutoff, m)}
        = {roots[d] : d \in ReadThrough(chains, s.cutoff, m)}
  BY <1>6
<1>8. Carried(roots', s, s.cutoff, ReadThrough(chains, s.cutoff, m))
  BY <1>7 DEF StateExact, Carried
<1> QED
  BY <1>2, <1>3, <1>5, <1>8 DEF StateExact

\* A run beside which no session seals among those it has listed.
LEMMA RunKept ==
    ASSUME LakeKept, NEW r \in SplitRuns, RunExact(chains, roots, r),
           \A d \in SealedIn(chains') \ SealedIn(chains) : \A e \in SealedIn(chains) : e < d
    PROVE  RunExact(chains', roots', r)
<1>1. /\ r.manifested \in SUBSET Sessions /\ r.walk \in SessionWalks /\ r.saved \in Checkpoints
      /\ r.walk.master \in SUBSET Sessions /\ r.walk.state \in Starts /\ r.walk.last \in Int
      /\ r.walk.doubted \in SUBSET Sessions
  BY SplitWalkConstants DEF SplitRuns, SessionWalks
<1>2. ListedAll(chains, r)
  BY DEF RunExact
<1>3. ListedAll(chains', r)
  <2>1. r.manifested \subseteq SealedIn(chains')
    BY <1>2 DEF ListedAll, LakeKept, SealedIn
  <2>2. ASSUME NEW d \in SealedIn(chains'), NEW e \in r.manifested, d <= e
        PROVE  d \in r.manifested
    <3>1. d \in Int /\ e \in Int /\ e \in SealedIn(chains)
      <4>1. d \in Sessions /\ e \in Sessions
        BY <1>1 DEF SealedIn
      <4> QED
        BY <1>2, <4>1, SessionsNat DEF ListedAll
    <3>2. d \in SealedIn(chains)
      BY <2>2, <3>1
    <3> QED
      BY <1>2, <2>2, <3>2 DEF ListedAll
  <2> QED
    BY <2>1, <2>2 DEF ListedAll
<1>4. ASSUME r.saved.status = "read"
      PROVE  StateExact(chains', roots', r.saved.state, r.saved.mappings)
  <2>1. r.saved \in ReadCheckpoints
    BY <1>1, <1>4, ReadIsRead
  <2>2. r.saved.state \in SavedStates /\ r.saved.mappings \in SUBSET Sessions
    BY <2>1 DEF ReadCheckpoints
  <2>3. StateExact(chains, roots, r.saved.state, r.saved.mappings)
    BY <1>4 DEF RunExact
  <2> QED
    BY <2>2, <2>3, StateKept
<1>5. ASSUME ~r.refused PROVE WalkExact(chains', roots', r)
  <2> DEFINE read == Reached(chains, r.walk, r.manifested)
             from == CutoffOf(r.walk.start)
  <2>1. WalkExact(chains, roots, r)
    BY <1>5 DEF RunExact
  <2>2. \A d \in r.manifested : chains'[d] = chains[d] /\ roots'[d] = roots[d]
    BY <1>2 DEF ListedAll, LakeKept
  <2>3. Reached(chains', r.walk, r.manifested) = read
    BY <2>2 DEF Reached, ReadOf
  <2>4. read \subseteq r.manifested /\ \A d \in read : roots'[d] = roots[d]
    BY <2>2 DEF Reached, ReadOf
  <2> HIDE DEF read, from
  <2>5. {roots'[d] : d \in read} = {roots[d] : d \in read}
    BY <2>4
  <2>6. Carried(roots', r.walk, r.walk.last, read)
    BY <2>1, <2>5 DEF WalkExact, Carried, read
  <2>7. \A d \in read : NewOf(roots', read, d) = NewOf(roots, read, d)
    <3> SUFFICES ASSUME NEW d \in read PROVE NewOf(roots', read, d) = NewOf(roots, read, d)
      OBVIOUS
    <3>1. {roots'[e] : e \in {e \in read : e < d}} = {roots[e] : e \in {e \in read : e < d}}
      BY <2>4
    <3> QED
      BY <2>4, <3>1 DEF NewOf
  <2>8. LandedOf(roots', from, read) = LandedOf(roots, from, read)
    BY <2>7 DEF LandedOf
  <2>9. FiledOf(roots', from, read) = FiledOf(roots, from, read)
    BY <2>7 DEF FiledOf
  <2>10. ASSUME ~r.walk.stopped, NEW d \in Sessions, d < r.walk.last
         PROVE  chains'[d] # "segments"
    <3>1. chains[d] # "segments"
      BY <2>1, <2>10 DEF WalkExact
    <3>2. r.walk.last \in SealedIn(chains)
      <4>1. r.walk.last # 0
        BY <2>10, SplitWalkConstants DEF Sessions
      <4> QED
        BY <1>2, <2>1, <4>1 DEF WalkExact, ListedAll
    <3>3. ~ (r.walk.last < d)
      BY <1>1, <2>10, SessionsNat
    <3> QED
      BY <3>1, <3>2, <3>3 DEF LakeKept
  <2>11. StateExact(chains', roots', StateOf(r.walk.state), r.walk.master)
    <3>1. StateOf(r.walk.state) \in SavedStates
      BY <1>1, StateOfSaved
    <3>2. StateExact(chains, roots, StateOf(r.walk.state), r.walk.master)
      BY <2>1 DEF WalkExact
    <3> QED
      BY <1>1, <3>1, <3>2, StateKept
  <2> QED
    BY <2>1, <2>3, <2>6, <2>8, <2>9, <2>10, <2>11 DEF WalkExact, read, from
<1> QED
  BY <1>3, <1>4, <1>5 DEF RunExact

\* What the sweep writes is exact: tonight's state, or the saved one of a refused ticker.
LEMMA EntryExact ==
    ASSUME SplitInv, ExactInv, WritesCheckpoint
    PROVE  StateExact(chains, roots, Entry[1].state, Entry[1].mappings)
<1>1. walker \in SplitRuns /\ walker.walk \in SessionWalks /\ RunExact(chains, roots, walker)
  BY RunningType DEF WritesCheckpoint, ExactInv, SplitRuns
<1>2. CASE walker.refused
  <2>1. walker.saved.status = "read"
    BY <1>2 DEF WritesCheckpoint, Entry
  <2>2. Entry[1].state = walker.saved.state /\ Entry[1].mappings = walker.saved.mappings
    BY <1>2, <2>1 DEF Entry
  <2> QED
    BY <1>1, <2>1, <2>2 DEF RunExact
<1>3. CASE ~walker.refused
  <2> DEFINE state == StateOf(walker.walk.state)
  <2>1. Entry[1].state = state /\ Entry[1].mappings = MappingsAt(walker.walk.master, state.cutoff)
    BY <1>3 DEF Entry, StateOf
  <2>2. StateExact(chains, roots, state, walker.walk.master)
    BY <1>1, <1>3 DEF RunExact, WalkExact
  <2>3. state \in SavedStates /\ walker.walk.master \in SUBSET Sessions
    BY <1>1, StateOfSaved DEF SessionWalks
  <2>4. MappingsAt(MappingsAt(walker.walk.master, state.cutoff), state.cutoff)
          = MappingsAt(walker.walk.master, state.cutoff)
    BY DEF MappingsAt
  <2>5. MappingsAt(walker.walk.master, state.cutoff) \subseteq Sessions
    BY <2>3 DEF MappingsAt
  <2> HIDE DEF state
  <2>6. PICK s \in SavedStates, m \in SUBSET Sessions, n \in SUBSET Sessions :
          /\ s = state /\ m = walker.walk.master
          /\ n = MappingsAt(walker.walk.master, state.cutoff)
    BY <2>3, <2>5
  <2>7. MappingsAt(m, s.cutoff) = MappingsAt(n, s.cutoff) /\ StateExact(chains, roots, s, m)
    BY <2>2, <2>4, <2>6
  <2>8. StateExact(chains, roots, s, n)
    BY <2>7, MappingsEnough
  <2> QED
    BY <2>1, <2>6, <2>8
<1> QED
  BY <1>2, <1>3

LEMMA ExactInvInit == SplitInit => ExactInv
BY DEF SplitInit, ExactInv, Resting, NoCheckpoint, Manifested

LEMMA RunExactStep == SplitInv /\ ExactInv /\ SplitRun => ExactInv'
<1> SUFFICES ASSUME SplitInv, ExactInv, SplitRun PROVE ExactInv'
  OBVIOUS
<1>1. ASSUME UNCHANGED <<lakeSide, trimSide, checkpoint>>,
             walker'.pc \in {"walk", "walked"} => RunExact(chains, roots, walker')
      PROVE  ExactInv'
  BY <1>1 DEF ExactInv, lakeSide, trimSide, Manifested
<1>2. ASSUME NEW sweep \in BOOLEAN, SplitsBegin(sweep) PROVE ExactInv'
  BY <1>1, <1>2, BeginExact DEF SplitsBegin
<1>3. CASE MeetsTrim
  <2>1. walker \in SplitRuns /\ RunExact(chains, roots, walker)
    BY <1>3, RunningType DEF MeetsTrim, ExactInv
  <2>2. /\ walker'.manifested = walker.manifested /\ walker'.saved = walker.saved
        /\ walker'.refused = TRUE
    BY <1>3, <2>1 DEF MeetsTrim, SplitRuns
  <2>3. RunExact(chains, roots, walker')
    BY <2>1, <2>2 DEF RunExact, ListedAll
  <2> QED
    BY <1>1, <1>3, <2>3 DEF MeetsTrim
<1>4. CASE WalksDay
  BY <1>1, <1>4, WalksDayExact DEF WalksDay
<1>5. CASE WalkEnds
  BY <1>1, <1>5, WalkEndsExact DEF WalkEnds
<1>6. CASE WritesCheckpoint
  <2>1. /\ checkpoint'.state = Entry[1].state /\ checkpoint'.mappings = Entry[1].mappings
        /\ walker'.pc = "record" /\ UNCHANGED <<lakeSide, trimSide>>
    BY <1>6 DEF WritesCheckpoint
  <2>2. StateExact(chains', roots', checkpoint'.state, checkpoint'.mappings)
    BY <1>6, <2>1, EntryExact DEF lakeSide
  <2> QED
    BY <2>1, <2>2 DEF ExactInv, lakeSide, trimSide, Manifested
<1>7. CASE RecordsCheckpoint
  <2>1. checkpoint \in ReadCheckpoints
    BY <1>7, ReadIsRead DEF SplitInv, SplitTypeOK, WalkerOK, RecordsCheckpoint, Resting, SplitRuns
  <2>2. /\ checkpoint'.state = checkpoint.state /\ checkpoint'.mappings = checkpoint.mappings
        /\ checkpoint.status = "read" /\ walker'.pc = "rest"
        /\ UNCHANGED <<lakeSide, trimSide>>
    BY <1>7, <2>1 DEF RecordsCheckpoint, ReadCheckpoints, Resting
  <2> QED
    BY <2>2 DEF ExactInv, lakeSide, trimSide, Manifested
<1>8. CASE SplitsEnd \/ WalkerDies
  BY <1>1, <1>8 DEF SplitsEnd, WalkerDies, Resting
<1> QED
  BY <1>2, <1>3, <1>4, <1>5, <1>6, <1>7, <1>8 DEF SplitRun

\* A step that leaves the walk alone, and whose seals keep out of its way.
LEMMA BesideExact ==
    ASSUME SplitInv, ExactInv, LakeKept, walker' = walker,
           checkpoint' = checkpoint \/ checkpoint'.status # "read",
           walker.pc \in {"walk", "walked"} =>
             \A d \in SealedIn(chains') \ SealedIn(chains) : \A e \in SealedIn(chains) : e < d,
           Manifested' \subseteq held' \cup trimLine'
    PROVE  ExactInv'
<1>1. ASSUME walker.pc \in {"walk", "walked"} PROVE RunExact(chains', roots', walker)
  <2>1. walker \in SplitRuns /\ RunExact(chains, roots, walker)
    BY <1>1, RunningType DEF ExactInv
  <2> QED
    BY <1>1, <2>1, RunKept
<1>2. ASSUME checkpoint' = checkpoint, checkpoint.status = "read"
      PROVE  StateExact(chains', roots', checkpoint.state, checkpoint.mappings)
  <2>1. checkpoint \in ReadCheckpoints
    BY <1>2, ReadIsRead DEF SplitInv, SplitTypeOK
  <2>2. checkpoint.state \in SavedStates /\ checkpoint.mappings \in SUBSET Sessions
    BY <2>1 DEF ReadCheckpoints
  <2>3. StateExact(chains, roots, checkpoint.state, checkpoint.mappings)
    BY <1>2 DEF ExactInv
  <2> QED
    BY <2>2, <2>3, StateKept
<1>3. walker'.pc \in {"walk", "walked"} => RunExact(chains', roots', walker')
  BY <1>1
<1>4. checkpoint'.status = "read" =>
        StateExact(chains', roots', checkpoint'.state, checkpoint'.mappings)
  BY <1>2
<1> QED
  BY <1>3, <1>4 DEF ExactInv

LEMMA TrimExactStep == SplitInv /\ ExactInv /\ WindowTrim => ExactInv'
<1> SUFFICES ASSUME SplitInv, ExactInv, WindowTrim PROVE ExactInv'
  OBVIOUS
<1>1. walker' = walker /\ checkpoint' = checkpoint /\ chains' = chains /\ roots' = roots
  BY DEF WindowTrim, TrimUnlinks, TrimDies, TrimLines, TrimKeeps, RangeRestore, lakeSide
<1>2. LakeKept
  BY <1>1 DEF LakeKept
<1>3. Manifested' \subseteq held' \cup trimLine'
  BY <1>1 DEF ExactInv, SplitInv, SplitTypeOK, WindowTrim, TrimUnlinks, TrimDies, TrimLines,
              TrimKeeps, RangeRestore, Manifested, TrimRuns, Unlocked
<1> QED
  BY <1>1, <1>2, <1>3, BesideExact

LEMMA EveningExactStep == ~LateSeals /\ SplitInv /\ ExactInv /\ Evening => ExactInv'
<1> SUFFICES ASSUME ~LateSeals, SplitInv, ExactInv, Evening PROVE ExactInv'
  OBVIOUS
<1> USE DEF trimSide, SealedIn, Manifested
<1>1. walker' = walker /\ (checkpoint' = checkpoint \/ checkpoint'.status # "read")
  BY DEF Evening, DayCloses, CheckpointSpoils, DaySeals, MarkedLate, Distrusts, TrustsAgain,
         EditsMaster
<1>2. chains \in [Sessions -> {"none", "markers", "segments", "sealed", "thin"}]
  BY DEF SplitInv, SplitTypeOK
<1>3. CASE DayCloses
  <2>1. session + 1 \in Sessions /\ chains[session + 1] = "none"
    BY <1>3, SplitWalkConstants DEF DayCloses, SplitInv, SplitTypeOK, CapturedPast, Sessions
  <2>2. /\ roots' = roots /\ held' = held /\ trimLine' = trimLine
        /\ \A d \in Sessions : d # session + 1 => chains'[d] = chains[d]
        /\ chains'[session + 1] \in {"none", "segments"}
    BY <1>2, <1>3, <2>1 DEF DayCloses
  <2>3. \A e \in SealedIn(chains) : e < session + 1
    BY SplitWalkConstants DEF SplitInv, SplitTypeOK, CapturedPast, Sessions
  <2>4. LakeKept
    BY <2>1, <2>2, <2>3 DEF LakeKept
  <2> QED
    BY <1>1, <2>1, <2>2, <2>4, BesideExact DEF ExactInv
<1>4. ASSUME NEW d \in Sessions, DaySeals(d) PROVE ExactInv'
  <2>1. /\ held' = held \cup {d} /\ trimLine' = trimLine
        /\ chains[d] \in {"segments", "markers"} /\ chains'[d] \in {"sealed", "thin"}
        /\ chains[d] = "markers" => chains'[d] = "thin"
        /\ \A e \in Sessions : e # d => chains'[e] = chains[e] /\ roots'[e] = roots[e]
    BY <1>2, <1>4 DEF DaySeals, Unsealed, SplitInv, SplitTypeOK
  <2>2. LakeKept
    BY <2>1 DEF LakeKept
  <2>3. walker.pc \in {"walk", "walked"} => \A e \in SealedIn(chains) : e < d
    BY <1>4 DEF DaySeals, Resting
  <2> QED
    BY <1>1, <2>1, <2>2, <2>3, BesideExact DEF ExactInv
<1>5. ASSUME NEW d \in Sessions, MarkedLate(d) PROVE ExactInv'
  <2>1. /\ held' = held /\ trimLine' = trimLine /\ roots' = roots
        /\ chains[d] = "none" /\ chains'[d] = "markers"
        /\ \A e \in Sessions : e # d => chains'[e] = chains[e]
    BY <1>2, <1>5 DEF MarkedLate
  <2>2. LakeKept
    BY <2>1 DEF LakeKept
  <2> QED
    BY <1>1, <2>1, <2>2, BesideExact DEF ExactInv
<1>6. ASSUME UNCHANGED <<chains, roots, held, trimLine>> PROVE ExactInv'
  <2>1. LakeKept
    BY <1>6 DEF LakeKept
  <2> QED
    BY <1>1, <1>6, <2>1, BesideExact DEF ExactInv
<1> QED
  BY <1>3, <1>4, <1>5, <1>6
     DEF Evening, CheckpointSpoils, Distrusts, TrustsAgain, EditsMaster, lakeSide

LEMMA ExactStep == ~LateSeals /\ SplitInv /\ ExactInv /\ [SplitNext]_splitVars => ExactInv'
<1> SUFFICES ASSUME ~LateSeals, SplitInv, ExactInv, [SplitNext]_splitVars PROVE ExactInv'
  OBVIOUS
<1>1. CASE UNCHANGED splitVars
  BY <1>1 DEF ExactInv, splitVars, lakeSide, trimSide, Manifested
<1> QED
  BY <1>1, RunExactStep, TrimExactStep, EveningExactStep DEF SplitNext

\* The checkpoint and every walk are exact, if no day seals below a sealed one beside a walk.
THEOREM ExactInvariant == ~LateSeals => (SplitSpec => []ExactInv)
<1> SUFFICES ASSUME ~LateSeals PROVE SplitSpec => []ExactInv
  OBVIOUS
<1>1. SplitInv /\ ExactInv /\ [SplitNext]_splitVars => ExactInv'
  BY ExactStep
<1> QED
  BY <1>1, ExactInvInit, SplitInvariant, PTL DEF SplitSpec

\* A walk that resumes from the checkpoint lands and files what the whole lake says, whatever
\* was trimmed, edited, withheld or marked since: nothing twice, and nothing left out.
THEOREM SplitsExactAlways == ~LateSeals => (SplitSpec => []SplitsExact)
<1>1. SplitInv /\ ExactInv => SplitsExact
  <2> SUFFICES ASSUME SplitInv, ExactInv, walker.pc = "walked", ~walker.refused
               PROVE  /\ walker.walk.landed = LandedPast(StateOf(walker.walk.start).cutoff,
                                                ReadBy(walker.walk, walker.manifested))
                      /\ walker.walk.filed = FiledPast(StateOf(walker.walk.start).cutoff,
                                                ReadBy(walker.walk, walker.manifested))
    BY DEF SplitsExact
  <2> DEFINE w == walker.walk
             read == ReadBy(w, walker.manifested)
             from == StateOf(w.start).cutoff
  <2>1. walker \in SplitRuns /\ WalkExact(chains, roots, walker) /\ walker.ahead = {}
    BY RunningType DEF ExactInv, RunExact
  <2>2. Reached(chains, w, walker.manifested) = read
    <3>1. w.last \in Int /\ walker.manifested \subseteq Int
      <4>1. walker.walk \in SessionWalks /\ walker.manifested \subseteq Sessions
        BY <2>1 DEF SplitRuns
      <4>2. walker.walk.last \in 0..LastDay
        BY <4>1 DEF SessionWalks
      <4>3. walker.walk.last \in Int
        BY <4>2, SplitWalkConstants
      <4>4. walker.manifested \subseteq Int
        <5>1. Sessions \subseteq Int
          BY SessionsNat
        <5> QED
          BY <4>1, <5>1
      <4> QED
        BY <4>3, <4>4
    <3>2. \A d \in walker.manifested : d <= w.last
      BY <2>1, <3>1 DEF WalkExact
    <3> QED
      BY <3>2 DEF Reached, ReadOf, ReadBy
  <2>3. CutoffOf(w.start) = from
    BY DEF CutoffOf
  <2>4. w.landed = LandedOf(roots, from, read) /\ w.filed = FiledOf(roots, from, read)
    BY <2>1, <2>2, <2>3 DEF WalkExact
  <2> HIDE DEF read, from, w
  <2>5. \A d \in read : NewOf(roots, read, d) = NewRoots(read, d)
    BY DEF NewOf, NewRoots
  <2>6. LandedOf(roots, from, read) = LandedPast(from, read)
    BY <2>5 DEF LandedOf, LandedPast
  <2>7. FiledOf(roots, from, read) = FiledPast(from, read)
    BY <2>5 DEF FiledOf, FiledPast
  <2> QED
    BY <2>4, <2>6, <2>7 DEF read, from, w
<1> QED
  BY <1>1, ExactInvariant, SplitInvariant, PTL
============================================================================
