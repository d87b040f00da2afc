----------------------------- MODULE SplitWalk -----------------------------
(***************************************************************************)
(* The split walk over one ticker's sealed chains (splits.py), the         *)
(* checkpoint it resumes from once days are trimmed (split_checkpoint.py), *)
(* and the trim that relies on the checkpoint's cutoff (trim.py).  A split *)
(* is a root no earlier session carried; a line landed for it is never     *)
(* taken back.                                                             *)
(***************************************************************************)
EXTENDS Integers, SequencesExt

CONSTANTS
    LastDay,        \* the sessions are 1..LastDay
    WindowSessions, \* lake_window_sessions: sessions of chains the lake keeps
    Adjusted,       \* roots other than the ticker's own
    LateSeals,      \* whether a day may seal below a sealed one while a walk runs
    MaxSlips        \* bound on deaths, verdicts, master edits, restores and late marks

Sessions == 1..LastDay
ASSUME SplitWalkConstants ==
    /\ LastDay \in Nat \ {0} /\ WindowSessions \in Nat \ {0} /\ MaxSlips \in Nat
    /\ LateSeals \in BOOLEAN

VARIABLES
    session,    \* the sessions whose close+15 has passed: 1..session
    chains,     \* each session's chains: never captured, segments (or the
                \* gap marker's alone), sealed, sealed without an option close to read
    roots,      \* what a sealed session's option close lists
    resolved,   \* the sessions on which the security master resolves the ticker
    distrusted, \* sessions withheld by a quarantine verdict
    held,       \* sealed sessions whose partition is on disk
    trimLine,   \* sessions whose latest line in trimmed.jsonl is a trim's
    restoredOn, \* the session a restore line was written on, 0 without one
    trimming,   \* the session a trim has recorded and is about to unlink, or 0
    checkpoint, \* reference/split_checkpoint.parquet, and whether its manifest entry matches
    walker,     \* the walk that runs
    slips

lakeSide == <<session, chains, roots, resolved, distrusted>>
trimSide == <<held, trimLine, restoredOn, trimming>>
splitVars == <<lakeSide, trimSide, checkpoint, walker, slips>>

Slip == slips < MaxSlips /\ slips' = slips + 1
Manifested == {d \in Sessions : chains[d] \in {"sealed", "thin"}}
\* Gone from disk and trimmed on purpose.
TrimmedAway == trimLine \ held

\* What the walk carries from a session to the next (WalkState).
NoState == [cutoff |-> 0, previous |-> 0, seen |-> {}, unread |-> 0]
\* A ticker's mappings cut at a cutoff: what later edits of the master may not change.
MappingsAt(master, cutoff) == master \cap 1..cutoff

NoCheckpoint == [status |-> "absent"]
Resting == [pc |-> "rest"]
SplitInit ==
    /\ session = 0
    /\ chains = [d \in Sessions |-> "none"] /\ roots = [d \in Sessions |-> {}]
    /\ resolved = Sessions /\ distrusted = {}
    /\ held = {} /\ trimLine = {} /\ restoredOn = [d \in Sessions |-> 0] /\ trimming = 0
    /\ checkpoint = NoCheckpoint /\ walker = Resting /\ slips = 0

------------------------------------------------------------------------------
(* The walk of one session: w is the walk before it and d the session. *)

Unsealed == {d \in Sessions : chains[d] \in {"segments", "markers"}}
Uncaptured(w, d) == IF w.last = 0 THEN {} ELSE (w.last + 1)..(d - 1)
UnsealedBefore(w, d) ==
    (IF w.last = 0 THEN 1..(d - 1) ELSE Uncaptured(w, d)) \cap Unsealed # {}

\* What a day's read finds of the partitions on disk and of the verdicts.
Reading(w, d, onDisk, doubted) ==
    CASE d \notin w.master -> "out of scope"
      [] d \in w.master \ onDisk -> "absent"
      [] d \in w.master \cap onDisk \cap doubted -> "quarantined"
      [] OTHER -> IF chains[d] = "thin" THEN "thin" ELSE "read"
Reversible == {"absent", "quarantined"}

\* The state as it stood before this session is the cutoff's, at the first event to stop it.
StopAt(w, here) ==
    IF here /\ ~w.stopped
    THEN [w EXCEPT !.stopped = TRUE,
                   !.state = IF w.last = 0 THEN @
                             ELSE <<[cutoff |-> w.last, previous |-> w.previous,
                                     seen |-> w.seen, unread |-> w.unread]>>]
    ELSE w

\* Roots nothing before carried; a boundary with an unread session inside is held, and held
\* again by every later walk.
Gained(w, d) == IF w.previous = 0 THEN {} ELSE roots[d] \ (roots[w.previous] \cup w.seen)

Examine(w, d, onDisk, doubted, edge) ==
    LET unread == w.unread + IF w.previous = 0 THEN 0 ELSE Cardinality(Uncaptured(w, d))
        reading == Reading(w, d, onDisk, doubted)
        gained == IF reading = "read" THEN Gained(w, d) ELSE {}
        stops == \/ d > edge \/ UnsealedBefore(w, d)
                 \/ reading = "out of scope" /\ w.placed
                 \/ reading \in Reversible
                 \/ gained # {} /\ unread > 0
        at == [StopAt(w, stops) EXCEPT !.last = d, !.placed = @ \/ reading # "out of scope",
                   !.doubted = @ \cup IF reading = "quarantined" THEN {d} ELSE {}]
    IN  IF reading # "read" THEN [at EXCEPT !.unread = unread + 1]
        ELSE [at EXCEPT !.previous = d, !.seen = @ \cup roots[d], !.unread = 0,
                        !.landed = @ \cup IF unread = 0 THEN {d} \X gained ELSE {},
                        !.filed = @ \cup IF unread > 0 /\ gained # {} THEN {d} ELSE {}]

\* A walk from a saved state, or from none: <<>> stands for a walk from scratch.
StateOf(start) == IF start = <<>> THEN NoState ELSE start[1]
\* Mutant: a resume forgets the roots of the sessions before its cutoff.
FromUnseen(start, master) ==
    LET s == StateOf(start) IN
    [last |-> s.cutoff, previous |-> s.previous, seen |-> {}, unread |-> s.unread,
     placed |-> MappingsAt(master, s.cutoff) # {}, state |-> start, stopped |-> FALSE,
     landed |-> {}, filed |-> {}, doubted |-> {}, master |-> master, start |-> start]
From(start, master) ==
    LET s == StateOf(start) IN
    [last |-> s.cutoff, previous |-> s.previous, seen |-> s.seen, unread |-> s.unread,
     placed |-> MappingsAt(master, s.cutoff) # {}, state |-> start, stopped |-> FALSE,
     landed |-> {}, filed |-> {}, doubted |-> {}, master |-> master, start |-> start]

------------------------------------------------------------------------------
(* A run: the sweep's, which writes the checkpoint, or one by hand, which does not. *)

\* A ticker with trimmed sessions resumes, or is not walked at all.
Refusal ==
    \/ checkpoint.status # "read"
    \/ \E d \in TrimmedAway : d > checkpoint.state.cutoff
    \/ \E d \in Manifested \cap distrusted : d <= checkpoint.state.cutoff
    \/ MappingsAt(resolved, checkpoint.state.cutoff) # checkpoint.mappings

\* The window's edge as of a night, the night's own session counted first.
EdgeOf(night) == night - WindowSessions + 1

Run(sweep, pc, refused, walk) ==
    [pc |-> pc, sweep |-> sweep, refused |-> refused, night |-> session,
     edge |-> IF sweep THEN EdgeOf(session) ELSE LastDay,
     manifested |-> Manifested, walk |-> walk, saved |-> checkpoint,
     ahead |-> {d \in Manifested : d > StateOf(walk.start).cutoff}]

SplitsBegin(sweep) ==
    /\ walker = Resting /\ Manifested # {} /\ (sweep => trimming = 0)
    /\ walker' =
         IF TrimmedAway # {} /\ Refusal
         THEN Run(sweep, "walked", TRUE, From(<<>>, resolved))
         ELSE Run(sweep, "walk", FALSE,
                  From(IF TrimmedAway = {} THEN <<>> ELSE <<checkpoint.state>>, resolved))
    /\ UNCHANGED <<lakeSide, trimSide, checkpoint, slips>>

Upcoming == Min(walker.ahead)
OnTrimmed == Reading(walker.walk, Upcoming, held, distrusted) = "absent" /\ Upcoming \in TrimmedAway
\* A trim that lands while the walk runs refuses the ticker where the walk meets it.
MeetsTrim ==
    /\ walker.pc = "walk" /\ walker.ahead # {}
    /\ OnTrimmed
    /\ walker' = [walker EXCEPT !.pc = "walked", !.refused = TRUE]
    /\ UNCHANGED <<lakeSide, trimSide, checkpoint, slips>>
WalksDay ==
    /\ walker.pc = "walk" /\ walker.ahead # {}
    /\ ~OnTrimmed
    /\ walker' = [walker EXCEPT !.ahead = @ \ {Upcoming},
                                !.walk = Examine(@, Upcoming, held, distrusted, walker.edge)]
    /\ UNCHANGED <<lakeSide, trimSide, checkpoint, slips>>
WalkEnds ==
    /\ walker.pc = "walk" /\ walker.ahead = {}
    /\ walker' = [walker EXCEPT !.pc = "walked", !.walk = StopAt(@, TRUE)]
    /\ UNCHANGED <<lakeSide, trimSide, checkpoint, slips>>

\* Tonight's state, or the saved one of a refused ticker; none, when nothing may be written.
Entry ==
    LET state == IF walker.walk.state = <<>> THEN NoState ELSE walker.walk.state[1] IN
    IF walker.refused
    THEN IF walker.saved.status = "read"
         THEN <<[state |-> walker.saved.state, mappings |-> walker.saved.mappings]>> ELSE <<>>
    ELSE <<[state |-> state, mappings |-> MappingsAt(walker.walk.master, state.cutoff)]>>

\* Replaced by rename and recorded under one hold of the lake's lock.
WritesCheckpoint ==
    /\ walker.pc = "walked" /\ walker.sweep /\ Entry # <<>> /\ trimming = 0
    /\ checkpoint' = [status |-> "read", night |-> walker.night, proved |-> FALSE,
                      state |-> Entry[1].state, mappings |-> Entry[1].mappings]
    /\ walker' = [pc |-> "record"]
    /\ UNCHANGED <<lakeSide, trimSide, slips>>
RecordsCheckpoint ==
    /\ walker.pc = "record"
    /\ checkpoint' = [checkpoint EXCEPT !.proved = TRUE]
    /\ walker' = Resting
    /\ UNCHANGED <<lakeSide, trimSide, slips>>
SplitsEnd ==
    /\ walker.pc = "walked" /\ (walker.sweep => Entry = <<>>)
    /\ walker' = Resting
    /\ UNCHANGED <<lakeSide, trimSide, checkpoint, slips>>

\* A death, or a write the disk refuses.
WalkerDies ==
    /\ walker # Resting /\ Slip
    /\ walker' = Resting
    /\ UNCHANGED <<lakeSide, trimSide, checkpoint>>

------------------------------------------------------------------------------
(* The close+15 trim, two hours before the sweep, so it meets no run but those by hand. *)

Unlocked == trimming = 0 /\ walker.pc # "record"
SweepWalks == walker.pc \in {"walk", "walked"} /\ walker.sweep
TrimRuns ==
    /\ Unlocked /\ ~SweepWalks
    /\ checkpoint.status = "read" /\ checkpoint.proved /\ session > checkpoint.night
\* Mutant: the trim asks the window only.
TrimmablePast(d) == d <= session - WindowSessions /\ d \notin distrusted
Trimmable(d) ==
    /\ d <= session - WindowSessions
    /\ d <= checkpoint.state.cutoff
    /\ d \notin distrusted
\* A restored partition stays until a checkpoint of a later session.
TrimLines(d) ==
    /\ TrimRuns
    /\ d \in held /\ Trimmable(d) /\ restoredOn[d] < checkpoint.night
    /\ trimLine' = trimLine \cup {d} /\ restoredOn' = [restoredOn EXCEPT ![d] = 0]
    /\ trimming' = d
    /\ UNCHANGED <<lakeSide, held, checkpoint, walker, slips>>
TrimUnlinks ==
    /\ trimming # 0
    /\ held' = held \ {trimming} /\ trimming' = 0
    /\ UNCHANGED <<lakeSide, trimLine, restoredOn, checkpoint, walker, slips>>
\* A death, or an unlink that is refused.
TrimDies ==
    /\ trimming # 0
    /\ trimming' = 0
    /\ UNCHANGED <<lakeSide, held, trimLine, restoredOn, checkpoint, walker, slips>>
\* A partition an earlier trim left beside its line, which this one may not drop any more.
TrimKeeps(d) ==
    /\ TrimRuns /\ d \in held \cap trimLine /\ ~Trimmable(d)
    /\ trimLine' = trimLine \ {d} /\ restoredOn' = [restoredOn EXCEPT ![d] = session]
    /\ UNCHANGED <<lakeSide, held, trimming, checkpoint, walker, slips>>
RangeRestore(d) ==
    /\ Unlocked /\ d \in TrimmedAway /\ Slip
    /\ held' = held \cup {d}
    /\ trimLine' = trimLine \ {d} /\ restoredOn' = [restoredOn EXCEPT ![d] = session]
    /\ UNCHANGED <<lakeSide, trimming, checkpoint, walker>>

------------------------------------------------------------------------------
(* The capture and its seal, the battery, and the hands. *)

DayCloses ==
    /\ session < LastDay /\ session' = session + 1
    /\ \E c \in {"none", "segments"} : chains' = [chains EXCEPT ![session + 1] = c]
    /\ UNCHANGED <<roots, resolved, distrusted, trimSide, checkpoint, walker, slips>>
DaySeals(d) ==
    /\ d \in Unsealed /\ Unlocked
    /\ LateSeals \/ walker = Resting \/ \A e \in Manifested : e < d
    /\ \E c \in {"sealed", "thin"}, r \in SUBSET Adjusted :
          /\ c = "thin" => r = {}
          /\ chains[d] = "markers" => c = "thin"
          /\ chains' = [chains EXCEPT ![d] = c] /\ roots' = [roots EXCEPT ![d] = r]
    /\ held' = held \cup {d}
    /\ UNCHANGED <<session, resolved, distrusted, trimLine, restoredOn, trimming, checkpoint,
                   walker, slips>>
\* The gap marker of a later start, for minutes an earlier one failed to mark.
MarkedLate(d) ==
    /\ d < session /\ chains[d] = "none" /\ Slip
    /\ chains' = [chains EXCEPT ![d] = "markers"]
    /\ UNCHANGED <<session, roots, resolved, distrusted, trimSide, checkpoint, walker>>
Distrusts(d) ==
    /\ d \in Manifested \ distrusted /\ Slip
    /\ distrusted' = distrusted \cup {d}
    /\ UNCHANGED <<session, chains, roots, resolved, trimSide, checkpoint, walker>>
TrustsAgain(d) ==
    /\ d \in distrusted
    /\ distrusted' = distrusted \ {d}
    /\ UNCHANGED <<session, chains, roots, resolved, trimSide, checkpoint, walker, slips>>
\* A mapping's first or last session is moved.
EditsMaster(d) ==
    /\ Slip
    /\ resolved' = IF d \in resolved THEN resolved \ {d} ELSE resolved \cup {d}
    /\ UNCHANGED <<session, chains, roots, distrusted, trimSide, checkpoint, walker>>
CheckpointSpoils ==
    /\ checkpoint.status = "read" /\ Unlocked /\ Slip
    /\ checkpoint' = [status |-> "unreadable"]
    /\ UNCHANGED <<lakeSide, trimSide, walker>>

SplitRun ==
    \/ \E sweep \in BOOLEAN : SplitsBegin(sweep)
    \/ MeetsTrim \/ WalksDay \/ WalkEnds \/ WritesCheckpoint \/ RecordsCheckpoint \/ SplitsEnd
    \/ WalkerDies
WindowTrim ==
    \/ TrimUnlinks \/ TrimDies
    \/ \E d \in Sessions : TrimLines(d) \/ TrimKeeps(d) \/ RangeRestore(d)
Evening ==
    \/ DayCloses \/ CheckpointSpoils
    \/ \E d \in Sessions : \/ DaySeals(d) \/ MarkedLate(d) \/ Distrusts(d) \/ TrustsAgain(d)
                           \/ EditsMaster(d)
SplitNext == SplitRun \/ WindowTrim \/ Evening
SplitSpec == SplitInit /\ [][SplitNext]_splitVars

------------------------------------------------------------------------------
\* The sessions a walk of the lake as it was before any trim reads: those listed when the run
\* began, in the scope it began with, sealed with an option close, and trusted as it found them.
ReadBy(w, listed) == {d \in listed \cap (w.master \ w.doubted) : chains[d] = "sealed"}
\* The roots of a session that no session read before it carried; none for the first one read.
NewRoots(read, d) ==
    LET before == {e \in read : e < d} IN
    IF before = {} THEN {} ELSE roots[d] \ UNION {roots[e] : e \in before}
\* A new root lands a line if the session before was read, and is held if it was not.
LandedPast(from, read) ==
    {x \in read \X Adjusted : from < x[1] /\ x[1] - 1 \in read /\ x[2] \in NewRoots(read, x[1])}
FiledPast(from, read) ==
    {d \in read : from < d /\ d - 1 \notin read /\ NewRoots(read, d) # {}}

\* What a walk lands and files, resumed or not, is what the whole lake says past the cutoff it
\* resumed from, whatever was trimmed, edited, withheld or marked since the cutoff was saved.
SplitsExact ==
    walker.pc = "walked" /\ ~walker.refused =>
        LET from == StateOf(walker.walk.start).cutoff
            read == ReadBy(walker.walk, walker.manifested)
        IN  /\ walker.walk.landed = LandedPast(from, read)
            /\ walker.walk.filed = FiledPast(from, read)

SavedStates == [cutoff : 0..LastDay, previous : 0..LastDay, seen : SUBSET Adjusted, unread : Nat]
Checkpoints ==
    {NoCheckpoint, [status |-> "unreadable"]}
      \cup [status : {"read"}, night : Sessions, proved : BOOLEAN, state : SavedStates,
            mappings : SUBSET Sessions]
SplitTypeOK ==
    /\ session \in 0..LastDay /\ slips \in 0..MaxSlips
    /\ chains \in [Sessions -> {"none", "markers", "segments", "sealed", "thin"}]
    /\ roots \in [Sessions -> SUBSET Adjusted]
    /\ resolved \subseteq Sessions /\ distrusted \subseteq Manifested
    /\ held \subseteq Manifested /\ trimLine \subseteq Manifested
    /\ restoredOn \in [Sessions -> 0..LastDay] /\ trimming \in {0} \cup (trimLine \cap held)
    /\ checkpoint \in Checkpoints
    /\ walker.pc \in {"rest", "walk", "walked", "record"}

\* A session is trimmed only once the walk that every later one resumes from has read it.
NoneTrimmedAhead ==
    checkpoint.status = "read" => \A d \in TrimmedAway : d <= checkpoint.state.cutoff
CheckpointSound == SplitTypeOK /\ NoneTrimmedAhead
=============================================================================
