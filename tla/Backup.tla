------------------------------- MODULE Backup -------------------------------
(***************************************************************************)
(* One primary host's lake beside its bucket: the nightly upload and the   *)
(* first upload (bucket.py), the trim that drops a partition once the      *)
(* bucket holds it (trim.py), the ledger that explains each drop           *)
(* (trimmed.py), and the range restore that brings a partition back.       *)
(*                                                                         *)
(* A path's content is a tuple: <<v>> is the v-th version a writer landed  *)
(* at a partition, <<d, c>> the split checkpoint of session d whose cutoff *)
(* is day c, <<n>> the trimmed ledger of n lines; Rot is bytes no hash     *)
(* names.  A sha256 is the content it is the hash of.  The manifest is     *)
(* kept as each path's latest entry and the set of paths whose entry lies  *)
(* past the bucket's copy, which is what the watermark decides.            *)
(***************************************************************************)
EXTENDS Integers, FiniteSets, Sequences

CONSTANTS
    Partitions,     \* the chains, quotes and bars partitions the lake may hold
    Kind, Day,      \* each partition's surface and session day
    Window,         \* sessions each surface keeps; None when it keeps them all
    Withholdable,   \* partitions the quarantine ledger may come to name
    MaxDay, MaxVersion,
    MaxRuns,        \* bound on compactions
    MaxEvents,      \* bound on faults, deaths and jobs run by hand, all told
    None, Rot

Checkpoint == "actions/split_checkpoint"
TrimmedFile == "trimmed.jsonl"
Paths == Partitions \cup {Checkpoint, TrimmedFile}
Surfaces == {"chains", "quotes", "minute", "daily"}
Days == 1..MaxDay
Contents == Seq(Nat)
Line == [kind : {"trim", "restore"}, partition : Partitions, sha256 : Contents, day : Days]
Processes == {"job", "first", "restore"}

ASSUME ConstantsAssumption ==
    /\ MaxDay \in Nat \ {0} /\ MaxVersion \in Nat
    /\ MaxEvents \in Nat /\ MaxRuns \in Nat
    /\ IsFiniteSet(Partitions)
    /\ Checkpoint \notin Partitions /\ TrimmedFile \notin Partitions
    /\ Kind \in [Partitions -> Surfaces] /\ Day \in [Partitions -> Days]
    /\ Window \in [Surfaces -> Nat \cup {None}]
    /\ Withholdable \subseteq Partitions
    /\ None \notin Nat \cup Contents \cup Line \cup Processes
    /\ Rot # None /\ Rot \notin Contents

VARIABLES
    today,      \* the session day the jobs run on
    disk,       \* the bytes under each partition and the checkpoint
    ledger,     \* the trimmed ledger's whole lines
    torn,       \* whether bytes without a newline follow them
    flushed,    \* lines a power loss cannot take
    entry,      \* each path's latest manifest entry
    fresh,      \* paths whose latest entry lies past the bucket's copy
    copy,       \* the latest entries of the bucket's manifest.jsonl; None: no copy
    objects,    \* the bucket's versions of each path, oldest first
    deleted,    \* paths whose current version is a delete marker
    withheld,   \* partitions the quarantine ledger withholds
    lock,       \* holder of the lake-root flock
    job,        \* the close+15 compaction's process
    first,      \* a first upload's process
    restore,    \* a range restore's process
    lost,       \* partitions a fault took the last good copy of
    runs,       \* compactions so far
    events      \* faults, deaths and jobs run by hand so far

bucketVars == <<copy, objects, deleted>>
ledgerVars == <<ledger, torn, flushed>>
vars == <<today, disk, ledgerVars, entry, fresh, bucketVars, withheld, lock, job, first,
          restore, lost, runs, events>>

Event == events < MaxEvents /\ events' = events + 1

Idle == [pc |-> "idle"]
Versions == {<<v>> : v \in 1..MaxVersion}

------------------------------------------------------------------------------
(* The trimmed ledger. *)

\* Bytes a reader of each path finds: the ledger's are its own lines.
Bytes(p) == IF p = TrimmedFile
            THEN IF torn THEN Rot ELSE IF ledger = <<>> THEN None ELSE <<Len(ledger)>>
            ELSE disk[p]

LineOf(p) == {i \in DOMAIN ledger : ledger[i].partition = p}
LatestLine(p) == IF LineOf(p) = {} THEN None
                 ELSE ledger[CHOOSE i \in LineOf(p) : \A j \in LineOf(p) : j <= i]
Trimmed(p) == LatestLine(p) # None /\ LatestLine(p).kind = "trim"

DesignedAbsence(p) ==
    /\ Trimmed(p)
    /\ entry[p] # None
    /\ LatestLine(p).sha256 = entry[p]

TrimLine(p) == [kind |-> "trim", partition |-> p, sha256 |-> entry[p], day |-> today]
RestoreLine(p) == [kind |-> "restore", partition |-> p, sha256 |-> entry[p], day |-> today]

\* repair_trimmed_entry: an entry that lags the ledger is recorded again, a
\* ledger with fewer lines than its entry or a torn tail is refused.
EntryStale == ledger # <<>> /\ entry[TrimmedFile] # <<Len(ledger)>>
RepairRefused ==
    \/ torn /\ (ledger # <<>> \/ entry[TrimmedFile] # None)
    \/ entry[TrimmedFile] # None /\ entry[TrimmedFile][1] > Len(ledger)

Record(p, content) ==
    /\ entry' = [entry EXCEPT ![p] = content]
    /\ fresh' = fresh \cup {p}

RepairTrimmedEntry ==
    IF EntryStale /\ ~RepairRefused
    THEN Record(TrimmedFile, <<Len(ledger)>>)
    ELSE UNCHANGED <<entry, fresh>>

------------------------------------------------------------------------------
(* The bucket, versioned: a put adds a version, a delete adds a marker. *)

Listed(p) == objects[p] # <<>> /\ p \notin deleted
Current(p) == objects[p][Len(objects[p])]
HoldsSha(p, sha) == Listed(p) /\ Current(p).stored = sha
Put(p, content) ==
    /\ objects' = [objects EXCEPT ![p] = Append(@, [stored |-> content, body |-> content])]
    /\ deleted' = deleted \ {p}

Good(p, sha) == \E i \in DOMAIN objects[p] : objects[p][i] = [stored |-> sha, body |-> sha]

Init ==
    /\ today = 1
    /\ disk = [p \in Partitions \cup {Checkpoint} |-> None]
    /\ ledger = <<>> /\ torn = FALSE /\ flushed = 0
    /\ entry = [p \in Paths |-> None] /\ fresh = {}
    /\ copy = None
    /\ objects = [p \in Paths |-> <<>>] /\ deleted = {}
    /\ withheld = {}
    /\ lock = None
    /\ job = Idle /\ first = Idle /\ restore = Idle
    /\ lost = {}
    /\ runs = 0 /\ events = 0

------------------------------------------------------------------------------
(* The writers of the lake, each under the lock it takes and drops. *)

\* The 18:30 sweep: bars land or change, the split walk rewrites the
\* checkpoint, the battery rewrites the quarantine ledger.
Bars(p) == Kind[p] \in {"minute", "daily"}
Sweep ==
    /\ lock = None
    /\ disk[Checkpoint] \notin {None, Rot} => disk[Checkpoint][1] < today
    /\ \E land \in SUBSET {p \in Partitions : Bars(p) /\ Day[p] <= today /\ entry[p] = None},
          change \in SUBSET {p \in Partitions : /\ Bars(p) /\ disk[p] \in Versions
                                                /\ entry[p][1] < MaxVersion},
          cutoff \in {today - 1, today}, W \in SUBSET Withholdable :
        LET Rev(p) == IF p \in land THEN <<1>>
                      ELSE IF p \in change THEN <<entry[p][1] + 1>>
                      ELSE <<today, cutoff>>
            written == land \cup change \cup {Checkpoint}
        IN  /\ Cardinality(change) <= 1
            /\ disk' = [p \in DOMAIN disk |-> IF p \in written THEN Rev(p) ELSE disk[p]]
            /\ entry' = [p \in Paths |-> IF p \in written THEN Rev(p) ELSE entry[p]]
            /\ fresh' = fresh \cup written
            /\ withheld' = W
    /\ UNCHANGED <<today, ledgerVars, bucketVars, lock, job, first, restore, lost, runs,
                   events>>

NextDay ==
    /\ today < MaxDay
    /\ job = Idle
    /\ today' = today + 1
    /\ UNCHANGED <<disk, ledgerVars, entry, fresh, bucketVars, withheld, lock, job, first,
                   restore, lost, runs, events>>

------------------------------------------------------------------------------
(* The close+15 compaction: it seals, repairs the ledger's entry, uploads,  *)
(* and trims, holding the lock throughout.                                  *)

Others == <<today, withheld, first, restore, lost, runs, events>>
Stop == job' = Idle /\ lock' = None
Step(pc) == job' = [job EXCEPT !.pc = pc] /\ UNCHANGED lock

Compact ==
    /\ lock = None /\ job = Idle
    /\ runs < MaxRuns /\ runs' = runs + 1
    /\ \E seal \in SUBSET {p \in Partitions : /\ ~Bars(p) /\ Day[p] <= today
                                              /\ entry[p] = None} :
        /\ disk' = [p \in DOMAIN disk |-> IF p \in seal THEN <<1>> ELSE disk[p]]
        /\ entry' = [p \in Paths |-> IF p \in seal THEN <<1>> ELSE entry[p]]
        /\ fresh' = fresh \cup seal
        /\ job' = [pc |-> "repair", refused |-> FALSE,
                   tonight |-> {}, listed |-> {}, todo |-> {}, plan |-> {}, line |-> None]
    /\ lock' = "job"
    /\ UNCHANGED <<ledgerVars, bucketVars, today, withheld, first, restore, lost, events>>

RepairLedger ==
    /\ job.pc = "repair"
    /\ RepairTrimmedEntry
    /\ job' = [job EXCEPT !.pc = "begin", !.refused = RepairRefused]
    /\ UNCHANGED <<disk, ledgerVars, bucketVars, lock, Others>>

\* No copy, or one without a whole entry: the upload has no watermark.
NoWatermark ==
    \/ copy = None
    \/ /\ \A p \in Paths : copy[p] = None
       /\ \E p \in Paths : entry[p] # None

UploadBegin ==
    /\ job.pc = "begin"
    /\ IF NoWatermark THEN Stop
       ELSE /\ job' = [job EXCEPT !.pc = "heal", !.tonight = fresh, !.todo = fresh,
                                  !.listed = {p \in Paths : Listed(p)}]
            /\ UNCHANGED lock
    /\ UNCHANGED <<disk, ledgerVars, entry, fresh, bucketVars, Others>>

\* _heal_files: root files, not partitions, that the copy already names.
Heal(p) == Bytes(p) = entry[p] /\ ~HoldsSha(p, entry[p])
Owing == {p \in {Checkpoint, TrimmedFile} \ job.tonight : entry[p] # None /\ Heal(p)}
UploadHeal ==
    /\ job.pc = "heal"
    /\ IF Owing = {} THEN Step("upload") /\ UNCHANGED bucketVars
       ELSE /\ \E p \in Owing : Put(p, entry[p])
            /\ UNCHANGED <<copy, lock, job>>
    /\ UNCHANGED <<disk, ledgerVars, entry, fresh, Others>>

\* Paths go up in one fixed order, whichever it is.
NextOf(todo) == CHOOSE p \in todo : TRUE

\* A put carries the entry's checksum, so S3 refuses any other bytes.
\* Mutant: a listed object is taken for the entry's.
HeldByName(p, listed, sha) == p \in listed
Held(p, listed, sha) == p \in listed /\ HoldsSha(p, sha)
UploadManifested(p) ==
    /\ job.pc = "upload" /\ p \in job.todo /\ p = NextOf(job.todo)
    /\ \/ /\ Bytes(p) # None
          /\ Held(p, job.listed, entry[p])
          /\ UNCHANGED <<objects, deleted>>
       \/ /\ ~Held(p, job.listed, entry[p])
          /\ Bytes(p) = entry[p]
          /\ Put(p, entry[p])
    /\ job' = [job EXCEPT !.todo = @ \ {p}]
    /\ UNCHANGED <<disk, ledgerVars, entry, fresh, copy, lock, Others>>

\* manifest.jsonl goes up last, whole.
UploadManifest ==
    /\ job.pc = "upload" /\ job.todo = {}
    /\ copy' = entry /\ fresh' = {}
    /\ job' = [job EXCEPT !.pc = "select", !.listed = {}] /\ UNCHANGED lock
    /\ UNCHANGED <<disk, ledgerVars, entry, objects, deleted, Others>>

\* _checkpoint_refusal and read_checkpoint.
CheckpointProved ==
    /\ disk[Checkpoint] \notin {None, Rot}
    /\ disk[Checkpoint] = entry[Checkpoint]
    /\ today > disk[Checkpoint][1]

Cutoff == disk[Checkpoint][2]
OfDay(kind, d) == {p \in Partitions : Kind[p] = kind /\ Day[p] = d}

KeptBy(p) ==
    \/ Window[Kind[p]] = None
    \/ Day[p] > today - Window[Kind[p]]
    \/ Kind[p] = "chains" /\ Day[p] > Cutoff
    \/ Kind[p] = "quotes" /\ \A q \in OfDay("daily", Day[p]) : entry[q] = None
    \/ /\ Bars(p)
       /\ \E c \in OfDay("chains", Day[p]) :
            disk[c] # None \/ (entry[c] # None /\ ~DesignedAbsence(c))
    \/ p \in withheld

\* _restored_before: a restore line holds until a later session's checkpoint.
\* Mutant: a restore line does not stand in the trim's way.
RestoreIgnored(p) == FALSE
RestoreStands(p) ==
    /\ LatestLine(p) # None
    /\ LatestLine(p).kind = "restore"
    /\ ~(LatestLine(p).day < disk[Checkpoint][1])

Considered(p) ==
    /\ entry[p] # None /\ disk[p] # None
    /\ ~RestoreStands(p)
    /\ p \notin job.tonight
    /\ KeptBy(p) => Trimmed(p)

TrimSelect ==
    /\ job.pc = "select"
    /\ IF CheckpointProved /\ ~job.refused
       THEN /\ job' = [job EXCEPT !.pc = "trim",
                        !.plan = {[p |-> p, kept |-> KeptBy(p), recovering |-> Trimmed(p)] :
                                  p \in {q \in Partitions : Considered(q)}}]
            /\ UNCHANGED lock
       ELSE Stop
    /\ UNCHANGED <<disk, ledgerVars, entry, fresh, bucketVars, Others>>

InTurn(c) == c \in job.plan /\ \A x \in job.plan : Day[c.p] <= Day[x.p]
\* Mutant: a HEAD in place of the read, which sees the stored checksum alone.
VerifiedByHead(p) == Listed(p) /\ Current(p).stored = entry[p]
Verified(p) == Listed(p) /\ Current(p).body = entry[p]

\* Segments may remain beside a sealed partition, see Compaction.
MayKeep(c) == c.kept \/ ~Bars(c.p)

\* One candidate: a trim line once the current version's body hashes to the
\* entry, a restore line over a stale trim line, or nothing.
TrimOne(c) ==
    /\ job.pc = "trim" /\ InTurn(c)
    /\ LET rest == [job EXCEPT !.plan = @ \ {c}]
           line(l) == [rest EXCEPT !.pc = "line", !.line = l]
       IN  \/ /\ ~c.kept /\ Verified(c.p)
              /\ job' = line(TrimLine(c.p))
           \/ /\ MayKeep(c) \/ ~Verified(c.p)
              /\ job' = IF c.recovering THEN line(RestoreLine(c.p)) ELSE rest
    /\ UNCHANGED <<disk, ledgerVars, entry, fresh, bucketVars, lock, Others>>

\* A directory the trim may not write to keeps its candidates for another night.
TrimHold(c) ==
    /\ job.pc = "trim" /\ InTurn(c) /\ ~c.kept
    /\ job' = [job EXCEPT !.plan = {x \in @ : Kind[x.p] # Kind[c.p]}]
    /\ UNCHANGED <<disk, ledgerVars, entry, fresh, bucketVars, lock, Others>>

\* append_trimmed: the torn tail is refused, the line lands, and its entry after it.
AppendLine(line) == ledger' = Append(ledger, line) /\ UNCHANGED <<torn, flushed>>

TrimAppend ==
    /\ job.pc = "line"
    /\ IF torn THEN Stop /\ UNCHANGED ledgerVars
       ELSE AppendLine(job.line) /\ Step("record")
    /\ UNCHANGED <<disk, entry, fresh, bucketVars, Others>>

TrimRecord ==
    /\ job.pc = "record"
    /\ Record(TrimmedFile, <<Len(ledger)>>)
    /\ Step("flush")
    /\ UNCHANGED <<disk, ledgerVars, bucketVars, Others>>

\* Mutant: the ledger is not flushed before the unlink.
TrimUnflushed ==
    /\ job.pc = "flush"
    /\ Step(IF job.line.kind = "trim" THEN "unlink" ELSE "trim")
    /\ UNCHANGED <<disk, ledgerVars, entry, fresh, bucketVars, Others>>

TrimFlush ==
    /\ job.pc = "flush"
    /\ flushed' = Len(ledger)
    /\ Step(IF job.line.kind = "trim" THEN "unlink" ELSE "trim")
    /\ UNCHANGED <<disk, ledger, torn, entry, fresh, bucketVars, Others>>

\* The partition goes, or the system refuses and the file stays with its line.
TrimUnlink ==
    /\ job.pc = "unlink"
    /\ \/ disk' = [disk EXCEPT ![job.line.partition] = None] /\ Step("trim")
       \/ /\ job' = [job EXCEPT !.pc = "trim",
                        !.plan = {x \in @ : Kind[x.p] # Kind[job.line.partition]}]
          /\ UNCHANGED <<disk, lock>>
    /\ UNCHANGED <<ledgerVars, entry, fresh, bucketVars, Others>>

\* The end of the candidates, the deadline, or an answer that stops the job.
Uploading == {"heal", "upload"}
Trimming == {"select", "trim", "line", "record", "flush", "unlink"}
JobStops ==
    /\ job.pc \in Uploading \/ job.pc = "trim"
    /\ Stop
    /\ UNCHANGED <<disk, ledgerVars, entry, fresh, bucketVars, Others>>

------------------------------------------------------------------------------
(* A first upload by hand: a pass without the lock, a second under it, and  *)
(* the manifest last.                                                       *)

FirstOthers == <<today, disk, ledgerVars, entry, withheld, job, restore, lost, runs>>
Entries == {p \in Paths : entry[p] # None}

FirstBegin ==
    /\ first = Idle
    /\ Event
    /\ first' = [pc |-> "early", early |-> entry, todo |-> Entries,
                 done |-> [p \in Paths |-> None],
                 listed |-> {p \in Paths : Listed(p)}]
    /\ UNCHANGED <<FirstOthers, fresh, bucketVars, lock>>

\* A file on disk goes up unless held; one off disk must be a designed
\* absence that the bucket holds.
FirstOne(p) ==
    /\ first.pc \in {"early", "late"} /\ p \in first.todo /\ p = NextOf(first.todo)
    /\ LET sha == IF first.pc = "early" THEN first.early[p] ELSE entry[p]
       IN  /\ \/ /\ Held(p, first.listed, sha)
                 /\ Bytes(p) # None \/ (Trimmed(p) /\ LatestLine(p).sha256 = sha)
                 /\ UNCHANGED <<objects, deleted>>
              \/ /\ ~Held(p, first.listed, sha)
                 /\ Bytes(p) = sha
                 /\ Put(p, sha)
           /\ first' = [first EXCEPT !.todo = @ \ {p}, !.done[p] = sha]
    /\ UNCHANGED <<FirstOthers, fresh, copy, lock, events>>

\* The paths whose entry is no longer the one sent.
FirstLock ==
    /\ first.pc = "early" /\ first.todo = {}
    /\ lock = None /\ lock' = "first"
    /\ first' = [first EXCEPT !.pc = "late",
                              !.todo = {p \in Entries : entry[p] # first.done[p]}]
    /\ UNCHANGED <<FirstOthers, fresh, bucketVars, events>>

FirstManifest ==
    /\ first.pc = "late" /\ first.todo = {}
    /\ copy' = entry /\ fresh' = {}
    /\ first' = Idle /\ lock' = None
    /\ UNCHANGED <<FirstOthers, objects, deleted, events>>

\* A refused put, a missing file, a window it may not run in.
FirstStops ==
    /\ first.pc \in {"early", "late"}
    /\ first' = Idle
    /\ lock' = IF first.pc = "late" THEN None ELSE lock
    /\ UNCHANGED <<FirstOthers, fresh, bucketVars, events>>

------------------------------------------------------------------------------
(* A range restore of one partition: it reads under the lock, hashes and    *)
(* downloads without it, and commits under it.                              *)

RestoreOthers == <<today, flushed, bucketVars, withheld, job, first, lost, runs>>
RestoreStep(pc) == restore' = [restore EXCEPT !.pc = pc]

RestorePlan(p) ==
    /\ restore = Idle /\ Event
    /\ lock = None
    /\ entry[p] # None /\ ~RepairRefused
    /\ RepairTrimmedEntry
    /\ restore' = [pc |-> IF disk[p] = None THEN "download" ELSE "hash",
                   p |-> p, sha |-> entry[p], owed |-> FALSE]
    /\ UNCHANGED <<RestoreOthers, disk, ledger, torn, lock>>

RestoreHash ==
    /\ restore.pc = "hash"
    /\ restore' = IF disk[restore.p] \in {None, restore.sha}
                  THEN [restore EXCEPT !.pc = "owe",
                            !.owed = disk[restore.p] # None /\ Trimmed(restore.p)]
                  ELSE Idle
    /\ UNCHANGED <<RestoreOthers, disk, ledger, torn, entry, fresh, lock, events>>

\* A partition that changed meanwhile is refused when its absence or its owed
\* line would be acted on, one that is gone is downloaded after all, and one
\* that stands beside a trim line gets its restore line.
RestoreOwe ==
    /\ restore.pc = "owe" /\ lock = None
    /\ LET p == restore.p
           changed == entry[p] # restore.sha
       IN  IF changed \/ (disk[p] # None /\ ~(restore.owed /\ Trimmed(p)))
           THEN restore' = Idle /\ UNCHANGED lock
           ELSE IF disk[p] = None
           THEN RestoreStep("download") /\ UNCHANGED lock
           ELSE RestoreStep("line") /\ lock' = "restore"
    /\ UNCHANGED <<RestoreOthers, disk, ledger, torn, entry, fresh, events>>

RestoreDownload ==
    /\ restore.pc = "download"
    /\ restore' = IF Listed(restore.p) /\ Current(restore.p).body = restore.sha
                  THEN [restore EXCEPT !.pc = "commit"] ELSE Idle
    /\ UNCHANGED <<RestoreOthers, disk, ledger, torn, entry, fresh, lock, events>>

RestoreCommit ==
    /\ restore.pc = "commit" /\ lock = None
    /\ LET p == restore.p
       IN  IF entry[p] = restore.sha /\ disk[p] = None
           THEN /\ disk' = [disk EXCEPT ![p] = restore.sha]
                /\ IF Trimmed(p) THEN RestoreStep("line") /\ lock' = "restore"
                   ELSE restore' = Idle /\ UNCHANGED lock
           ELSE restore' = Idle /\ UNCHANGED <<disk, lock>>
    /\ UNCHANGED <<RestoreOthers, ledger, torn, entry, fresh, events>>

RestoreAppend ==
    /\ restore.pc = "line"
    /\ IF torn THEN restore' = Idle /\ lock' = None /\ UNCHANGED ledger
       ELSE /\ ledger' = Append(ledger, RestoreLine(restore.p))
            /\ RestoreStep("record") /\ UNCHANGED lock
    /\ UNCHANGED <<RestoreOthers, disk, torn, entry, fresh, events>>

RestoreRecord ==
    /\ restore.pc = "record"
    /\ Record(TrimmedFile, <<Len(ledger)>>)
    /\ restore' = Idle /\ lock' = None
    /\ UNCHANGED <<RestoreOthers, disk, ledger, torn, events>>

------------------------------------------------------------------------------
(* What may go wrong. *)

\* A process dies with its lock dropped; one inside an append may leave bytes
\* without their newline.
Dies(proc) ==
    /\ Event
    /\ \/ proc = "job" /\ job # Idle /\ job' = Idle /\ UNCHANGED <<first, restore>>
       \/ proc = "first" /\ first # Idle /\ first' = Idle /\ UNCHANGED <<job, restore>>
       \/ proc = "restore" /\ restore # Idle /\ restore' = Idle /\ UNCHANGED <<job, first>>
    /\ lock' = IF lock = proc THEN None ELSE lock
    /\ \/ UNCHANGED torn
       \/ /\ \/ proc = "job" /\ job.pc = "line"
             \/ proc = "restore" /\ restore.pc = "line"
          /\ torn' = TRUE
    /\ UNCHANGED <<today, disk, ledger, flushed, entry, fresh, bucketVars, withheld, lost, runs>>

\* The power goes: every process with it, and any lines never flushed.
PowerLoss ==
    /\ Event
    /\ job' = Idle /\ first' = Idle /\ restore' = Idle /\ lock' = None
    /\ \E n \in flushed..Len(ledger) : ledger' = SubSeq(ledger, 1, n)
    /\ UNCHANGED <<today, disk, torn, flushed, entry, fresh, bucketVars, withheld, lost, runs>>

\* The hand repair a torn tail asks for.
HandRepair ==
    /\ torn /\ lock = None
    /\ torn' = FALSE
    /\ IF EntryStale THEN Record(TrimmedFile, <<Len(ledger)>>) ELSE UNCHANGED <<entry, fresh>>
    /\ UNCHANGED <<today, disk, ledger, flushed, bucketVars, withheld, lock, job, first,
                   restore, lost, runs, events>>

\* The last copy is gone once neither side has the entry's bytes.
Fault(p, remains) ==
    /\ Event
    /\ lost' = IF remains THEN lost ELSE lost \cup {p}
    /\ UNCHANGED <<today, ledgerVars, entry, fresh, copy, withheld, lock, job, first, restore, runs>>

RotOnDisk(p) ==
    /\ disk[p] \notin {None, Rot}
    /\ disk' = [disk EXCEPT ![p] = Rot]
    /\ Fault(p, entry[p] # None /\ Good(p, entry[p]))
    /\ UNCHANGED <<objects, deleted>>

\* A drop already decided on a verified body counts the disk's copy as gone.
OnDisk(p) == disk[p] = entry[p]
             /\ ~(job.pc \in {"line", "record", "flush", "unlink"} /\ job.line.partition = p)
RotInBucket(p) ==
    /\ Listed(p)
    /\ objects' = [objects EXCEPT ![p][Len(objects[p])].body = Rot]
    /\ Fault(p, OnDisk(p) \/ \E i \in 1..(Len(objects[p]) - 1) :
                                 objects[p][i] = [stored |-> entry[p], body |-> entry[p]])
    /\ UNCHANGED <<disk, deleted>>

DeleteInBucket(p) ==
    /\ Listed(p)
    /\ deleted' = deleted \cup {p}
    /\ Fault(p, TRUE)
    /\ UNCHANGED <<disk, objects>>

------------------------------------------------------------------------------
JobStep ==
    \/ Compact \/ RepairLedger \/ UploadBegin \/ UploadHeal \/ UploadManifest
    \/ \E p \in Paths : UploadManifested(p)
    \/ TrimSelect \/ (job.pc = "trim" /\ \E c \in job.plan : TrimOne(c) \/ TrimHold(c))
    \/ TrimAppend \/ TrimRecord \/ TrimFlush \/ TrimUnlink \/ JobStops

FirstStep == FirstBegin \/ (\E p \in Paths : FirstOne(p)) \/ FirstLock \/ FirstManifest
             \/ FirstStops

RestoreSteps ==
    \/ \E p \in Partitions : RestorePlan(p)
    \/ RestoreHash \/ RestoreOwe \/ RestoreDownload \/ RestoreCommit
    \/ RestoreAppend \/ RestoreRecord

Faults ==
    \/ \E proc \in Processes : Dies(proc)
    \/ PowerLoss \/ HandRepair
    \/ \E p \in Partitions \cup {Checkpoint} : RotOnDisk(p)
    \/ \E p \in Partitions : RotInBucket(p) \/ DeleteInBucket(p)

Next == Sweep \/ NextDay \/ JobStep \/ FirstStep \/ RestoreSteps \/ Faults
Spec == Init /\ [][Next]_vars

------------------------------------------------------------------------------
Version == [stored : Contents, body : Contents \cup {Rot}]

TypeOK ==
    /\ today \in Days
    /\ disk \in [Partitions \cup {Checkpoint} -> Contents \cup {None, Rot}]
    /\ ledger \in Seq(Line) /\ torn \in BOOLEAN /\ flushed \in 0..Len(ledger)
    /\ entry \in [Paths -> Contents \cup {None}] /\ fresh \subseteq Paths
    /\ copy = None \/ copy \in [Paths -> Contents \cup {None}]
    /\ objects \in [Paths -> Seq(Version)]
    /\ deleted \subseteq Paths /\ withheld \subseteq Withholdable
    /\ lock \in {None} \cup Processes
    /\ lock = "job" <=> job # Idle
    /\ lost \subseteq Paths

\* A partition the manifest records and the disk lacks is one the trimmed
\* ledger says was dropped on purpose, whatever died on the way: the scrub,
\* the first upload and the split walk read any other absence as a loss.
AbsenceExplained ==
    \A p \in Partitions : entry[p] # None /\ disk[p] = None => DesignedAbsence(p)

\* The bytes a partition's latest entry names are on the disk or in a version
\* of its object, unless a fault took the last of them: no trim on a bucket
\* copy that had rotted, was deleted or was never made.
OneGoodCopy ==
    \A p \in Partitions : entry[p] # None /\ p \notin lost =>
        disk[p] = entry[p] \/ Good(p, entry[p])

\* Each path the bucket's manifest.jsonl names has a version put with the hash
\* it names, so the watermark never claims what the bucket was not given.
CopyHonest ==
    copy # None => \A p \in Paths : copy[p] # None =>
        \E i \in DOMAIN objects[p] : objects[p][i].stored = copy[p]
UploadSound == TypeOK /\ CopyHonest

\* A partition brought back by a restore line is not dropped again before the
\* checkpoint of a later session is recorded.
Unlinked(p) == disk[p] # None /\ disk'[p] = None
RestoredStays ==
    [][\A p \in Partitions : Unlinked(p) =>
          \A i \in LineOf(p) : ledger[i].kind = "restore" =>
              ledger[i].day < entry[Checkpoint][1]]_vars
=============================================================================
