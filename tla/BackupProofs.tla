---------------------------- MODULE BackupProofs ----------------------------
(***************************************************************************)
(* What the trim and the upload keep for every lake, window and calendar,  *)
(* whatever dies, rots or is deleted: what is off the disk is explained,   *)
(* and in the bucket; the bucket's manifest claims what the bucket was     *)
(* given; and what a restore brought back stays for a session.             *)
(***************************************************************************)
EXTENDS Backup, SequenceTheorems, WellFoundedInduction, TLAPS

OnDiskPaths == Partitions \cup {Checkpoint}
Entry == Contents \cup {None}
LineSteps == {"line", "record", "flush", "unlink"}
JobSteps == {"repair", "begin"} \cup Uploading \cup Trimming
Candidate == [p : Partitions, kept : BOOLEAN, recovering : BOOLEAN]

JobStates == [pc : JobSteps, refused : BOOLEAN, tonight : SUBSET Paths, listed : SUBSET Paths,
              todo : SUBSET Paths, plan : SUBSET Candidate, line : Line \cup {None}]
FirstStates == [pc : {"early", "late"}, early : [Paths -> Entry], todo : SUBSET Paths,
                done : [Paths -> Entry], listed : SUBSET Paths]
RestoreStates == [pc : {"hash", "owe", "download", "commit", "line", "record"},
                  p : Partitions, sha : Contents, owed : BOOLEAN]

\* Types, and who holds the lock.
Types ==
    /\ TypeOK
    /\ job \in {Idle} \cup JobStates
    /\ first \in {Idle} \cup FirstStates
    /\ restore \in {Idle} \cup RestoreStates
    /\ first.pc = "late" <=> lock = "first"
    /\ restore.pc \in {"line", "record"} <=> lock = "restore"
    /\ job.pc \in LineSteps => job.line \in Line

\* The disk holds what the manifest records, nothing, or rot.
DiskRecorded ==
    /\ \A p \in OnDiskPaths : disk[p] \in {None, Rot, entry[p]}
    /\ \A p \in fresh : entry[p] # None
    /\ \/ entry[Checkpoint] = None
       \/ /\ entry[Checkpoint] \in Days \X Nat
          /\ entry[Checkpoint][1] <= today

\* The ledger's lines: a day's after the days before it.
LinesInOrder ==
    \A i \in 1..Len(ledger) :
        /\ ledger[i].day <= today
        /\ \A j \in 1..Len(ledger) : i < j => ledger[i].day <= ledger[j].day

\* Day d is before that of the recorded checkpoint.
Before(d) == entry[Checkpoint] # None /\ d < entry[Checkpoint][1]
RestoreLineOf(p, i) == ledger[i].partition = p /\ ledger[i].kind = "restore"
TrimLineOf(p, i) == ledger[i].partition = p /\ ledger[i].kind = "trim"
RestoresBefore(p) == \A i \in 1..Len(ledger) : RestoreLineOf(p, i) => Before(ledger[i].day)

\* A trim line stands behind restore lines of earlier checkpoints only.
TrimsAfter ==
    \A p \in Partitions : \A i, j \in 1..Len(ledger) :
        i < j /\ RestoreLineOf(p, i) /\ TrimLineOf(p, j) => Before(ledger[i].day)

\* Line i is the latest of p, and explains its absence.
LastLineOf(p, i) ==
    /\ ledger[i].partition = p
    /\ \A j \in 1..Len(ledger) : j > i => ledger[j].partition # p
Explains(p, i) == LastLineOf(p, i) /\ ledger[i].kind = "trim" /\ ledger[i].sha256 = entry[p]

\* What is off the disk is explained by a line that no power loss can take.
FlushedFirst ==
    \A p \in Partitions : entry[p] # None /\ disk[p] = None => \E i \in 1..flushed : Explains(p, i)

\* What the trim knows of the candidates ahead of it and of the line it writes.
PlanSound ==
    /\ \A c, d \in job.plan : c.p = d.p => c = d
    /\ \A c \in job.plan :
          entry[c.p] # None /\ disk[c.p] # None /\ RestoresBefore(c.p)
LineSound ==
    LET p == job.line.partition
    IN  /\ entry[p] # None /\ disk[p] # None /\ job.line.sha256 = entry[p]
        /\ \A c \in job.plan : c.p # p
        /\ job.line.kind = "trim" =>
              RestoresBefore(p) /\ (p \notin lost => Good(p, entry[p]))
AppendedSound ==
    /\ ledger # <<>> /\ ledger[Len(ledger)] = job.line
    /\ job.pc = "unlink" => flushed = Len(ledger) /\ job.line.kind = "trim"
TrimSound ==
    /\ job.pc \in {"trim"} \cup LineSteps => PlanSound
    /\ job.pc \in LineSteps => LineSound
    /\ job.pc = "line" => job.line.day = today
    /\ job.pc \in {"record", "flush", "unlink"} => AppendedSound

\* A restore line is written beside a partition that is back.
RestoreSound ==
    restore.pc \in {"line", "record"} => entry[restore.p] # None /\ disk[restore.p] # None

\* An upload leaves no entry behind that the bucket was not given.
Given(p, sha) == \E i \in 1..Len(objects[p]) : objects[p][i].stored = sha
AsStored ==
    \A p \in Paths : \A i \in 1..Len(objects[p]) :
        objects[p][i].body \in {objects[p][i].stored, Rot}
CopyAgrees ==
    copy # None => \A p \in Paths :
        /\ copy[p] # None => Given(p, copy[p])
        /\ p \notin fresh => entry[p] = copy[p]
UploadLeft ==
    job.pc \in Uploading =>
        /\ copy # None
        /\ \A p \in job.todo : entry[p] # None
        /\ \A p \in fresh \ job.todo : Given(p, entry[p])
FirstLeft ==
    /\ first.pc \in {"early", "late"} =>
          \A p \in Paths : first.done[p] # None => Given(p, first.done[p])
    /\ first.pc = "early" => \A p \in first.todo : first.early[p] # None
    /\ first.pc = "late" => \A p \in Paths :
          /\ p \in first.todo => entry[p] # None
          /\ entry[p] # None => p \in first.todo \/ first.done[p] = entry[p]
UploadInv == AsStored /\ CopyAgrees /\ UploadLeft /\ FirstLeft

LedgerInv == LinesInOrder /\ TrimsAfter /\ FlushedFirst

BackupInv ==
    /\ Types /\ DiskRecorded /\ LedgerInv /\ TrimSound /\ RestoreSound
    /\ UploadInv /\ OneGoodCopy

------------------------------------------------------------------------------
(* What constants and types give *)

LEMMA Apart ==
    /\ None \notin Contents /\ None \notin Line /\ None \notin Processes
    /\ Rot # None /\ Rot \notin Contents
    /\ Checkpoint \in Paths /\ TrimmedFile \in Paths /\ Checkpoint # TrimmedFile
    /\ OnDiskPaths \subseteq Paths /\ TrimmedFile \notin OnDiskPaths
    /\ Partitions \subseteq OnDiskPaths /\ Checkpoint \in OnDiskPaths
    /\ Checkpoint \notin Partitions
BY ConstantsAssumption DEF Paths, OnDiskPaths, Checkpoint, TrimmedFile

LEMMA ContentsOf ==
    /\ \A n \in Nat : <<n>> \in Contents /\ Len(<<n>>) = 1 /\ <<n>>[1] = n
    /\ \A n, m \in Nat : <<n, m>> \in Contents
BY DEF Contents

LEMMA VersionsAre == Versions \subseteq Contents /\ \A v \in Versions : v[1] \in Nat
BY ContentsOf, ConstantsAssumption DEF Versions

LEMMA DaysAre == Days \subseteq Nat /\ \A d \in Days : d - 1 \in Nat
BY ConstantsAssumption DEF Days

\* A process that rests does not hold the lock, one in a step that does has it alone.
LEMMA Holders ==
    ASSUME Types
    PROVE  /\ job = Idle => job.pc = "idle" /\ lock # "job"
           /\ job # Idle => job \in JobStates /\ job.pc \in JobSteps /\ lock = "job"
           /\ first # Idle => first \in FirstStates /\ first.pc \in {"early", "late"}
           /\ restore # Idle => restore \in RestoreStates
           /\ first = Idle => first.pc = "idle"
           /\ restore = Idle => restore.pc = "idle"
           /\ JobSteps = {"repair", "begin", "heal", "upload", "select", "trim", "line",
                          "record", "flush", "unlink"}
BY DEF Types, TypeOK, Idle, JobStates, FirstStates, RestoreStates, JobSteps, Uploading,
       Trimming

LEMMA LedgerTyped ==
    ASSUME Types
    PROVE  /\ Len(ledger) \in Nat /\ DOMAIN ledger = 1..Len(ledger)
           /\ \A i \in 1..Len(ledger) : ledger[i] \in Line
           /\ flushed \in Nat /\ flushed <= Len(ledger)
<1>1. ledger \in Seq(Line) /\ flushed \in 0..Len(ledger) BY DEF Types, TypeOK
<1> QED BY <1>1

LEMMA ObjectsTyped ==
    ASSUME Types, NEW p \in Paths
    PROVE  /\ objects[p] \in Seq(Version)
           /\ Len(objects[p]) \in Nat /\ DOMAIN objects[p] = 1..Len(objects[p])
           /\ \A i \in 1..Len(objects[p]) : objects[p][i] \in Version
<1>1. objects[p] \in Seq(Version) BY DEF Types, TypeOK
<1> QED BY <1>1

\* A set of positions in the ledger has a last one.
LEMMA HasLast ==
    ASSUME NEW n \in Nat, NEW T \in SUBSET (1..n), T # {}
    PROVE  \E t \in T : \A s \in T : s <= t
<1> DEFINE less == {ss \in Nat \X Nat : ss[1] < ss[2]}
           D == {n - s : s \in T}
<1>1. D \subseteq Nat /\ D # {}
    <2>1. \A s \in T : n - s \in Nat /\ s \in Int
        OBVIOUS
    <2> QED BY <2>1
<1>2. IsWellFoundedOn(less, Nat)
    BY NatLessThanWellFounded DEF OpToRel
<1>3. PICK d \in D : \A u \in D : ~ (<<u, d>> \in less)
    <2> HIDE DEF less, D
    <2> QED BY <1>1, <1>2, WFMin
<1>4. PICK t \in T : d = n - t
    OBVIOUS
<1>5. ASSUME NEW s \in T PROVE s <= t
    <2>1. n - s \in D /\ n - s \in Nat /\ d \in Nat
        BY <1>1
    <2>2. ~ (n - s < d) BY <1>3, <2>1
    <2> QED BY <1>4, <2>2
<1> QED BY <1>5

\* The latest line of a partition is the one no other line of it follows.
LEMMA LatestLineIs ==
    ASSUME Types, NEW p \in Partitions, NEW i \in 1..Len(ledger), LastLineOf(p, i)
    PROVE  LatestLine(p) = ledger[i] /\ LatestLine(p) # None
<1>1. i \in LineOf(p) /\ \A j \in LineOf(p) : j <= i
    BY LedgerTyped DEF LineOf, LastLineOf
<1>2. \A k \in LineOf(p) : (\A j \in LineOf(p) : j <= k) => k = i
    BY <1>1, LedgerTyped DEF LineOf
<1>3. LatestLine(p) = ledger[i]
    BY <1>1, <1>2 DEF LatestLine
<1> QED BY <1>3, LedgerTyped, Apart

LEMMA HasLatest ==
    ASSUME Types, NEW p \in Partitions, NEW k \in 1..Len(ledger), ledger[k].partition = p
    PROVE  \E i \in 1..Len(ledger) : LastLineOf(p, i)
<1>1. LineOf(p) \in SUBSET (1..Len(ledger)) /\ k \in LineOf(p) /\ Len(ledger) \in Nat
    BY LedgerTyped DEF LineOf
<1>2. PICK i \in LineOf(p) : \A j \in LineOf(p) : j <= i
    BY <1>1, HasLast
<1> QED BY <1>1, <1>2, LedgerTyped DEF LastLineOf, LineOf

------------------------------------------------------------------------------
(* What a step that leaves a part alone keeps of it *)

SameEntries == \A p \in OnDiskPaths : entry'[p] = entry[p]
GivenKept == \A p \in Paths : \A sha \in Contents : Given(p, sha) => Given(p, sha)'
GoodKept == \A p \in Paths : \A sha \in Contents : Good(p, sha) => Good(p, sha)'

\* The bucket's objects may only gain versions.
ObjectsGrow ==
    objects' \in [Paths -> Seq(Version)] /\ deleted' \subseteq Paths /\ AsStored' /\ GivenKept
ObjectsKept == ObjectsGrow /\ GoodKept

LEMMA SameObjects ==
    ASSUME Types, AsStored, UNCHANGED <<objects, deleted>> PROVE ObjectsKept
BY DEF ObjectsKept, ObjectsGrow, GivenKept, GoodKept, Given, Good, AsStored, Types, TypeOK

LEMMA PutKeeps ==
    ASSUME Types, AsStored, NEW p \in Paths, NEW content \in Contents, Put(p, content)
    PROVE  ObjectsKept /\ Given(p, content)'
<1> DEFINE v == [stored |-> content, body |-> content]
<1>1. v \in Version BY DEF Version
<1>2. objects \in [Paths -> Seq(Version)] /\ deleted \subseteq Paths BY DEF Types, TypeOK
<1>3. /\ objects' = [objects EXCEPT ![p] = Append(objects[p], v)]
      /\ deleted' \subseteq Paths
    BY <1>2 DEF Put
<1>4. /\ Append(objects[p], v) \in Seq(Version)
      /\ Len(Append(objects[p], v)) = Len(objects[p]) + 1
      /\ \A i \in 1..Len(objects[p]) : Append(objects[p], v)[i] = objects[p][i]
      /\ Append(objects[p], v)[Len(objects[p]) + 1] = v
    BY <1>1, <1>2, AppendProperties
<1>5. \A q \in Paths : /\ Len(objects[q]) \in Nat /\ DOMAIN objects[q] = 1..Len(objects[q])
                       /\ objects'[q] \in Seq(Version)
                       /\ Len(objects'[q]) \in Nat
                       /\ DOMAIN objects'[q] = 1..Len(objects'[q])
    BY <1>2, <1>3, <1>4, LenProperties
<1>6. \A q \in Paths : /\ Len(objects'[q]) >= Len(objects[q])
                       /\ \A i \in 1..Len(objects[q]) : objects'[q][i] = objects[q][i]
    BY <1>2, <1>3, <1>4, <1>5
<1>7. Given(p, content)'
    <2>1. objects'[p][Len(objects[p]) + 1].stored = content BY <1>2, <1>3, <1>4
    <2>2. Len(objects[p]) + 1 \in 1..Len(objects'[p]) BY <1>2, <1>3, <1>4, <1>5
    <2> QED BY <2>1, <2>2 DEF Given
<1>8. AsStored'
    <2>1. \A q \in Paths : \A i \in 1..Len(objects'[q]) :
              i \in 1..Len(objects[q]) \/ (q = p /\ objects'[q][i] = v)
        BY <1>2, <1>3, <1>4, <1>5
    <2> QED BY <2>1, <1>6 DEF AsStored
<1>9. GivenKept BY <1>5, <1>6 DEF GivenKept, Given
<1>10. GoodKept BY <1>5, <1>6 DEF GoodKept, Good
<1> QED BY <1>2, <1>3, <1>5, <1>7, <1>8, <1>9, <1>10 DEF ObjectsKept, ObjectsGrow

LEMMA BeforeKept ==
    ASSUME SameEntries PROVE \A d : Before(d) => Before(d)'
BY Apart DEF Before, SameEntries

LEMMA LedgerKept ==
    ASSUME Types, Types', LedgerInv, UNCHANGED <<ledger, flushed>>, today' >= today,
           \A d \in Nat : Before(d) => Before(d)',
           \A p \in Partitions : disk'[p] = None => disk[p] = None /\ entry'[p] = entry[p]
    PROVE  LedgerInv'
<1>0. today \in Nat /\ today' \in Nat BY DaysAre DEF Types, TypeOK
<1>1. \A i \in 1..Len(ledger) : ledger[i].day \in Nat
    BY LedgerTyped, DaysAre DEF Line
<1>2. LinesInOrder'
    BY <1>0, <1>1 DEF LinesInOrder, LedgerInv
<1>3. TrimsAfter'
    BY <1>1 DEF TrimsAfter, LedgerInv, RestoreLineOf, TrimLineOf
<1>4. FlushedFirst'
    BY DEF FlushedFirst, LedgerInv, Explains, LastLineOf
<1> QED BY <1>2, <1>3, <1>4 DEF LedgerInv

\* The trim's knowledge outlives a step beside it.
LEMMA TrimKept ==
    ASSUME Types, TrimSound, job' = job,
           job.pc \in Trimming => UNCHANGED <<ledger, flushed, today>> /\ SameEntries,
           \A p \in Partitions : disk'[p] = None => disk[p] = None,
           \A p \in Partitions : p \notin lost' => p \notin lost,
           \A p \in Partitions :
              (job.pc \in LineSteps /\ p = job.line.partition /\ p \notin lost' /\ Good(p, entry[p]))
                 => Good(p, entry[p])'
    PROVE  TrimSound'
<1> SUFFICES ASSUME job.pc \in {"trim"} \cup LineSteps PROVE TrimSound'
    BY DEF TrimSound, LineSteps
<1>1. UNCHANGED <<ledger, flushed, today>> /\ SameEntries
    BY DEF Trimming, LineSteps
<1>2. /\ job \in JobStates /\ \A c \in job.plan : c.p \in Partitions
      /\ job.pc \in LineSteps => job.line \in Line /\ job.line.partition \in Partitions
    BY Holders DEF Types, JobStates, Candidate, Line, LineSteps, Idle
<1>3. \A p \in Partitions : RestoresBefore(p) => RestoresBefore(p)'
    BY <1>1, BeforeKept DEF RestoresBefore, RestoreLineOf
<1>4. \A p \in Partitions : entry'[p] = entry[p]
    BY <1>1, Apart DEF SameEntries
<1>5. PlanSound'
    BY <1>2, <1>3, <1>4 DEF PlanSound, TrimSound
<1>6. job.pc \in LineSteps => LineSound'
    BY <1>2, <1>3, <1>4 DEF LineSound, TrimSound
<1>7. job.pc \in {"record", "flush", "unlink"} => AppendedSound'
    BY <1>1 DEF AppendedSound, TrimSound
<1> QED BY <1>1, <1>5, <1>6, <1>7 DEF TrimSound

LEMMA TrimAtRest ==
    ASSUME job'.pc \notin {"trim"} \cup LineSteps PROVE TrimSound'
BY DEF TrimSound, LineSteps

LEMMA CopiesKept ==
    ASSUME Types, OneGoodCopy, GoodKept,
           \A p \in Partitions : p \notin lost' =>
              /\ p \notin lost
              /\ disk'[p] = entry'[p] \/ (disk'[p] = disk[p] /\ entry'[p] = entry[p])
    PROVE  OneGoodCopy'
<1> SUFFICES ASSUME NEW p \in Partitions, entry'[p] # None, p \notin lost',
                    disk'[p] # entry'[p]
             PROVE  Good(p, entry[p])'
    BY DEF OneGoodCopy
<1>1. entry'[p] = entry[p] /\ entry[p] \in Contents /\ p \in Paths
    BY Apart DEF Types, TypeOK
<1>2. Good(p, entry[p]) BY <1>1 DEF OneGoodCopy
<1> QED BY <1>1, <1>2 DEF GoodKept, Good

LEMMA RestoreKept ==
    ASSUME Types, RestoreSound, restore' \in {restore, Idle},
           restore.pc \in {"line", "record"} =>
              SameEntries /\ \A p \in Partitions : disk'[p] = None => disk[p] = None
    PROVE  RestoreSound'
<1>1. restore # Idle => restore.p \in Partitions /\ restore.p \in OnDiskPaths
    BY Holders, Apart DEF RestoreStates
<1> QED BY <1>1 DEF RestoreSound, SameEntries, Idle

LEMMA LeftKept ==
    ASSUME Types, DiskRecorded, UploadInv, GivenKept,
           job'.pc \in Uploading =>
              job.pc \in Uploading /\ job'.todo = job.todo /\ UNCHANGED <<copy, entry, fresh>>
    PROVE  UploadLeft'
<1> SUFFICES ASSUME job'.pc \in Uploading PROVE UploadLeft'
    BY DEF UploadLeft
<1>1. /\ job.pc \in Uploading /\ job'.todo = job.todo
      /\ copy' = copy /\ entry' = entry /\ fresh' = fresh
    OBVIOUS
<1>2. \A p \in job'.todo : entry'[p] # None
    BY <1>1 DEF UploadInv, UploadLeft
<1>3. ASSUME NEW p \in fresh' \ job'.todo PROVE Given(p, entry[p])'
    <2>1. p \in Paths /\ Given(p, entry[p]) /\ entry[p] \in Contents
        BY <1>1, <1>3 DEF UploadInv, UploadLeft, DiskRecorded, Types, TypeOK
    <2> QED BY <1>1, <2>1 DEF GivenKept, Given
<1> QED BY <1>1, <1>2, <1>3 DEF UploadInv, UploadLeft

LEMMA UploadKept ==
    ASSUME Types, UploadInv, ObjectsGrow, copy' = copy, first' \in {first, Idle},
           fresh \subseteq fresh', \A p \in Paths : p \notin fresh' => entry'[p] = entry[p],
           lock = "first" => entry' = entry, UploadLeft'
    PROVE  UploadInv'
<1>1. \A p \in Paths : entry[p] \in Entry /\ (copy # None => copy[p] \in Entry)
    BY DEF Types, TypeOK, Entry
<1>2. \A p \in Paths : \A sha \in Contents : Given(p, sha) => Given(p, sha)'
    BY DEF ObjectsGrow, GivenKept
<1>3. CopyAgrees'
    BY <1>1, <1>2 DEF UploadInv, CopyAgrees, Entry, Given
<1>4. FirstLeft'
    <2>1. CASE first' = Idle BY <2>1 DEF FirstLeft, Idle
    <2>2. CASE first' = first /\ first # Idle
        <3>1. first \in FirstStates BY <2>2, Holders
        <3>2. \A p \in Paths : first.done[p] \in Entry BY <3>1 DEF FirstStates
        <3>3. first.pc = "late" => entry' = entry BY DEF Types
        <3> QED BY <1>2, <2>2, <3>2, <3>3 DEF UploadInv, FirstLeft, Entry, Given
    <2> QED BY <2>1, <2>2
<1> QED BY <1>3, <1>4 DEF UploadInv, ObjectsGrow

\* A step that only books the ledger's own entry, or nothing, at rest with the rest.
Books == Record(TrimmedFile, <<Len(ledger)>>) \/ UNCHANGED <<entry, fresh>>

LEMMA BooksTyped ==
    ASSUME Types, DiskRecorded, Books
    PROVE  /\ entry' \in [Paths -> Entry] /\ fresh' \subseteq Paths /\ SameEntries
           /\ fresh \subseteq fresh' /\ \A p \in fresh' : entry'[p] # None
           /\ \A p \in Paths : p \notin fresh' => entry'[p] = entry[p]
<1>1. entry \in [Paths -> Entry] /\ fresh \subseteq Paths BY DEF Types, TypeOK, Entry
<1>2. CASE UNCHANGED <<entry, fresh>>
    BY <1>1, <1>2 DEF DiskRecorded, SameEntries
<1>3. CASE Record(TrimmedFile, <<Len(ledger)>>)
    <2>1. <<Len(ledger)>> \in Contents BY ContentsOf, LedgerTyped
    <2> QED BY <1>1, <1>3, <2>1, Apart DEF Record, Entry, DiskRecorded, SameEntries
<1> QED BY <1>2, <1>3 DEF Books

LEMMA BooksStep ==
    ASSUME BackupInv, Types', TrimSound', RestoreSound', Books,
           UNCHANGED <<today, disk, ledger, flushed, copy, objects, deleted, lost>>,
           first' \in {first, Idle}, lock = "first" => entry' = entry, UploadLeft'
    PROVE  BackupInv'
<1> USE DEF BackupInv
<1>1. /\ fresh \subseteq fresh' /\ SameEntries /\ \A p \in fresh' : entry'[p] # None
      /\ \A p \in Paths : p \notin fresh' => entry'[p] = entry[p]
    BY BooksTyped
<1>2. \A p \in Partitions : entry'[p] = entry[p] BY <1>1, Apart DEF SameEntries
<1>3. DiskRecorded'
    BY <1>1, Apart DEF DiskRecorded, SameEntries
<1>4. LedgerInv'
    <2>1. today' >= today BY DaysAre DEF Types, TypeOK
    <2> QED BY <1>1, <1>2, <2>1, BeforeKept, LedgerKept
<1>5. ObjectsKept BY SameObjects DEF UploadInv
<1>6. UploadInv' BY <1>1, <1>5, UploadKept DEF ObjectsKept
<1>7. OneGoodCopy' BY <1>2, <1>5, CopiesKept DEF ObjectsKept
<1> QED BY <1>3, <1>4, <1>6, <1>7

------------------------------------------------------------------------------
(* The first state *)

LEMMA InitInv == Init => BackupInv
<1> SUFFICES ASSUME Init PROVE BackupInv OBVIOUS
<1> USE ConstantsAssumption DEF Init
<1>1. job.pc = "idle" /\ first.pc = "idle" /\ restore.pc = "idle" BY DEF Idle
<1>2. TypeOK
    <2>1. ledger \in Seq(Line) /\ flushed \in 0..Len(ledger) OBVIOUS
    <2>2. objects \in [Paths -> Seq(Version)] OBVIOUS
    <2>3. disk \in [OnDiskPaths -> Contents \cup {None, Rot}] /\ entry \in [Paths -> Entry]
        BY DEF OnDiskPaths, Entry
    <2>4. today \in Days BY DEF Days
    <2>5. lock \in {None} \cup Processes /\ (lock = "job" <=> job # Idle)
        BY Apart DEF Processes
    <2> QED BY <2>1, <2>2, <2>3, <2>4, <2>5 DEF TypeOK, OnDiskPaths, Entry
<1>3. Types BY <1>1, <1>2, Apart DEF Types, LineSteps, Processes
<1>4. \A p \in Paths : entry[p] = None /\ Len(objects[p]) = 0
    OBVIOUS
<1>5. DiskRecorded BY <1>4, Apart DEF DiskRecorded, OnDiskPaths
<1>6. LedgerInv BY <1>4, Apart DEF LedgerInv, LinesInOrder, TrimsAfter, FlushedFirst
<1>7. TrimSound /\ RestoreSound BY <1>1 DEF TrimSound, RestoreSound, LineSteps
<1>8. UploadInv BY <1>1, <1>4 DEF UploadInv, AsStored, CopyAgrees, UploadLeft, FirstLeft, Uploading
<1>9. OneGoodCopy BY <1>4, Apart DEF OneGoodCopy
<1> QED BY <1>3, <1>5, <1>6, <1>7, <1>8, <1>9 DEF BackupInv

------------------------------------------------------------------------------
(* The writers of the lake *)

\* New content lands on disk and in the manifest together, while nobody holds the lock.
LEMMA LandsStep ==
    ASSUME BackupInv, Types', lock = None, lock' = None \/ job'.pc = "repair",
           NEW written \in SUBSET OnDiskPaths,
           \A p \in written : disk'[p] = entry'[p] /\ entry'[p] \in Contents,
           \A p \in OnDiskPaths : p \notin written => disk'[p] = disk[p] /\ entry'[p] = entry[p],
           entry'[TrimmedFile] = entry[TrimmedFile],
           fresh' = fresh \cup written,
           UNCHANGED <<today, ledger, flushed, copy, objects, deleted, first, restore, lost>>,
           job' = job \/ job'.pc = "repair",
           Checkpoint \in written => entry'[Checkpoint] \in Days \X Nat
                                     /\ entry'[Checkpoint][1] = today
    PROVE  BackupInv'
<1> USE DEF BackupInv
<1>1. /\ job = Idle /\ job.pc = "idle" /\ job'.pc \notin {"trim"} \cup LineSteps \cup Uploading
      /\ first.pc # "late" /\ restore.pc \notin {"line", "record"}
    BY Holders, Apart DEF Types, Processes, LineSteps, Uploading
<1>2. \A p \in Paths : p \in OnDiskPaths \/ p = TrimmedFile
    BY DEF Paths, OnDiskPaths
<1>3. DiskRecorded'
    <2>1. \A p \in OnDiskPaths : disk'[p] \in {None, Rot, entry'[p]}
        BY DEF DiskRecorded
    <2>2. \A p \in fresh' : entry'[p] # None
        BY <1>2, Apart DEF DiskRecorded, Types, TypeOK
    <2>3. \/ entry'[Checkpoint] = None
          \/ entry'[Checkpoint] \in Days \X Nat /\ entry'[Checkpoint][1] <= today'
        <3>1. CASE Checkpoint \in written
            BY <3>1, DaysAre DEF Types, TypeOK
        <3>2. CASE Checkpoint \notin written
            BY <3>2, Apart DEF DiskRecorded
        <3> QED BY <3>1, <3>2
    <2> QED BY <2>1, <2>2, <2>3 DEF DiskRecorded
<1>4. LedgerInv'
    <2>1. \A d \in Nat : Before(d) => Before(d)'
        <3> SUFFICES ASSUME NEW d \in Nat, Before(d) PROVE Before(d)' OBVIOUS
        <3>1. CASE Checkpoint \notin written BY <3>1, Apart DEF Before
        <3>2. CASE Checkpoint \in written
            <4>1. /\ entry[Checkpoint][1] \in Nat /\ entry[Checkpoint][1] <= today
                  /\ today \in Nat /\ d < entry[Checkpoint][1]
                BY DaysAre DEF Before, DiskRecorded, Types, TypeOK
            <4>2. entry'[Checkpoint][1] = today /\ entry'[Checkpoint] # None
                BY <3>2, Apart
            <4> QED BY <4>1, <4>2 DEF Before
        <3> QED BY <3>1, <3>2
    <2>2. \A p \in Partitions : disk'[p] = None => disk[p] = None /\ entry'[p] = entry[p]
        BY Apart
    <2>3. today' >= today BY DaysAre DEF Types, TypeOK
    <2> QED BY <2>1, <2>2, <2>3, LedgerKept
<1>5. TrimSound' BY <1>1, TrimAtRest
<1>6. RestoreSound' BY <1>1 DEF RestoreSound
<1>7. ObjectsKept BY SameObjects DEF UploadInv
<1>8. UploadInv'
    <2>1. \A p \in Paths : p \notin fresh' => entry'[p] = entry[p] BY <1>2
    <2>2. lock # "first" BY Apart DEF Processes
    <2>3. UploadLeft' BY <1>1 DEF UploadLeft
    <2> QED BY <1>7, <2>1, <2>2, <2>3, UploadKept DEF ObjectsKept
<1>9. OneGoodCopy'
    <2>1. \A p \in Partitions : disk'[p] = entry'[p] \/ (disk'[p] = disk[p] /\ entry'[p] = entry[p])
        BY Apart
    <2> QED BY <1>7, <2>1, CopiesKept DEF ObjectsKept
<1> QED BY <1>3, <1>4, <1>5, <1>6, <1>8, <1>9

LEMMA SweepStep == ASSUME BackupInv, Sweep PROVE BackupInv'
<1> USE DEF BackupInv
<1>1. PICK land \in SUBSET {p \in Partitions : Bars(p) /\ Day[p] <= today /\ entry[p] = None},
           change \in SUBSET {p \in Partitions : /\ Bars(p) /\ disk[p] \in Versions
                                                 /\ entry[p][1] < MaxVersion},
           cutoff \in {today - 1, today}, W \in SUBSET Withholdable :
        LET Rev(p) == IF p \in land THEN <<1>>
                      ELSE IF p \in change THEN <<entry[p][1] + 1>>
                      ELSE <<today, cutoff>>
            written == land \cup change \cup {Checkpoint}
        IN  /\ Cardinality(change) <= 1
            /\ disk' = [p \in DOMAIN disk |-> IF p \in written THEN Rev(p) ELSE disk[p]]
            /\ entry' = [p \in Paths |-> IF p \in written THEN Rev(p) ELSE entry[p]]
            /\ fresh' = fresh \cup written
            /\ withheld' = W
    BY Zenon DEF Sweep
<1> DEFINE Rev(p) == IF p \in land THEN <<1>>
                     ELSE IF p \in change THEN <<entry[p][1] + 1>>
                     ELSE <<today, cutoff>>
           written == land \cup change \cup {Checkpoint}
<1>2. written \subseteq OnDiskPaths /\ TrimmedFile \notin written
    BY Apart
<1>3. today \in Days /\ today \in Nat /\ cutoff \in Nat
    BY DaysAre DEF Types, TypeOK
<1>4. \A p \in written : Rev(p) \in Contents
    <2>1. \A p \in change : entry[p] \in Versions
        BY Apart, VersionsAre DEF DiskRecorded
    <2>2. \A p \in change : entry[p][1] + 1 \in Nat
        BY <2>1, VersionsAre
    <2> QED BY <1>3, <2>2, ContentsOf
<1>5. Rev(Checkpoint) \in Days \X Nat /\ Rev(Checkpoint)[1] = today
    BY <1>3, Apart
<1>6. /\ disk \in [OnDiskPaths -> Contents \cup {None, Rot}] /\ entry \in [Paths -> Entry]
      /\ fresh \subseteq Paths
    BY DEF Types, TypeOK, OnDiskPaths, Entry
<1> HIDE DEF Rev, written
<1>7. /\ disk' = [p \in OnDiskPaths |-> IF p \in written THEN Rev(p) ELSE disk[p]]
      /\ entry' = [p \in Paths |-> IF p \in written THEN Rev(p) ELSE entry[p]]
      /\ fresh' = fresh \cup written /\ withheld' \subseteq Withholdable
    BY <1>1, <1>6 DEF Rev, written
<1>8. /\ lock = None
      /\ UNCHANGED <<today, ledger, torn, flushed, copy, objects, deleted, lock, job, first,
                     restore, lost>>
    BY DEF Sweep, ledgerVars, bucketVars
<1>9. Types'
    <2>1. /\ disk' \in [OnDiskPaths -> Contents \cup {None, Rot}]
          /\ entry' \in [Paths -> Entry] /\ fresh' \subseteq Paths
        BY <1>2, <1>4, <1>6, <1>7, Apart DEF Entry
    <2> QED BY <1>7, <1>8, <2>1 DEF Types, TypeOK, OnDiskPaths, Entry
<1>10. /\ \A p \in written : disk'[p] = entry'[p] /\ entry'[p] \in Contents
       /\ \A p \in OnDiskPaths : p \notin written => disk'[p] = disk[p] /\ entry'[p] = entry[p]
       /\ entry'[TrimmedFile] = entry[TrimmedFile]
    BY <1>2, <1>4, <1>7, Apart
<1>11. Checkpoint \in written => entry'[Checkpoint] \in Days \X Nat /\ entry'[Checkpoint][1] = today
    BY <1>5, <1>7, Apart
<1> QED BY <1>2, <1>7, <1>8, <1>9, <1>10, <1>11, LandsStep

\* Compaction seals what is missing and takes the lock for what follows.
LEMMA CompactStep == ASSUME BackupInv, Compact PROVE BackupInv'
<1> USE DEF BackupInv
<1>1. PICK seal \in SUBSET {p \in Partitions : ~Bars(p) /\ Day[p] <= today /\ entry[p] = None} :
        /\ disk' = [p \in DOMAIN disk |-> IF p \in seal THEN <<1>> ELSE disk[p]]
        /\ entry' = [p \in Paths |-> IF p \in seal THEN <<1>> ELSE entry[p]]
        /\ fresh' = fresh \cup seal
        /\ job' = [pc |-> "repair", refused |-> FALSE,
                   tonight |-> {}, listed |-> {}, todo |-> {}, plan |-> {}, line |-> None]
    BY DEF Compact
<1>2. /\ lock = None /\ job = Idle /\ lock' = "job"
      /\ UNCHANGED <<today, ledger, torn, flushed, copy, objects, deleted, withheld, first,
                     restore, lost>>
    BY DEF Compact, ledgerVars, bucketVars
<1>3. seal \subseteq OnDiskPaths /\ TrimmedFile \notin seal /\ Checkpoint \notin seal
      /\ seal \subseteq Paths
    BY Apart
<1>4. /\ disk \in [OnDiskPaths -> Contents \cup {None, Rot}] /\ entry \in [Paths -> Entry]
      /\ fresh \subseteq Paths /\ <<1>> \in Contents
    BY ContentsOf DEF Types, TypeOK, OnDiskPaths, Entry
<1>5. disk' = [p \in OnDiskPaths |-> IF p \in seal THEN <<1>> ELSE disk[p]]
    BY <1>1, <1>4
<1>6. job'.pc = "repair" /\ job' # Idle /\ job' \in JobStates
    BY <1>1 DEF Idle, JobStates, JobSteps
<1>7. first.pc # "late" /\ restore.pc \notin {"line", "record"}
    BY <1>2, Apart DEF Types, Processes
<1>8. Types'
    <2>1. /\ disk' \in [OnDiskPaths -> Contents \cup {None, Rot}]
          /\ entry' \in [Paths -> Entry] /\ fresh' \subseteq Paths
        BY <1>1, <1>3, <1>4, <1>5 DEF Entry
    <2> QED BY <1>2, <1>6, <1>7, <2>1
            DEF Types, TypeOK, OnDiskPaths, Entry, LineSteps, Processes
<1>9. /\ \A p \in seal : disk'[p] = entry'[p] /\ entry'[p] \in Contents
      /\ \A p \in OnDiskPaths : p \notin seal => disk'[p] = disk[p] /\ entry'[p] = entry[p]
      /\ entry'[TrimmedFile] = entry[TrimmedFile]
    BY <1>1, <1>3, <1>4, <1>5, Apart
<1> QED BY <1>1, <1>2, <1>3, <1>6, <1>8, <1>9, LandsStep

LEMMA NextDayStep == ASSUME BackupInv, NextDay PROVE BackupInv'
<1> USE DEF BackupInv
<1>1. /\ job = Idle /\ job.pc = "idle" /\ today < MaxDay /\ today' = today + 1
      /\ UNCHANGED <<disk, ledger, torn, flushed, entry, fresh, copy, objects, deleted,
                     withheld, lock, job, first, restore, lost>>
    BY DEF NextDay, ledgerVars, bucketVars, Idle
<1>2. today \in Nat /\ today' \in Days /\ today' >= today
    BY <1>1, ConstantsAssumption DEF Days, Types, TypeOK
<1>3. Types' BY <1>1, <1>2 DEF Types, TypeOK
<1>4. DiskRecorded'
    <2>1. entry[Checkpoint] # None => entry[Checkpoint][1] \in Nat
        BY DaysAre DEF DiskRecorded
    <2> QED BY <1>1, <1>2, <2>1 DEF DiskRecorded
<1>5. SameEntries BY <1>1 DEF SameEntries
<1>6. LedgerInv' BY <1>1, <1>2, <1>3, <1>5, BeforeKept, LedgerKept
<1>7. TrimSound' BY <1>1, TrimAtRest DEF LineSteps
<1>8. RestoreSound' BY <1>1 DEF RestoreSound
<1>9. ObjectsKept BY <1>1, SameObjects DEF UploadInv
<1>10. UploadInv'
    <2>1. UploadLeft' BY <1>1 DEF UploadLeft, Uploading
    <2> QED BY <1>1, <1>9, <2>1, UploadKept DEF ObjectsKept
<1>11. OneGoodCopy' BY <1>1 DEF OneGoodCopy, Good
<1> QED BY <1>3, <1>4, <1>6, <1>7, <1>8, <1>10, <1>11

------------------------------------------------------------------------------
(* The compaction's own steps: repair, selection, candidates *)

\* A step of the job that holds the lock, or gives it up.
LEMMA JobTypes ==
    ASSUME Types, job # Idle, UNCHANGED <<today, withheld, first, restore, lost>>,
           \/ job' \in JobStates /\ lock' = lock
           \/ job' = Idle /\ lock' = None,
           job'.pc \in LineSteps => job'.line \in Line,
           disk' \in [OnDiskPaths -> Contents \cup {None, Rot}], entry' \in [Paths -> Entry],
           ledger' \in Seq(Line), torn' = torn, flushed' \in 0..Len(ledger'),
           fresh' \subseteq Paths, copy' \in {copy, entry},
           objects' \in [Paths -> Seq(Version)], deleted' \subseteq Paths
    PROVE  Types'
<1>1. lock = "job" /\ first.pc # "late" /\ restore.pc \notin {"line", "record"}
    BY Apart DEF Types, TypeOK, Processes
<1>2. job' \in {Idle} \cup JobStates /\ (lock' = "job" <=> job' # Idle)
      /\ lock' \in {None, "job"}
    BY <1>1, Apart DEF JobStates, JobSteps, Idle, Uploading, Trimming, Processes
<1>3. copy' = None \/ copy' \in [Paths -> Contents \cup {None}]
    BY DEF Types, TypeOK
<1>4. TypeOK'
    BY <1>2, <1>3 DEF Types, TypeOK, OnDiskPaths, Entry, Processes
<1> QED BY <1>1, <1>2, <1>4, Apart DEF Types, Processes

LEMMA JobNow ==
    ASSUME Types, job.pc \in JobSteps
    PROVE  /\ job # Idle /\ job \in JobStates /\ lock = "job" /\ lock # "first"
           /\ restore.pc \notin {"line", "record"} /\ first.pc # "late"
           /\ disk \in [OnDiskPaths -> Contents \cup {None, Rot}] /\ entry \in [Paths -> Entry]
           /\ ledger \in Seq(Line) /\ flushed \in 0..Len(ledger)
           /\ fresh \subseteq Paths /\ objects \in [Paths -> Seq(Version)]
           /\ deleted \subseteq Paths
<1>1. job # Idle BY DEF Idle, JobSteps, Uploading, Trimming
<1> QED BY <1>1, Apart DEF Types, TypeOK, Processes, OnDiskPaths, Entry

LEMMA RepairLedgerStep == ASSUME BackupInv, RepairLedger PROVE BackupInv'
<1> USE DEF BackupInv
<1>1. /\ job.pc = "repair" /\ job' = [job EXCEPT !.pc = "begin", !.refused = RepairRefused]
      /\ UNCHANGED <<disk, ledger, torn, flushed, copy, objects, deleted, lock, today,
                     withheld, first, restore, lost>>
      /\ Books
    BY DEF RepairLedger, RepairTrimmedEntry, Books, ledgerVars, bucketVars, Others
<1>2. RepairRefused \in BOOLEAN BY DEF RepairRefused
<1>3. job.pc \in JobSteps BY <1>1 DEF JobSteps
<1>4. job' \in JobStates /\ job'.pc = "begin"
    BY <1>1, <1>2, <1>3, JobNow DEF JobStates, JobSteps
<1>5. Types' BY <1>1, <1>3, <1>4, JobNow, BooksTyped, JobTypes DEF LineSteps
<1>6. TrimSound' BY <1>4, TrimAtRest DEF LineSteps
<1>7. RestoreSound' BY <1>1, <1>3, JobNow DEF RestoreSound
<1>8. UploadLeft' BY <1>4 DEF UploadLeft, Uploading
<1> QED BY <1>1, <1>3, <1>5, <1>6, <1>7, <1>8, JobNow, BooksStep

\* The job stops, or its step changes none of the lake.
LEMMA JobStopsStep ==
    ASSUME BackupInv, job.pc \in JobSteps, Stop, Books, entry' = entry,
           UNCHANGED <<disk, ledgerVars, bucketVars, Others>>
    PROVE  BackupInv'
<1> USE DEF BackupInv, ledgerVars, bucketVars, Others
<1>1. job' = Idle /\ job'.pc = "idle" /\ lock' = None BY DEF Stop, Idle
<1>2. Types' BY <1>1, JobNow, BooksTyped, JobTypes DEF LineSteps
<1>3. TrimSound' BY <1>1, TrimAtRest DEF LineSteps
<1>4. RestoreSound' BY JobNow DEF RestoreSound
<1>5. UploadLeft' BY <1>1 DEF UploadLeft, Uploading
<1> QED BY <1>2, <1>3, <1>4, <1>5, BooksStep

LEMMA UploadBeginStep == ASSUME BackupInv, UploadBegin PROVE BackupInv'
<1> USE DEF BackupInv
<1>1. /\ job.pc = "begin" /\ job.pc \in JobSteps
      /\ UNCHANGED <<disk, ledgerVars, entry, fresh, bucketVars, Others>>
    BY DEF UploadBegin, JobSteps
<1>2. Books BY <1>1 DEF Books
<1>3. CASE Stop BY <1>1, <1>2, <1>3, JobStopsStep
<1>4. CASE ~Stop
    <2>1. /\ copy # None /\ lock' = lock
          /\ job' = [job EXCEPT !.pc = "heal", !.tonight = fresh, !.todo = fresh,
                                !.listed = {p \in Paths : Listed(p)}]
        BY <1>4 DEF UploadBegin, NoWatermark
    <2>2. job \in JobStates /\ fresh \subseteq Paths BY <1>1, JobNow
    <2>3. job' \in JobStates /\ job'.pc = "heal" /\ job'.todo = fresh
        BY <2>1, <2>2 DEF JobStates, JobSteps, Uploading
    <2>4. Types' BY <1>1, <2>1, <2>3, JobNow, JobTypes DEF LineSteps, ledgerVars, bucketVars, Others
    <2>5. TrimSound' BY <2>3, TrimAtRest DEF LineSteps
    <2>6. RestoreSound' BY <1>1, JobNow DEF RestoreSound, Others
    <2>7. UploadLeft'
        BY <1>1, <2>1, <2>3 DEF UploadLeft, DiskRecorded, bucketVars
    <2> QED BY <1>1, <1>2, <2>4, <2>5, <2>6, <2>7, BooksStep DEF ledgerVars, bucketVars, Others
<1> QED BY <1>3, <1>4

\* Once no restore line stands in the way, each of the partition's is of a day before
\* the recorded checkpoint's.
LEMMA StandsOff ==
    ASSUME Types, LedgerInv, DiskRecorded, CheckpointProved, NEW p \in Partitions,
           ~RestoreStands(p)
    PROVE  RestoresBefore(p)
<1> SUFFICES ASSUME NEW i \in 1..Len(ledger), RestoreLineOf(p, i) PROVE Before(ledger[i].day)
    BY DEF RestoresBefore
<1>1. PICK m \in 1..Len(ledger) : LastLineOf(p, m)
    BY HasLatest DEF RestoreLineOf
<1>2. i <= m /\ i \in Nat /\ m \in Nat
    BY <1>1, LedgerTyped DEF LastLineOf, RestoreLineOf
<1>3. LatestLine(p) = ledger[m] /\ LatestLine(p) # None BY <1>1, LatestLineIs
<1>4. /\ disk[Checkpoint] = entry[Checkpoint] /\ entry[Checkpoint] # None
      /\ entry[Checkpoint][1] \in Nat
    BY DaysAre DEF CheckpointProved, DiskRecorded
<1>5. ledger[i].day \in Nat /\ ledger[m].day \in Nat /\ ledger[m] \in Line
    BY LedgerTyped, DaysAre DEF Line
<1>6. CASE ledger[m].kind = "restore"
    <2>1. ledger[m].day < entry[Checkpoint][1] BY <1>3, <1>4, <1>6 DEF RestoreStands
    <2>2. ledger[i].day <= ledger[m].day BY <1>2, <1>5 DEF LinesInOrder, LedgerInv
    <2> QED BY <1>4, <1>5, <2>1, <2>2 DEF Before
<1>7. CASE ledger[m].kind = "trim"
    <2>1. i < m BY <1>2, <1>7 DEF RestoreLineOf
    <2> QED BY <1>1, <1>7, <2>1 DEF LedgerInv, TrimsAfter, TrimLineOf, LastLineOf
<1> QED BY <1>5, <1>6, <1>7 DEF Line

LEMMA TrimSelectStep == ASSUME BackupInv, TrimSelect PROVE BackupInv'
<1> USE DEF BackupInv
<1>1. /\ job.pc = "select" /\ job.pc \in JobSteps
      /\ UNCHANGED <<disk, ledgerVars, entry, fresh, bucketVars, Others>>
    BY DEF TrimSelect, JobSteps, Trimming
<1>2. Books BY <1>1 DEF Books
<1>3. CASE Stop BY <1>1, <1>2, <1>3, JobStopsStep
<1>4. CASE ~Stop
    <2> DEFINE chosen == {q \in Partitions : Considered(q)}
               plan == {[p |-> p, kept |-> KeptBy(p), recovering |-> Trimmed(p)] : p \in chosen}
    <2>1. CheckpointProved /\ lock' = lock /\ job' = [job EXCEPT !.pc = "trim", !.plan = plan]
        BY <1>4 DEF TrimSelect
    <2>2. \A p \in Partitions : KeptBy(p) \in BOOLEAN /\ Trimmed(p) \in BOOLEAN
        BY DEF KeptBy, Trimmed
    <2>3. plan \in SUBSET Candidate BY <2>2 DEF Candidate
    <2>4. \A c \in plan : c.p \in chosen OBVIOUS
    <2>5. \A c, d \in plan : c.p = d.p => c = d OBVIOUS
    <2>6. \A p \in chosen : p \in Partitions /\ entry[p] # None /\ disk[p] # None
                            /\ RestoresBefore(p)
        BY <2>1, StandsOff DEF Considered
    <2> HIDE DEF plan, chosen
    <2>7. job' \in JobStates /\ job'.pc = "trim" /\ job'.plan = plan
        BY <1>1, <2>1, <2>3, JobNow DEF JobStates, JobSteps, Trimming
    <2>8. Types' BY <1>1, <2>1, <2>7, JobNow, JobTypes DEF LineSteps, ledgerVars, bucketVars, Others
    <2>9. \A p \in Partitions : RestoresBefore(p) => RestoresBefore(p)'
        BY <1>1 DEF RestoresBefore, RestoreLineOf, Before, ledgerVars
    <2>10. PlanSound' BY <1>1, <2>4, <2>5, <2>6, <2>7, <2>9 DEF PlanSound
    <2>11. TrimSound' BY <2>7, <2>10 DEF TrimSound, LineSteps
    <2>12. RestoreSound' BY <1>1, JobNow DEF RestoreSound, Others
    <2>13. UploadLeft' BY <2>7 DEF UploadLeft, Uploading
    <2> QED BY <1>1, <1>2, <2>8, <2>11, <2>12, <2>13, BooksStep
            DEF ledgerVars, bucketVars, Others
<1> QED BY <1>3, <1>4

\* A version whose body hashes to the entry is a good copy of it.
LEMMA VerifiedGood ==
    ASSUME Types, AsStored, NEW p \in Partitions, entry[p] # None, Verified(p)
    PROVE  Good(p, entry[p])
<1>1. p \in Paths /\ entry[p] \in Contents BY Apart DEF Types, TypeOK
<1>2. Len(objects[p]) \in 1..Len(objects[p])
    BY <1>1, ObjectsTyped DEF Verified, Listed
<1>3. objects[p][Len(objects[p])].body = entry[p] BY DEF Verified, Current
<1>4. objects[p][Len(objects[p])].stored = entry[p]
    BY <1>1, <1>2, <1>3, Apart DEF AsStored
<1>5. objects[p][Len(objects[p])] \in Version BY <1>1, <1>2, ObjectsTyped
<1> QED BY <1>1, <1>2, <1>3, <1>4, <1>5, ObjectsTyped DEF Good, Version

LEMMA TrimOneStep == ASSUME BackupInv, NEW c \in job.plan, TrimOne(c) PROVE BackupInv'
<1> USE DEF BackupInv
<1> DEFINE rest == [job EXCEPT !.plan = @ \ {c}]
           line(l) == [rest EXCEPT !.pc = "line", !.line = l]
           p == c.p
<1>1. /\ job.pc = "trim" /\ job.pc \in JobSteps /\ job \in JobStates
      /\ UNCHANGED <<disk, ledgerVars, entry, fresh, bucketVars, lock, Others>>
    BY JobNow DEF TrimOne, JobSteps, Trimming
<1>2. \/ ~c.kept /\ Verified(p) /\ job' = line(TrimLine(p))
      \/ c.recovering /\ job' = line(RestoreLine(p))
      \/ job' = rest
    BY DEF TrimOne
<1>3. /\ p \in Partitions /\ p \in Paths /\ entry[p] \in Contents /\ disk[p] # None
      /\ RestoresBefore(p) /\ today \in Days
    BY <1>1, Apart DEF TrimSound, PlanSound, JobStates, Candidate, Types, TypeOK
<1>4. TrimLine(p) \in Line /\ RestoreLine(p) \in Line
    BY <1>3 DEF TrimLine, RestoreLine, Line
<1>5. rest \in JobStates /\ rest.pc = "trim" /\ rest.plan = job.plan \ {c}
    BY <1>1 DEF JobStates
<1>6. \A l \in Line : line(l) \in JobStates /\ line(l).pc = "line" /\ line(l).line = l
                      /\ line(l).plan = job.plan \ {c}
    BY <1>1 DEF JobStates, JobSteps, Trimming
<1> HIDE DEF rest, line
<1>7. /\ job' \in JobStates /\ job'.plan = job.plan \ {c}
      /\ \/ job'.pc = "trim"
         \/ job'.pc = "line" /\ job'.line = TrimLine(p) /\ Verified(p)
         \/ job'.pc = "line" /\ job'.line = RestoreLine(p)
    BY <1>2, <1>4, <1>5, <1>6
<1>8. Types'
    BY <1>1, <1>4, <1>7, JobNow, JobTypes DEF LineSteps, ledgerVars, bucketVars, Others
<1>9. \A q \in Partitions : RestoresBefore(q) => RestoresBefore(q)'
    BY <1>1 DEF RestoresBefore, RestoreLineOf, Before, ledgerVars
<1>10. PlanSound /\ \A d \in job.plan : d.p \in Partitions
    BY <1>1 DEF TrimSound, JobStates, Candidate
<1>11. PlanSound' BY <1>1, <1>7, <1>9, <1>10 DEF PlanSound
<1>12. job'.pc = "line" => LineSound' /\ job'.line.day = today'
    <2> SUFFICES ASSUME job'.pc = "line" PROVE LineSound' /\ job'.line.day = today'
        OBVIOUS
    <2>1. /\ job'.line.partition = p /\ job'.line.sha256 = entry[p] /\ job'.line.day = today
          /\ job'.line.kind = "trim" => Verified(p)
        BY <1>7 DEF TrimLine, RestoreLine
    <2>2. \A d \in job'.plan : d.p # p BY <1>7, <1>10 DEF PlanSound
    <2>3. job'.line.kind = "trim" => Good(p, entry[p])
        BY <2>1, <1>3, Apart, VerifiedGood DEF UploadInv
    <2>4. entry' = entry /\ disk' = disk /\ lost' = lost /\ today' = today /\ objects' = objects
        BY <1>1 DEF bucketVars, Others
    <2>5. Good(p, entry[p]) => Good(p, entry[p])' BY <2>4 DEF Good
    <2> QED BY <1>3, <1>9, <2>1, <2>2, <2>3, <2>4, <2>5, Apart DEF LineSound
<1>13. TrimSound' BY <1>7, <1>11, <1>12 DEF TrimSound, LineSteps
<1>14. RestoreSound' BY <1>1, JobNow DEF RestoreSound, Others
<1>15. UploadLeft' BY <1>7 DEF UploadLeft, Uploading
<1>16. Books BY <1>1 DEF Books
<1> QED BY <1>1, <1>8, <1>13, <1>14, <1>15, <1>16, JobNow, BooksStep
        DEF ledgerVars, bucketVars, Others

\* The trim goes on with fewer candidates, and the lake as it is.
LEMMA FewerLeft ==
    ASSUME BackupInv, job.pc \in {"trim"} \cup LineSteps,
           job' \in JobStates, job'.pc = "trim", job'.plan \subseteq job.plan, lock' = lock,
           UNCHANGED <<disk, ledgerVars, entry, fresh, bucketVars, Others>>
    PROVE  BackupInv'
<1> USE DEF BackupInv
<1>1. job.pc \in JobSteps BY DEF LineSteps, JobSteps, Trimming
<1>2. Types' BY <1>1, JobNow, JobTypes DEF LineSteps, ledgerVars, bucketVars, Others
<1>3. \A q \in Partitions : RestoresBefore(q) => RestoresBefore(q)'
    BY DEF RestoresBefore, RestoreLineOf, Before, ledgerVars
<1>4. PlanSound /\ \A d \in job.plan : d.p \in Partitions
    BY <1>1, JobNow DEF TrimSound, JobStates, Candidate
<1>5. PlanSound' BY <1>3, <1>4 DEF PlanSound
<1>6. TrimSound' BY <1>5 DEF TrimSound, LineSteps
<1>7. RestoreSound' BY <1>1, JobNow DEF RestoreSound, Others
<1>8. UploadLeft' BY DEF UploadLeft, Uploading
<1>9. Books BY DEF Books
<1> QED BY <1>1, <1>2, <1>6, <1>7, <1>8, <1>9, JobNow, BooksStep
        DEF ledgerVars, bucketVars, Others

LEMMA TrimHoldStep == ASSUME BackupInv, NEW c \in job.plan, TrimHold(c) PROVE BackupInv'
<1>1. /\ job.pc = "trim" /\ lock' = lock
      /\ job' = [job EXCEPT !.plan = {x \in job.plan : Kind[x.p] # Kind[c.p]}]
      /\ UNCHANGED <<disk, ledgerVars, entry, fresh, bucketVars, Others>>
    BY DEF TrimHold
<1>2. job \in JobStates BY <1>1, JobNow DEF BackupInv, JobSteps, Trimming
<1>3. job' \in JobStates /\ job'.pc = "trim" /\ job'.plan \subseteq job.plan
    BY <1>1, <1>2 DEF JobStates
<1> QED BY <1>1, <1>3, FewerLeft

\* What steps that only write the trimmed ledger leave alone.
LEMMA LedgerOnly ==
    ASSUME BackupInv, UNCHANGED <<today, disk, entry, fresh, bucketVars, lost>>,
           first' \in {first, Idle}, UploadLeft'
    PROVE  DiskRecorded' /\ UploadInv' /\ OneGoodCopy'
<1> USE DEF BackupInv, bucketVars
<1>1. DiskRecorded' BY DEF DiskRecorded
<1>2. ObjectsKept BY SameObjects DEF UploadInv
<1>3. UploadInv' BY <1>2, UploadKept DEF ObjectsKept
<1>4. OneGoodCopy' BY DEF OneGoodCopy, Good
<1> QED BY <1>1, <1>3, <1>4

\* A line of today joins the ledger, about a partition that is on the disk.
LEMMA AppendKeeps ==
    ASSUME Types, LedgerInv, NEW line \in Line, ledger' = Append(ledger, line),
           UNCHANGED <<flushed, entry, disk, today>>,
           line.day = today, disk[line.partition] # None,
           line.kind = "trim" => RestoresBefore(line.partition)
    PROVE  /\ LedgerInv' /\ ledger' \in Seq(Line) /\ flushed' \in 0..Len(ledger')
           /\ ledger' # <<>> /\ ledger'[Len(ledger')] = line
           /\ \A p \in Partitions :
                 (p # line.partition \/ line.kind = "trim") /\ RestoresBefore(p)
                    => RestoresBefore(p)'
<1> DEFINE n == Len(ledger)
<1>1. ledger \in Seq(Line) /\ n \in Nat /\ flushed \in 0..n BY DEF Types, TypeOK
<1>2. /\ ledger' \in Seq(Line) /\ ledger' # <<>> /\ Len(ledger') = n + 1
      /\ \A i \in 1..n : ledger'[i] = ledger[i] /\ ledger[i].day \in Nat
      /\ ledger'[n + 1] = line /\ today \in Nat
    BY SMTT(30), <1>1, AppendProperties, LedgerTyped, DaysAre DEF Line, Types, TypeOK
<1>3. \A i \in 1..Len(ledger') : i \in 1..n \/ (i = n + 1 /\ ledger'[i] = line)
    BY <1>1, <1>2
<1>4. LinesInOrder'
    <2>1. \A i \in 1..n : ledger[i].day <= today BY DEF LinesInOrder, LedgerInv
    <2> HIDE DEF n
    <2> QED BY <1>1, <1>2, <1>3, <2>1 DEF LinesInOrder, LedgerInv, n
<1>5. \A d : Before(d) => Before(d)' BY DEF Before
<1>6. TrimsAfter'
    <2> SUFFICES ASSUME NEW p \in Partitions, NEW i \in 1..Len(ledger'), NEW j \in 1..Len(ledger'),
                        i < j, RestoreLineOf(p, i)', TrimLineOf(p, j)'
                 PROVE  Before(ledger[i].day)'
        BY DEF TrimsAfter
    <2>1. i \in 1..n /\ RestoreLineOf(p, i) /\ ledger'[i] = ledger[i]
        BY <1>1, <1>2, <1>3 DEF RestoreLineOf
    <2>2. CASE j \in 1..n
        BY <1>2, <1>5, <2>1, <2>2 DEF LedgerInv, TrimsAfter, TrimLineOf
    <2>3. CASE j = n + 1
        <3>1. line.kind = "trim" /\ line.partition = p BY <1>2, <2>3 DEF TrimLineOf
        <3> QED BY <1>5, <2>1, <3>1 DEF RestoresBefore
    <2> QED BY <1>3, <2>2, <2>3
<1>7. FlushedFirst'
    <2> SUFFICES ASSUME NEW p \in Partitions, entry[p] # None, disk[p] = None
                 PROVE  \E i \in 1..flushed : Explains(p, i)'
        BY DEF FlushedFirst
    <2>1. PICK i \in 1..flushed : Explains(p, i) BY DEF LedgerInv, FlushedFirst
    <2>2. i \in 1..n /\ line.partition # p BY <1>1
    <2>3. Explains(p, i)' BY <1>2, <1>3, <2>1, <2>2 DEF Explains, LastLineOf
    <2> QED BY <2>1, <2>3
<1>8. \A p \in Partitions : (p # line.partition \/ line.kind = "trim") /\ RestoresBefore(p)
                               => RestoresBefore(p)'
    BY <1>2, <1>3, <1>5 DEF RestoresBefore, RestoreLineOf
<1> QED BY <1>1, <1>2, <1>4, <1>6, <1>7, <1>8 DEF LedgerInv

LEMMA TrimAppendStep == ASSUME BackupInv, TrimAppend PROVE BackupInv'
<1> USE DEF BackupInv
<1>1. /\ job.pc = "line" /\ job.pc \in JobSteps /\ job \in JobStates
      /\ UNCHANGED <<disk, torn, flushed, entry, fresh, bucketVars, Others>>
    BY JobNow DEF TrimAppend, JobSteps, Trimming, AppendLine, ledgerVars
<1>2. CASE Stop /\ UNCHANGED ledgerVars
    BY <1>1, <1>2, JobStopsStep DEF Books
<1>3. CASE AppendLine(job.line) /\ Step("record")
    <2>1. /\ ledger' = Append(ledger, job.line) /\ lock' = lock
          /\ job' = [job EXCEPT !.pc = "record"]
        BY <1>3 DEF AppendLine, Step
    <2>2. /\ job.line \in Line /\ job.line.day = today /\ LineSound /\ PlanSound
          /\ \A d \in job.plan : d.p \in Partitions
          /\ job.line.partition \in Partitions
        BY <1>1 DEF Types, TrimSound, LineSteps, JobStates, Candidate, Line
    <2>3. /\ LedgerInv' /\ ledger' \in Seq(Line) /\ flushed' \in 0..Len(ledger')
          /\ ledger' # <<>> /\ ledger'[Len(ledger')] = job.line
          /\ \A p \in Partitions :
                (p # job.line.partition \/ job.line.kind = "trim") /\ RestoresBefore(p)
                   => RestoresBefore(p)'
        BY <1>1, <2>1, <2>2, AppendKeeps DEF LineSound, Others
    <2>4. /\ job' \in JobStates /\ job'.pc = "record" /\ job'.line = job.line
          /\ job'.plan = job.plan
        BY <1>1, <2>1 DEF JobStates, JobSteps, Trimming
    <2>5. Types'
        BY <1>1, <2>1, <2>2, <2>3, <2>4, JobNow, JobTypes DEF LineSteps, bucketVars, Others
    <2>6. PlanSound' BY <1>1, <2>2, <2>3, <2>4 DEF PlanSound, LineSound
    <2>7. LineSound'
        <3>1. \A p \in Partitions : \A sha : Good(p, sha) => Good(p, sha)'
            BY <1>1 DEF Good, bucketVars
        <3> QED BY <1>1, <2>2, <2>3, <2>4, <3>1 DEF LineSound, Others
    <2>8. TrimSound'
        BY <2>3, <2>4, <2>6, <2>7 DEF TrimSound, LineSteps, AppendedSound
    <2>9. RestoreSound' BY <1>1, JobNow DEF RestoreSound, Others
    <2>10. UploadLeft' BY <2>4 DEF UploadLeft, Uploading
    <2>11. DiskRecorded' /\ UploadInv' /\ OneGoodCopy'
        BY <1>1, <2>10, LedgerOnly DEF Others
    <2> QED BY <2>3, <2>5, <2>8, <2>9, <2>11
<1> QED BY <1>2, <1>3 DEF TrimAppend

\* The candidates and the line outlive a step that changes neither them nor their paths.
LEMMA TrimAhead ==
    ASSUME Types, TrimSound, job.pc \in LineSteps, job'.pc \in {"record", "flush", "unlink"},
           job'.plan = job.plan, job'.line = job.line,
           UNCHANGED <<ledger, disk, objects, lost>>, SameEntries, AppendedSound'
    PROVE  TrimSound'
<1>1. /\ job \in JobStates /\ job.line \in Line /\ job.line.partition \in Partitions
      /\ \A d \in job.plan : d.p \in Partitions
    BY Holders DEF Types, JobStates, Candidate, Line, LineSteps, Idle
<1>2. \A p \in Partitions : RestoresBefore(p) => RestoresBefore(p)'
    BY BeforeKept DEF RestoresBefore, RestoreLineOf
<1>3. \A p \in Partitions : entry'[p] = entry[p] BY Apart DEF SameEntries
<1>4. \A p \in Partitions : Good(p, entry[p]) => Good(p, entry[p])'
    BY <1>3 DEF Good
<1>5. PlanSound' BY <1>1, <1>2, <1>3 DEF PlanSound, TrimSound, LineSteps
<1>6. LineSound' BY <1>1, <1>2, <1>3, <1>4 DEF LineSound, TrimSound
<1> QED BY <1>5, <1>6 DEF TrimSound, LineSteps

LEMMA TrimRecordStep == ASSUME BackupInv, TrimRecord PROVE BackupInv'
<1> USE DEF BackupInv
<1>1. /\ job.pc = "record" /\ job.pc \in JobSteps /\ job \in JobStates /\ Books
      /\ job' = [job EXCEPT !.pc = "flush"] /\ lock' = lock
      /\ UNCHANGED <<disk, ledgerVars, bucketVars, Others>>
    BY JobNow DEF TrimRecord, JobSteps, Trimming, Step, Books
<1>2. /\ job' \in JobStates /\ job'.pc = "flush" /\ job'.plan = job.plan /\ job'.line = job.line
    BY <1>1 DEF JobStates, JobSteps, Trimming
<1>3. job'.line \in Line /\ AppendedSound
    BY <1>1, <1>2 DEF Types, LineSteps, TrimSound
<1>4. Types'
    BY <1>1, <1>2, <1>3, JobNow, JobTypes, BooksTyped DEF ledgerVars, bucketVars, Others
<1>5. AppendedSound' BY <1>1, <1>2, <1>3 DEF AppendedSound, ledgerVars
<1>6. TrimSound'
    BY <1>1, <1>2, <1>5, BooksTyped, TrimAhead DEF LineSteps, ledgerVars, bucketVars, Others
<1>7. RestoreSound' BY <1>1, JobNow DEF RestoreSound, Others
<1>8. UploadLeft' BY <1>2 DEF UploadLeft, Uploading
<1> QED BY <1>1, <1>4, <1>6, <1>7, <1>8, JobNow, BooksStep DEF ledgerVars, bucketVars, Others

LEMMA TrimFlushStep == ASSUME BackupInv, TrimFlush PROVE BackupInv'
<1> USE DEF BackupInv
<1> DEFINE pc == IF job.line.kind = "trim" THEN "unlink" ELSE "trim"
<1>1. /\ job.pc = "flush" /\ job.pc \in JobSteps /\ job \in JobStates
      /\ flushed' = Len(ledger) /\ job' = [job EXCEPT !.pc = pc] /\ lock' = lock
      /\ UNCHANGED <<disk, ledger, torn, entry, fresh, bucketVars, Others>>
    BY JobNow DEF TrimFlush, JobSteps, Trimming, Step
<1>2. /\ job' \in JobStates /\ job'.pc = pc /\ job'.plan = job.plan /\ job'.line = job.line
    BY <1>1 DEF JobStates, JobSteps, Trimming
<1>3. job.line \in Line /\ AppendedSound /\ PlanSound
      /\ \A d \in job.plan : d.p \in Partitions
    BY <1>1 DEF Types, LineSteps, TrimSound, JobStates, Candidate
<1>4. flushed' \in 0..Len(ledger') /\ flushed' >= flushed BY <1>1, LedgerTyped
<1>5. Types'
    BY <1>1, <1>2, <1>3, <1>4, JobNow, JobTypes DEF bucketVars, Others
<1>6. LedgerInv'
    <2>1. LinesInOrder' /\ TrimsAfter'
        BY <1>1 DEF LedgerInv, LinesInOrder, TrimsAfter, RestoreLineOf, TrimLineOf, Before, Others
    <2>2. \A i \in 1..flushed : i \in 1..flushed' BY <1>4, LedgerTyped
    <2>3. FlushedFirst'
        BY <1>1, <2>2 DEF LedgerInv, FlushedFirst, Explains, LastLineOf
    <2> QED BY <2>1, <2>3 DEF LedgerInv
<1>7. \A q \in Partitions : RestoresBefore(q) => RestoresBefore(q)'
    BY <1>1 DEF RestoresBefore, RestoreLineOf, Before
<1>8. TrimSound'
    <2>1. CASE job.line.kind = "trim"
        <3>1. job'.pc = "unlink" BY <1>2, <2>1
        <3>2. AppendedSound' BY <1>1, <1>2, <1>3, <2>1 DEF AppendedSound
        <3>3. SameEntries BY <1>1 DEF SameEntries
        <3> QED BY <1>1, <1>2, <3>1, <3>2, <3>3, TrimAhead DEF LineSteps, bucketVars, Others
    <2>2. CASE job.line.kind # "trim"
        <3>1. job'.pc = "trim" BY <1>2, <2>2
        <3>2. PlanSound' BY <1>1, <1>2, <1>3, <1>7 DEF PlanSound
        <3> QED BY <3>1, <3>2 DEF TrimSound, LineSteps
    <2> QED BY <2>1, <2>2
<1>9. RestoreSound' BY <1>1, JobNow DEF RestoreSound, Others
<1>10. UploadLeft' BY <1>2 DEF UploadLeft, Uploading
<1>11. DiskRecorded' /\ UploadInv' /\ OneGoodCopy'
    BY <1>1, <1>10, LedgerOnly DEF Others
<1> QED BY <1>5, <1>6, <1>8, <1>9, <1>11

\* A partition is unlinked once its line is flushed and a good copy of it is in the bucket.
LEMMA TrimUnlinkStep == ASSUME BackupInv, TrimUnlink PROVE BackupInv'
<1> USE DEF BackupInv
<1> PICK p : p = job.line.partition OBVIOUS
<1>1. /\ job.pc = "unlink" /\ job.pc \in JobSteps /\ job \in JobStates
      /\ UNCHANGED <<ledgerVars, entry, fresh, bucketVars, Others>>
    BY JobNow DEF TrimUnlink, JobSteps, Trimming
<1>2. CASE disk' = disk
    <2>1. \/ job' = [job EXCEPT !.pc = "trim"]
          \/ job' = [job EXCEPT !.pc = "trim", !.plan = {x \in job.plan : Kind[x.p] # Kind[p]}]
        BY DEF TrimUnlink, Step
    <2>a. PICK plan \in SUBSET job.plan : job' = [job EXCEPT !.pc = "trim", !.plan = plan]
        <3>1. CASE job' = [job EXCEPT !.pc = "trim"]
            <4>1. job' = [job EXCEPT !.pc = "trim", !.plan = job.plan]
                BY <1>1, <3>1 DEF JobStates
            <4> QED BY <4>1
        <3>2. CASE job' = [job EXCEPT !.pc = "trim",
                                      !.plan = {x \in job.plan : Kind[x.p] # Kind[p]}]
            BY <3>2
        <3> QED BY <2>1, <3>1, <3>2
    <2>2. job' \in JobStates /\ job'.pc = "trim" /\ job'.plan \subseteq job.plan
        BY <1>1, <2>a DEF JobStates, JobSteps, Trimming
    <2>3. lock' = lock BY DEF TrimUnlink, Step
    <2> QED BY <1>1, <1>2, <2>2, <2>3, FewerLeft DEF LineSteps
<1>3. CASE disk' = [disk EXCEPT ![p] = None] /\ Step("trim")
    <2>1. /\ job.line \in Line /\ p \in Partitions /\ LineSound /\ AppendedSound /\ PlanSound
          /\ \A d \in job.plan : d.p \in Partitions
        BY <1>1 DEF Types, LineSteps, TrimSound, JobStates, Candidate, Line
    <2>2. /\ job' \in JobStates /\ job'.pc = "trim" /\ job'.plan = job.plan /\ lock' = lock
        BY <1>1, <1>3 DEF JobStates, JobSteps, Trimming, Step
    <2>3. /\ disk' \in [OnDiskPaths -> Contents \cup {None, Rot}] /\ disk'[p] = None
          /\ \A q \in OnDiskPaths : q # p => disk'[q] = disk[q]
        BY <1>1, <1>3, <2>1, Apart, JobNow
    <2>4. Types'
        BY <1>1, <2>1, <2>2, <2>3, JobNow, JobTypes DEF LineSteps, ledgerVars, bucketVars, Others
    <2>5. DiskRecorded' BY <1>1, <2>3 DEF DiskRecorded, Others
    <2>6. LedgerInv'
        <3>1. LinesInOrder' /\ TrimsAfter'
            BY <1>1 DEF LedgerInv, LinesInOrder, TrimsAfter, RestoreLineOf, TrimLineOf, Before,
                        Others, ledgerVars
        <3>2. Len(ledger) \in 1..flushed' /\ Explains(p, Len(ledger))'
            BY <1>1, <2>1, LedgerTyped
               DEF AppendedSound, LineSound, Explains, LastLineOf, ledgerVars
        <3>3. \A q \in Partitions : \A i \in 1..flushed : Explains(q, i) => Explains(q, i)'
            BY <1>1 DEF Explains, LastLineOf, ledgerVars
        <3>4. FlushedFirst'
            BY <1>1, <2>3, <3>2, <3>3, Apart DEF LedgerInv, FlushedFirst, ledgerVars
        <3> QED BY <3>1, <3>4 DEF LedgerInv
    <2>7. \A q \in Partitions : RestoresBefore(q) => RestoresBefore(q)'
        BY <1>1 DEF RestoresBefore, RestoreLineOf, Before, ledgerVars
    <2>8. PlanSound'
        BY <1>1, <2>1, <2>2, <2>3, <2>7, Apart DEF PlanSound, LineSound
    <2>9. TrimSound' BY <2>2, <2>8 DEF TrimSound, LineSteps
    <2>10. RestoreSound' BY <1>1, JobNow DEF RestoreSound, Others
    <2>11. ObjectsKept BY <1>1, SameObjects DEF UploadInv, bucketVars
    <2>12. UploadInv'
        <3>1. UploadLeft' BY <2>2 DEF UploadLeft, Uploading
        <3> QED BY <1>1, <2>11, <3>1, UploadKept DEF ObjectsKept, bucketVars, Others
    <2>13. OneGoodCopy'
        <3>1. p \notin lost => Good(p, entry[p])'
            BY <1>1, <2>1 DEF LineSound, AppendedSound, Good, bucketVars
        <3>2. \A q \in Partitions : Good(q, entry[q]) => Good(q, entry[q])'
            BY <1>1 DEF Good, bucketVars
        <3> QED BY <1>1, <2>3, <3>1, <3>2, Apart DEF OneGoodCopy, Others
    <2> QED BY <2>4, <2>5, <2>6, <2>9, <2>10, <2>12, <2>13
<1> QED BY <1>2, <1>3 DEF TrimUnlink

LEMMA JobStopsNow == ASSUME BackupInv, JobStops PROVE BackupInv'
<1>1. job.pc \in JobSteps BY DEF JobStops, JobSteps, Uploading, Trimming
<1> QED BY <1>1, JobStopsStep DEF JobStops, Books

------------------------------------------------------------------------------
(* The upload and the first upload *)

\* A step that only adds versions to the bucket.
LEMMA ObjectsStep ==
    ASSUME BackupInv, Types', TrimSound', RestoreSound', UploadInv', ObjectsKept,
           UNCHANGED <<today, disk, ledger, flushed, entry, fresh, lost>>
    PROVE  BackupInv'
<1> USE DEF BackupInv
<1>1. DiskRecorded' BY DEF DiskRecorded
<1>2. SameEntries BY DEF SameEntries
<1>3. LedgerInv'
    BY DEF LedgerInv, LinesInOrder, TrimsAfter, RestoreLineOf, TrimLineOf, Before, FlushedFirst,
           Explains, LastLineOf
<1>4. OneGoodCopy' BY CopiesKept DEF ObjectsKept
<1> QED BY <1>1, <1>3, <1>4

LEMMA UploadHealStep == ASSUME BackupInv, UploadHeal PROVE BackupInv'
<1> USE DEF BackupInv
<1>1. /\ job.pc = "heal" /\ job.pc \in JobSteps /\ job.pc \in Uploading /\ job \in JobStates
      /\ UNCHANGED <<disk, ledgerVars, entry, fresh, copy, lock, Others>>
      /\ job' = job \/ job' = [job EXCEPT !.pc = "upload"]
      /\ job' = job \/ UNCHANGED bucketVars
    BY JobNow DEF UploadHeal, JobSteps, Uploading, Step, bucketVars
<1>2. ObjectsKept
    <2>1. CASE UNCHANGED bucketVars BY <2>1, SameObjects DEF UploadInv, bucketVars
    <2>2. CASE \E p \in Owing : Put(p, entry[p])
        <3>1. PICK p \in Owing : Put(p, entry[p]) BY <2>2
        <3>2. p \in Paths /\ entry[p] \in Contents BY Apart DEF Owing, Types, TypeOK
        <3> QED BY <3>1, <3>2, PutKeeps DEF UploadInv
    <2> QED BY <2>1, <2>2 DEF UploadHeal
<1>3. job' \in JobStates /\ job'.pc \in Uploading /\ job'.todo = job.todo
    BY <1>1 DEF JobStates, JobSteps, Uploading
<1>4. Types'
    BY <1>1, <1>2, <1>3, JobNow, JobTypes
       DEF LineSteps, Uploading, ledgerVars, Others, ObjectsKept, ObjectsGrow
<1>5. TrimSound' BY <1>3, TrimAtRest DEF Uploading, LineSteps
<1>6. RestoreSound' BY <1>1, JobNow DEF RestoreSound, Others
<1>7. UploadInv'
    <2>1. UploadLeft' BY <1>1, <1>2, <1>3, LeftKept DEF ObjectsKept, ObjectsGrow
    <2> QED BY <1>1, <1>2, <2>1, UploadKept DEF ObjectsKept, Others
<1> QED BY <1>1, <1>2, <1>4, <1>5, <1>6, <1>7, ObjectsStep DEF ledgerVars, Others

\* Whoever finds the content held, or puts it, leaves the bucket given it.
LEMMA HeldIsGiven ==
    ASSUME Types, NEW p \in Paths, NEW sha, NEW listed, Held(p, listed, sha)
    PROVE  Given(p, sha)
<1>1. Len(objects[p]) \in 1..Len(objects[p])
    BY ObjectsTyped DEF Held, HoldsSha, Listed
<1> QED BY <1>1 DEF Held, HoldsSha, Current, Given

LEMMA UploadManifestedStep ==
    ASSUME BackupInv, NEW p \in Paths, UploadManifested(p) PROVE BackupInv'
<1> USE DEF BackupInv
<1>1. /\ job.pc = "upload" /\ job.pc \in JobSteps /\ job.pc \in Uploading /\ job \in JobStates
      /\ p \in job.todo /\ job' = [job EXCEPT !.todo = job.todo \ {p}]
      /\ UNCHANGED <<disk, ledgerVars, entry, fresh, copy, lock, Others>>
    BY JobNow DEF UploadManifested, JobSteps, Uploading
<1>2. entry[p] \in Contents
    BY <1>1 DEF UploadInv, UploadLeft, Types, TypeOK
<1>3. ObjectsKept /\ Given(p, entry[p])'
    <2>1. CASE Held(p, job.listed, entry[p]) /\ UNCHANGED <<objects, deleted>>
        <3>1. ObjectsKept BY <2>1, SameObjects DEF UploadInv
        <3>2. Given(p, entry[p])' BY <1>1, <2>1, HeldIsGiven DEF Given
        <3> QED BY <3>1, <3>2
    <2>2. CASE Put(p, entry[p])
        <3>1. ObjectsKept /\ \E i \in 1..Len(objects'[p]) : objects'[p][i].stored = entry[p]
            BY <1>2, <2>2, PutKeeps DEF UploadInv, Given
        <3> QED BY <1>1, <3>1 DEF Given
    <2> QED BY <2>1, <2>2 DEF UploadManifested
<1>4. job' \in JobStates /\ job'.pc = "upload" /\ job'.todo = job.todo \ {p}
    BY <1>1 DEF JobStates
<1>5. Types'
    BY <1>1, <1>3, <1>4, JobNow, JobTypes
       DEF LineSteps, ledgerVars, Others, ObjectsKept, ObjectsGrow
<1>6. TrimSound' BY <1>4, TrimAtRest DEF LineSteps
<1>7. RestoreSound' BY <1>1, JobNow DEF RestoreSound, Others
<1>8. UploadLeft'
    <2>1. copy' # None /\ \A q \in job'.todo : entry'[q] # None
        BY <1>1, <1>4 DEF UploadInv, UploadLeft
    <2>2. ASSUME NEW q \in fresh' \ job'.todo PROVE Given(q, entry[q])'
        <3>1. CASE q = p BY <1>3, <3>1
        <3>2. CASE q # p
            <4>1. Given(q, entry[q]) /\ q \in Paths /\ entry[q] \in Contents
                BY <1>1, <1>4, <2>2, <3>2 DEF UploadInv, UploadLeft, DiskRecorded, Types, TypeOK
            <4> QED BY ZenonT(40), <1>1, <1>3, <4>1 DEF ObjectsKept, ObjectsGrow, GivenKept, Given
        <3> QED BY <3>1, <3>2
    <2> QED BY <2>1, <2>2 DEF UploadLeft
<1>9. UploadInv' BY <1>1, <1>3, <1>8, UploadKept DEF ObjectsKept, Others
<1> QED BY <1>1, <1>3, <1>5, <1>6, <1>7, <1>9, ObjectsStep DEF ledgerVars, Others

\* The manifest that goes up names nothing that the bucket was not given.
LEMMA UploadManifestStep == ASSUME BackupInv, UploadManifest PROVE BackupInv'
<1> USE DEF BackupInv
<1>1. /\ job.pc = "upload" /\ job.pc \in JobSteps /\ job.pc \in Uploading /\ job \in JobStates
      /\ job.todo = {} /\ copy' = entry /\ fresh' = {} /\ lock' = lock
      /\ job' = [job EXCEPT !.pc = "select", !.listed = {}]
      /\ UNCHANGED <<disk, ledgerVars, entry, objects, deleted, Others>>
    BY JobNow DEF UploadManifest, JobSteps, Uploading
<1>2. job' \in JobStates /\ job'.pc = "select"
    BY <1>1 DEF JobStates, JobSteps, Trimming
<1>3. Types' BY <1>1, <1>2, JobNow, JobTypes DEF LineSteps, ledgerVars, Others
<1>4. TrimSound' BY <1>2, TrimAtRest DEF LineSteps
<1>5. RestoreSound' BY <1>1, JobNow DEF RestoreSound, Others
<1>6. \A p \in Paths : entry[p] # None => Given(p, entry[p])
    BY <1>1 DEF UploadInv, UploadLeft, CopyAgrees
<1>7. UploadInv'
    <2>1. AsStored' BY <1>1 DEF UploadInv, AsStored
    <2>2. CopyAgrees' BY <1>1, <1>6 DEF CopyAgrees, Given
    <2>3. UploadLeft' BY <1>2 DEF UploadLeft, Uploading
    <2>4. FirstLeft' BY <1>1 DEF UploadInv, FirstLeft, Given, Others
    <2> QED BY <2>1, <2>2, <2>3, <2>4 DEF UploadInv
<1>8. DiskRecorded' BY <1>1 DEF DiskRecorded, Others
<1>9. LedgerInv'
    BY <1>1 DEF LedgerInv, LinesInOrder, TrimsAfter, RestoreLineOf, TrimLineOf, Before,
                FlushedFirst, Explains, LastLineOf, ledgerVars, Others
<1>10. OneGoodCopy' BY <1>1 DEF OneGoodCopy, Good, Others
<1> QED BY <1>3, <1>4, <1>5, <1>7, <1>8, <1>9, <1>10

\* What every step of a first upload leaves alone.
LEMMA FirstRest ==
    ASSUME BackupInv, UNCHANGED FirstOthers, ObjectsKept, UploadInv',
           fresh' \in {fresh, {}}, copy' \in {copy, entry},
           first' \in {Idle} \cup FirstStates,
           lock' = lock \/ (lock \in {None, "first"} /\ lock' \in {None, "first"}),
           first'.pc = "late" <=> lock' = "first"
    PROVE  BackupInv'
<1> USE DEF BackupInv, FirstOthers, ledgerVars
<1>1. Types'
    <2>1. fresh' \subseteq Paths /\ (copy' = None \/ copy' \in [Paths -> Contents \cup {None}])
        BY DEF Types, TypeOK
    <2>2. /\ lock' \in {None} \cup Processes /\ (lock' = "job" <=> job' # Idle)
          /\ (restore'.pc \in {"line", "record"} <=> lock' = "restore")
        BY Apart DEF Types, TypeOK, Processes
    <2> QED BY <2>1, <2>2 DEF Types, TypeOK, ObjectsKept, ObjectsGrow
<1>2. SameEntries BY DEF SameEntries
<1>3. \A p \in Partitions : Good(p, entry[p]) => Good(p, entry[p])'
    <2> SUFFICES ASSUME NEW p \in Partitions, Good(p, entry[p]) PROVE Good(p, entry[p])' OBVIOUS
    <2>1. p \in Paths /\ entry[p] \in Contents
        <3>1. PICK i \in 1..Len(objects[p]) : objects[p][i] = [stored |-> entry[p], body |-> entry[p]]
            BY Apart, ObjectsTyped DEF Good
        <3>2. objects[p][i] \in Version BY <3>1, Apart, ObjectsTyped
        <3> QED BY <3>1, <3>2, Apart DEF Version
    <2> QED BY <2>1 DEF ObjectsKept, GoodKept, Good
<1>4. TrimSound' BY <1>2, <1>3, TrimKept
<1>5. RestoreSound' BY DEF RestoreSound
<1>6. DiskRecorded' BY DEF DiskRecorded
<1>7. LedgerInv'
    BY DEF LedgerInv, LinesInOrder, TrimsAfter, RestoreLineOf, TrimLineOf, Before,
           FlushedFirst, Explains, LastLineOf
<1>8. OneGoodCopy' BY CopiesKept DEF ObjectsKept
<1> QED BY <1>1, <1>4, <1>5, <1>6, <1>7, <1>8

LEMMA FirstBeginStep == ASSUME BackupInv, FirstBegin PROVE BackupInv'
<1> USE DEF BackupInv
<1>1. /\ first = Idle /\ UNCHANGED <<FirstOthers, fresh, bucketVars, lock>>
      /\ first' = [pc |-> "early", early |-> entry, todo |-> Entries,
                   done |-> [p \in Paths |-> None], listed |-> {p \in Paths : Listed(p)}]
    BY DEF FirstBegin
<1>2. entry \in [Paths -> Entry] BY DEF Types, TypeOK, Entry
<1>3. first' \in FirstStates BY <1>1, <1>2 DEF FirstStates, Entries, Entry
<1>4. lock # "first" BY <1>1, Holders DEF Types
<1>5. ObjectsKept BY <1>1, SameObjects DEF UploadInv, bucketVars
<1>6. UploadInv'
    <2>1. AsStored' /\ CopyAgrees'
        BY <1>1 DEF UploadInv, AsStored, CopyAgrees, Given, bucketVars, FirstOthers
    <2>2. UploadLeft' BY <1>1 DEF UploadInv, UploadLeft, Given, bucketVars, FirstOthers
    <2>3. FirstLeft' BY <1>1 DEF FirstLeft, Entries
    <2> QED BY <2>1, <2>2, <2>3 DEF UploadInv
<1> QED BY <1>1, <1>3, <1>4, <1>5, <1>6, FirstRest DEF bucketVars

LEMMA FirstOneStep == ASSUME BackupInv, NEW p \in Paths, FirstOne(p) PROVE BackupInv'
<1> USE DEF BackupInv
<1> DEFINE sha == IF first.pc = "early" THEN first.early[p] ELSE entry[p]
<1>1. /\ first.pc \in {"early", "late"} /\ p \in first.todo
      /\ first' = [first EXCEPT !.todo = first.todo \ {p}, !.done[p] = sha]
      /\ UNCHANGED <<FirstOthers, fresh, copy, lock>>
      /\ \/ Held(p, first.listed, sha) /\ UNCHANGED <<objects, deleted>>
         \/ Put(p, sha)
    BY DEF FirstOne
<1>2. first \in FirstStates BY <1>1, Holders DEF Idle
<1>3. sha \in Contents
    BY <1>1, <1>2 DEF UploadInv, FirstLeft, FirstStates, Entry, Types, TypeOK
<1> HIDE DEF sha
<1>4. PICK s \in Contents : s = sha BY <1>3
<1>5. ObjectsKept /\ Given(p, s)'
    <2>1. CASE Held(p, first.listed, s) /\ UNCHANGED <<objects, deleted>>
        <3>1. ObjectsKept BY <2>1, SameObjects DEF UploadInv
        <3>2. Given(p, s)' BY <2>1, HeldIsGiven DEF Given
        <3> QED BY <3>1, <3>2
    <2>2. CASE Put(p, s) BY <2>2, PutKeeps DEF UploadInv
    <2> QED BY <1>1, <1>4, <2>1, <2>2
<1>6. /\ first' \in FirstStates /\ first'.pc = first.pc /\ first'.early = first.early
      /\ first'.todo = first.todo \ {p} /\ first'.done[p] = s
      /\ \A q \in Paths : q # p => first'.done[q] = first.done[q]
    BY <1>1, <1>2, <1>4 DEF FirstStates, Entry
<1>7. s # None /\ (first.pc = "late" => s = entry[p])
    BY <1>4, Apart DEF sha
<1>8. UploadInv'
    <2>1. AsStored' BY <1>5 DEF ObjectsKept, ObjectsGrow
    <2>2. \A q \in Paths : \A x \in Contents : Given(q, x) => Given(q, x)'
        BY <1>5 DEF ObjectsKept, ObjectsGrow, GivenKept
    <2>3. \A q \in Paths : entry[q] \in Entry /\ (copy # None => copy[q] \in Entry)
        BY DEF Types, TypeOK, Entry
    <2>4. CopyAgrees'
        BY <1>1, <2>2, <2>3 DEF UploadInv, CopyAgrees, Given, Entry, FirstOthers
    <2>5. UploadLeft' BY <1>1, <1>5, LeftKept DEF ObjectsKept, ObjectsGrow, FirstOthers
    <2>6. FirstLeft'
        <3>1. \A q \in Paths : first.done[q] \in Entry BY <1>2 DEF FirstStates
        <3>2. ASSUME NEW q \in Paths, first'.done[q] # None PROVE Given(q, first.done[q])'
            <4>1. CASE q = p BY <1>5, <1>6, <4>1 DEF Given
            <4>2. CASE q # p
                <5>1. first.done[q] # None /\ Given(q, first.done[q])
                    BY <1>1, <1>6, <3>2, <4>2 DEF UploadInv, FirstLeft
                <5>2. first.done[q] \in Contents BY <3>1, <5>1 DEF Entry
                <5>3. PICK x \in Contents : x = first.done[q] BY <5>2
                <5>4. Given(q, x)' BY <2>2, <5>1, <5>3
                <5> QED BY <1>6, <4>2, <5>3, <5>4 DEF Given
            <4> QED BY <4>1, <4>2
        <3>3. first'.pc = "early" => \A q \in first'.todo : first'.early[q] # None
            BY <1>6 DEF UploadInv, FirstLeft
        <3>4. first'.pc = "late" => \A q \in Paths :
                 /\ q \in first'.todo => entry'[q] # None
                 /\ entry'[q] # None => q \in first'.todo \/ first'.done[q] = entry'[q]
            BY <1>1, <1>6, <1>7 DEF UploadInv, FirstLeft, FirstOthers
        <3> QED BY <3>2, <3>3, <3>4 DEF FirstLeft
    <2> QED BY <2>1, <2>4, <2>5, <2>6 DEF UploadInv
<1>9. first'.pc = "late" <=> lock' = "first" BY <1>1, <1>6 DEF Types
<1> QED BY <1>1, <1>5, <1>6, <1>8, <1>9, FirstRest

LEMMA FirstLockStep == ASSUME BackupInv, FirstLock PROVE BackupInv'
<1> USE DEF BackupInv
<1>1. /\ first.pc = "early" /\ lock = None /\ lock' = "first"
      /\ first' = [first EXCEPT !.pc = "late",
                       !.todo = {p \in Paths : entry[p] # None /\ entry[p] # first.done[p]}]
      /\ UNCHANGED <<FirstOthers, fresh, bucketVars>>
    BY DEF FirstLock, Entries
<1>2. first \in FirstStates BY <1>1, Holders DEF Idle
<1>3. /\ first' \in FirstStates /\ first'.pc = "late" /\ first'.done = first.done
      /\ first'.todo = {p \in Paths : entry[p] # None /\ entry[p] # first.done[p]}
    BY <1>1, <1>2 DEF FirstStates
<1>4. ObjectsKept BY <1>1, SameObjects DEF UploadInv, bucketVars
<1>5. UploadInv'
    <2>1. AsStored' /\ CopyAgrees'
        BY <1>1 DEF UploadInv, AsStored, CopyAgrees, Given, bucketVars, FirstOthers
    <2>2. UploadLeft' BY <1>1 DEF UploadInv, UploadLeft, Given, bucketVars, FirstOthers
    <2>3. FirstLeft'
        BY <1>1, <1>3 DEF UploadInv, FirstLeft, Given, bucketVars, FirstOthers
    <2> QED BY <2>1, <2>2, <2>3 DEF UploadInv
<1> QED BY <1>1, <1>3, <1>4, <1>5, FirstRest DEF bucketVars

LEMMA FirstManifestStep == ASSUME BackupInv, FirstManifest PROVE BackupInv'
<1> USE DEF BackupInv
<1>1. /\ first.pc = "late" /\ first.todo = {} /\ first' = Idle /\ lock' = None
      /\ copy' = entry /\ fresh' = {} /\ UNCHANGED <<FirstOthers, objects, deleted>>
    BY DEF FirstManifest
<1>2. lock = "first" /\ first'.pc = "idle" /\ job.pc = "idle"
    BY <1>1, Holders DEF Types, Idle
<1>3. ObjectsKept BY <1>1, SameObjects DEF UploadInv
<1>4. \A p \in Paths : entry[p] # None => Given(p, entry[p])
    BY <1>1 DEF UploadInv, FirstLeft
<1>5. UploadInv'
    <2>1. AsStored' BY <1>1 DEF UploadInv, AsStored
    <2>2. CopyAgrees' BY <1>1, <1>4 DEF CopyAgrees, Given, FirstOthers
    <2>3. UploadLeft' BY <1>1, <1>2 DEF UploadLeft, Uploading, FirstOthers
    <2>4. FirstLeft' BY <1>2 DEF FirstLeft
    <2> QED BY <2>1, <2>2, <2>3, <2>4 DEF UploadInv
<1> QED BY <1>1, <1>2, <1>3, <1>5, Apart, FirstRest DEF Processes

LEMMA FirstStopsStep == ASSUME BackupInv, FirstStops PROVE BackupInv'
<1> USE DEF BackupInv
<1>1. /\ first.pc \in {"early", "late"} /\ first' = Idle /\ first'.pc = "idle"
      /\ lock' = IF first.pc = "late" THEN None ELSE lock
      /\ UNCHANGED <<FirstOthers, fresh, bucketVars>>
    BY DEF FirstStops, Idle
<1>2. (first.pc = "late" <=> lock = "first") BY DEF Types
<1>3. ObjectsKept BY <1>1, SameObjects DEF UploadInv, bucketVars
<1>4. UploadInv'
    <2>1. AsStored' /\ CopyAgrees'
        BY <1>1 DEF UploadInv, AsStored, CopyAgrees, Given, bucketVars, FirstOthers
    <2>2. UploadLeft' BY <1>1 DEF UploadInv, UploadLeft, Given, bucketVars, FirstOthers
    <2>3. FirstLeft' BY <1>1 DEF FirstLeft
    <2> QED BY <2>1, <2>2, <2>3 DEF UploadInv
<1> QED BY <1>1, <1>2, <1>3, <1>4, Apart, FirstRest DEF bucketVars, Processes

------------------------------------------------------------------------------
(* The range restore *)

\* What every step of a restore that writes neither disk nor ledger leaves alone.
LEMMA RestoreRest ==
    ASSUME BackupInv, UNCHANGED RestoreOthers, UNCHANGED <<disk, ledger, torn>>, Books,
           UNCHANGED <<entry, fresh>> \/ lock \in {None, "restore"},
           restore' \in {Idle} \cup RestoreStates,
           lock' = lock \/ (lock \in {None, "restore"} /\ lock' \in {None, "restore"}),
           restore'.pc \in {"line", "record"} <=> lock' = "restore",
           restore'.pc \in {"line", "record"} => entry[restore'.p] # None /\ disk[restore'.p] # None
    PROVE  BackupInv'
<1> USE DEF BackupInv, RestoreOthers, bucketVars
<1>1. /\ entry' \in [Paths -> Entry] /\ fresh' \subseteq Paths /\ SameEntries
      /\ fresh \subseteq fresh'
    BY BooksTyped
<1>2. Types'
    <2>1. /\ lock' \in {None} \cup Processes /\ (lock' = "job" <=> job' # Idle)
          /\ (first'.pc = "late" <=> lock' = "first")
        BY Apart DEF Types, TypeOK, Processes
    <2> QED BY <1>1, <2>1 DEF Types, TypeOK, Entry
<1>3. \A p \in Partitions : Good(p, entry[p]) => Good(p, entry[p])'
    BY <1>1, Apart DEF Good, SameEntries
<1>4. TrimSound' BY <1>1, <1>3, TrimKept
<1>5. RestoreSound'
    <2>1. restore'.pc \in {"line", "record"} => restore'.p \in OnDiskPaths
        BY Apart DEF Idle, RestoreStates
    <2> QED BY <1>1, <2>1 DEF RestoreSound, SameEntries
<1>6. job.pc \in Uploading => UNCHANGED <<entry, fresh>>
    BY Holders, Apart DEF Types, TypeOK, Idle, Uploading, Processes
<1>7. lock = "first" => entry' = entry BY Apart DEF Processes
<1>8. GivenKept BY DEF GivenKept, Given
<1>9. UploadLeft' BY <1>6, <1>8, LeftKept
<1> QED BY <1>2, <1>4, <1>5, <1>7, <1>9, BooksStep

LEMMA RestoreNow ==
    ASSUME Types, restore.pc # "idle"
    PROVE  /\ restore \in RestoreStates /\ restore.p \in Partitions
           /\ restore.p \in OnDiskPaths /\ restore.sha \in Contents
<1>1. restore # Idle BY DEF Idle
<1> QED BY <1>1, Holders, Apart DEF RestoreStates

LEMMA RestorePlanStep ==
    ASSUME BackupInv, NEW p \in Partitions, RestorePlan(p) PROVE BackupInv'
<1> USE DEF BackupInv
<1>1. /\ restore = Idle /\ lock = None /\ entry[p] # None /\ Books
      /\ restore' = [pc |-> IF disk[p] = None THEN "download" ELSE "hash",
                     p |-> p, sha |-> entry[p], owed |-> FALSE]
      /\ UNCHANGED <<RestoreOthers, disk, ledger, torn, lock>>
    BY DEF RestorePlan, RepairTrimmedEntry, Books
<1>2. entry[p] \in Contents BY <1>1, Apart DEF Types, TypeOK
<1>3. restore' \in RestoreStates /\ restore'.pc \notin {"line", "record"}
    BY <1>1, <1>2 DEF RestoreStates
<1> QED BY <1>1, <1>3, Apart, RestoreRest DEF Processes

\* Hashing and downloading change nothing but the restore's own state.
LEMMA RestoreReads ==
    ASSUME BackupInv, RestoreHash \/ RestoreDownload PROVE BackupInv'
<1> USE DEF BackupInv
<1>1. /\ restore.pc \in {"hash", "download"}
      /\ UNCHANGED <<RestoreOthers, disk, ledger, torn, entry, fresh, lock>>
    BY DEF RestoreHash, RestoreDownload
<1>2. restore \in RestoreStates /\ restore.p \in Partitions BY <1>1, RestoreNow
<1>3. lock # "restore" BY <1>1 DEF Types
<1>4. restore' \in {Idle} \cup RestoreStates /\ restore'.pc \notin {"line", "record"}
    <2>1. CASE restore' = Idle BY <2>1 DEF Idle
    <2>2. CASE RestoreHash /\ restore' # Idle
        <3>1. Trimmed(restore.p) \in BOOLEAN BY DEF Trimmed
        <3>2. restore' = [restore EXCEPT !.pc = "owe",
                              !.owed = disk[restore.p] # None /\ Trimmed(restore.p)]
            BY <2>2 DEF RestoreHash
        <3> QED BY <1>2, <3>1, <3>2 DEF RestoreStates
    <2>3. CASE RestoreDownload /\ restore' # Idle
        BY <1>2, <2>3 DEF RestoreDownload, RestoreStates
    <2> QED BY <2>1, <2>2, <2>3
<1>5. Books BY <1>1 DEF Books
<1> QED BY <1>1, <1>3, <1>4, <1>5, RestoreRest

LEMMA RestoreOweStep == ASSUME BackupInv, RestoreOwe PROVE BackupInv'
<1> USE DEF BackupInv
<1> DEFINE p == restore.p
<1>1. /\ restore.pc = "owe" /\ lock = None
      /\ UNCHANGED <<RestoreOthers, disk, ledger, torn, entry, fresh>>
    BY DEF RestoreOwe
<1>2. restore \in RestoreStates /\ p \in Partitions /\ restore.sha \in Contents
    BY <1>1, RestoreNow
<1>3. Books BY <1>1 DEF Books
<1>4. \/ restore' = Idle /\ lock' = lock
      \/ restore' = [restore EXCEPT !.pc = "download"] /\ lock' = lock
      \/ /\ restore' = [restore EXCEPT !.pc = "line"] /\ lock' = "restore"
         /\ disk[p] # None /\ entry[p] = restore.sha
    BY <1>1 DEF RestoreOwe, RestoreStep
<1>5. CASE restore' = Idle /\ lock' = lock
    BY <1>1, <1>3, <1>5, Apart, RestoreRest DEF Idle, Processes
<1>6. CASE restore' = [restore EXCEPT !.pc = "download"] /\ lock' = lock
    <2>1. restore' \in RestoreStates /\ restore'.pc = "download"
        BY <1>2, <1>6 DEF RestoreStates
    <2> QED BY <1>1, <1>3, <1>6, <2>1, Apart, RestoreRest DEF Processes
<1>7. CASE /\ restore' = [restore EXCEPT !.pc = "line"] /\ lock' = "restore"
           /\ disk[p] # None /\ entry[p] = restore.sha
    <2>1. restore' \in RestoreStates /\ restore'.pc = "line" /\ restore'.p = p
        BY <1>2, <1>7 DEF RestoreStates
    <2>2. entry[p] # None BY <1>2, <1>7, Apart
    <2> QED BY <1>1, <1>3, <1>7, <2>1, <2>2, RestoreRest
<1> QED BY <1>4, <1>5, <1>6, <1>7

LEMMA RestoreRecordStep == ASSUME BackupInv, RestoreRecord PROVE BackupInv'
<1> USE DEF BackupInv
<1>1. /\ restore.pc = "record" /\ Books /\ restore' = Idle /\ lock' = None
      /\ UNCHANGED <<RestoreOthers, disk, ledger, torn>>
    BY DEF RestoreRecord, Books
<1>2. lock = "restore" /\ restore'.pc = "idle" BY <1>1 DEF Types, Idle
<1> QED BY <1>1, <1>2, Apart, RestoreRest DEF Processes

\* The partition is back with the bytes its entry names.
LEMMA RestoreCommitStep == ASSUME BackupInv, RestoreCommit PROVE BackupInv'
<1> USE DEF BackupInv
<1> PICK p : p = restore.p OBVIOUS
<1>1. /\ restore.pc = "commit" /\ lock = None
      /\ UNCHANGED <<RestoreOthers, ledger, torn, entry, fresh>>
    BY DEF RestoreCommit
<1>2. /\ restore \in RestoreStates /\ p \in Partitions /\ p \in OnDiskPaths
      /\ restore.sha \in Contents
    BY <1>1, RestoreNow
<1>3. Books BY <1>1 DEF Books
<1>4. CASE restore' = Idle /\ UNCHANGED <<disk, lock>>
    BY <1>1, <1>3, <1>4, Apart, RestoreRest DEF Idle, Processes
<1>5. CASE ~(restore' = Idle /\ UNCHANGED <<disk, lock>>)
    <2>1. /\ entry[p] = restore.sha /\ disk' = [disk EXCEPT ![p] = entry[p]]
          /\ \/ restore' = [restore EXCEPT !.pc = "line"] /\ lock' = "restore"
             \/ restore' = Idle /\ lock' = lock
        BY <1>5 DEF RestoreCommit, RestoreStep
    <2>2. /\ disk' \in [OnDiskPaths -> Contents \cup {None, Rot}] /\ disk'[p] = entry[p]
          /\ \A q \in OnDiskPaths : q # p => disk'[q] = disk[q]
          /\ entry[p] # None
        BY <1>2, <2>1, Apart DEF Types, TypeOK, OnDiskPaths
    <2>3. /\ restore' \in {Idle} \cup RestoreStates
          /\ \/ restore'.pc = "line" /\ restore'.p = p /\ lock' = "restore"
             \/ restore'.pc = "idle" /\ lock' = None
        <3>1. CASE restore' = [restore EXCEPT !.pc = "line"] /\ lock' = "restore"
            BY <1>2, <3>1 DEF RestoreStates
        <3>2. CASE restore' = Idle /\ lock' = lock
            BY <1>1, <3>2 DEF Idle
        <3> QED BY <2>1, <3>1, <3>2
    <2>4. job = Idle /\ job.pc = "idle" /\ first.pc # "late"
        BY <1>1, Holders, Apart DEF Types, Processes
    <2>5. Types'
        <3>1. /\ lock' \in {None} \cup Processes /\ (lock' = "job" <=> job' # Idle)
              /\ (first'.pc = "late" <=> lock' = "first")
              /\ (restore'.pc \in {"line", "record"} <=> lock' = "restore")
            BY <1>1, <2>3, <2>4, Apart DEF RestoreOthers, Processes
        <3> QED BY <1>1, <2>2, <2>3, <3>1
                DEF Types, TypeOK, OnDiskPaths, RestoreOthers, bucketVars
    <2>6. DiskRecorded' BY <1>1, <2>2 DEF DiskRecorded, RestoreOthers
    <2>7. LedgerInv'
        <3>1. \A d \in Nat : Before(d) => Before(d)' BY <1>1 DEF Before
        <3>2. \A q \in Partitions : disk'[q] = None => disk[q] = None /\ entry'[q] = entry[q]
            BY <1>1, <2>2, Apart
        <3>3. today' >= today BY <1>1, DaysAre DEF Types, TypeOK, RestoreOthers
        <3> QED BY <1>1, <2>5, <3>1, <3>2, <3>3, LedgerKept DEF RestoreOthers
    <2>8. TrimSound' BY <1>1, <2>4, TrimAtRest DEF LineSteps, RestoreOthers
    <2>9. RestoreSound' BY <1>1, <2>2, <2>3 DEF RestoreSound
    <2>10. ObjectsKept BY <1>1, SameObjects DEF UploadInv, RestoreOthers, bucketVars
    <2>11. UploadInv'
        <3>1. UploadLeft' BY <1>1, <2>4 DEF UploadLeft, Uploading, RestoreOthers
        <3> QED BY <1>1, <2>10, <3>1, UploadKept DEF ObjectsKept, RestoreOthers, bucketVars
    <2>12. OneGoodCopy'
        BY <1>1, <2>2, <2>10, Apart, CopiesKept DEF ObjectsKept, RestoreOthers
    <2> QED BY <2>5, <2>6, <2>7, <2>8, <2>9, <2>11, <2>12
<1> QED BY <1>4, <1>5

LEMMA RestoreAppendStep == ASSUME BackupInv, RestoreAppend PROVE BackupInv'
<1> USE DEF BackupInv
<1> PICK p : p = restore.p OBVIOUS
<1>1. /\ restore.pc = "line" /\ lock = "restore"
      /\ UNCHANGED <<RestoreOthers, disk, torn, entry, fresh>>
    BY DEF RestoreAppend, Types
<1>2. restore \in RestoreStates /\ p \in Partitions BY <1>1, RestoreNow
<1>3. Books BY <1>1 DEF Books
<1>4. CASE restore' = Idle /\ lock' = None /\ UNCHANGED ledger
    BY <1>1, <1>3, <1>4, Apart, RestoreRest DEF Idle, Processes
<1>5. CASE /\ ledger' = Append(ledger, RestoreLine(p)) /\ lock' = lock
           /\ restore' = [restore EXCEPT !.pc = "record"]
    <2>1. restore' \in RestoreStates /\ restore'.pc = "record" /\ restore'.p = p
        BY <1>2, <1>5 DEF RestoreStates
    <2>2. /\ entry[p] # None /\ disk[p] # None /\ job = Idle /\ job.pc = "idle"
        BY <1>1, Holders DEF RestoreSound, Types, TypeOK
    <2>3. /\ RestoreLine(p) \in Line /\ RestoreLine(p).day = today
          /\ RestoreLine(p).partition = p /\ RestoreLine(p).kind = "restore"
        BY <1>2, <2>2, Apart DEF RestoreLine, Line, Types, TypeOK
    <2>4. LedgerInv' /\ ledger' \in Seq(Line) /\ flushed' \in 0..Len(ledger')
        BY <1>1, <1>5, <2>2, <2>3, AppendKeeps DEF RestoreOthers
    <2>5. Types'
        BY <1>1, <1>5, <2>1, <2>4 DEF Types, TypeOK, RestoreOthers, bucketVars
    <2>6. TrimSound' BY <1>1, <2>2, TrimAtRest DEF LineSteps, RestoreOthers
    <2>7. RestoreSound' BY <1>1, <2>1, <2>2 DEF RestoreSound
    <2>8. UploadLeft' BY <1>1, <2>2 DEF UploadLeft, Uploading, RestoreOthers
    <2>9. DiskRecorded' /\ UploadInv' /\ OneGoodCopy'
        BY <1>1, <2>8, LedgerOnly DEF RestoreOthers
    <2> QED BY <2>4, <2>5, <2>6, <2>7, <2>9
<1> QED BY <1>4, <1>5 DEF RestoreAppend, RestoreStep

------------------------------------------------------------------------------
(* What may go wrong *)

LEMMA DiesStep == ASSUME BackupInv, NEW proc \in Processes, Dies(proc) PROVE BackupInv'
<1> USE DEF BackupInv
<1>1. /\ \/ proc = "job" /\ job # Idle /\ job' = Idle /\ first' = first /\ restore' = restore
         \/ proc = "first" /\ first # Idle /\ first' = Idle /\ job' = job /\ restore' = restore
         \/ proc = "restore" /\ restore # Idle /\ restore' = Idle /\ job' = job /\ first' = first
      /\ lock' = IF lock = proc THEN None ELSE lock
      /\ UNCHANGED <<today, disk, ledger, flushed, entry, fresh, copy, objects, deleted,
                     withheld, lost>>
    BY DEF Dies, bucketVars
<1>2. torn' \in BOOLEAN BY DEF Dies, Types, TypeOK
<1>3. Idle.pc = "idle" BY DEF Idle
<1>4. Types'
    <2>1. TypeOK'
        BY <1>1, <1>2, Apart DEF Types, TypeOK, Processes
    <2>2. /\ job' \in {Idle} \cup JobStates /\ first' \in {Idle} \cup FirstStates
          /\ restore' \in {Idle} \cup RestoreStates
          /\ job'.pc \in LineSteps => job'.line \in Line
        BY <1>1, <1>3 DEF Types, LineSteps
    <2>3. first'.pc = "late" <=> lock' = "first"
        BY <1>1, <1>3, Apart DEF Types, Processes
    <2>4. restore'.pc \in {"line", "record"} <=> lock' = "restore"
        BY <1>1, <1>3, Apart DEF Types, Processes
    <2> QED BY <2>1, <2>2, <2>3, <2>4 DEF Types
<1>5. SameEntries BY <1>1 DEF SameEntries
<1>6. TrimSound'
    <2>1. CASE job' = Idle BY <1>3, <2>1, TrimAtRest DEF LineSteps
    <2>2. CASE job' = job BY <1>1, <1>5, <2>2, TrimKept DEF Good
    <2> QED BY <1>1, <2>1, <2>2
<1>7. RestoreSound' BY <1>1, <1>5, RestoreKept
<1>8. UploadLeft'
    <2>1. GivenKept BY <1>1 DEF GivenKept, Given
    <2> QED BY <1>1, <1>3, <2>1, LeftKept DEF Uploading
<1> QED BY <1>1, <1>4, <1>6, <1>7, <1>8, BooksStep DEF Books

\* What the power takes from the ledger lies behind every line an absence rests on.
LEMMA PowerLossStep == ASSUME BackupInv, PowerLoss PROVE BackupInv'
<1> USE DEF BackupInv
<1>1. PICK n \in flushed..Len(ledger) : ledger' = SubSeq(ledger, 1, n)
    BY DEF PowerLoss
<1>2. /\ job' = Idle /\ first' = Idle /\ restore' = Idle /\ lock' = None
      /\ UNCHANGED <<today, disk, torn, flushed, entry, fresh, copy, objects, deleted,
                     withheld, lost>>
    BY DEF PowerLoss, bucketVars
<1>3. Idle.pc = "idle" BY DEF Idle
<1>4. /\ n \in Nat /\ n <= Len(ledger) /\ flushed \in Nat /\ flushed <= n
      /\ Len(ledger) \in Nat /\ ledger \in Seq(Line)
    BY LedgerTyped DEF Types, TypeOK
<1>5. /\ ledger' \in Seq(Line) /\ Len(ledger') = n
      /\ \A i \in 1..n : ledger'[i] = ledger[i] /\ i \in 1..Len(ledger)
    BY <1>1, <1>4, SubSeqProperties
<1>6. Types'
    BY <1>2, <1>3, <1>4, <1>5, Apart DEF Types, TypeOK, LineSteps, Processes
<1>7. LedgerInv'
    <2>1. LinesInOrder' BY <1>2, <1>5 DEF LinesInOrder, LedgerInv
    <2>2. TrimsAfter'
        BY <1>2, <1>5 DEF TrimsAfter, LedgerInv, RestoreLineOf, TrimLineOf, Before
    <2>3. FlushedFirst'
        <3> SUFFICES ASSUME NEW p \in Partitions, entry'[p] # None, disk'[p] = None
                     PROVE  \E i \in 1..flushed' : Explains(p, i)'
            BY DEF FlushedFirst
        <3>1. PICK i \in 1..flushed : Explains(p, i)
            BY <1>2 DEF FlushedFirst, LedgerInv
        <3>2. i \in 1..n BY <1>4
        <3> QED BY <1>2, <1>5, <3>1, <3>2 DEF Explains, LastLineOf
    <2> QED BY <2>1, <2>2, <2>3 DEF LedgerInv
<1>8. TrimSound' /\ RestoreSound' /\ UploadLeft'
    BY <1>2, <1>3 DEF TrimSound, RestoreSound, UploadLeft, LineSteps, Uploading
<1>9. DiskRecorded' /\ UploadInv' /\ OneGoodCopy'
    BY <1>2, <1>8, LedgerOnly DEF bucketVars
<1> QED BY <1>6, <1>7, <1>8, <1>9

LEMMA HandRepairStep == ASSUME BackupInv, HandRepair PROVE BackupInv'
<1> USE DEF BackupInv
<1>1. /\ lock = None /\ torn' = FALSE /\ Books
      /\ UNCHANGED <<today, disk, ledger, flushed, copy, objects, deleted, withheld, lock, job,
                     first, restore, lost>>
    BY DEF HandRepair, Books, bucketVars
<1>2. /\ job = Idle /\ job.pc = "idle" /\ restore.pc \notin {"line", "record"}
      /\ lock # "first"
    BY <1>1, Holders, Apart DEF Types, TypeOK, Processes
<1>3. Types' BY <1>1, BooksTyped DEF Types, TypeOK, Entry
<1>4. TrimSound' BY <1>1, <1>2, TrimAtRest DEF LineSteps
<1>5. RestoreSound' BY <1>1, <1>2 DEF RestoreSound
<1>6. UploadLeft' BY <1>1, <1>2 DEF UploadLeft, Uploading
<1> QED BY <1>1, <1>2, <1>3, <1>4, <1>5, <1>6, BooksStep

\* A fault beside the jobs: the disk may rot, the bucket's objects change, and a last copy
\* that goes is booked as lost.
LEMMA FaultStep ==
    ASSUME BackupInv, ObjectsGrow, OneGoodCopy',
           UNCHANGED <<today, ledgerVars, entry, fresh, copy, withheld, lock, job, first, restore>>,
           disk' \in [OnDiskPaths -> Contents \cup {None, Rot}],
           \A p \in OnDiskPaths : disk'[p] = disk[p] \/ disk'[p] = Rot,
           lost' \subseteq Paths, lost \subseteq lost',
           \A p \in Partitions :
              (job.pc \in LineSteps /\ p = job.line.partition /\ p \notin lost' /\ Good(p, entry[p]))
                 => Good(p, entry[p])'
    PROVE  BackupInv'
<1> USE DEF BackupInv, ledgerVars
<1>1. Types' BY DEF Types, TypeOK, OnDiskPaths, ObjectsGrow
<1>2. DiskRecorded' BY DEF DiskRecorded
<1>3. SameEntries BY DEF SameEntries
<1>4. \A p \in Partitions : disk'[p] = None => disk[p] = None /\ entry'[p] = entry[p]
    BY Apart
<1>5. LedgerInv'
    <2>1. today' >= today BY DaysAre DEF Types, TypeOK
    <2> QED BY <1>1, <1>3, <1>4, <2>1, BeforeKept, LedgerKept
<1>6. TrimSound' BY <1>3, <1>4, TrimKept
<1>7. RestoreSound' BY <1>3, <1>4, RestoreKept
<1>8. UploadInv'
    <2>1. UploadLeft' BY LeftKept DEF ObjectsGrow
    <2> QED BY <2>1, UploadKept
<1> QED BY <1>1, <1>2, <1>5, <1>6, <1>7, <1>8

LEMMA RotOnDiskStep ==
    ASSUME BackupInv, NEW p \in OnDiskPaths, RotOnDisk(p) PROVE BackupInv'
<1> USE DEF BackupInv
<1>1. /\ disk' = [disk EXCEPT ![p] = Rot]
      /\ lost' = IF entry[p] # None /\ Good(p, entry[p]) THEN lost ELSE lost \cup {p}
      /\ UNCHANGED <<today, ledgerVars, entry, fresh, copy, withheld, lock, job, first, restore,
                     objects, deleted>>
    BY DEF RotOnDisk, Fault
<1>2. /\ disk' \in [OnDiskPaths -> Contents \cup {None, Rot}]
      /\ \A q \in OnDiskPaths : disk'[q] = disk[q] \/ disk'[q] = Rot
      /\ \A q \in OnDiskPaths : q # p => disk'[q] = disk[q]
    BY <1>1 DEF Types, TypeOK, OnDiskPaths
<1>3. lost' \subseteq Paths /\ lost \subseteq lost'
    BY <1>1, Apart DEF Types, TypeOK
<1>4. \A q \in Partitions : Good(q, entry[q]) => Good(q, entry[q])'
    BY <1>1 DEF Good
<1>5. OneGoodCopy'
    <2> SUFFICES ASSUME NEW q \in Partitions, entry[q] # None, q \notin lost', disk'[q] # entry[q]
                 PROVE  Good(q, entry[q])'
        BY <1>1 DEF OneGoodCopy
    <2>1. CASE q = p BY <1>1, <1>4, <2>1
    <2>2. CASE q # p BY <1>2, <1>3, <1>4, <2>2, Apart DEF OneGoodCopy
    <2> QED BY <2>1, <2>2
<1>6. ObjectsGrow BY <1>1, SameObjects DEF UploadInv, ObjectsKept
<1> QED BY <1>1, <1>2, <1>3, <1>4, <1>5, <1>6, FaultStep

LEMMA DeleteInBucketStep ==
    ASSUME BackupInv, NEW p \in Partitions, DeleteInBucket(p) PROVE BackupInv'
<1> USE DEF BackupInv
<1>1. /\ deleted' = deleted \cup {p} /\ lost' = lost
      /\ UNCHANGED <<today, ledgerVars, entry, fresh, copy, withheld, lock, job, first, restore,
                     disk, objects>>
    BY DEF DeleteInBucket, Fault
<1>2. ObjectsGrow
    BY <1>1, Apart DEF ObjectsGrow, GivenKept, Given, AsStored, UploadInv, Types, TypeOK
<1>3. \A q \in Partitions : Good(q, entry[q]) => Good(q, entry[q])' BY <1>1 DEF Good
<1>4. OneGoodCopy' BY <1>1 DEF OneGoodCopy, Good
<1>5. disk' \in [OnDiskPaths -> Contents \cup {None, Rot}] /\ lost' \subseteq Paths
    BY <1>1 DEF Types, TypeOK, OnDiskPaths
<1> QED BY <1>1, <1>2, <1>3, <1>4, <1>5, FaultStep

LEMMA RotInBucketStep ==
    ASSUME BackupInv, NEW p \in Partitions, RotInBucket(p) PROVE BackupInv'
<1> USE DEF BackupInv
<1> DEFINE n == Len(objects[p])
           older == \E i \in 1..(n - 1) : objects[p][i] = [stored |-> entry[p], body |-> entry[p]]
<1>1. /\ objects[p] # <<>> /\ objects' = [objects EXCEPT ![p][n].body = Rot]
      /\ lost' = IF OnDisk(p) \/ older THEN lost ELSE lost \cup {p}
      /\ UNCHANGED <<today, ledgerVars, entry, fresh, copy, withheld, lock, job, first, restore,
                     disk, deleted>>
    BY DEF RotInBucket, Fault, Listed
<1>2. /\ p \in Paths /\ objects \in [Paths -> Seq(Version)] /\ deleted \subseteq Paths
      /\ disk \in [OnDiskPaths -> Contents \cup {None, Rot}] /\ lost \subseteq Paths
    BY Apart DEF Types, TypeOK, OnDiskPaths
<1>3. objects[p] \in Seq(Version) /\ n \in Nat /\ n # 0 /\ n \in 1..n
      /\ DOMAIN objects[p] = 1..n /\ objects[p][n] \in Version
    BY <1>1, <1>2, ObjectsTyped, EmptySeq
<1>4. objects'[p] = [objects[p] EXCEPT ![n] = [objects[p][n] EXCEPT !.body = Rot]]
    BY <1>1, <1>2
<1>5. [objects[p][n] EXCEPT !.body = Rot] \in Version
    BY <1>3 DEF Version
<1>6. /\ objects'[p] \in Seq(Version) /\ Len(objects'[p]) = n
      /\ \A i \in 1..n : i # n => objects'[p][i] = objects[p][i]
      /\ objects'[p][n].body = Rot /\ objects'[p][n].stored = objects[p][n].stored
    BY <1>3, <1>4, <1>5, ExceptSeq DEF Version
<1>7. \A q \in Paths : q # p => objects'[q] = objects[q]
    BY <1>1, <1>2
<1> HIDE DEF n
<1>8. \A q \in Paths :
         /\ Len(objects'[q]) = Len(objects[q])
         /\ \A i \in 1..Len(objects[q]) : /\ objects'[q][i].stored = objects[q][i].stored
                                          /\ objects'[q][i].body \in {objects[q][i].body, Rot}
    BY <1>3, <1>6, <1>7 DEF n
<1>9. ObjectsGrow
    <2>1. objects' \in [Paths -> Seq(Version)] BY <1>1, <1>2, <1>6, <1>7
    <2>2. AsStored' BY <1>8 DEF AsStored, UploadInv
    <2>3. GivenKept BY <1>8 DEF GivenKept, Given
    <2> QED BY <1>1, <1>2, <2>1, <2>2, <2>3 DEF ObjectsGrow
<1>10. \A q \in Partitions : q # p /\ Good(q, entry[q]) => Good(q, entry[q])'
    BY <1>1, <1>7, Apart DEF Good
<1>11. older => Good(p, entry[p])'
    <2> SUFFICES ASSUME NEW i \in 1..(n - 1),
                        objects[p][i] = [stored |-> entry[p], body |-> entry[p]]
                 PROVE  Good(p, entry[p])'
        OBVIOUS
    <2>1. i \in 1..n /\ i # n BY <1>3
    <2>2. i \in DOMAIN objects'[p] BY <1>6, <2>1
    <2> QED BY <1>1, <1>6, <2>1, <2>2 DEF Good
<1>12. p \notin lost' => OnDisk(p) \/ Good(p, entry[p])'
    BY <1>1, <1>11
<1>13. OneGoodCopy'
    <2> SUFFICES ASSUME NEW q \in Partitions, entry[q] # None, q \notin lost', disk[q] # entry[q]
                 PROVE  Good(q, entry[q])'
        BY <1>1 DEF OneGoodCopy
    <2>1. CASE q = p BY <1>12, <2>1 DEF OnDisk
    <2>2. CASE q # p BY <1>1, <1>10, <2>2 DEF OneGoodCopy
    <2> QED BY <2>1, <2>2
<1>14. ASSUME NEW q \in Partitions, job.pc \in LineSteps, q = job.line.partition, q \notin lost',
              Good(q, entry[q])
       PROVE  Good(q, entry[q])'
    <2>1. CASE q = p BY <1>12, <1>14, <2>1 DEF OnDisk, LineSteps
    <2>2. CASE q # p BY <1>10, <1>14, <2>2
    <2> QED BY <2>1, <2>2
<1>15. lost' \subseteq Paths /\ lost \subseteq lost' BY <1>1, <1>2
<1> QED BY <1>1, <1>2, <1>9, <1>13, <1>14, <1>15, FaultStep

------------------------------------------------------------------------------
(* The theorems *)

LEMMA JobStepKeeps == ASSUME BackupInv, JobStep PROVE BackupInv'
<1>1. ASSUME NEW p \in Paths, UploadManifested(p) PROVE BackupInv'
    BY <1>1, UploadManifestedStep
<1>2. ASSUME job.pc = "trim", NEW c \in job.plan, TrimOne(c) \/ TrimHold(c) PROVE BackupInv'
    BY <1>2, TrimOneStep, TrimHoldStep
<1> QED BY <1>1, <1>2, CompactStep, RepairLedgerStep, UploadBeginStep, UploadHealStep,
           UploadManifestStep, TrimSelectStep, TrimAppendStep, TrimRecordStep, TrimFlushStep,
           TrimUnlinkStep, JobStopsNow DEF JobStep

LEMMA FirstStepKeeps == ASSUME BackupInv, FirstStep PROVE BackupInv'
BY FirstBeginStep, FirstOneStep, FirstLockStep, FirstManifestStep, FirstStopsStep DEF FirstStep

LEMMA RestoreStepsKeep == ASSUME BackupInv, RestoreSteps PROVE BackupInv'
BY RestorePlanStep, RestoreReads, RestoreOweStep, RestoreCommitStep, RestoreAppendStep,
   RestoreRecordStep DEF RestoreSteps

LEMMA FaultsKeep == ASSUME BackupInv, Faults PROVE BackupInv'
<1>1. ASSUME NEW p \in OnDiskPaths, RotOnDisk(p) PROVE BackupInv'
    BY <1>1, RotOnDiskStep
<1> QED BY <1>1, DiesStep, PowerLossStep, HandRepairStep, RotInBucketStep, DeleteInBucketStep
        DEF Faults, OnDiskPaths

LEMMA StutterKeeps == ASSUME BackupInv, UNCHANGED vars PROVE BackupInv'
<1> USE DEF BackupInv, vars, ledgerVars, bucketVars
<1>1. Types' BY DEF Types, TypeOK
<1>2. TrimSound' BY TrimKept DEF SameEntries, Good
<1>3. RestoreSound' BY DEF RestoreSound
<1>4. UploadLeft'
    <2>1. GivenKept BY DEF GivenKept, Given
    <2> QED BY <2>1, LeftKept
<1> QED BY <1>1, <1>2, <1>3, <1>4, BooksStep DEF Books

\* BackupInv holds in every reachable state, for every set of partitions, every window of
\* sessions, any number of versions, runs and faults.
THEOREM BackupInvariant == Spec => []BackupInv
<1>1. BackupInv /\ [Next]_vars => BackupInv'
    <2> SUFFICES ASSUME BackupInv, [Next]_vars PROVE BackupInv' OBVIOUS
    <2> QED BY SweepStep, NextDayStep, JobStepKeeps, FirstStepKeeps, RestoreStepsKeep,
               FaultsKeep, StutterKeeps DEF Next
<1> QED BY InitInv, <1>1, PTL DEF Spec

\* What is off the disk and in the manifest is a designed absence: its latest ledger line,
\* flushed before the unlink, is a trim line that names the entry's bytes.
THEOREM AbsenceExplainedAlways == Spec => []AbsenceExplained
<1>1. BackupInv => AbsenceExplained
    <2> SUFFICES ASSUME BackupInv, NEW p \in Partitions, entry[p] # None, disk[p] = None
                 PROVE  DesignedAbsence(p)
        BY DEF AbsenceExplained
    <2> USE DEF BackupInv
    <2>1. PICK i \in 1..flushed : Explains(p, i) BY DEF LedgerInv, FlushedFirst
    <2>2. i \in 1..Len(ledger) BY LedgerTyped
    <2>3. LatestLine(p) = ledger[i] /\ LatestLine(p) # None
        BY <2>1, <2>2, LatestLineIs DEF Explains
    <2> QED BY <2>1, <2>3 DEF DesignedAbsence, Trimmed, Explains
<1> QED BY <1>1, BackupInvariant, PTL

\* The bytes of each partition's latest entry are on the disk or in the bucket, until a
\* fault takes the last of them: the trim never does.
THEOREM OneGoodCopyAlways == Spec => []OneGoodCopy
<1>1. BackupInv => OneGoodCopy BY DEF BackupInv
<1> QED BY <1>1, BackupInvariant, PTL

\* The bucket's manifest.jsonl names only what the bucket was given, whichever upload wrote
\* it and wherever one died before it.
THEOREM UploadSoundAlways == Spec => []UploadSound
<1>1. BackupInv => UploadSound
    <2> SUFFICES ASSUME BackupInv PROVE UploadSound OBVIOUS
    <2> USE DEF BackupInv
    <2>1. TypeOK BY DEF Types
    <2>2. ASSUME copy # None, NEW p \in Paths, copy[p] # None
          PROVE  \E i \in DOMAIN objects[p] : objects[p][i].stored = copy[p]
        <3>1. Given(p, copy[p]) BY <2>2 DEF UploadInv, CopyAgrees
        <3> QED BY <3>1, ObjectsTyped DEF Given
    <2> QED BY <2>1, <2>2 DEF UploadSound, CopyHonest
<1> QED BY <1>1, BackupInvariant, PTL

\* A sweep takes nothing off the disk.
LEMMA SweepLands ==
    ASSUME BackupInv, Sweep
    PROVE  \A p \in Partitions : disk'[p] = None => disk[p] = None
<1> USE DEF BackupInv
<1>1. PICK land \in SUBSET {p \in Partitions : Bars(p) /\ Day[p] <= today /\ entry[p] = None},
           change \in SUBSET {p \in Partitions : /\ Bars(p) /\ disk[p] \in Versions
                                                 /\ entry[p][1] < MaxVersion},
           cutoff \in {today - 1, today}, W \in SUBSET Withholdable :
        LET Rev(p) == IF p \in land THEN <<1>>
                      ELSE IF p \in change THEN <<entry[p][1] + 1>>
                      ELSE <<today, cutoff>>
            written == land \cup change \cup {Checkpoint}
        IN  /\ Cardinality(change) <= 1
            /\ disk' = [p \in DOMAIN disk |-> IF p \in written THEN Rev(p) ELSE disk[p]]
            /\ entry' = [p \in Paths |-> IF p \in written THEN Rev(p) ELSE entry[p]]
            /\ fresh' = fresh \cup written
            /\ withheld' = W
    BY Zenon DEF Sweep
<1>2. disk \in [OnDiskPaths -> Contents \cup {None, Rot}] BY DEF Types, TypeOK, OnDiskPaths
<1>3. \A p \in change : <<entry[p][1] + 1>> # None
    <2>1. \A p \in change : entry[p] \in Versions BY Apart, VersionsAre DEF DiskRecorded
    <2>2. \A p \in change : entry[p][1] + 1 \in Nat BY <2>1, VersionsAre
    <2> QED BY <2>2, ContentsOf, Apart
<1>4. <<1>> # None BY ContentsOf, Apart
<1>5. \A p \in Partitions : p \in OnDiskPaths /\ p # Checkpoint BY Apart
<1> QED BY <1>1, <1>2, <1>3, <1>4, <1>5

\* Only the trim's own unlink takes a partition off the disk.
LEMMA OnlyUnlink ==
    ASSUME BackupInv, Next, NEW p \in Partitions, Unlinked(p)
    PROVE  job.pc = "unlink" /\ p = job.line.partition
<1> USE DEF BackupInv
<1>1. /\ disk \in [OnDiskPaths -> Contents \cup {None, Rot}] /\ p \in OnDiskPaths /\ p \in Paths
      /\ disk[p] # None /\ disk'[p] = None
    BY Apart DEF Types, TypeOK, Unlinked, OnDiskPaths
<1>2. <<1>> # None /\ Rot # None BY ContentsOf, Apart
<1>3. ~Sweep BY <1>1, SweepLands
<1>4. ~Compact
    BY <1>1, <1>2 DEF Compact
<1>5. ~RestoreCommit
    <2> SUFFICES ASSUME RestoreCommit PROVE FALSE OBVIOUS
    <2>1. restore.p \in OnDiskPaths /\ restore.sha \in Contents /\ restore.sha # None
        BY RestoreNow, Apart DEF RestoreCommit
    <2>2. disk' = disk \/ disk' = [disk EXCEPT ![restore.p] = restore.sha]
        BY DEF RestoreCommit
    <2> QED BY <1>1, <2>1, <2>2
<1>6. ASSUME NEW q \in OnDiskPaths, RotOnDisk(q) PROVE FALSE
    BY <1>1, <1>2, <1>6 DEF RotOnDisk
<1>7. disk' # disk BY <1>1
<1>8. ~NextDay BY <1>7 DEF NextDay
<1>9. JobStep => TrimUnlink
    BY <1>4, <1>7 DEF JobStep, RepairLedger, UploadBegin, UploadHeal, UploadManifest,
       UploadManifested, TrimSelect, TrimOne, TrimHold, TrimAppend, TrimRecord, TrimFlush, JobStops
<1>10. ~FirstStep
    BY <1>7 DEF FirstStep, FirstBegin, FirstOne, FirstLock, FirstManifest, FirstStops, FirstOthers
<1>11. ~RestoreSteps
    BY <1>5, <1>7 DEF RestoreSteps, RestorePlan, RestoreHash, RestoreOwe, RestoreDownload,
       RestoreAppend, RestoreRecord
<1>12. ~Faults
    BY <1>6, <1>7 DEF Faults, Dies, PowerLoss, HandRepair, RotInBucket, DeleteInBucket, OnDiskPaths
<1>13. TrimUnlink BY <1>3, <1>8, <1>9, <1>10, <1>11, <1>12 DEF Next
<1>14. /\ job.pc = "unlink"
       /\ disk' = disk \/ disk' = [disk EXCEPT ![job.line.partition] = None]
    BY <1>13 DEF TrimUnlink
<1> QED BY <1>1, <1>14

\* A partition a restore line brought back is dropped only past the checkpoint of a later
\* session, whatever was appended, lost or repaired between.
THEOREM RestoredStaysAlways == Spec => RestoredStays
<1> DEFINE Stays == \A p \in Partitions : Unlinked(p) =>
                        \A i \in LineOf(p) : ledger[i].kind = "restore" =>
                            ledger[i].day < entry[Checkpoint][1]
<1>1. BackupInv /\ [Next]_vars => [Stays]_vars
    <2> SUFFICES ASSUME BackupInv, Next, NEW p \in Partitions, Unlinked(p),
                        NEW i \in LineOf(p), ledger[i].kind = "restore"
                 PROVE  ledger[i].day < entry[Checkpoint][1]
        OBVIOUS
    <2> USE DEF BackupInv
    <2>1. job.pc = "unlink" /\ p = job.line.partition BY OnlyUnlink
    <2>2. job.line.kind = "trim" /\ RestoresBefore(p)
        BY <2>1 DEF TrimSound, LineSound, AppendedSound, LineSteps
    <2>3. i \in 1..Len(ledger) /\ RestoreLineOf(p, i)
        BY LedgerTyped DEF LineOf, RestoreLineOf
    <2> QED BY <2>2, <2>3 DEF RestoresBefore, Before
<1> QED BY <1>1, BackupInvariant, PTL DEF Spec, RestoredStays
=============================================================================
