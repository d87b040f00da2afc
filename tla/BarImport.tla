------------------------------ MODULE BarImport ------------------------------
(***************************************************************************)
(* Daily bars the lake did not capture (bar_import.py): an import lands a  *)
(* source's bars at the captured path, an undo withdraws an import the     *)
(* bucket does not hold yet, and the nightly upload, the trim and a range  *)
(* restore go on around both.  Several sources may name one ticker-day.    *)
(*                                                                         *)
(* A manifest line is [key, source, ver]; a line of anything else in the   *)
(* lake names Elsewhere.  ver is the content: a vintage has one, a source  *)
(* fetched again from the vendor may answer with another.                  *)
(***************************************************************************)
EXTENDS Integers, FiniteSets, Sequences, SequencesExt

CONSTANTS
    Keys,           \* ticker-days with a daily partition
    Sources,        \* identities of imports
    Covers,         \* the keys each source holds bars for
    Refetched,      \* sources asked from the vendor anew on each run
    Elsewhere,      \* what a line that is no import's names
    Absent,
    MaxImports,     \* bound on imports and undos started
    MaxKills,       \* bound on processes that die and files that are lost
    MaxElsewhere    \* bound on other lines recorded meanwhile

Version == {1, 2}
Other == [key |-> Elsewhere, source |-> Elsewhere, ver |-> 1]
File == [source : Sources, ver : Version]

ASSUME BarConstants ==
    /\ IsFiniteSet(Keys) /\ IsFiniteSet(Sources)
    /\ Covers \in [Sources -> SUBSET Keys] /\ Refetched \subseteq Sources
    /\ Elsewhere \notin Keys \cup Sources
    /\ Absent \notin Version \cup File \cup {"import", "undo", "upload"}
    /\ {MaxImports, MaxKills, MaxElsewhere} \subseteq Nat

VARIABLES
    manifest,   \* its lines
    bar,        \* the file under each key: its source and content
    temps,      \* keys beside which a killed write left its temp file
    trimmed,    \* keys the trimmed ledger explains the absence of
    listing,    \* the bucket's manifest.jsonl
    object,     \* the content the bucket lists under each key
    holder,     \* who holds the lake's lock
    import, undo, upload,   \* the three processes
    orphans,    \* keys a killed import renamed into place and did not record
    imports, kills

lakeVars == <<manifest, bar, temps, trimmed, orphans>>
bucket == <<listing, object>>
barVars == <<lakeVars, bucket, holder, import, undo, upload, imports, kills>>

Away == [pc |-> "away"]

KeysOf(lines) == {lines[i].key : i \in DOMAIN lines} \cap Keys
Recorded(k) == k \in KeysOf(manifest)
LatestOf(lines, k) ==
    lines[CHOOSE i \in DOMAIN lines : lines[i].key = k /\
              \A j \in DOMAIN lines : lines[j].key = k => j <= i]
Entry(k) == LatestOf(manifest, k)
Sent(k) == object[k] # Absent

BarInit ==
    /\ manifest = <<Other>> /\ listing = <<Other>>
    /\ bar = [k \in Keys |-> Absent] /\ object = [k \in Keys |-> Absent]
    /\ temps = {} /\ trimmed = {} /\ orphans = {}
    /\ holder = Absent
    /\ import = Away /\ undo = Away /\ upload = Away
    /\ imports = 0 /\ kills = 0

Started == imports < MaxImports /\ imports' = imports + 1 /\ UNCHANGED kills
Killed == kills < MaxKills /\ kills' = kills + 1 /\ UNCHANGED imports
Counts == <<imports, kills>>

------------------------------------------------------------------------------
(* The import. *)

\* _decide: a key another source holds, recorded or left unrecorded on the disk.
HeldByAnother(s, k) ==
    IF Recorded(k) THEN Entry(k).source # s ELSE bar[k] # Absent /\ bar[k].source # s
Conflict(s) == \E k \in Covers[s] : HeldByAnother(s, k)

\* Recorded by this import and gone, though no trim explains it.
Rewrites(s) == {k \in Covers[s] : Recorded(k) /\ bar[k] = Absent /\ k \notin trimmed}
Todo(s) == {k \in Covers[s] : ~Recorded(k)} \cup Rewrites(s)

\* Mutant: the bucket is not asked.
ReplacesNever(s) == FALSE

\* _unsent_check: a fresh answer must not replace what the bucket holds.
Replaces(s) == s \in Refetched /\ \E k \in Rewrites(s) : Sent(k)
Refuses(s) == Conflict(s) \/ Replaces(s)

\* The source is read, or fetched, before the lock is taken.
ImportBegins(s) ==
    /\ import = Away /\ Started
    /\ \E v \in IF s \in Refetched THEN Version ELSE {1} :
        import' = [pc |-> "decide", source |-> s, ver |-> v]
    /\ UNCHANGED <<lakeVars, bucket, holder, undo, upload>>

ImportDecides ==
    /\ import.pc = "decide" /\ holder = Absent
    /\ IF Refuses(import.source)
       THEN import' = Away /\ UNCHANGED <<holder, temps>>
       ELSE /\ holder' = "import"
            /\ temps' = temps \ Covers[import.source]
            /\ import' = [pc |-> "write", source |-> import.source, ver |-> import.ver,
                          todo |-> Todo(import.source), landed |-> <<>>]
    /\ UNCHANGED <<manifest, bar, trimmed, orphans, bucket, undo, upload, Counts>>

ImportWrites ==
    /\ import.pc = "write"
    /\ \E k \in import.todo :
        /\ bar' = [bar EXCEPT ![k] = [source |-> import.source, ver |-> import.ver]]
        /\ import' = [import EXCEPT !.todo = @ \ {k}, !.landed = Append(@, k)]
    /\ UNCHANGED <<manifest, temps, trimmed, orphans, bucket, holder, undo, upload, Counts>>

\* The run window closes, or a write fails: what was renamed is still recorded.
ImportStops ==
    /\ import.pc = "write" /\ import.todo # {}
    /\ import' = [import EXCEPT !.todo = {}]
    /\ UNCHANGED <<lakeVars, bucket, holder, undo, upload, Counts>>

LineFor(k) == [key |-> k, source |-> import.source, ver |-> import.ver]
ImportRecords ==
    /\ import.pc = "write" /\ import.todo = {}
    /\ manifest' = manifest \o [i \in DOMAIN import.landed |-> LineFor(import.landed[i])]
    /\ orphans' = orphans \ ToSet(import.landed)
    /\ import' = Away /\ holder' = Absent
    /\ UNCHANGED <<bar, temps, trimmed, bucket, undo, upload, Counts>>

\* A death, or an append the disk refuses after the renames.
ImportDies ==
    /\ import.pc = "write" /\ Killed
    /\ \E torn \in SUBSET import.todo : Cardinality(torn) <= 1 /\ temps' = temps \cup torn
    /\ orphans' = orphans \cup {k \in ToSet(import.landed) : ~Recorded(k)}
    /\ import' = Away /\ holder' = Absent
    /\ UNCHANGED <<manifest, bar, trimmed, bucket, undo, upload>>

------------------------------------------------------------------------------
(* The undo. *)

\* _import_tail: where the lines of this import that end a manifest begin.
TailStart(lines, s) ==
    CHOOSE n \in 0..Len(lines) :
        /\ \A i \in (n + 1)..Len(lines) : lines[i].source = s
        /\ n > 0 => lines[n].source # s
Kept(lines, s) == SubSeq(lines, 1, TailStart(lines, s))
Landed(lines, s) == KeysOf(SubSeq(lines, TailStart(lines, s) + 1, Len(lines)))
Cuttable(lines, s) ==
    /\ Landed(lines, s) # {} /\ Kept(lines, s) # <<>>
    /\ \A i \in DOMAIN Kept(lines, s) : Kept(lines, s)[i].source # s
    /\ Landed(lines, s) \cap KeysOf(Kept(lines, s)) = {}

\* _check_bucket: the copy ends before the import, and none of its keys is listed.
Unsent(s) == IsPrefix(listing, Kept(manifest, s)) /\ \A k \in Landed(manifest, s) : ~Sent(k)

UndoBegins(s) ==
    /\ undo = Away /\ Started
    /\ Cuttable(manifest, s) /\ Unsent(s)
    /\ undo' = [pc |-> "lock", source |-> s, raw |-> manifest, seen |-> listing]
    /\ UNCHANGED <<lakeVars, bucket, holder, import, upload>>

\* Mutant: the bucket is not read a second time.
StillLast == manifest = undo.raw

\* Under the lock the manifest and the bucket are read again.
StillUndoable == manifest = undo.raw /\ Unsent(undo.source) /\ listing = undo.seen
UndoLocks ==
    /\ undo.pc = "lock" /\ holder = Absent
    /\ IF StillUndoable
       THEN /\ holder' = "undo"
            /\ undo' = [pc |-> "unlink", source |-> undo.source, todo |-> Landed(manifest, undo.source)]
       ELSE undo' = Away /\ UNCHANGED holder
    /\ UNCHANGED <<lakeVars, bucket, import, upload, Counts>>

UndoUnlinks ==
    /\ undo.pc = "unlink"
    /\ \E k \in undo.todo : /\ bar' = [bar EXCEPT ![k] = Absent]
                            /\ undo' = [undo EXCEPT !.todo = @ \ {k}]
    /\ UNCHANGED <<manifest, temps, trimmed, orphans, bucket, holder, import, upload, Counts>>

UndoCuts ==
    /\ undo.pc = "unlink" /\ undo.todo = {}
    /\ temps' = temps \ Landed(manifest, undo.source)
    /\ manifest' = Kept(manifest, undo.source)
    /\ undo' = Away /\ holder' = Absent
    /\ UNCHANGED <<bar, trimmed, orphans, bucket, import, upload, Counts>>

UndoDies ==
    /\ undo.pc = "unlink" /\ Killed
    /\ undo' = Away /\ holder' = Absent
    /\ UNCHANGED <<lakeVars, bucket, import, upload>>

------------------------------------------------------------------------------
(* What else runs: the nightly upload, the trim, a range restore, other writers. *)

UploadBegins ==
    /\ upload = Away /\ holder = Absent
    /\ Len(listing) < Len(manifest) /\ IsPrefix(listing, manifest)
    /\ upload' = [pc |-> "put", todo |-> KeysOf(SubSeq(manifest, Len(listing) + 1, Len(manifest)))]
    /\ holder' = "upload"
    /\ UNCHANGED <<lakeVars, bucket, import, undo, Counts>>

\* A put carries the entry's checksum; a recorded file that is missing ends the upload.
UploadPuts ==
    /\ upload.pc = "put"
    /\ \E k \in upload.todo :
        IF bar[k] # Absent /\ bar[k].ver = Entry(k).ver
        THEN /\ object' = [object EXCEPT ![k] = Entry(k).ver]
             /\ upload' = [upload EXCEPT !.todo = @ \ {k}] /\ UNCHANGED holder
        ELSE upload' = Away /\ holder' = Absent /\ UNCHANGED object
    /\ UNCHANGED <<lakeVars, listing, import, undo, Counts>>

UploadEnds ==
    /\ upload.pc = "put" /\ upload.todo = {}
    /\ listing' = manifest
    /\ upload' = Away /\ holder' = Absent
    /\ UNCHANGED <<lakeVars, object, import, undo, Counts>>

UploadDies ==
    /\ upload.pc = "put" /\ Killed
    /\ upload' = Away /\ holder' = Absent
    /\ UNCHANGED <<lakeVars, bucket, import, undo>>

Trim(k) ==
    /\ holder = Absent /\ k \in KeysOf(listing) /\ bar[k] # Absent /\ object[k] = Entry(k).ver
    /\ bar' = [bar EXCEPT ![k] = Absent] /\ trimmed' = trimmed \cup {k}
    /\ UNCHANGED <<manifest, temps, orphans, bucket, holder, import, undo, upload, Counts>>

Restorable(k) == Recorded(k) /\ bar[k] = Absent /\ object[k] = Entry(k).ver
RestoreRange(k) ==
    /\ holder = Absent /\ Restorable(k)
    /\ bar' = [bar EXCEPT ![k] = [source |-> Entry(k).source, ver |-> Entry(k).ver]]
    /\ trimmed' = trimmed \ {k}
    /\ UNCHANGED <<manifest, temps, orphans, bucket, holder, import, undo, upload, Counts>>

FileLost(k) ==
    /\ bar[k] # Absent /\ Killed
    /\ bar' = [bar EXCEPT ![k] = Absent]
    /\ UNCHANGED <<manifest, temps, trimmed, orphans, bucket, holder, import, undo, upload>>

RecordElsewhere ==
    /\ holder = Absent
    /\ Cardinality({i \in DOMAIN manifest : manifest[i] = Other}) <= MaxElsewhere
    /\ manifest' = Append(manifest, Other)
    /\ UNCHANGED <<bar, temps, trimmed, orphans, bucket, holder, import, undo, upload, Counts>>

Imports == ImportDecides \/ ImportWrites \/ ImportStops \/ ImportRecords \/ ImportDies
Undoes == UndoLocks \/ UndoUnlinks \/ UndoCuts \/ UndoDies
Uploads == UploadBegins \/ UploadPuts \/ UploadEnds \/ UploadDies
BarNext ==
    \/ Imports \/ Undoes \/ Uploads \/ RecordElsewhere
    \/ \E s \in Sources : ImportBegins(s) \/ UndoBegins(s)
    \/ \E k \in Keys : Trim(k) \/ RestoreRange(k) \/ FileLost(k)
BarSpec == BarInit /\ [][BarNext]_barVars

------------------------------------------------------------------------------
BarLine == [key : Keys \cup {Elsewhere}, source : Sources \cup {Elsewhere}, ver : Version]
BarTypeOK ==
    /\ manifest \in Seq(BarLine) /\ listing \in Seq(BarLine)
    /\ bar \in [Keys -> File \cup {Absent}] /\ object \in [Keys -> Version \cup {Absent}]
    /\ temps \cup trimmed \cup orphans \subseteq Keys
    /\ holder = "import" <=> import.pc = "write"
    /\ holder = "undo" <=> undo.pc = "unlink"
    /\ holder = "upload" <=> upload.pc = "put"

\* An undo withdraws nothing the bucket was given: its record stays a prefix of the
\* lake's, and each key it lists is recorded here with the content it holds.
Withdrawn ==
    /\ IsPrefix(listing, manifest)
    /\ \A k \in Keys : Sent(k) => Recorded(k) /\ object[k] = Entry(k).ver

\* A stop leaves nothing unrecorded: when nobody holds the lock, a file no line names
\* is one a killed import renamed into place.
OnlyKilled == holder = Absent => \A k \in Keys : bar[k] # Absent /\ ~Recorded(k) => k \in orphans

\* An import that is refused for what the bucket holds names the repair: each missing
\* key that was sent can be restored, and with those back only another source that took
\* a key of this import stands in the way of its rerun.
Repairable ==
    holder = Absent => \A s \in Sources :
        Refuses(s) => Conflict(s) \/ \A k \in Rewrites(s) : Sent(k) => Restorable(k)
ImportSound == BarTypeOK /\ Withdrawn /\ OnlyKilled /\ Repairable

\* Nothing replaces an import: a key keeps its source as long as it is recorded, and
\* the content the bucket was given for good.
NothingReplaced ==
    [][\A k \in Keys : /\ Sent(k) => object'[k] = object[k]
                       /\ Recorded(k) /\ k \in KeysOf(manifest') =>
                              LatestOf(manifest', k).source = Entry(k).source]_barVars
=============================================================================
