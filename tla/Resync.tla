------------------------------- MODULE Resync -------------------------------
(***************************************************************************)
(* Hosts that take turns as the primary of one bucket (bucket.py): each    *)
(* writes its own lake and appends to its own manifest.jsonl, the primary  *)
(* uploads, and a host that fell behind is brought level by a resync,      *)
(* which replaces files, deletes files and rewrites the manifest in steps  *)
(* a death can come between.                                               *)
(*                                                                         *)
(* A content is a number no two writes share, and stands for its sha256.   *)
(* A manifest is its sequence of entries, and the bucket's manifest.jsonl  *)
(* is one more.  Byte prefixes and shared bytes are prefixes of entries:   *)
(* a damaged line, which the code compares apart, is left out, and so are  *)
(* the trimmed ledger and its designed absences, see Backup.               *)
(***************************************************************************)
EXTENDS Naturals, FiniteSets, Sequences

CONSTANTS
    Hosts,
    Captured,   \* chains and quotes partitions: written from a capture
    Swept,      \* bars the sweep can write again
    Decided,    \* root files that record a human decision: spans, signoffs
    Base,       \* the manifest all hosts and the bucket start from
    MaxWrites,  \* bound on contents written
    MaxEvents,  \* bound on deaths, handoffs and hand repairs
    None

Paths == Captured \cup Swept \cup Decided

Entry == [path : Paths, sha : Nat]
ASSUME ConstantsAssumption ==
    /\ IsFiniteSet(Hosts) /\ None \notin Hosts /\ None \notin Nat
    /\ Captured \cap Swept = {} /\ Captured \cap Decided = {} /\ Swept \cap Decided = {}
    /\ Base \in Seq(Entry) /\ Base # <<>> /\ \A i \in DOMAIN Base : Base[i].sha = i
    /\ MaxWrites \in Nat /\ MaxEvents \in Nat /\ Len(Base) <= MaxWrites

VARIABLES
    manifest,   \* each host's manifest.jsonl
    disk,       \* each host's files
    copy,       \* the bucket's manifest.jsonl
    objects,    \* the bucket's versions of each file, oldest first
    primary,    \* the host whose uploads run
    upload,     \* the primary's upload
    resync,     \* a resync with --apply
    written, events

vars == <<manifest, disk, copy, objects, primary, upload, resync, written, events>>

Idle == [pc |-> "idle"]

Before(m, n) == SubSeq(m, 1, n)
After(m, n) == SubSeq(m, n + 1, Len(m))
IsPrefixOf(m, w) == Len(m) <= Len(w) /\ Before(w, Len(m)) = m
Named(m) == {m[i].path : i \in DOMAIN m}
Pairs(m) == {m[i] : i \in DOMAIN m}

\* _latest_by_partition: the last entry of a path.
Latest(m, p) == LET at == {i \in DOMAIN m : m[i].path = p}
                IN  IF at = {} THEN None ELSE m[CHOOSE i \in at : \A j \in at : j <= i].sha

\* _shared_bytes: what both manifests begin with.
Shared(m, w) == CHOOSE n \in 0..Len(m) :
    /\ n <= Len(w) /\ Before(m, n) = Before(w, n)
    /\ n = Len(m) \/ n = Len(w) \/ m[n + 1] # w[n + 1]

\* A mutant of Foreign: paths the lake never recorded, whatever their content.
ForeignPaths(bucket, lake) == Named(bucket) \ Named(lake)

\* _foreign: paths whose last entry in the bucket's tail this lake never recorded.
Foreign(bucket, lake) ==
    LET tail == After(bucket, Shared(lake, bucket))
    IN  {p \in Named(tail) : [path |-> p, sha |-> Latest(tail, p)] \notin Pairs(lake)}

Current(p) == IF objects[p] = <<>> THEN None ELSE objects[p][Len(objects[p])]
HasVersion(p, sha) == \E i \in DOMAIN objects[p] : objects[p][i] = sha

Init ==
    /\ manifest = [h \in Hosts |-> Base]
    /\ disk = [h \in Hosts |-> [p \in Paths |-> Latest(Base, p)]]
    /\ copy = Base
    /\ objects = [p \in Paths |-> IF p \in Named(Base) THEN <<Latest(Base, p)>> ELSE <<>>]
    /\ primary \in Hosts
    /\ upload = Idle /\ resync = Idle
    /\ written = Len(Base) /\ events = 0

\* The lock of a host's lake is free: neither job is in its locked part there.
Locked(h) == \/ upload.pc # "idle" /\ upload.host = h
             \/ resync.pc \in {"replace", "delete", "cut", "tail"} /\ resync.host = h

Event == events < MaxEvents /\ events' = events + 1

\* Any writer of a host's lake: the file, then its entry.
Write(h, p) ==
    /\ ~Locked(h) /\ written < MaxWrites
    /\ written' = written + 1
    /\ disk' = [disk EXCEPT ![h][p] = written']
    /\ manifest' = [manifest EXCEPT ![h] = Append(@, [path |-> p, sha |-> written'])]
    /\ UNCHANGED <<copy, objects, primary, upload, resync, events>>

\* A hand repair that takes a line out of the middle and records it again.
HandRepair(h) ==
    /\ ~Locked(h) /\ Event
    /\ \E i \in 2..(Len(manifest[h]) - 1) :
        /\ manifest[h][i].sha = Latest(manifest[h], manifest[h][i].path)
        /\ manifest' = [manifest EXCEPT ![h] =
                Before(@, i - 1) \o After(@, i) \o <<@[i]>>]
    /\ UNCHANGED <<disk, copy, objects, primary, upload, resync, written>>

\* The role moves once the old primary's upload is over.
Handoff(h) ==
    /\ upload = Idle /\ h # primary /\ Event
    /\ primary' = h
    /\ UNCHANGED <<manifest, disk, copy, objects, upload, resync, written>>

------------------------------------------------------------------------------
(* nightly_upload and first_upload *)

Pending(h) == Named(After(manifest[h], Len(copy)))
Healed(h) == {p \in Decided : /\ Latest(copy, p) # None /\ p \notin Pending(h)
                              /\ disk[h][p] = Latest(manifest[h], p)}

NightlyBegin ==
    /\ upload = Idle /\ ~Locked(primary)
    /\ IsPrefixOf(copy, manifest[primary])
    /\ upload' = [pc |-> "put", host |-> primary,
                  todo |-> Pending(primary) \cup Healed(primary)]
    /\ UNCHANGED <<manifest, disk, copy, objects, primary, resync, written, events>>

\* By hand, over a copy that is no prefix and holds nothing foreign.
FirstBegin ==
    /\ upload = Idle /\ ~Locked(primary)
    /\ ~IsPrefixOf(copy, manifest[primary])
    /\ Foreign(copy, manifest[primary]) = {}
    /\ upload' = [pc |-> "put", host |-> primary, todo |-> Named(manifest[primary])]
    /\ UNCHANGED <<manifest, disk, copy, objects, primary, resync, written, events>>

\* A file whose bytes are not its entry's is refused by its checksum.
UploadPut ==
    /\ upload.pc = "put" /\ upload.todo # {}
    /\ LET p == CHOOSE x \in upload.todo : TRUE
           sha == Latest(manifest[upload.host], p)
       IN  IF Current(p) = sha \/ disk[upload.host][p] = sha
           THEN /\ objects' = IF Current(p) = sha THEN objects
                              ELSE [objects EXCEPT ![p] = Append(@, sha)]
                /\ upload' = [upload EXCEPT !.todo = @ \ {p}]
           ELSE upload' = Idle /\ UNCHANGED objects
    /\ UNCHANGED <<manifest, disk, copy, primary, resync, written, events>>

UploadManifest ==
    /\ upload.pc = "put" /\ upload.todo = {}
    /\ copy' = manifest[upload.host]
    /\ upload' = Idle
    /\ UNCHANGED <<manifest, disk, objects, primary, resync, written, events>>

------------------------------------------------------------------------------
(* resync --apply *)

\* What a plan says of host h against the bucket's manifest b.
BucketTail(h) == After(copy, Shared(manifest[h], copy))
LakeTail(h) == After(manifest[h], Shared(manifest[h], copy))
LakeOnly(h) == {p \in Named(LakeTail(h)) : Latest(copy, p) = None /\ disk[h][p] # None}
Downloads(h) == {p \in Named(BucketTail(h)) \cup Named(LakeTail(h)) :
                    Latest(copy, p) # None /\ disk[h][p] # Latest(copy, p)}
\* A mutant of OnlyCopy: captures the bucket does name.
OnlyCopyNamed(h) == LakeOnly(h) \cap Captured \cap Named(copy) # {}
OnlyCopy(h) == LakeOnly(h) \cap Captured # {}
DecidedHere(h) == \E p \in Decided \cap Named(LakeTail(h)) :
                      disk[h][p] = Latest(LakeTail(h), p)
Outside(h) == LakeOnly(h) \cap Decided # {}

Level(h) == IsPrefixOf(copy, manifest[h])
HandRepaired(h) == ~IsPrefixOf(manifest[h], copy) /\ Foreign(copy, manifest[h]) = {}

ResyncPlan(h) ==
    /\ resync = Idle
    /\ ~Level(h) /\ ~HandRepaired(h) /\ Shared(manifest[h], copy) # 0
    /\ ~OnlyCopy(h) /\ ~DecidedHere(h) /\ ~Outside(h)
    /\ \A p \in Downloads(h) : HasVersion(p, Latest(copy, p))
    /\ resync' = [pc |-> "planned", host |-> h, lake |-> manifest[h], bucket |-> copy,
                  keep |-> Shared(manifest[h], copy),
                  downloads |-> Downloads(h), deletions |-> LakeOnly(h)]
    /\ UNCHANGED <<manifest, disk, copy, objects, primary, upload, written, events>>

ResyncStep(pc) == resync' = [resync EXCEPT !.pc = pc]

\* A mutant of ResyncLock: what the plan read is not compared again.
ResyncLockStale ==
    /\ resync.pc = "planned" /\ ~Locked(resync.host)
    /\ ResyncStep("replace")
    /\ UNCHANGED <<manifest, disk, copy, objects, primary, upload, written, events>>

\* Under the lock, neither manifest may have changed since the plan read it.
ResyncLock ==
    /\ resync.pc = "planned" /\ ~Locked(resync.host)
    /\ IF manifest[resync.host] = resync.lake /\ copy = resync.bucket
       THEN ResyncStep("replace")
       ELSE resync' = Idle
    /\ UNCHANGED <<manifest, disk, copy, objects, primary, upload, written, events>>

\* One rename, or one unlink, at a time.
ResyncReplace ==
    /\ resync.pc = "replace"
    /\ IF resync.downloads = {} THEN ResyncStep("delete") /\ UNCHANGED disk
       ELSE \E p \in resync.downloads :
            /\ disk' = [disk EXCEPT ![resync.host][p] = Latest(resync.bucket, p)]
            /\ resync' = [resync EXCEPT !.downloads = @ \ {p}]
    /\ UNCHANGED <<manifest, copy, objects, primary, upload, written, events>>

ResyncDelete ==
    /\ resync.pc = "delete"
    /\ IF resync.deletions = {} THEN ResyncStep("cut") /\ UNCHANGED disk
       ELSE \E p \in resync.deletions :
            /\ disk' = [disk EXCEPT ![resync.host][p] = None]
            /\ resync' = [resync EXCEPT !.deletions = @ \ {p}]
    /\ UNCHANGED <<manifest, copy, objects, primary, upload, written, events>>

\* _rewrite_manifest: cut to the shared entries, then append the bucket's tail,
\* of which a death or a full disk leaves any first part.
ResyncCut ==
    /\ resync.pc = "cut"
    /\ manifest' = [manifest EXCEPT ![resync.host] = Before(@, resync.keep)]
    /\ ResyncStep("tail")
    /\ UNCHANGED <<disk, copy, objects, primary, upload, written, events>>

\* A mutant of ResyncTail: one entry short.
ResyncTailShort ==
    /\ resync.pc = "tail"
    /\ LET n == Len(manifest[resync.host])
       IN  IF n + 1 < Len(resync.bucket)
           THEN manifest' = [manifest EXCEPT ![resync.host] = Append(@, resync.bucket[n + 1])]
                /\ UNCHANGED resync
           ELSE resync' = Idle /\ UNCHANGED manifest
    /\ UNCHANGED <<disk, copy, objects, primary, upload, written, events>>

ResyncTail ==
    /\ resync.pc = "tail"
    /\ LET n == Len(manifest[resync.host])
       IN  IF n < Len(resync.bucket)
           THEN manifest' = [manifest EXCEPT ![resync.host] = Append(@, resync.bucket[n + 1])]
                /\ UNCHANGED resync
           ELSE resync' = Idle /\ UNCHANGED manifest
    /\ UNCHANGED <<disk, copy, objects, primary, upload, written, events>>

------------------------------------------------------------------------------
UploadDies ==
    /\ upload # Idle /\ Event
    /\ upload' = Idle
    /\ UNCHANGED <<manifest, disk, copy, objects, primary, resync, written>>

ResyncDies ==
    /\ resync # Idle /\ Event
    /\ resync' = Idle
    /\ UNCHANGED <<manifest, disk, copy, objects, primary, upload, written>>

ResyncRun == ResyncLock \/ ResyncReplace \/ ResyncDelete \/ ResyncCut \/ ResyncTail
Next ==
    \/ \E h \in Hosts : (\E p \in Paths : Write(h, p)) \/ HandRepair(h) \/ Handoff(h)
                        \/ ResyncPlan(h)
    \/ NightlyBegin \/ FirstBegin \/ UploadPut \/ UploadManifest
    \/ ResyncRun \/ UploadDies \/ ResyncDies

\* A resync runs on, and is run again by hand while its host can be planned for.
Spec == Init /\ [][Next]_vars
FairSpec == Spec /\ WF_vars(ResyncRun) /\ \A h \in Hosts : WF_vars(ResyncPlan(h))

------------------------------------------------------------------------------
Content == 1..MaxWrites
TypeOK ==
    /\ \A h \in Hosts : manifest[h] \in Seq(Entry)
    /\ disk \in [Hosts -> [Paths -> Content \cup {None}]]
    /\ copy \in Seq(Entry)
    /\ \A p \in Paths : objects[p] \in Seq(Content)
    /\ primary \in Hosts
    /\ upload # Idle /\ resync.pc \in {"replace", "delete", "cut", "tail"} =>
           upload.host # resync.host

\* A host's lake that is level with the bucket holds on disk exactly what its
\* manifest says, whichever step of a resync a death came after: level is what
\* makes the next resync do nothing, so nothing would ever finish the work.
LevelIsWhole ==
    \A h \in Hosts : Level(h) =>
        \A p \in Paths : disk[h][p] = Latest(manifest[h], p)

\* A capture once recorded anywhere stays somewhere, though the manifest that
\* recorded it is cut.
Somewhere(p) == objects[p] # <<>> \/ \E h \in Hosts : disk[h][p] # None
CaptureStays == [][\A p \in Captured : Somewhere(p) => Somewhere(p)']_vars

\* The bucket's record only loses a path's latest entry to a manifest that
\* records it too: no upload drops another host's sessions.
NothingDropped ==
    [][\A p \in Named(copy) : [path |-> p, sha |-> Latest(copy, p)] \in Pairs(copy')]_vars

\* Every path the bucket's manifest names has a version with the hash it names.
CopyServed == \A p \in Named(copy) : HasVersion(p, Latest(copy, p))

\* What a manifest says is there, is there: on a level host and in the bucket.
RecordsServed == TypeOK /\ LevelIsWhole /\ CopyServed

\* A resync that died part way can be run again to its end: a host that fell
\* behind with nothing of its own to lose is brought level.
Behind(h) == ~Level(h) /\ ~HandRepaired(h)
Refused(h) == OnlyCopy(h) \/ DecidedHere(h) \/ Outside(h)
ResyncFinishes == \A h \in Hosts : Behind(h) ~> (~Behind(h) \/ Refused(h))
=============================================================================
