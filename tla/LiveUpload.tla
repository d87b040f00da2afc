----------------------------- MODULE LiveUpload -----------------------------
(***************************************************************************)
(* The live upload (live_upload.py): a thread beside the daemon's loop     *)
(* reads manifest.jsonl without the lock and puts each quotes segment under *)
(* the bucket's live prefix, while capture appends, compaction seals and   *)
(* unlinks, a resync cuts the manifest back, and S3 fails, loses its answer *)
(* or expires an object.  An alarm on the loop's tick watches the thread.  *)
(*                                                                         *)
(* One read of the manifest's tail is one step, and so is one request to   *)
(* S3.  A line names a segment or a sealed partition, and is its own bytes. *)
(* What is owed is a set: a pass takes it oldest first, and in any order    *)
(* among what was read in one tick.                                         *)
(***************************************************************************)
EXTENDS Naturals, Sequences, FiniteSets

CONSTANTS
    LiveSegments, Partition,    \* quotes segments, and the partition each compacts into
    BehindAfter,            \* BEHIND_AFTER, in ticks
    DateTicks, MaxTicks,    \* the ticks of an Eastern date, and of the run
    MaxUpsets,              \* what goes wrong, or is cut back, in a run
    NoSegment

Partitions == {Partition[k] : k \in LiveSegments}
Lines == LiveSegments \cup Partitions

ASSUME LiveAssumption ==
    /\ IsFiniteSet(LiveSegments) /\ LiveSegments \cap Partitions = {} /\ NoSegment \notin Lines
    /\ {BehindAfter, MaxTicks, MaxUpsets} \subseteq Nat /\ DateTicks \in Nat \ {0}

VARIABLES
    lines,          \* manifest.jsonl
    onDisk,           \* each segment on disk: none, good, rotten, gone
    sealedDays,     \* partitions compaction recorded (history: a cut does not unseal)
    live,           \* what the live prefix holds under each segment's key
    liveNow,        \* the clock
    upsets,         \* upsets so far
    thread,         \* waiting, next, put, head, gone, stopped, or not started
    todo, sending,  \* the rest of the pass, and the segment at hand with the bytes read
    offset, anchor, \* the read position, and the line it ended on
    owed,           \* _owed: segments, and when each became owed
    sealedRead, done, refused,  \* _sealed, _done, _refused
    vanished,       \* segments counted vanished, with whether the manifest was read
    lastClean,      \* _last_clean
    behind, pagedOn, refusalPaged,  \* UploadAlarm
    trusted,        \* the last read looked at the manifest since its last cut (history)
    began,          \* the date the upload fell behind (history)
    stoppedPaged,   \* a page went out since the thread stopped (history)
    checked         \* the alarm looked since the thread stopped (history)

threadVars == <<thread, todo, sending, offset, anchor, owed, sealedRead, done, refused, vanished,
                lastClean, trusted>>
alarmVars == <<behind, pagedOn, refusalPaged, began, stoppedPaged, checked>>
worldVars == <<lines, onDisk, sealedDays, live>>
liveVars == <<worldVars, threadVars, alarmVars, liveNow, upsets>>

Date == liveNow \div DateTicks
NoDate == MaxTicks + 1
Owing == {o.rel : o \in owed}

\* A daemon's start: prepare builds the client and start() begins the thread.
Fresh(started) ==
    /\ thread' = IF started THEN "waiting" ELSE "not started"
    /\ todo' = {} /\ sending' = NoSegment /\ offset' = 0 /\ anchor' = NoSegment
    /\ owed' = {} /\ sealedRead' = {} /\ done' = {} /\ refused' = {} /\ vanished' = {}
    /\ lastClean' = liveNow /\ trusted' = TRUE
    /\ behind' = FALSE /\ pagedOn' = NoDate /\ refusalPaged' = FALSE /\ began' = NoDate
    /\ stoppedPaged' = FALSE /\ checked' = FALSE

LiveInit ==
    /\ lines = <<>> /\ onDisk = [k \in LiveSegments |-> "none"] /\ sealedDays = {}
    /\ live = [k \in LiveSegments |-> "none"] /\ liveNow = 0 /\ upsets = 0
    /\ thread = "waiting" /\ todo = {} /\ sending = NoSegment
    /\ offset = 0 /\ anchor = NoSegment
    /\ owed = {} /\ sealedRead = {} /\ done = {} /\ refused = {} /\ vanished = {}
    /\ lastClean = 0 /\ trusted = TRUE
    /\ behind = FALSE /\ pagedOn = NoDate /\ refusalPaged = FALSE /\ began = NoDate
    /\ stoppedPaged = FALSE /\ checked = FALSE

Upset == upsets < MaxUpsets /\ upsets' = upsets + 1

------------------------------------------------------------------------------
(* Reading the manifest *)

\* A mutant of Anchored: a file no shorter than the offset was not cut back.
AnchoredByLength == offset <= Len(lines)

\* _anchored
Anchored == offset = 0 \/ (offset <= Len(lines) /\ lines[offset] = anchor)

\* What a read starts over with: _restart, when the manifest was cut back.
Start == IF Anchored THEN [from |-> offset, owed |-> owed, sealedRead |-> sealedRead]
         ELSE [from |-> 0, owed |-> {}, sealedRead |-> {}]

\* _consider, over every line read: a partition's line settles what is owed of it, before
\* and after, and a segment's makes it owed once.
Considered(start, read) ==
    LET sealed == start.sealedRead \cup (read \cap Partitions)
        new == {k \in read \cap LiveSegments : /\ k \notin refused \cup done
                                               /\ Partition[k] \notin sealed
                                               /\ \A o \in start.owed : o.rel # k}
    IN  [owed |-> {o \in start.owed : Partition[o.rel] \notin read}
                  \cup {[rel |-> k, since |-> liveNow] : k \in new},
         sealedRead |-> sealed]

Reread == Considered(Start, {lines[i] : i \in (Start.from + 1)..Len(lines)})

LastLine == IF lines = <<>> THEN NoSegment ELSE lines[Len(lines)]

ReadTail ==
    /\ LET m == Reread IN owed' = m.owed /\ sealedRead' = m.sealedRead
    /\ offset' = Len(lines) /\ anchor' = LastLine /\ trusted' = TRUE

PassBegins ==
    /\ thread = "waiting"
    /\ \/ /\ ReadTail /\ UNCHANGED upsets
          /\ todo' = {o.rel : o \in owed'} /\ thread' = "next"
       \/ /\ Upset     \* manifest.jsonl cannot be read
          /\ UNCHANGED <<owed, sealedRead, offset, anchor, trusted, todo, thread>>
    /\ UNCHANGED <<worldVars, alarmVars, liveNow, sending, done, refused, vanished, lastClean>>

\* The pass ended with nothing failed.
PassEnds ==
    /\ thread = "next" /\ todo = {}
    /\ thread' = "waiting" /\ lastClean' = liveNow
    /\ UNCHANGED <<worldVars, alarmVars, liveNow, upsets, todo, sending, offset, anchor, owed,
                   sealedRead, done, refused, vanished, trusted>>

------------------------------------------------------------------------------
(* _send: one attempt at one owed segment *)

Without(k) == {o \in owed : o.rel # k}

SendNext ==
    /\ thread = "next"
    /\ \E k \in todo :
       /\ \A o, w \in owed : o.rel = k /\ w.rel \in todo => o.since <= w.since
       /\ todo' = todo \ {k}
       /\ \/ /\ k \notin Owing
              /\ UNCHANGED <<thread, sending, upsets>>
           \/ /\ k \in Owing /\ onDisk[k] \in {"good", "rotten"}
              /\ thread' = "put" /\ sending' = [rel |-> k, bytes |-> onDisk[k]] /\ UNCHANGED upsets
           \/ /\ k \in Owing /\ onDisk[k] = "gone"
              /\ thread' = "gone" /\ sending' = [rel |-> k, bytes |-> "none"] /\ UNCHANGED upsets
           \/ /\ k \in Owing /\ Upset      \* the disk would not give the bytes
              /\ UNCHANGED <<thread, sending>>
    /\ UNCHANGED <<worldVars, alarmVars, liveNow, offset, anchor, owed, sealedRead, done, refused,
                   vanished, lastClean, trusted>>

\* A mutant of AfterGone: what the pass read at its start decides.
AfterGoneUnread(read) == [owed |-> owed, sealedRead |-> sealedRead]

\* _gone: the manifest is read again, in case the seal landed after the pass read it, and
\* the segment is superseded or missing by what that says.
AfterGone(read) == IF read THEN Reread ELSE [owed |-> owed, sealedRead |-> sealedRead]

SegmentGone ==
    /\ thread = "gone"
    /\ \E read \in BOOLEAN : LET m == AfterGone(read) IN
        /\ IF read
           THEN /\ offset' = Len(lines) /\ anchor' = LastLine /\ trusted' = TRUE
                /\ UNCHANGED upsets
           ELSE Upset /\ UNCHANGED <<offset, anchor, trusted>>
        /\ sealedRead' = m.sealedRead
        /\ owed' = {o \in m.owed : o.rel # sending.rel}
        /\ vanished' = IF Partition[sending.rel] \notin m.sealedRead /\ owed' # m.owed
                       THEN vanished \cup {[rel |-> sending.rel, read |-> read]} ELSE vanished
    /\ thread' = "next" /\ sending' = NoSegment
    /\ UNCHANGED <<worldVars, alarmVars, liveNow, todo, done, refused, lastClean>>

\* _settle and _refuse, and a failure that ends the pass and keeps the segment owed.
Settle ==
    /\ done' = IF sending.rel \in Owing THEN done \cup {sending.rel} ELSE done
    /\ owed' = Without(sending.rel)
    /\ thread' = "next" /\ sending' = NoSegment /\ UNCHANGED <<refused, todo>>
Refuse ==
    /\ refused' = refused \cup {sending.rel}
    /\ owed' = Without(sending.rel)
    /\ thread' = "next" /\ sending' = NoSegment /\ UNCHANGED <<done, todo>>
\* A mutant of Retry: the segment that failed is owed no more.
RetryDrops ==
    /\ thread' = "waiting" /\ todo' = {} /\ sending' = NoSegment
    /\ owed' = Without(sending.rel) /\ UNCHANGED <<done, refused>>

Retry ==
    /\ thread' = "waiting" /\ todo' = {} /\ sending' = NoSegment
    /\ UNCHANGED <<owed, done, refused>>

\* put_object with IfNoneMatch and the entry's digest: S3 keeps the bytes, or answers 412
\* for a key it holds, or BadDigest.
Stores(k, bytes) == live[k] = "none" /\ bytes = "good"

PutSegment ==
    /\ thread = "put"
    /\ LET k == sending.rel
       IN  \/ /\ Stores(k, sending.bytes)
              /\ live' = [live EXCEPT ![k] = sending.bytes]
              /\ \/ Settle /\ UNCHANGED upsets
                 \/ Retry /\ Upset        \* S3 took it and the answer was lost
           \/ /\ sending.bytes # "good" /\ Refuse /\ UNCHANGED <<live, upsets>>
           \/ /\ live[k] # "none" /\ thread' = "head"
              /\ UNCHANGED <<live, sending, owed, done, refused, todo, upsets>>
           \/ Retry /\ Upset /\ UNCHANGED live
    /\ UNCHANGED <<lines, onDisk, sealedDays, alarmVars, liveNow, offset, anchor, sealedRead, vanished,
                   lastClean, trusted>>

\* _already_sent: the bytes S3 holds under the key, by their stored digest.
HeadSegment ==
    /\ thread = "head"
    /\ \/ live[sending.rel] = "good" /\ Settle /\ UNCHANGED upsets
       \/ live[sending.rel] = "rotten" /\ Refuse /\ UNCHANGED upsets
       \/ live[sending.rel] = "none" /\ Retry /\ UNCHANGED upsets
       \/ Retry /\ Upset
    /\ UNCHANGED <<worldVars, alarmVars, liveNow, offset, anchor, sealedRead, vanished, lastClean, trusted>>

\* _run ends on what nothing above catches.
ThreadStops ==
    /\ thread \notin {"stopped", "not started"} /\ Upset
    /\ thread' = "stopped" /\ todo' = {} /\ sending' = NoSegment
    /\ UNCHANGED <<worldVars, alarmVars, liveNow, offset, anchor, owed, sealedRead, done, refused,
                   vanished, lastClean, trusted>>

------------------------------------------------------------------------------
(* UploadAlarm.check, on the loop's tick *)

\* _behind_body
FallenBehind(now) ==
    \/ thread = "stopped"
    \/ \E o \in owed : now - o.since > BehindAfter
    \/ now - lastClean > BehindAfter

\* A mutant of PagesBehind: a page each date a lag lasts, and not one a lag.
PagesEachDate(falls, day) == falls /\ (thread = "stopped" \/ pagedOn # day)

\* One page a date, and one for a thread that stopped.
PagesBehind(falls, day) == falls /\ ~behind /\ (thread = "stopped" \/ pagedOn # day)

LiveTick ==
    /\ liveNow < MaxTicks /\ liveNow' = liveNow + 1
    /\ LET day == liveNow' \div DateTicks
           falls == thread # "not started" /\ FallenBehind(liveNow')
           pages == PagesBehind(falls, day)
       IN  /\ behind' = falls
           /\ pagedOn' = IF pages THEN day ELSE pagedOn
           /\ began' = IF falls /\ ~behind THEN day ELSE began
           /\ stoppedPaged' = (stoppedPaged \/ (pages /\ thread = "stopped"))
           /\ checked' = (thread = "stopped")
           /\ refusalPaged' = (refusalPaged \/ refused # {})
    /\ UNCHANGED <<worldVars, threadVars, upsets>>

------------------------------------------------------------------------------
(* Capture, compaction, a resync, the disk, and S3's lifecycle rule *)

SegmentLands(k) ==
    /\ onDisk[k] = "none" /\ Partition[k] \notin sealedDays
    /\ onDisk' = [onDisk EXCEPT ![k] = "good"] /\ lines' = Append(lines, k)
    /\ UNCHANGED <<sealedDays, live, upsets, trusted>>

SealPartition(p) ==
    /\ p \notin sealedDays
    /\ \E k \in LiveSegments : Partition[k] = p /\ onDisk[k] = "good"
    /\ \A k \in LiveSegments : Partition[k] = p => onDisk[k] # "rotten"
    /\ lines' = Append(lines, p) /\ sealedDays' = sealedDays \cup {p}
    /\ UNCHANGED <<onDisk, live, upsets, trusted>>

SegmentUnlinked(k) ==
    /\ Partition[k] \in sealedDays /\ onDisk[k] \in {"good", "rotten"}
    /\ onDisk' = [onDisk EXCEPT ![k] = "gone"]
    /\ UNCHANGED <<lines, sealedDays, live, upsets, trusted>>

DiskFault(k) ==
    /\ onDisk[k] = "good" /\ Upset
    /\ \E bytes \in {"rotten", "gone"} : onDisk' = [onDisk EXCEPT ![k] = bytes]
    /\ UNCHANGED <<lines, sealedDays, live, trusted>>

CutBack ==
    /\ Upset /\ \E n \in 0..(Len(lines) - 1) : lines' = SubSeq(lines, 1, n)
    /\ trusted' = FALSE /\ UNCHANGED <<onDisk, sealedDays, live>>

ObjectExpires(k) ==
    /\ live[k] # "none" /\ Upset /\ live' = [live EXCEPT ![k] = "none"]
    /\ UNCHANGED <<lines, onDisk, sealedDays, trusted>>

LiveWorld ==
    /\ \/ CutBack \/ \E p \in Partitions : SealPartition(p)
       \/ \E k \in LiveSegments :
            SegmentLands(k) \/ SegmentUnlinked(k) \/ DiskFault(k) \/ ObjectExpires(k)
    /\ UNCHANGED <<alarmVars, liveNow, thread, todo, sending, offset, anchor, owed, sealedRead, done,
                   refused, vanished, lastClean>>

\* The service manager starts the daemon again; the client is built, or is not.
DaemonRestarts ==
    /\ Upset /\ \E started \in BOOLEAN : Fresh(started)
    /\ UNCHANGED <<worldVars, liveNow>>

ThreadStep == PassBegins \/ PassEnds \/ SendNext \/ SegmentGone \/ PutSegment \/ HeadSegment
LiveNext == ThreadStep \/ ThreadStops \/ LiveTick \/ LiveWorld \/ DaemonRestarts
LiveSpec == LiveInit /\ [][LiveNext]_liveVars /\ WF_liveVars(ThreadStep)

------------------------------------------------------------------------------
LiveTypeOK ==
    /\ lines \in Seq(Lines) /\ offset \in Nat /\ upsets \in 0..MaxUpsets
    /\ onDisk \in [LiveSegments -> {"none", "good", "rotten", "gone"}]
    /\ live \in [LiveSegments -> {"none", "good", "rotten"}]
    /\ Owing \cap (done \cup refused) = {}
    /\ \A o, w \in owed : o.rel = w.rel => o = w
    /\ \A o \in owed : o.rel \in LiveSegments /\ o.since <= liveNow

\* The live prefix never holds bytes other than those the manifest recorded, however a
\* put was lost, repeated or overtaken by damage to the file.
LiveHonest == \A k \in LiveSegments : live[k] # "rotten"

\* A segment whose line the thread has read is owed, settled, refused or counted missing,
\* or its day is sealed: a cut of the manifest between two reads loses none.
NothingForgotten ==
    trusted /\ thread \notin {"stopped", "not started"} =>
        \A i \in 1..offset : lines[i] \in LiveSegments =>
            \/ lines[i] \in Owing \cup done \cup refused \cup {v.rel : v \in vanished}
            \/ Partition[lines[i]] \in sealedRead
LiveSound == LiveTypeOK /\ LiveHonest /\ NothingForgotten

\* A segment compaction deleted after sealing its day is not counted missing, unless the
\* manifest could not be read or no longer says so.
MissingIsMissing ==
    \A v \in vanished' \ vanished : v.read =>
        ~ \E i \in 1..Len(lines) : lines[i] = Partition[v.rel]

\* One daemon never sends a segment it settled or refused again.
SentOnce ==
    \A k \in done \cup refused :
        k \in done' \cup refused' => ~(thread' = "put" /\ sending'.rel = k)

\* What the thread has counted as settled, refused or lost, it counted once and rightly.
CountedOnce == [][MissingIsMissing /\ SentOnce]_liveVars

\* While the upload is behind, the last page is of the date it fell behind: it was paged
\* then, whatever was paged of earlier lags, and not again while the lag lasts.
BehindHeard == behind => pagedOn = began

\* A thread that stopped is paged by the first look at it.
StoppedHeard == checked => stoppedPaged

\* A segment that is good on disk and named by the manifest reaches the bucket, unless
\* its day is sealed first or the thread is no more.
CatchesUp(k) ==
    (onDisk[k] = "good" /\ \E i \in 1..Len(lines) : lines[i] = k)
    ~> \/ k \in done \cup refused \/ onDisk[k] # "good" \/ Partition[k] \in sealedRead
       \/ ~ \E i \in 1..Len(lines) : lines[i] = k
       \/ thread \in {"stopped", "not started"}
=============================================================================
