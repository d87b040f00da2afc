--------------------------- MODULE EveningProofs ----------------------------
(***************************************************************************)
(* What holds of CloseEvening for every calendar and number of sleeps,     *)
(* deaths and faults.  Under every hazard: types, and the order in which   *)
(* the watchdog hears capture minutes.  On a quiet evening whose cycles    *)
(* and dispatches are prompt: a minute's one row, a sealed day's complete  *)
(* rows, none added to it later, and what the startup walk relies on.      *)
(***************************************************************************)
EXTENDS CloseEvening, SequenceTheorems, FiniteSetTheorems, WellFoundedInduction, TLAPS

GuardAt == {"guard", "spot", "unobserved", "option", "fill"}

\* From the tick that queued the missed slots to the launch of its own.
InTick ==
    \/ pc \in {"hand", "tick", "compact", "skip", "skipGuard", "launch"}
    \/ pc \in GuardAt /\ ret \in {"compact", "launch"}
    \/ pc = "marking" /\ ret = "skipGuard"

Control ==
    /\ pc \in GuardAt => ret \in {"startup", "compact", "launch"}
    /\ pc = "marking" => ret \in {"wait", "skipGuard"}
    /\ pc = "down" => inFlight = <<>>
    /\ pc = "wait" => top > last
    /\ InTick => last < slot
    /\ {last, slot} \subseteq 0 .. Horizon /\ top \in Int

\* The minute through which the loop has queued every capture slot.
Reached == IF InTick THEN slot - 1 ELSE last

\* The newest slot of the first i entries of the queue.
Upto(i) == IF i = 0 THEN heard ELSE LastOf(inFlight[i].slots)
Between(a, b) == {s \in CaptureSlots : a < s /\ s <= b}

\* The queue holds every capture slot since the one last heard, in order.
Queue ==
    /\ \A i \in 0 .. Len(inFlight) : Upto(i) \in 0 .. Horizon
    /\ \A i \in 1 .. Len(inFlight) :
          inFlight[i].slots = Between(Upto(i - 1), Upto(i)) /\ Upto(i) \in inFlight[i].slots
    /\ Upto(Len(inFlight)) <= Reached
    /\ Between(Upto(Len(inFlight)), Reached) = {}

------------------------------------------------------------------------------
(* Lemmas about slots *)

LEMMA CaptureSlotsType == CaptureSlots \subseteq Int
BY DEF CaptureSlots, SlotsOf

\* A set of minutes in an interval has a last one.
LEMMA HasLast ==
    ASSUME NEW a \in Int, NEW b \in Int, NEW T \in SUBSET (a .. b), T # {}
    PROVE  \E t \in T : \A s \in T : s <= t
<1> DEFINE less == {ss \in Nat \X Nat : ss[1] < ss[2]}
           D == {b - s : s \in T}
<1>1. T \subseteq Int /\ D \subseteq Nat /\ D # {}
    <2>1. \A s \in T : s \in Int /\ b - s \in Nat
        OBVIOUS
    <2> QED BY <2>1
<1>2. IsWellFoundedOn(less, Nat)
    BY NatLessThanWellFounded DEF OpToRel
<1>3. PICK d \in D : \A u \in D : ~ (<<u, d>> \in less)
    <2> HIDE DEF less, D
    <2> QED BY <1>1, <1>2, WFMin
<1>4. PICK t \in T : d = b - t
    OBVIOUS
<1>5. ASSUME NEW s \in T PROVE s <= t
    <2>1. b - s \in D /\ b - s \in Nat /\ d \in Nat /\ s \in Int /\ t \in Int
        BY <1>1
    <2>2. ~ (b - s < d) BY <1>3, <2>1
    <2> QED BY <1>4, <2>1, <2>2
<1> QED BY <1>5

LEMMA LastOfIs ==
    ASSUME NEW T \in SUBSET Int, NEW t \in T, \A s \in T : s <= t
    PROVE  LastOf(T) = t
<1>1. \A u \in T : (\A s \in T : s <= u) => u = t
    OBVIOUS
<1> QED BY <1>1 DEF LastOf

\* The last slot of a batch cut off at b is where the batch ends.
LEMMA BatchEnds ==
    ASSUME NEW a \in Int, NEW b \in Int, Between(a, b) # {}
    PROVE  /\ LastOf(Between(a, b)) \in Between(a, b)
           /\ LastOf(Between(a, b)) \in a + 1 .. b
           /\ Between(a, b) = Between(a, LastOf(Between(a, b)))
           /\ Between(LastOf(Between(a, b)), b) = {}
<1> DEFINE B == Between(a, b)
<1>0. \A s : s \in CaptureSlots => s \in Int
    BY CaptureSlotsType
<1>1. \A s : s \in B <=> s \in CaptureSlots /\ a < s /\ s <= b
    BY DEF Between
<1>2. B # {} /\ B \in SUBSET ((a + 1) .. b) /\ B \in SUBSET Int /\ a + 1 \in Int
    BY <1>0, <1>1
<1>3. PICK t \in B : \A s \in B : s <= t
    <2> HIDE DEF B
    <2> QED BY <1>2, HasLast
<1>4. LastOf(B) = t
    <2> HIDE DEF B
    <2> QED BY <1>2, <1>3, LastOfIs
<1>5. t \in CaptureSlots /\ t \in Int /\ a < t /\ t <= b
    BY <1>0, <1>1, <1>3
<1>6. \A s : s \in CaptureSlots /\ a < s /\ s <= b <=> s \in CaptureSlots /\ a < s /\ s <= t
    <2> HIDE DEF B
    <2>1. \A s : s \in CaptureSlots /\ a < s /\ s <= b => s <= t
        BY <1>1, <1>3
    <2> QED BY <1>0, <1>5, <2>1
<1>7. Between(a, b) = Between(a, t)
    BY <1>6 DEF Between
<1>8. Between(t, b) = {}
    <2> SUFFICES ASSUME NEW s \in CaptureSlots, t < s, s <= b PROVE FALSE
        BY DEF Between
    <2>1. s \in Int /\ a < s BY <1>0, <1>5
    <2>2. s \in B BY <1>1, <2>1
    <2>3. s <= t BY <1>3, <2>2
    <2> QED BY <1>5, <2>1, <2>3
<1> QED BY <1>3, <1>4, <1>5, <1>7, <1>8

------------------------------------------------------------------------------
(* The order of the queue *)

Base == now \in 0 .. Horizon /\ inFlight \in Seq(Entries) /\ Control
QueueInv == Base /\ Queue

LEMMA HorizonIsNat == Horizon \in Nat /\ LastUpset \in 0 .. Horizon
BY CalendarAssumption

LEMMA ReachedIsInt ==
    ASSUME QueueInv
    PROVE  Reached \in Int
<1>1. last \in Int /\ slot \in Int
    BY HorizonIsNat DEF QueueInv, Base, Control
<1> QED BY <1>1 DEF Reached

\* A step that hands nothing on and queues nothing.
LEMMA QueueKept ==
    ASSUME Queue, inFlight \in Seq(Entries), heard' = heard, Len(inFlight') = Len(inFlight),
           \A i \in 1 .. Len(inFlight) : inFlight'[i].slots = inFlight[i].slots,
           NEW r \in Int, Reached' = r, Upto(Len(inFlight)) <= r,
           Between(Upto(Len(inFlight)), r) = {}
    PROVE  Queue'
<1>0. Len(inFlight) \in Nat BY LenProperties
<1>1. \A i \in 0 .. Len(inFlight) : Upto(i)' = Upto(i)
    BY <1>0 DEF Upto
<1>2. \A i \in 1 .. Len(inFlight) : i - 1 \in 0 .. Len(inFlight) /\ i \in 0 .. Len(inFlight)
    BY <1>0
<1>3. Len(inFlight) \in 0 .. Len(inFlight) BY <1>0
<1> QED BY SMTT(30), <1>1, <1>2, <1>3 DEF Queue, Between

\* A step that leaves the queue and the minute reached.
LEMMA QueueStays ==
    ASSUME QueueInv, heard' = heard, inFlight' = inFlight, Reached' = Reached
    PROVE  Queue'
<1> QED BY ReachedIsInt, QueueKept DEF QueueInv, Base, Queue

\* An entry of every capture slot since the queue's last joins its back.
LEMMA QueueAppended ==
    ASSUME QueueInv, heard' = heard, NEW e \in Entries, inFlight' = Append(inFlight, e),
           NEW r \in 0 .. Horizon, Reached' = r,
           e.slots = Between(Upto(Len(inFlight)), r), e.slots # {}
    PROVE  Queue'
<1>1. inFlight \in Seq(Entries) /\ Horizon \in Nat
    BY CalendarAssumption DEF QueueInv, Base
<1>2. PICK n \in Nat : n = Len(inFlight)
    BY <1>1, LenProperties
<1>a. \A i \in 0 .. n : Upto(i) \in 0 .. Horizon
    BY <1>2 DEF QueueInv, Queue
<1>b. \A i \in 1 .. n :
        inFlight[i].slots = Between(Upto(i - 1), Upto(i)) /\ Upto(i) \in inFlight[i].slots
    BY <1>2 DEF QueueInv, Queue
<1>3. PICK u \in 0 .. Horizon : u = Upto(n)
    BY <1>a
<1>4. u \in Int /\ r \in Int /\ e.slots = Between(u, r)
    BY <1>1, <1>2, <1>3
<1>5. PICK z : z = LastOf(e.slots)
    OBVIOUS
<1>6. /\ z \in e.slots /\ z \in u + 1 .. r
      /\ e.slots = Between(u, z) /\ Between(z, r) = {}
    BY <1>4, <1>5, BatchEnds
<1>7. z \in 0 .. Horizon /\ z <= r
    BY <1>1, <1>4, <1>6
<1>8. /\ Len(inFlight') = n + 1 /\ inFlight'[n + 1] = e
      /\ \A i \in 1 .. n : inFlight'[i] = inFlight[i]
    BY <1>1, <1>2, AppendProperties
<1>9. \A i \in 0 .. n : Upto(i)' = Upto(i)
    <2>1. \A i \in 0 .. n : i = 0 \/ i \in 1 .. n BY <1>2
    <2> QED BY <2>1, <1>8 DEF Upto
<1>10. Upto(n + 1)' = z
    BY <1>2, <1>5, <1>8 DEF Upto
<1>c. \A i \in 0 .. n + 1 : Upto(i)' \in 0 .. Horizon
    <2>1. \A i \in 0 .. n + 1 : i \in 0 .. n \/ i = n + 1 BY <1>2
    <2> QED BY <2>1, <1>7, <1>9, <1>10, <1>a
<1>d. ASSUME NEW i \in 1 .. n + 1
      PROVE  inFlight'[i].slots = Between(Upto(i - 1)', Upto(i)') /\ Upto(i)' \in inFlight'[i].slots
    <2>1. CASE i \in 1 .. n /\ i \in 0 .. n /\ i - 1 \in 0 .. n
        <3>1. Upto(i - 1)' = Upto(i - 1) /\ Upto(i)' = Upto(i) BY <2>1, <1>9
        <3> QED BY <2>1, <3>1, <1>8, <1>b
    <2>2. CASE i = n + 1 /\ i - 1 = n /\ n \in 0 .. n
        <3>1. Upto(n)' = u BY <2>2, <1>3, <1>9
        <3> QED BY <2>2, <3>1, <1>6, <1>8, <1>10
    <2>3. \/ i \in 1 .. n /\ i \in 0 .. n /\ i - 1 \in 0 .. n
          \/ i = n + 1 /\ i - 1 = n /\ n \in 0 .. n
        BY <1>2
    <2> QED BY <2>1, <2>2, <2>3
<1> QED BY <1>6, <1>7, <1>8, <1>10, <1>c, <1>d DEF Queue, Between

\* The front of the queue is handed on.
LEMMA QueueHandedOn ==
    ASSUME QueueInv, inFlight # <<>>, inFlight' = Tail(inFlight),
           heard' = LastOf(Head(inFlight).slots), Reached' = Reached
    PROVE  Queue' /\ Head(inFlight).slots = Between(heard, heard')
<1>1. inFlight \in Seq(Entries)
    BY DEF QueueInv, Base
<1>2. PICK n \in Nat : n = Len(inFlight)
    BY <1>1, LenProperties
<1>3. n # 0
    BY <1>1, <1>2, EmptySeq
<1>4. Len(inFlight') = n - 1 /\ \A i \in 1 .. n - 1 : inFlight'[i] = inFlight[i + 1]
    BY <1>1, <1>2, HeadTailProperties
<1>5. Head(inFlight) = inFlight[1]
    BY <1>1
<1>a. \A i \in 0 .. n : Upto(i) \in 0 .. Horizon
    BY <1>2 DEF QueueInv, Queue
<1>b. \A i \in 1 .. n :
        inFlight[i].slots = Between(Upto(i - 1), Upto(i)) /\ Upto(i) \in inFlight[i].slots
    BY <1>2 DEF QueueInv, Queue
<1>c. Upto(n) <= Reached /\ Between(Upto(n), Reached) = {}
    BY <1>2 DEF QueueInv, Queue
<1>6. \A i \in 0 .. n - 1 : Upto(i)' = Upto(i + 1)
    <2>1. Upto(0)' = Upto(1) BY <1>5 DEF Upto
    <2>2. ASSUME NEW i \in 1 .. n - 1 PROVE Upto(i)' = Upto(i + 1)
        BY <1>2, <1>4 DEF Upto
    <2>3. \A i \in 0 .. n - 1 : (i = 0 /\ i + 1 = 1) \/ i \in 1 .. n - 1 BY <1>2
    <2> QED BY <2>1, <2>2, <2>3
<1>d. \A i \in 0 .. n - 1 : Upto(i)' \in 0 .. Horizon
    <2>1. \A i \in 0 .. n - 1 : i + 1 \in 0 .. n BY <1>2
    <2> QED BY <2>1, <1>6, <1>a
<1>e. ASSUME NEW i \in 1 .. n - 1
      PROVE  inFlight'[i].slots = Between(Upto(i - 1)', Upto(i)') /\ Upto(i)' \in inFlight'[i].slots
    <2>1. /\ i + 1 \in 1 .. n /\ i \in 0 .. n - 1 /\ i - 1 \in 0 .. n - 1
          /\ (i + 1) - 1 = i /\ (i - 1) + 1 = i
        BY <1>2
    <2>2. Upto(i - 1)' = Upto(i) /\ Upto(i)' = Upto(i + 1)
        BY <2>1, <1>6
    <2> QED BY <2>1, <2>2, <1>4, <1>b
<1>f. Upto(n - 1)' = Upto(n)
    <2>1. n - 1 \in 0 .. n - 1 /\ (n - 1) + 1 = n BY <1>2, <1>3
    <2> QED BY <2>1, <1>6
<1>g. Queue'
    <2>1. Upto(Len(inFlight))' = Upto(n - 1)'
        BY <1>4 DEF Upto
    <2>2. (Upto(Len(inFlight)) <= Reached /\ Between(Upto(Len(inFlight)), Reached) = {})'
        BY <2>1, <1>c, <1>f DEF Between
    <2> QED BY <2>2, <1>4, <1>d, <1>e DEF Queue, Between
<1>h. Head(inFlight).slots = Between(Upto(0), Upto(1))
    <2>1. 1 \in 1 .. n /\ 1 - 1 = 0 BY <1>2, <1>3
    <2> QED BY <2>1, <1>5, <1>b
<1>i. Upto(0) = heard /\ Upto(1) = heard'
    BY <1>5 DEF Upto
<1> QED BY <1>g, <1>h, <1>i

\* A start and an end leave nothing queued.
LEMMA QueueEmpty ==
    ASSUME inFlight' = <<>>, NEW h \in 0 .. Horizon, heard' = h, Reached' = h
    PROVE  Queue'
<1>1. Len(inFlight') = 0 BY EmptySeq
<1>2. Upto(0)' = h BY DEF Upto
<1>3. Upto(Len(inFlight))' = h BY <1>1, <1>2 DEF Upto
<1>4. Horizon \in Nat BY CalendarAssumption
<1>5. {s \in CaptureSlots : h < s /\ s <= h} = {}
    <2>1. \A s \in Int : ~ (h < s /\ s <= h) BY <1>4
    <2> QED BY <2>1, CaptureSlotsType
<1>6. \A i \in 0 .. 0 : i = 0 OBVIOUS
<1>7. h <= h BY <1>4
<1> QED BY <1>1, <1>2, <1>3, <1>5, <1>6, <1>7 DEF Queue, Between
------------------------------------------------------------------------------
(* Every step keeps the types, the control and the queue *)

Quiet == UNCHANGED <<inFlight, heard>>

LEMMA EntryTypes ==
    /\ \A T \in SUBSET CaptureSlots : Missed(T) \in Entries /\ Missed(T).slots = T
    /\ \A s \in CaptureSlots : Cycle(s) \in Entries /\ Cycle(s).slots = {s}
BY DEF Missed, Cycle, Entries, Surfaces

\* A change to one entry that leaves its slots.
LEMMA EntryChanged ==
    ASSUME inFlight \in Seq(Entries), NEW i \in DOMAIN inFlight, NEW e \in Entries,
           e.slots = inFlight[i].slots, inFlight' = [inFlight EXCEPT ![i] = e]
    PROVE  /\ inFlight' \in Seq(Entries) /\ Len(inFlight') = Len(inFlight)
           /\ \A j \in 1 .. Len(inFlight) : inFlight'[j].slots = inFlight[j].slots
<1>1. i \in 1 .. Len(inFlight) BY LenProperties
<1>2. /\ inFlight' \in Seq(Entries) /\ Len(inFlight') = Len(inFlight)
      /\ \A j \in 1 .. Len(inFlight) : inFlight'[j] = IF j = i THEN e ELSE inFlight[j]
    BY <1>1, ExceptSeq
<1> QED BY <1>2

LEMMA CyclesKeep ==
    ASSUME QueueInv, NEW i \in DOMAIN inFlight,
           CycleDone(i) \/ CycleRaises(i) \/ \E sf \in Surfaces : LandSurface(i, sf)
    PROVE  QueueInv'
<1>1. inFlight \in Seq(Entries) /\ inFlight[i] \in Entries
    <2>1. inFlight \in Seq(Entries) BY DEF QueueInv, Base
    <2> QED BY <2>1, ElementOfSeq, LenProperties
<1>2. UNCHANGED <<now, loop, heard>>
    BY DEF CycleDone, CycleRaises, LandSurface, bounds
<1>3. PICK e \in Entries : e.slots = inFlight[i].slots /\ inFlight' = [inFlight EXCEPT ![i] = e]
    <2>1. CASE \E sf \in Surfaces : LandSurface(i, sf)
        <3>1. PICK sf \in Surfaces : LandSurface(i, sf) BY <2>1
        <3>2. [inFlight[i] EXCEPT !.left = @ \ {sf}] \in Entries
              /\ [inFlight[i] EXCEPT !.left = @ \ {sf}].slots = inFlight[i].slots
            BY <1>1 DEF Entries
        <3>3. inFlight' = [inFlight EXCEPT ![i] = [inFlight[i] EXCEPT !.left = @ \ {sf}]]
            BY <3>1 DEF LandSurface
        <3> QED BY <3>2, <3>3
    <2>2. ASSUME NEW st \in {"done", "raised"}, inFlight' = [inFlight EXCEPT ![i].state = st]
          PROVE  \E e \in Entries :
                    e.slots = inFlight[i].slots /\ inFlight' = [inFlight EXCEPT ![i] = e]
        <3>1. [inFlight[i] EXCEPT !.state = st] \in Entries
              /\ [inFlight[i] EXCEPT !.state = st].slots = inFlight[i].slots
            BY <1>1 DEF Entries
        <3> QED BY <3>1, <2>2
    <2> QED BY <2>1, <2>2 DEF CycleDone, CycleRaises
<1>4. /\ inFlight' \in Seq(Entries) /\ Len(inFlight') = Len(inFlight)
      /\ \A j \in 1 .. Len(inFlight) : inFlight'[j].slots = inFlight[j].slots
    BY <1>1, <1>3, EntryChanged
<1>5. Base'
    <2>1. pc = "down" => inFlight' = <<>>
        BY <1>1, LenProperties, EmptySeq DEF QueueInv, Base, Control
    <2> QED BY <1>2, <1>4, <2>1 DEF QueueInv, Base, Control, InTick, loop
<1>6. PICK r \in Int : r = Reached
    BY ReachedIsInt
<1>7. Reached' = r
    BY <1>2, <1>6 DEF Reached, InTick, loop
<1>8. Queue'
    BY <1>1, <1>2, <1>4, <1>6, <1>7, QueueKept DEF QueueInv, Queue
<1> QED BY <1>5, <1>8 DEF QueueInv

LEMMA GoneKeeps ==
    ASSUME QueueInv, Gone, now' = now
    PROVE  QueueInv'
<1>1. Horizon \in Nat BY CalendarAssumption
<1>2. Base'
    BY <1>1, EmptySeq DEF QueueInv, Base, Control, InTick, GuardAt, Gone
<1>3. Reached' = 0 /\ heard' = 0 /\ inFlight' = <<>> /\ 0 \in 0 .. Horizon
    BY <1>1 DEF Reached, InTick, GuardAt, Gone
<1> QED BY <1>2, <1>3, QueueEmpty DEF QueueInv

\* The clock's steps.
LEMMA ClockKeeps ==
    ASSUME QueueInv, Tick \/ Sleep \/ StepBack
    PROVE  QueueInv'
<1>1. UNCHANGED <<loop, inFlight, heard>>
    BY DEF Tick, Sleep, StepBack
<1>2. now' \in 0 .. Horizon
    <2>1. CASE Tick
        BY <2>1, HorizonIsNat DEF QueueInv, Base, Tick
    <2>2. CASE Sleep
        <3>1. PICK t \in now + 1 .. LastUpset : now' = t
            BY <2>2 DEF Sleep
        <3>2. now \in Nat /\ LastUpset \in Int /\ LastUpset <= Horizon
            BY HorizonIsNat DEF QueueInv, Base
        <3>3. t \in 0 .. Horizon
            BY <3>2, HorizonIsNat
        <3> QED BY <3>1, <3>3
    <2>3. CASE StepBack
        <3>1. now \in 1 .. LastUpset /\ now' = now - 1
            BY <2>3 DEF StepBack
        <3>2. \A t \in 1 .. LastUpset : t - 1 \in 0 .. Horizon
            BY HorizonIsNat
        <3> QED BY <3>1, <3>2
    <2> QED BY <2>1, <2>2, <2>3
<1>3. Reached' = Reached
    BY <1>1 DEF Reached, InTick, loop
<1>4. Base'
    BY <1>1, <1>2 DEF QueueInv, Base, Control, InTick, loop
<1> QED BY <1>1, <1>3, <1>4, QueueStays DEF QueueInv

LEMMA StartKeeps ==
    ASSUME QueueInv, Start
    PROVE  QueueInv'
<1>1. inFlight' = <<>>
    BY DEF QueueInv, Base, Control, Start
<1>2. Base'
    BY <1>1, HorizonIsNat DEF QueueInv, Base, Control, InTick, GuardAt, Start
<1>3. PICK h \in 0 .. Horizon : h = now
    BY DEF QueueInv, Base
<1>4. Reached' = h /\ heard' = h
    BY <1>3 DEF Reached, InTick, GuardAt, Start
<1> QED BY <1>1, <1>2, <1>4, QueueEmpty DEF QueueInv

LEMMA HandOnKeeps ==
    ASSUME QueueInv, HandOn
    PROVE  QueueInv' /\ Head(inFlight).slots = Between(heard, heard')
<1>1. inFlight' \in Seq(Entries)
    BY HeadTailProperties DEF QueueInv, Base, HandOn
<1>2. UNCHANGED <<now, loop>>
    BY DEF HandOn
<1>3. pc # "down"
    BY DEF HandOn
<1>4. Base'
    BY <1>1, <1>2, <1>3 DEF QueueInv, Base, Control, InTick, loop
<1>5. Reached' = Reached
    BY <1>2 DEF Reached, InTick, loop
<1> QED BY <1>4, <1>5, QueueHandedOn DEF QueueInv, HandOn

\* The missed slots are those since the last one queued.
LEMMA ReachTopKeeps ==
    ASSUME QueueInv, ReachTop
    PROVE  QueueInv'
<1>1. /\ pc = "wait" /\ pc' = "hand" /\ slot' = now /\ last' = last /\ heard' = heard
      /\ last < now /\ now' = now
    <2>1. top > last /\ {top, last, now} \subseteq Int
        BY HorizonIsNat DEF QueueInv, Base, Control, ReachTop
    <2>2. now >= top BY DEF ReachTop
    <2>3. last < now BY <2>1, <2>2
    <2> QED BY <2>3 DEF ReachTop
<1>2. PICK l \in 0 .. Horizon, t \in 0 .. Horizon, u \in 0 .. Horizon :
           l = last /\ t = now /\ u = Upto(Len(inFlight))
    <2>1. Len(inFlight) \in 0 .. Len(inFlight)
        BY LenProperties DEF QueueInv, Base
    <2>2. last \in 0 .. Horizon /\ now \in 0 .. Horizon
        BY DEF QueueInv, Base, Control
    <2> QED BY <2>1, <2>2 DEF QueueInv, Queue
<1>3. {l, t, u} \subseteq Int /\ t - 1 \in 0 .. Horizon /\ l < t
    BY <1>1, <1>2, HorizonIsNat
<1>4. Reached = l /\ Reached' = t - 1
    BY <1>1, <1>2 DEF Reached, InTick, GuardAt
<1>5. u <= l /\ Between(u, l) = {}
    BY <1>2, <1>4 DEF QueueInv, Queue
<1>6. MissedSlots(l, t) = Between(u, t - 1)
    <2>1. ASSUME NEW s \in CaptureSlots
          PROVE  l < s /\ s < t <=> u < s /\ s <= t - 1
        <3>1. s \in Int BY CaptureSlotsType
        <3>2. ~ (u < s /\ s <= l) BY <1>5 DEF Between
        <3> QED BY <3>1, <3>2, <1>3, <1>5
    <2> QED BY <2>1 DEF MissedSlots, Between
<1>7. CASE MissedSlots(l, t) = {}
    <2>1. inFlight' = inFlight
        BY <1>2, <1>7 DEF ReachTop
    <2>2. Base'
        BY <2>1, <1>1 DEF QueueInv, Base, Control, InTick, GuardAt, ReachTop
    <2>3. u <= t - 1
        BY <1>3, <1>5
    <2>4. Queue'
        BY <2>1, <2>3, <1>1, <1>2, <1>3, <1>4, <1>6, <1>7, QueueKept DEF QueueInv, Base
    <2> QED BY <2>2, <2>4 DEF QueueInv
<1>8. CASE MissedSlots(l, t) # {}
    <2>1. PICK e \in Entries : e.slots = MissedSlots(l, t) /\ inFlight' = Append(inFlight, e)
        <3>1. inFlight' = Append(inFlight, Missed(MissedSlots(l, t)))
            BY <1>2, <1>8 DEF ReachTop, Queued
        <3>2. MissedSlots(l, t) \in SUBSET CaptureSlots
            BY DEF MissedSlots
        <3> QED BY <3>1, <3>2, EntryTypes
    <2>2. inFlight' \in Seq(Entries)
        BY <2>1, AppendProperties DEF QueueInv, Base
    <2>3. Base'
        BY <2>2, <1>1 DEF QueueInv, Base, Control, InTick, GuardAt, ReachTop
    <2>4. Queue'
        BY <2>1, <1>1, <1>2, <1>3, <1>4, <1>6, <1>8, QueueAppended
    <2> QED BY <2>3, <2>4 DEF QueueInv
<1> QED BY <1>7, <1>8

\* A tick's own slot joins the queue as a cycle, on a capture slot.
LEMMA LaunchKeeps ==
    ASSUME QueueInv, Launch
    PROVE  QueueInv'
<1>1. PICK l \in 0 .. Horizon, t \in 0 .. Horizon, u \in 0 .. Horizon :
           l = last /\ t = slot /\ u = Upto(Len(inFlight))
    <2>1. Len(inFlight) \in 0 .. Len(inFlight)
        BY LenProperties DEF QueueInv, Base
    <2>2. last \in 0 .. Horizon /\ slot \in 0 .. Horizon
        BY DEF QueueInv, Base, Control
    <2> QED BY <2>1, <2>2 DEF QueueInv, Queue
<1>2. {l, t, u} \subseteq Int /\ now \in Int
    BY <1>1, HorizonIsNat DEF QueueInv, Base
<1>3. /\ pc' = "wait" /\ last' = t /\ slot' = t /\ heard' = heard /\ now' = now
      /\ top' > last' /\ top' \in Int
    BY <1>1, <1>2 DEF Launch, WaitFrom
<1>4. Reached = t - 1 /\ Reached' = t
    BY <1>1, <1>3 DEF Reached, InTick, GuardAt, Launch
<1>5. u <= t - 1 /\ Between(u, t - 1) = {}
    BY <1>1, <1>4 DEF QueueInv, Queue
<1>6. Between(u, t) = {t} \cap CaptureSlots
    <2>1. ASSUME NEW s \in CaptureSlots
          PROVE  u < s /\ s <= t <=> s = t
        <3>1. s \in Int BY CaptureSlotsType
        <3>2. ~ (u < s /\ s <= t - 1) BY <1>5 DEF Between
        <3> QED BY <3>1, <3>2, <1>2, <1>5
    <2> QED BY <2>1 DEF Between
<1>7. CASE t \notin CaptureSlots
    <2>1. inFlight' = inFlight
        BY <1>1, <1>7 DEF Launch
    <2>2. Base'
        BY <2>1, <1>3 DEF QueueInv, Base, Control, InTick, GuardAt
    <2>3. u <= t
        BY <1>2, <1>5
    <2>4. Between(u, t) = {}
        BY <1>6, <1>7
    <2>5. Queue'
        BY <2>1, <2>3, <2>4, <1>1, <1>2, <1>3, <1>4, QueueKept DEF QueueInv, Base
    <2> QED BY <2>2, <2>5 DEF QueueInv
<1>8. CASE t \in CaptureSlots
    <2>1. PICK e \in Entries : e.slots = {t} /\ inFlight' = Append(inFlight, e)
        <3>1. inFlight' = Append(inFlight, Cycle(t))
            BY <1>1, <1>8 DEF Launch
        <3> QED BY <3>1, <1>8, EntryTypes
    <2>2. inFlight' \in Seq(Entries)
        BY <2>1, AppendProperties DEF QueueInv, Base
    <2>3. Base'
        BY <2>2, <1>3 DEF QueueInv, Base, Control, InTick, GuardAt
    <2>4. e.slots = Between(Upto(Len(inFlight)), t) /\ e.slots # {}
        BY <2>1, <1>1, <1>6, <1>8
    <2>5. Queue'
        BY <2>1, <2>4, <1>3, <1>4, QueueAppended
    <2> QED BY <2>3, <2>5 DEF QueueInv
<1> QED BY <1>7, <1>8

\* The rest of an iteration queues nothing and hands nothing on.
LEMMA TickKeeps ==
    ASSUME QueueInv, CheckStart \/ HandedOn \/ TickGuard \/ TickCompact \/ SkippedGuard
    PROVE  QueueInv'
<1>1. UNCHANGED <<now, last, slot, inFlight, heard>> /\ pc # "down" /\ pc' # "wait"
    BY DEF CheckStart, HandedOn, TickGuard, TickCompact, SkippedGuard, CheckGuard
<1>2. InTick' = InTick /\ Control'
    <2>1. CASE CheckStart
        BY <2>1, <1>1 DEF QueueInv, Base, Control, InTick, GuardAt, CheckStart, CheckGuard
    <2>2. CASE HandedOn
        BY <2>2, <1>1 DEF QueueInv, Base, Control, InTick, GuardAt, HandedOn
    <2>3. CASE TickGuard
        BY <2>3, <1>1 DEF QueueInv, Base, Control, InTick, GuardAt, TickGuard, CheckGuard
    <2>4. CASE TickCompact
        BY <2>4, <1>1 DEF QueueInv, Base, Control, InTick, GuardAt, TickCompact
    <2>5. CASE SkippedGuard
        BY <2>5, <1>1 DEF QueueInv, Base, Control, InTick, GuardAt, SkippedGuard, CheckGuard
    <2> QED BY <2>1, <2>2, <2>3, <2>4, <2>5
<1>3. Reached' = Reached
    BY <1>1, <1>2 DEF Reached
<1> QED BY <1>1, <1>2, <1>3, QueueStays DEF QueueInv, Base

LEMMA GuardKeeps ==
    ASSUME QueueInv, GuardNext
    PROVE  QueueInv'
<1>1. /\ UNCHANGED <<now, ret, last, slot, top, inFlight, heard>>
      /\ pc \in GuardAt /\ pc' \in GuardAt \cup {ret}
    BY DEF GuardNext, GuardReads, SpotSettled, SpotAbsent, SpotMarked, OptionSettled,
           OptionOwed, OptionFilled, GuardStep, GuardAt
<1>2. ret \in {"startup", "compact", "launch"}
    BY <1>1 DEF QueueInv, Base, Control
<1>3. InTick' = InTick /\ Control'
    <2>1. CASE pc' \in GuardAt
        BY <2>1, <1>1, <1>2 DEF QueueInv, Base, Control, InTick, GuardAt
    <2>2. CASE pc' = ret
        BY <2>2, <1>1, <1>2 DEF QueueInv, Base, Control, InTick, GuardAt
    <2> QED BY <2>1, <2>2, <1>1
<1>4. Reached' = Reached
    BY <1>1, <1>3 DEF Reached
<1> QED BY <1>1, <1>3, <1>4, QueueStays DEF QueueInv, Base

LEMMA PassKeeps ==
    ASSUME QueueInv, PassNext
    PROVE  QueueInv'
<1>1. UNCHANGED <<now, last, slot, inFlight, heard>> /\ pc # "down"
    <2>1. CASE StartupPass BY <2>1 DEF StartupPass
    <2>2. CASE SkippedPass BY <2>2 DEF SkippedPass
    <2>3. CASE MarkSegment BY <2>3 DEF MarkSegment, loop
    <2>4. CASE PassDone BY <2>4 DEF PassDone
    <2> QED BY <2>1, <2>2, <2>3, <2>4 DEF PassNext
<1>2. InTick' = InTick /\ Control'
    <2>1. CASE StartupPass
        BY <2>1, <1>1 DEF QueueInv, Base, Control, InTick, GuardAt, StartupPass
    <2>2. CASE SkippedPass
        BY <2>2, <1>1 DEF QueueInv, Base, Control, InTick, GuardAt, SkippedPass
    <2>3. CASE MarkSegment
        BY <2>3, <1>1 DEF QueueInv, Base, Control, InTick, GuardAt, MarkSegment, loop
    <2>4. CASE PassDone
        <3>1. ret \in {"wait", "skipGuard"} /\ pc = "marking" /\ ret' = ret
            BY <2>4 DEF QueueInv, Base, Control, PassDone
        <3>2. CASE ret = "wait"
            <4>1. last \in Int /\ now \in Int
                BY HorizonIsNat DEF QueueInv, Base, Control
            <4>2. pc' = "wait" /\ top' > last' /\ top' \in Int
                BY <4>1, <3>2, <2>4, <1>1 DEF PassDone, WaitFrom
            <4> QED BY <4>2, <3>1, <3>2, <1>1 DEF QueueInv, Base, Control, InTick, GuardAt
        <3>3. CASE ret = "skipGuard"
            <4>1. pc' = "skipGuard" /\ top' = top
                BY <3>3, <2>4 DEF PassDone
            <4> QED BY <4>1, <3>1, <3>3, <1>1 DEF QueueInv, Base, Control, InTick, GuardAt
        <3> QED BY <3>1, <3>2, <3>3
    <2> QED BY <2>1, <2>2, <2>3, <2>4 DEF PassNext
<1>3. Reached' = Reached
    BY <1>1, <1>2 DEF Reached
<1> QED BY <1>1, <1>2, <1>3, QueueStays DEF QueueInv, Base

LEMMA SweepKeeps ==
    ASSUME QueueInv, SweepNext \/ OtherSweep
    PROVE  QueueInv'
<1>1. UNCHANGED <<now, loop, inFlight, heard>>
    BY DEF SweepNext, SweepBegins, SweepSeals, SweepCleans, SweepEnds, OtherSweep
<1>2. Base' /\ Reached' = Reached
    BY <1>1 DEF QueueInv, Base, Control, Reached, InTick, loop
<1> QED BY <1>1, <1>2, QueueStays DEF QueueInv

\* The loop, a cycle, the clock, the passes, the guard and the sweeps, and any
\* start or end of the daemon, keep the queue.
LEMMA QueueStep ==
    ASSUME QueueInv, [Next]_vars
    PROVE  QueueInv'
<1>1. CASE Crash \/ RaiseOn
    BY <1>1, GoneKeeps DEF Crash, RaiseOn
<1>2. CASE Cycles \/ \E i \in DOMAIN inFlight : CycleRaises(i)
    BY <1>2, CyclesKeep DEF Cycles
<1>3. CASE TickNext
    BY <1>3, ReachTopKeeps, LaunchKeeps, TickKeeps DEF TickNext
<1>4. CASE UNCHANGED vars
    <2>1. UNCHANGED <<now, loop, inFlight, heard>>
        BY <1>4 DEF vars
    <2>2. Base' /\ Reached' = Reached
        BY <2>1 DEF QueueInv, Base, Control, Reached, InTick, loop
    <2> QED BY <2>1, <2>2, QueueStays DEF QueueInv
<1> QED
    BY <1>1, <1>2, <1>3, <1>4, ClockKeeps, StartKeeps, HandOnKeeps, GuardKeeps, PassKeeps,
       SweepKeeps DEF Next, LoopNext

LEMMA QueueInit == Init => QueueInv
<1> SUFFICES ASSUME Init PROVE QueueInv
    OBVIOUS
<1>1. now = 0 /\ pc = "down" /\ last = 0 /\ slot = 0 /\ top = 0 /\ inFlight = <<>> /\ heard = 0
    BY DEF Init
<1>2. Base
    BY <1>1, HorizonIsNat, EmptySeq DEF Base, Control, InTick, GuardAt
<1>3. Len(inFlight) = 0 /\ Upto(0) = 0 /\ Reached = 0
    BY <1>1, EmptySeq DEF Upto, Reached, InTick, GuardAt
<1>4. Between(0, 0) = {}
    <2>1. \A s \in Int : ~ (0 < s /\ s <= 0) OBVIOUS
    <2> QED BY <2>1, CaptureSlotsType DEF Between
<1>5. \A i \in 0 .. 0 : i = 0 OBVIOUS
<1>6. 0 \in 0 .. Horizon BY HorizonIsNat
<1> QED BY <1>2, <1>3, <1>4, <1>5, <1>6 DEF QueueInv, Queue

\* The queue between the loop and the watchdog always holds each capture slot
\* not yet heard once, in order, through the minute the loop has reached:
\* whatever ticks are missed, cycles raise, clocks jump and daemons die.
THEOREM QueueInvariant == Spec => []QueueInv
<1>1. Init => QueueInv BY QueueInit
<1>2. QueueInv /\ [Next]_vars => QueueInv' BY QueueStep
<1> QED BY <1>1, <1>2, PTL DEF Spec

\* A queue that lost its front without the daemon's end was handed on.
LEMMA TailIsHandedOn ==
    ASSUME QueueInv, [Next]_vars, inFlight # <<>>, inFlight' = Tail(inFlight), pc' # "down"
    PROVE  HandOn
<1>0. inFlight \in Seq(Entries) BY DEF QueueInv, Base
<1>1. PICK n \in Nat : n = Len(inFlight) /\ n # 0 /\ Len(inFlight') = n - 1
    BY <1>0, LenProperties, EmptySeq, HeadTailProperties
<1>2. Len(inFlight') # Len(inFlight) /\ inFlight' # inFlight
    <2>1. n - 1 # n BY <1>1
    <2> QED BY <1>1, <2>1
<1>3. ~ Gone
    BY DEF Gone
<1>4. ~ (\E i \in DOMAIN inFlight :
           CycleDone(i) \/ CycleRaises(i) \/ \E sf \in Surfaces : LandSurface(i, sf))
    <2> SUFFICES ASSUME NEW i \in DOMAIN inFlight, 
                        CycleDone(i) \/ CycleRaises(i) \/ \E sf \in Surfaces : LandSurface(i, sf)
                 PROVE  FALSE
        OBVIOUS
    <2>1. \E e : inFlight' = [inFlight EXCEPT ![i] = e]
        BY DEF CycleDone, CycleRaises, LandSurface
    <2>2. DOMAIN inFlight' = DOMAIN inFlight
        BY <2>1
    <2>3. DOMAIN inFlight = 1 .. n /\ DOMAIN inFlight' = 1 .. n - 1
        <3>1. inFlight' \in Seq(Entries) BY <1>0, HeadTailProperties
        <3> QED BY <3>1, <1>0, <1>1, LenProperties
    <2>4. n \in 1 .. n /\ n \notin 1 .. n - 1
        BY <1>1
    <2> QED BY <2>2, <2>3, <2>4
<1>5. \A e \in Entries : inFlight' # Append(inFlight, e)
    <2>1. \A e \in Entries : Len(Append(inFlight, e)) = n + 1
        BY <1>0, <1>1, AppendProperties
    <2>2. n + 1 # n - 1 BY <1>1
    <2> QED BY <2>1, <2>2, <1>1
<1>6. ~ ReachTop /\ ~ Launch
    <2>1. MissedSlots(last, now) \in SUBSET CaptureSlots
        BY DEF MissedSlots
    <2>2. ReachTop => inFlight' = inFlight \/ inFlight' = Append(inFlight, Missed(MissedSlots(last, now)))
        BY DEF ReachTop, Queued
    <2>3. Launch => \/ inFlight' = inFlight
                    \/ slot \in CaptureSlots /\ inFlight' = Append(inFlight, Cycle(slot))
        BY DEF Launch
    <2> QED BY <2>1, <2>2, <2>3, <1>2, <1>5, EntryTypes
<1>7. ~ (Tick \/ Sleep \/ StepBack \/ Start \/ SweepNext \/ OtherSweep)
    BY <1>2 DEF Tick, Sleep, StepBack, Start, SweepNext, SweepBegins, SweepSeals, SweepCleans,
                SweepEnds, OtherSweep
<1>8. ~ (CheckStart \/ HandedOn \/ TickGuard \/ TickCompact \/ SkippedGuard)
    BY <1>2 DEF CheckStart, HandedOn, TickGuard, TickCompact, SkippedGuard
<1>9. ~ GuardNext
    BY <1>2 DEF GuardNext, GuardReads, SpotSettled, SpotAbsent, SpotMarked, OptionSettled,
                OptionOwed, OptionFilled, GuardStep
<1>10. ~ (StartupPass \/ SkippedPass)
    BY <1>2 DEF StartupPass, SkippedPass
<1>11. ~ (MarkSegment \/ PassDone)
    BY <1>2 DEF MarkSegment, PassDone
<1>12. vars' # vars
    BY <1>2 DEF vars
<1> QED
    BY <1>3, <1>4, <1>6, <1>7, <1>8, <1>9, <1>10, <1>11, <1>12
       DEF Next, Cycles, LoopNext, TickNext, PassNext, Crash, RaiseOn

\* The watchdog hears every capture minute of an incarnation, once and in
\* order, as a cycle's result or within a stall (daemon.py _hand_on).
THEOREM HandedInOrderAlways == Spec => HandedInOrder
<1>1. QueueInv /\ [Next]_vars =>
        [inFlight # <<>> /\ inFlight' = Tail(inFlight) /\ pc' # "down"
           => Head(inFlight).slots = {s \in CaptureSlots : heard < s /\ s <= heard'}]_vars
    BY TailIsHandedOn, HandOnKeeps DEF Between
<1> QED BY <1>1, QueueInvariant, PTL DEF Spec, HandedInOrder

------------------------------------------------------------------------------
(* Types *)

LoopTypes ==
    /\ now \in 0 .. Horizon
    /\ pc \in {"down", "checkStart", "startup", "wait", "hand", "tick", "compact",
               "skip", "skipGuard", "launch", "marking", "guard", "spot",
               "unobserved", "option", "fill"}
    /\ ret \in {"down", "startup", "compact", "launch", "wait", "skipGuard"}
    /\ {last, top, slot, guardLast, heard} \subseteq Minutes
    /\ {waiting, previous} \subseteq Minutes \cup {None}
    /\ {guardServed, compactServed} \subseteq {DayOf(t) : t \in Minutes} \cup {None}
    /\ skipped \subseteq CaptureSlots

LakeTypes ==
    /\ \A m \in marks : m.surface \in Surfaces /\ m.day \in Sessions
                        /\ m.slots \subseteq SlotsOf(m.day) /\ m.kind \in Kinds
    /\ lock \in {"free", "pass", "sweep"} /\ sweeps \in Nat
    /\ (scope \cup sealed \cup seen) \subseteq Surfaces \X Sessions
    /\ sealing \in (Surfaces \X Sessions) \cup {None}
    /\ {journal, partition} \subseteq [Surfaces -> [CaptureSlots -> Seq(Kinds)]]

BoundTypes == sleeps \in 0 .. MaxSleeps /\ crashes \in 0 .. MaxCrashes /\ faults \in 0 .. MaxFaults

LEMMA TypeParts == TypeOK <=> LoopTypes /\ LakeTypes /\ BoundTypes /\ inFlight \in Seq(Entries)
BY DEF TypeOK, LoopTypes, LakeTypes, BoundTypes

\* A write adds one row of a kind to some minutes of a surface.
LEMMA WrittenType ==
    ASSUME LakeTypes, NEW sf \in Surfaces, NEW T, NEW kind \in Kinds
    PROVE  Written(sf, T, kind) \in [Surfaces -> [CaptureSlots -> Seq(Kinds)]]
<1>1. journal \in [Surfaces -> [CaptureSlots -> Seq(Kinds)]]
    BY DEF LakeTypes
<1>2. \A s \in CaptureSlots : Append(journal[sf][s], kind) \in Seq(Kinds)
    <2>1. \A s \in CaptureSlots : journal[sf][s] \in Seq(Kinds) BY <1>1
    <2> QED BY <2>1, AppendProperties
<1>3. [s \in CaptureSlots |-> IF s \in T THEN Append(journal[sf][s], kind) ELSE journal[sf][s]]
        \in [CaptureSlots -> Seq(Kinds)]
    BY <1>1, <1>2
<1> QED BY <1>1, <1>3 DEF Written

LEMMA ClockAndBounds ==
    ASSUME BoundTypes, [Next]_vars
    PROVE  BoundTypes'
<1>1. MaxSleeps \in Nat /\ MaxCrashes \in Nat /\ MaxFaults \in Nat
    BY CalendarAssumption
<1>2. \A k, M \in Nat : k < M => k + 1 \in 0 .. M
    OBVIOUS
<1>3. sleeps \in Nat /\ crashes \in Nat /\ faults \in Nat
    BY <1>1 DEF BoundTypes
<1>4. CASE Tick \/ Sleep \/ StepBack \/ Start \/ Crash
    BY <1>1, <1>2, <1>3, <1>4 DEF BoundTypes, Tick, Sleep, StepBack, Start, Crash, bounds
<1>5. CASE Cycles \/ \E i \in DOMAIN inFlight : CycleRaises(i)
    BY <1>1, <1>2, <1>3, <1>5 DEF BoundTypes, Cycles, CycleDone, LandSurface, CycleRaises, bounds
<1>6. CASE TickNext
    BY <1>1, <1>2, <1>3, <1>6 DEF BoundTypes, TickNext, CheckStart, ReachTop, HandedOn, TickGuard,
                                 TickCompact, SkippedGuard, Launch, bounds
<1>7. CASE HandOn \/ RaiseOn \/ GuardNext
    BY <1>7 DEF BoundTypes, HandOn, RaiseOn, GuardNext, GuardReads, SpotSettled, SpotAbsent,
                SpotMarked, OptionSettled, OptionOwed, OptionFilled, GuardStep, bounds
<1>8. CASE PassNext
    <2>1. CASE StartupPass \/ SkippedPass \/ PassDone
        <3>1. UNCHANGED bounds
            BY <2>1 DEF StartupPass, SkippedPass, PassDone
        <3> QED BY <3>1 DEF BoundTypes, bounds
    <2>2. CASE MarkSegment
        <3>1. UNCHANGED <<sleeps, crashes>>
            BY <2>2 DEF MarkSegment
        <3>2. PICK m \in marks : LET name == <<m.surface, FirstOf(m.slots)>> IN
                 \/ UNCHANGED faults
                 \/ /\ name \in stamped \/ faults < MaxFaults
                    /\ faults' = IF name \in stamped THEN faults ELSE faults + 1
            BY <2>2 DEF MarkSegment
        <3>3. faults' = faults \/ (faults < MaxFaults /\ faults' = faults + 1)
            BY <3>2
        <3> QED BY <3>1, <3>3, <1>1, <1>2, <1>3 DEF BoundTypes
    <2> QED BY <1>8, <2>1, <2>2 DEF PassNext
<1>9. CASE SweepNext \/ OtherSweep \/ UNCHANGED vars
    BY <1>9 DEF BoundTypes, SweepNext, SweepBegins, SweepSeals, SweepCleans, SweepEnds, OtherSweep,
                vars, bounds
<1> QED BY <1>4, <1>5, <1>6, <1>7, <1>8, <1>9 DEF Next, LoopNext

\* The loop's minutes are those of the queue's invariant.
LEMMA QueueMinutes ==
    QueueInv => {now, last, slot, heard} \subseteq 0 .. Horizon
<1> SUFFICES ASSUME QueueInv PROVE {now, last, slot, heard} \subseteq 0 .. Horizon
    OBVIOUS
<1>1. 0 \in 0 .. Len(inFlight)
    BY LenProperties DEF QueueInv, Base
<1>2. Upto(0) = heard
    BY DEF Upto
<1> QED BY <1>1, <1>2 DEF QueueInv, Base, Control, Queue

LEMMA LoopTypesStep ==
    ASSUME LoopTypes, QueueInv, QueueInv', [Next]_vars
    PROVE  LoopTypes'
<1>1. /\ {now, last, slot, heard} \subseteq Minutes /\ 0 \in Minutes
      /\ {now', last', slot', heard'} \subseteq Minutes /\ now' \in 0 .. Horizon
      /\ {now + 1, last + 1, slot + 1} \subseteq Minutes
    <2>1. \A t \in 0 .. Horizon : t \in Minutes /\ t + 1 \in Minutes
        BY HorizonIsNat DEF Minutes
    <2>2. ({now, last, slot, heard} \subseteq 0 .. Horizon)'
        BY QueueMinutes, PTL
    <2>3. 0 \in 0 .. Horizon BY HorizonIsNat
    <2> QED BY <2>1, <2>2, <2>3, QueueMinutes
<1> DEFINE Hooks == <<top, guardLast, waiting, previous, guardServed, compactServed, skipped>>
<1>2. CASE UNCHANGED <<pc, ret, Hooks>>
    BY <1>1, <1>2 DEF LoopTypes
<1>3. CASE Start
    BY <1>1, <1>3 DEF LoopTypes, Start
<1>4. CASE Gone
    BY <1>1, <1>4 DEF LoopTypes, Gone
<1>5. CASE CheckStart
    BY <1>1, <1>5 DEF LoopTypes, CheckStart, CheckGuard
<1>6. CASE ReachTop
    BY <1>1, <1>6 DEF LoopTypes, ReachTop, MissedSlots, hooks
<1>7. CASE HandedOn
    BY <1>1, <1>7 DEF LoopTypes, HandedOn, hooks
<1>8. CASE TickGuard
    BY <1>1, <1>8 DEF LoopTypes, TickGuard, CheckGuard
<1>9. CASE TickCompact
    <2>1. UNCHANGED <<ret, top, guardLast, waiting, guardServed, skipped>>
          /\ previous' = slot /\ pc' \in {"launch", "skip"}
        BY <1>9 DEF TickCompact
    <2>2. compactServed' = compactServed \/ (previous \in Minutes /\ compactServed' = DayOf(previous))
        <3>1. CASE Dispatches
            BY <1>9, <3>1 DEF LoopTypes, TickCompact, Dispatches
        <3>2. CASE ~ Dispatches
            BY <1>9, <3>2 DEF TickCompact
        <3> QED BY <3>1, <3>2
    <2> QED BY <2>1, <2>2, <1>1 DEF LoopTypes
<1>10. CASE SkippedGuard
    <2>1. UNCHANGED <<top, guardLast, previous, compactServed, skipped>> /\ waiting' = None
        BY <1>10 DEF SkippedGuard
    <2>2. \/ pc' = "launch" /\ UNCHANGED <<ret, guardServed>>
          \/ waiting \in Minutes /\ pc' = "guard" /\ ret' = "launch" /\ guardServed' = DayOf(waiting)
        BY <1>10 DEF LoopTypes, SkippedGuard, CheckGuard
    <2> QED BY <2>1, <2>2, <1>1 DEF LoopTypes
<1>11. CASE Launch
    BY <1>1, <1>11 DEF LoopTypes, Launch, WaitFrom, hooks
<1>12. CASE GuardNext
    <2>1. UNCHANGED <<ret, Hooks>> /\ pc' \in GuardAt \cup {ret} /\ pc \in GuardAt
        BY <1>12 DEF GuardNext, GuardReads, SpotSettled, SpotAbsent, SpotMarked, OptionSettled,
                     OptionOwed, OptionFilled, GuardStep, GuardAt, hooks
    <2>2. ret \in {"startup", "compact", "launch"}
        BY <2>1 DEF QueueInv, Base, Control
    <2> QED BY <2>1, <2>2, <1>1 DEF LoopTypes, GuardAt
<1>13. CASE StartupPass
    BY <1>1, <1>13 DEF LoopTypes, StartupPass, hooks
<1>14. CASE SkippedPass
    BY <1>1, <1>14 DEF LoopTypes, SkippedPass, hooks
<1>15. CASE PassDone
    <2>1. ret \in {"wait", "skipGuard"}
        BY <1>15 DEF QueueInv, Base, Control, PassDone
    <2> QED BY <2>1, <1>1, <1>15 DEF LoopTypes, PassDone, WaitFrom, hooks
<1>16. (Tick \/ Sleep \/ StepBack \/ HandOn \/ MarkSegment \/ SweepNext \/ OtherSweep
          \/ UNCHANGED vars) => UNCHANGED <<pc, ret, Hooks>>
    <2>1. MarkSegment => UNCHANGED <<pc, ret, Hooks>>
        BY DEF MarkSegment, loop, hooks
    <2>2. SweepNext \/ OtherSweep => UNCHANGED <<pc, ret, Hooks>>
        BY DEF SweepNext, SweepBegins, SweepSeals, SweepCleans, SweepEnds, OtherSweep, loop, hooks
    <2>3. Tick \/ Sleep \/ StepBack \/ HandOn \/ UNCHANGED vars => UNCHANGED <<pc, ret, Hooks>>
        BY DEF Tick, Sleep, StepBack, HandOn, vars, loop, hooks
    <2> QED BY <2>1, <2>2, <2>3
<1>17. (Cycles \/ \E i \in DOMAIN inFlight : CycleRaises(i)) => UNCHANGED <<pc, ret, Hooks>>
    BY DEF Cycles, CycleDone, LandSurface, CycleRaises, loop, hooks
<1> HIDE DEF Hooks
<1> QED
    BY <1>2, <1>3, <1>4, <1>5, <1>6, <1>7, <1>8, <1>9, <1>10, <1>11, <1>12, <1>13, <1>14, <1>15,
       <1>16, <1>17 DEF Next, LoopNext, TickNext, PassNext, Crash, RaiseOn

LakeVars == <<marks, seen, lock, sweeps, scope, sealing, journal, partition, sealed>>

LEMMA LakeTypesStay ==
    ASSUME LakeTypes, UNCHANGED LakeVars
    PROVE  LakeTypes'
BY DEF LakeTypes, LakeVars

\* The loop's own steps, the clock's and the queue's touch none of it.
LEMMA LakeUntouched ==
    ASSUME \/ Tick \/ Sleep \/ StepBack \/ Start \/ HandOn
           \/ \E i \in DOMAIN inFlight : CycleDone(i) \/ CycleRaises(i)
           \/ CheckStart \/ ReachTop \/ HandedOn \/ TickGuard \/ SkippedGuard \/ Launch
           \/ SpotSettled \/ SpotAbsent \/ OptionSettled \/ OptionOwed
           \/ UNCHANGED vars
    PROVE  UNCHANGED LakeVars
<1>1. Tick \/ Sleep \/ StepBack \/ Start \/ HandOn => UNCHANGED LakeVars
    BY DEF Tick, Sleep, StepBack, Start, HandOn, LakeVars, pass, sweep, lake
<1>2. (\E i \in DOMAIN inFlight : CycleDone(i) \/ CycleRaises(i)) => UNCHANGED LakeVars
    BY DEF CycleDone, CycleRaises, LakeVars, pass, sweep, lake
<1>3. CheckStart \/ ReachTop \/ HandedOn \/ TickGuard \/ SkippedGuard \/ Launch
        => UNCHANGED LakeVars
    BY DEF CheckStart, ReachTop, HandedOn, TickGuard, SkippedGuard, Launch, LakeVars, pass, sweep,
           lake
<1>4. SpotSettled \/ SpotAbsent \/ OptionSettled \/ OptionOwed => UNCHANGED LakeVars
    BY DEF SpotSettled, SpotAbsent, OptionSettled, OptionOwed, GuardStep, LakeVars, sweep
<1>5. UNCHANGED vars => UNCHANGED LakeVars
    BY DEF vars, LakeVars, pass, sweep, lake
<1> QED BY <1>1, <1>2, <1>3, <1>4, <1>5

\* The passes' segments are of a surface and a day.
LEMMA PassTypes ==
    ASSUME LakeTypes, StartupPass \/ SkippedPass \/ MarkSegment \/ PassDone
    PROVE  LakeTypes'
<1>1. CASE StartupPass
    <2>1. \A m \in marks' : m.surface \in Surfaces /\ m.day \in Sessions
                            /\ m.slots \subseteq SlotsOf(m.day) /\ m.kind \in Kinds
        BY <1>1 DEF StartupPass, Segment, Missing, Kinds
    <2>2. UNCHANGED <<seen, sweeps, scope, sealing, journal, partition, sealed>> /\ lock' = "pass"
        BY <1>1 DEF StartupPass, sweep, lake
    <2> QED BY <2>1, <2>2 DEF LakeTypes
<1>2. CASE SkippedPass
    <2>1. \A m \in marks' : m.surface \in Surfaces /\ m.day \in Sessions
                            /\ m.slots \subseteq SlotsOf(m.day) /\ m.kind \in Kinds
        BY <1>2 DEF SkippedPass, Segment, Kinds
    <2>2. /\ UNCHANGED <<seen, sweeps, scope, sealing, journal, partition, sealed>>
          /\ lock' \in {"pass", lock}
        BY <1>2 DEF SkippedPass, sweep, lake
    <2> QED BY <2>1, <2>2 DEF LakeTypes
<1>3. CASE MarkSegment
    <2>1. UNCHANGED <<seen, lock, sweeps, scope, sealing, partition, sealed>> /\ marks' \subseteq marks
        BY <1>3 DEF MarkSegment, sweep
    <2>2. journal' \in [Surfaces -> [CaptureSlots -> Seq(Kinds)]]
        <3>1. PICK m \in marks : journal' = Written(m.surface, m.slots, m.kind) \/ journal' = journal
            BY <1>3 DEF MarkSegment
        <3>2. m.surface \in Surfaces /\ m.kind \in Kinds
            BY DEF LakeTypes
        <3>3. CASE journal' = Written(m.surface, m.slots, m.kind)
            BY <3>2, <3>3, WrittenType
        <3>4. CASE journal' = journal
            BY <3>4 DEF LakeTypes
        <3> QED BY <3>1, <3>3, <3>4
    <2> QED BY <2>1, <2>2 DEF LakeTypes
<1>4. CASE PassDone
    BY <1>4 DEF PassDone, LakeTypes, pass, sweep, lake
<1> QED BY <1>1, <1>2, <1>3, <1>4

LEMMA SweepTypes ==
    ASSUME LakeTypes, SweepNext \/ OtherSweep
    PROVE  LakeTypes'
<1>1. CASE SweepBegins
    <2>1. SweepScope \subseteq Surfaces \X Sessions BY DEF SweepScope
    <2>2. sweeps' \in Nat /\ lock' = "sweep" /\ scope' = SweepScope
        BY <1>1 DEF SweepBegins, LakeTypes
    <2>3. UNCHANGED <<marks, seen, sealing, journal, partition, sealed>>
        BY <1>1 DEF SweepBegins, pass, lake
    <2> QED BY <2>1, <2>2, <2>3 DEF LakeTypes
<1>2. CASE SweepSeals
    <2>1. PICK sd \in scope :
            /\ scope' = scope \ {sd} /\ sealing' = sd /\ sealed' = sealed \cup {sd}
            /\ partition' = IF sd \in sealed THEN partition
               ELSE [partition EXCEPT ![sd[1]] = [s \in CaptureSlots |->
                       IF s \in SlotsOf(sd[2]) THEN journal[sd[1]][s] ELSE @[s]]]
        BY <1>2 DEF SweepSeals
    <2>2. sd \in Surfaces \X Sessions /\ sd[1] \in Surfaces
        BY DEF LakeTypes
    <2>3. UNCHANGED <<marks, seen, lock, sweeps, journal>>
        BY <1>2 DEF SweepSeals, pass
    <2>4. partition' \in [Surfaces -> [CaptureSlots -> Seq(Kinds)]]
        <3>1. /\ journal \in [Surfaces -> [CaptureSlots -> Seq(Kinds)]]
              /\ partition \in [Surfaces -> [CaptureSlots -> Seq(Kinds)]]
            BY DEF LakeTypes
        <3>2. [s \in CaptureSlots |->
                 IF s \in SlotsOf(sd[2]) THEN journal[sd[1]][s] ELSE partition[sd[1]][s]]
                \in [CaptureSlots -> Seq(Kinds)]
            BY <2>2, <3>1
        <3> QED BY <2>1, <2>2, <3>1, <3>2
    <2> QED BY <2>1, <2>2, <2>3, <2>4 DEF LakeTypes
<1>3. CASE SweepCleans
    <2>1. sealing \in Surfaces \X Sessions /\ sealing[1] \in Surfaces /\ sealing' = None
        BY <1>3 DEF SweepCleans, LakeTypes
    <2>2. UNCHANGED <<marks, seen, lock, sweeps, scope, partition, sealed>>
        BY <1>3 DEF SweepCleans, pass
    <2>3. journal' \in [Surfaces -> [CaptureSlots -> Seq(Kinds)]]
        <3>1. journal \in [Surfaces -> [CaptureSlots -> Seq(Kinds)]] /\ <<>> \in Seq(Kinds)
            BY EmptySeq DEF LakeTypes
        <3>2. [s \in CaptureSlots |->
                 IF s \in SlotsOf(sealing[2]) THEN <<>> ELSE journal[sealing[1]][s]]
                \in [CaptureSlots -> Seq(Kinds)]
            BY <2>1, <3>1
        <3> QED BY <1>3, <2>1, <3>1, <3>2 DEF SweepCleans
    <2> QED BY <2>1, <2>2, <2>3 DEF LakeTypes
<1>4. CASE SweepEnds
    BY <1>4 DEF SweepEnds, LakeTypes, pass, sweep, lake
<1>5. CASE OtherSweep
    BY <1>5 DEF OtherSweep, LakeTypes, pass, lake
<1> QED BY <1>1, <1>2, <1>3, <1>4, <1>5 DEF SweepNext

\* A cycle's segment, the guard's marker and its fill add a row.
LEMMA WriteTypes ==
    ASSUME LakeTypes,
           \/ \E i \in DOMAIN inFlight : \E sf \in Surfaces : LandSurface(i, sf)
           \/ SpotMarked \/ OptionFilled
    PROVE  LakeTypes'
<1>1. UNCHANGED <<marks, seen, lock, sweeps, scope, sealing, partition, sealed>>
    BY DEF LandSurface, SpotMarked, OptionFilled, GuardStep, pass, sweep
<1>2. /\ "data" \in Kinds /\ "gap" \in Kinds /\ "unobserved" \in Kinds /\ "fill" \in Kinds
      /\ "quotes" \in Surfaces /\ "chains" \in Surfaces
      /\ \A sf, s : Landings(sf, s) \subseteq Kinds
    BY DEF Kinds, Surfaces, Landings
<1>3. \/ journal' = journal
      \/ \E sf \in Surfaces, kind \in Kinds : \E T : journal' = Written(sf, T, kind)
    <2>1. ASSUME NEW i \in DOMAIN inFlight, NEW sf \in Surfaces, LandSurface(i, sf)
          PROVE  journal' = journal \/ \E kind \in Kinds : \E T : journal' = Written(sf, T, kind)
        BY <2>1, <1>2 DEF LandSurface
    <2>2. SpotMarked => \/ journal' = journal
                        \/ journal' = Written("quotes", {At(guardServed, EquityClose)}, "unobserved")
        BY DEF SpotMarked
    <2>3. OptionFilled => \/ journal' = journal
                          \/ journal' = Written("chains", {At(guardServed, OptionClose)}, "fill")
        BY DEF OptionFilled
    <2> QED BY <2>1, <2>2, <2>3, <1>2
<1>4. journal' \in [Surfaces -> [CaptureSlots -> Seq(Kinds)]]
    BY <1>3, WrittenType DEF LakeTypes
<1> QED BY <1>1, <1>4 DEF LakeTypes

LEMMA LakeTypesStep ==
    ASSUME LakeTypes, [Next]_vars
    PROVE  LakeTypes'
<1>1. CASE Crash \/ RaiseOn
    BY <1>1 DEF Crash, RaiseOn, Gone, LakeTypes, sweep, lake
<1>2. CASE GuardReads
    BY <1>2 DEF GuardReads, GuardStep, LakeTypes, sweep
<1>3. CASE TickCompact
    <2>1. UNCHANGED <<marks, seen, lock, scope, sealing, journal, partition, sealed>>
        BY <1>3 DEF TickCompact, pass, lake
    <2>2. sweeps' = sweeps \/ sweeps' = sweeps + 1
        BY <1>3 DEF TickCompact
    <2> QED BY <2>1, <2>2 DEF LakeTypes
<1> QED
    BY <1>1, <1>2, <1>3, LakeUntouched, LakeTypesStay, PassTypes, SweepTypes, WriteTypes
       DEF Next, Cycles, LoopNext, TickNext, GuardNext, PassNext

\* Every variable keeps its type, whatever the hazards.
THEOREM TypesAlways == Spec => []TypeOK
<1>1. Init => LoopTypes /\ LakeTypes /\ BoundTypes
    <2> SUFFICES ASSUME Init PROVE LoopTypes /\ LakeTypes /\ BoundTypes
        OBVIOUS
    <2>1. 0 \in Minutes /\ 0 \in 0 .. Horizon
        BY HorizonIsNat DEF Minutes
    <2>2. LoopTypes
        BY <2>1 DEF Init, LoopTypes
    <2>3. <<>> \in Seq(Kinds)
        BY EmptySeq
    <2>4. journal \in [Surfaces -> [CaptureSlots -> Seq(Kinds)]] /\ partition = journal
        BY <2>3 DEF Init
    <2>5. LakeTypes
        BY <2>4 DEF Init, LakeTypes
    <2>6. BoundTypes
        <3>1. MaxSleeps \in Nat /\ MaxCrashes \in Nat /\ MaxFaults \in Nat
            BY CalendarAssumption
        <3> QED BY <3>1 DEF Init, BoundTypes
    <2> QED BY <2>2, <2>5, <2>6
<1>2. QueueInv /\ QueueInv' /\ (LoopTypes /\ LakeTypes /\ BoundTypes) /\ [Next]_vars
        => (LoopTypes /\ LakeTypes /\ BoundTypes)'
    BY LoopTypesStep, LakeTypesStep, ClockAndBounds
<1>3. QueueInv /\ LoopTypes /\ LakeTypes /\ BoundTypes => TypeOK
    BY TypeParts DEF QueueInv, Base
<1> QED BY <1>1, <1>2, <1>3, QueueInvariant, PTL DEF Spec

(***************************************************************************)
(* The calendar.                                                           *)
(***************************************************************************)
LEMMA CalendarTypes ==
    /\ DayLength \in Nat /\ 0 < DayLength
    /\ Open \in Nat /\ EquityClose \in Nat /\ OptionClose \in Nat /\ Deadline \in Nat
    /\ CloseFifteen \in Nat
    /\ Open <= EquityClose /\ EquityClose < OptionClose /\ OptionClose < Deadline
    /\ Deadline < CloseFifteen /\ CloseFifteen < DayLength
    /\ Sessions \subseteq Nat /\ \A d \in Sessions : 0 < d
    /\ None \notin Nat
<1>1. {Open, EquityClose, OptionClose, Deadline, CloseFifteen} \subseteq Nat
  BY CalendarAssumption
<1>2. Sessions \subseteq Nat /\ \A d \in Sessions : 0 < d
  <2>1. Sessions \subseteq Nat \ {0}
    BY CalendarAssumption
  <2>2. \A d \in Nat \ {0} : 0 < d
    OBVIOUS
  <2> QED BY <2>1, <2>2
<1>3. /\ DayLength \in Nat /\ None \notin Nat
      /\ Open <= EquityClose /\ EquityClose < OptionClose /\ OptionClose < Deadline
      /\ Deadline < CloseFifteen /\ CloseFifteen < DayLength
  BY CalendarAssumption
<1>4. 0 < DayLength
  BY <1>1, <1>3
<1> QED BY <1>1, <1>2, <1>3, <1>4

LEMMA TimesMonotone ==
    ASSUME NEW a \in Nat, NEW b \in Nat, NEW k \in Nat, a <= b
    PROVE  a * k <= b * k
<1>1. PICK c \in Nat : b = a + c
    <2>1. b - a \in Nat /\ b = a + (b - a)
        OBVIOUS
    <2> QED BY <2>1
<1>2. b * k = a * k + c * k
    BY <1>1
<1>3. a * k \in Nat /\ c * k \in Nat
    OBVIOUS
<1> QED BY <1>2, <1>3

\* A day's minutes lie before the next day's.
LEMMA DaysApart ==
    ASSUME NEW d \in Nat, NEW e \in Nat, 0 < d, d < e, NEW x \in Nat, x < DayLength, NEW y \in Nat
    PROVE  At(d, x) \in Nat /\ At(d, x) < At(e, y)
<1>0. DayLength \in Nat /\ d - 1 \in Nat /\ e - 1 \in Nat /\ d <= e - 1
    BY CalendarTypes
<1>1. d * DayLength <= (e - 1) * DayLength
    BY <1>0, TimesMonotone
<1>2. d * DayLength = (d - 1) * DayLength + DayLength
    BY <1>0
<1>3. (d - 1) * DayLength \in Nat /\ (e - 1) * DayLength \in Nat
    BY <1>0
<1> QED BY <1>0, <1>1, <1>2, <1>3 DEF At

\* A minute's day.
LEMMA DayOfIs ==
    ASSUME NEW t \in Nat
    PROVE  /\ DayOf(t) \in Nat /\ 0 < DayOf(t)
           /\ At(DayOf(t), 0) <= t /\ t < At(DayOf(t) + 1, 0)
<1>1. DayLength \in Nat /\ 0 < DayLength
    BY CalendarTypes
<1>2. PICK q \in Nat : q = t \div DayLength
    BY <1>1
<1>3. q * DayLength <= t /\ t < (q + 1) * DayLength
    BY <1>1, <1>2
<1>4. DayOf(t) = q + 1 /\ (q + 1) - 1 = q /\ (q + 1 + 1) - 1 = q + 1
    BY <1>2 DEF DayOf
<1>5. q * DayLength \in Nat /\ (q + 1) * DayLength \in Nat
    BY <1>1
<1> QED BY <1>3, <1>4, <1>5 DEF At

LEMMA DayOfAt ==
    ASSUME NEW d \in Nat, 0 < d, NEW t \in Nat, At(d, 0) <= t, t < At(d + 1, 0)
    PROVE  DayOf(t) = d
<1>1. PICK e \in Nat : e = DayOf(t) /\ 0 < e /\ At(e, 0) <= t /\ t < At(e + 1, 0)
    BY DayOfIs
<1>2. 0 \in Nat /\ 0 < DayLength /\ d + 1 \in Nat /\ e + 1 \in Nat
    BY CalendarTypes
<1>3. At(d, 0) \in Nat /\ At(e, 0) \in Nat /\ At(d + 1, 0) \in Nat /\ At(e + 1, 0) \in Nat
    BY <1>1, <1>2, DaysApart
<1>4. ~ (d < e)
    <2> SUFFICES ASSUME d < e PROVE FALSE
        OBVIOUS
    <2>1. d + 1 = e \/ d + 1 < e
        OBVIOUS
    <2>2. d + 1 < e => At(d + 1, 0) < At(e, 0)
        BY <1>2, DaysApart
    <2>3. At(d + 1, 0) <= At(e, 0)
        BY <2>1, <2>2, <1>3
    <2> QED BY <2>3, <1>1, <1>3
<1>5. ~ (e < d)
    <2> SUFFICES ASSUME e < d PROVE FALSE
        OBVIOUS
    <2>1. e + 1 = d \/ e + 1 < d
        OBVIOUS
    <2>2. e + 1 < d => At(e + 1, 0) < At(d, 0)
        BY <1>1, <1>2, DaysApart
    <2>3. At(e + 1, 0) <= At(d, 0)
        BY <2>1, <2>2, <1>3
    <2> QED BY <2>3, <1>1, <1>3
<1> QED BY <1>1, <1>4, <1>5

LEMMA AtIs ==
    ASSUME NEW d \in Nat, 0 < d, NEW x \in Nat
    PROVE  At(d, x) \in Nat /\ At(d, x) = At(d, 0) + x
<1>1. DayLength \in Nat /\ d - 1 \in Nat
    BY CalendarTypes
<1>2. (d - 1) * DayLength \in Nat
    BY <1>1
<1> QED BY <1>2 DEF At

\* The moments of a day in their order.
LEMMA DayOrder ==
    ASSUME NEW d \in Nat, 0 < d
    PROVE  /\ At(d, 0) \in Nat /\ At(d, Open) \in Nat /\ At(d, EquityClose) \in Nat
           /\ At(d, OptionClose) \in Nat /\ At(d, Deadline) \in Nat /\ At(d, CloseFifteen) \in Nat
           /\ At(d, 0) <= At(d, Open) /\ At(d, Open) <= At(d, EquityClose)
           /\ At(d, EquityClose) < At(d, OptionClose) /\ At(d, OptionClose) < At(d, Deadline)
           /\ At(d, Deadline) < At(d, CloseFifteen)
<1>1. \A x \in Nat : At(d, x) \in Nat /\ At(d, x) = At(d, 0) + x
    BY AtIs
<1> QED BY <1>1, CalendarTypes

\* A day is over before the next one opens.
LEMMA DayEnds ==
    ASSUME NEW d \in Nat, 0 < d
    PROVE  /\ At(d + 1, 0) \in Nat /\ At(d + 1, Open) \in Nat
           /\ At(d, CloseFifteen) < At(d + 1, 0) /\ At(d + 1, 0) <= At(d + 1, Open)
<1>1. d + 1 \in Nat /\ 0 < d + 1 /\ d < d + 1
    OBVIOUS
<1>2. At(d + 1, 0) \in Nat /\ At(d + 1, Open) \in Nat /\ At(d + 1, Open) = At(d + 1, 0) + Open
    <2>1. 0 \in Nat /\ Open \in Nat
        BY CalendarTypes
    <2> QED BY <1>1, <2>1, AtIs
<1>3. At(d, CloseFifteen) < At(d + 1, 0)
    BY <1>1, DaysApart, CalendarTypes
<1> QED BY <1>2, <1>3, CalendarTypes

LEMMA LaterDay ==
    ASSUME NEW d \in Nat, NEW e \in Nat, 0 < d, d < e
    PROVE  At(d + 1, Open) <= At(e, Open) /\ At(d + 1, 0) <= At(e, 0)
<1>1. d + 1 = e \/ (d + 1 < e /\ d + 1 \in Nat /\ 0 < d + 1)
    OBVIOUS
<1>2. Open \in Nat /\ Open < DayLength /\ 0 \in Nat /\ 0 < DayLength
    BY CalendarTypes
<1>3. d + 1 < e => At(d + 1, Open) < At(e, Open) /\ At(d + 1, 0) < At(e, 0)
    BY <1>1, <1>2, DaysApart
<1>4. At(d + 1, Open) \in Nat /\ At(e, Open) \in Nat /\ At(d + 1, 0) \in Nat /\ At(e, 0) \in Nat
    <2>1. d + 1 \in Nat /\ 0 < d + 1 /\ 0 < e
        OBVIOUS
    <2> QED BY <2>1, <1>2, AtIs
<1> QED BY <1>1, <1>3, <1>4

\* A session's slots are those whose day it is.
LEMMA SlotsAre ==
    ASSUME NEW d \in Sessions, NEW s \in SlotsOf(d)
    PROVE  /\ s \in CaptureSlots /\ s \in Nat /\ DayOf(s) = d
           /\ At(d, Open) <= s /\ s <= At(d, OptionClose)
<1>1. d \in Nat /\ 0 < d
    BY CalendarTypes
<1>2. s \in At(d, Open) .. At(d, OptionClose) /\ s \in CaptureSlots
    BY DEF SlotsOf, CaptureSlots
<1>3. s \in Nat /\ At(d, Open) <= s /\ s <= At(d, OptionClose)
    <2>1. PICK a \in Nat, b \in Nat : a = At(d, Open) /\ b = At(d, OptionClose)
        BY <1>1, DayOrder
    <2>2. s \in a .. b
        BY <1>2, <2>1
    <2> QED BY <2>1, <2>2
<1>4. At(d, 0) <= s /\ s < At(d + 1, 0)
    <2>1. At(d, 0) <= s /\ s < At(d, CloseFifteen) /\ At(d, CloseFifteen) \in Nat
        BY <1>1, <1>3, DayOrder
    <2>2. At(d, CloseFifteen) < At(d + 1, 0) /\ At(d + 1, 0) \in Nat
        BY <1>1, DayEnds
    <2> QED BY <1>3, <2>1, <2>2
<1>5. DayOf(s) = d
    BY <1>1, <1>3, <1>4, DayOfAt
<1> QED BY <1>2, <1>3, <1>5

LEMMA SlotIs ==
    ASSUME NEW s \in CaptureSlots
    PROVE  /\ s \in Nat /\ DayOf(s) \in Sessions /\ s \in SlotsOf(DayOf(s))
           /\ At(DayOf(s), Open) <= s /\ s <= At(DayOf(s), OptionClose)
<1>1. PICK d \in Sessions : s \in SlotsOf(d)
    BY DEF CaptureSlots
<1> QED BY <1>1, SlotsAre

\* The two closes and the probes are slots of their day.
LEMMA ClosesAreSlots ==
    ASSUME NEW d \in Sessions
    PROVE  At(d, EquityClose) \in SlotsOf(d) /\ At(d, OptionClose) \in SlotsOf(d)
<1>1. d \in Nat /\ 0 < d
    BY CalendarTypes
<1> QED BY <1>1, DayOrder DEF SlotsOf

\* Past close+5 of its day a minute is no capture slot.
LEMMA NoSlotPastClose ==
    ASSUME NEW t \in Nat, t >= At(DayOf(t), Deadline)
    PROVE  t \notin CaptureSlots
<1> SUFFICES ASSUME t \in CaptureSlots PROVE FALSE
    OBVIOUS
<1>1. DayOf(t) \in Nat /\ 0 < DayOf(t) /\ t <= At(DayOf(t), OptionClose)
    BY SlotIs, DayOfIs
<1> QED BY <1>1, DayOrder

\* Of two minutes the one of the later day is later.
LEMMA LaterMinute ==
    ASSUME NEW s \in Nat, NEW t \in Nat, DayOf(s) < DayOf(t)
    PROVE  s < t
<1>1. DayOf(s) \in Nat /\ 0 < DayOf(s) /\ DayOf(t) \in Nat /\ 0 < DayOf(t)
      /\ s < At(DayOf(s) + 1, 0) /\ At(DayOf(t), 0) <= t
    BY DayOfIs
<1>2. At(DayOf(s) + 1, 0) <= At(DayOf(t), 0)
    BY <1>1, LaterDay
<1>3. At(DayOf(s) + 1, 0) \in Nat /\ At(DayOf(t), 0) \in Nat
    BY <1>1, DayOrder, DayEnds
<1> QED BY <1>1, <1>2, <1>3

\* A minute from a day's close+5 on is of that day or of a later one.
LEMMA DayReached ==
    ASSUME NEW d \in Sessions, NEW t \in Nat, At(d, Deadline) <= t
    PROVE  /\ d <= DayOf(t)
           /\ d = DayOf(t) => PastCloseGuard(t)
<1>1. d \in Nat /\ 0 < d /\ DayOf(t) \in Nat /\ 0 < DayOf(t) /\ t < At(DayOf(t) + 1, 0)
    BY CalendarTypes, DayOfIs
<1>2. ~ (DayOf(t) < d)
    <2> SUFFICES ASSUME DayOf(t) < d PROVE FALSE
        OBVIOUS
    <2>1. At(DayOf(t) + 1, 0) <= At(d, 0)
        BY <1>1, LaterDay
    <2>2. At(DayOf(t) + 1, 0) \in Nat /\ At(d, 0) \in Nat /\ At(d, Deadline) \in Nat
          /\ At(d, 0) <= At(d, Deadline)
        BY <1>1, DayOrder, DayEnds
    <2> QED BY <1>1, <2>1, <2>2
<1>3. d = DayOf(t) => PastCloseGuard(t)
    BY DEF PastCloseGuard, InSession
<1> QED BY <1>1, <1>2, <1>3

(***************************************************************************)
(* The hazards and the promptness the rest is about.                       *)
(***************************************************************************)

\* The disk may refuse rows and markers.  No process seals beside the loop's
\* own dispatch, and the wall clock only goes forward.
QuietHazards == Hazards \subseteq {"lost write", "failed mark"}

\* A cycle is over before the next day opens: a fetch does not hang overnight.
CyclesPrompt ==
    \A i \in DOMAIN inFlight : inFlight[i].state = "running" =>
      \A s \in inFlight[i].slots : now < At(DayOf(s) + 1, Open)

\* A compaction is dispatched with no close+5 between the tick it fell due at
\* and its start, so that every day it finds past close+5 had its own guard.
DispatchPrompt ==
    pc = "compact" /\ Dispatches =>
      \A d \in Sessions : ~ (previous < At(d, Deadline) /\ At(d, Deadline) <= now)
Prompt == CyclesPrompt /\ DispatchPrompt

(***************************************************************************)
(* Where the loop is.                                                      *)
(***************************************************************************)
\* Before the startup pass has derived its marks, and until it has written them.
Unmarked == pc \in {"checkStart", "startup"} \/ (pc \in GuardAt /\ ret = "startup")
Starting == Unmarked \/ (pc = "marking" /\ ret = "wait")
\* Before a tick's guard, its compaction and its gap pass.
PreGuard == Starting \/ pc \in {"wait", "hand", "tick"}
PreCompact == PreGuard \/ pc = "compact" \/ (pc \in GuardAt /\ ret = "compact")
PreSkip == pc \in {"hand", "tick", "compact", "skip"} \/ (pc \in GuardAt /\ ret = "compact")
Skipping == pc = "skipGuard" \/ (pc = "marking" /\ ret = "skipGuard")

\* A tick's slots lie behind the clock, and its skipped ones between its two.
LoopClock ==
    /\ pc # "down" => last <= now
    /\ InTick => slot <= now /\ skipped = MissedSlots(last, slot)
    /\ pc = "checkStart" => now = last

\* A startup is alone: nothing in flight, no sweep.  A pass that locks marks.
LoopLocks ==
    /\ Starting => inFlight = <<>> /\ sweeps = 0 /\ lock # "sweep"
    /\ pc # "marking" => marks = {}
    /\ lock = "pass" => pc = "marking"
    /\ pc = "marking" /\ ret = "wait" => lock = "pass"

\* The minutes the hooks keep are those of this tick or of the last one.
LoopHooks ==
    /\ PreGuard => guardLast = last
    /\ InTick /\ pc \notin {"hand", "tick"} => guardLast = slot
    /\ pc = "down" => previous = None
    /\ PreCompact => previous \in {None, last}
    /\ InTick /\ ~ PreCompact => previous = slot
    /\ waiting # None => waiting = slot /\ (pc \in {"compact", "skip"} \/ Skipping)
    /\ waiting # None => \E d \in Sessions : At(d, EquityClose) \in skipped
    /\ pc = "skip" \/ Skipping => skipped # {}

\* Past close+5 of a day its guard ran, runs or waits for the pass.
GuardTimes ==
    /\ pc \notin {"down", "checkStart"} /\ PastCloseGuard(guardLast) =>
         guardServed = DayOf(guardLast) \/ waiting = guardLast
    /\ pc \in GuardAt =>
         /\ PastCloseGuard(guardLast) /\ guardServed = DayOf(guardLast)
         /\ ret = "compact" => At(guardServed, EquityClose) \notin skipped
         /\ waiting = None

LoopInv == LoopClock /\ LoopLocks /\ LoopHooks /\ GuardTimes

------------------------------------------------------------------------------
\* What is already known under every hazard.
Context == TypeOK /\ QueueInv

LEMMA ContextTypes ==
    ASSUME Context
    PROVE  /\ now \in Nat /\ last \in Nat /\ slot \in Nat /\ guardLast \in Nat
           /\ waiting = None \/ waiting \in Nat
           /\ previous = None \/ previous \in Nat
<1>1. Minutes \subseteq Nat /\ 0 .. Horizon \subseteq Nat
    BY HorizonIsNat DEF Minutes
<1>2. now \in 0 .. Horizon /\ {last, slot, guardLast} \subseteq Minutes
      /\ {waiting, previous} \subseteq Minutes \cup {None}
    BY DEF Context, TypeOK
<1> QED BY <1>1, <1>2

LEMMA GuardPlaces == Context /\ pc \in GuardAt => ret \in {"startup", "compact", "launch"}
BY DEF Context, QueueInv, Base, Control

\* The clock only goes forward, and not between a start and its dispatch check.
LEMMA ClockForward ==
    ASSUME Context, QuietHazards, Tick \/ Sleep
    PROVE  /\ now' \in Nat /\ now < now' /\ pc # "checkStart"
           /\ \A d \in Sessions : sweeps > 0 /\ At(d, Deadline) <= now' => At(d, Deadline) <= now
           /\ UNCHANGED <<loop, inFlight, hooks, pass, lock, sweep, lake, stamped, heard, lost,
                          crashes, faults>>
<1>0. now \in Nat
    BY ContextTypes
<1>1. PICK t \in Nat : now < t /\ now' = t /\ ~ Overtakes(t)
    <2>1. CASE Tick
        BY <2>1, <1>0 DEF Tick
    <2>2. CASE Sleep
        <3>1. PICK t \in now + 1 .. LastUpset : now' = t /\ ~ Overtakes(t)
            BY <2>2 DEF Sleep
        <3>2. t \in Nat /\ now < t
            BY <3>1, <1>0, HorizonIsNat
        <3> QED BY <3>1, <3>2
    <2> QED BY <2>1, <2>2
<1>2. ASSUME NEW d \in Sessions, sweeps > 0, At(d, Deadline) <= t PROVE At(d, Deadline) <= now
    <2> SUFFICES ASSUME ~ (At(d, Deadline) <= now) PROVE FALSE
        OBVIOUS
    <2>1. d \in Nat /\ 0 < d
        BY CalendarTypes
    <2>2. PICK m \in Nat : m = At(d, Deadline)
        BY <2>1, DayOrder
    <2>3. At(d, 0) <= m /\ m < At(d + 1, 0)
        <3>1. At(d, 0) <= m /\ m < At(d, CloseFifteen) /\ At(d, CloseFifteen) \in Nat
            BY <2>1, <2>2, DayOrder
        <3>2. At(d, CloseFifteen) < At(d + 1, 0) /\ At(d + 1, 0) \in Nat
            BY <2>1, DayEnds
        <3> QED BY <2>2, <3>1, <3>2
    <2>4. DayOf(m) = d
        BY <2>1, <2>2, <2>3, DayOfAt
    <2>5. m \in now + 1 .. t
        BY <1>0, <1>1, <1>2, <2>2
    <2>6. "overnight" \notin Hazards
        BY DEF QuietHazards
    <2> QED BY <1>1, <1>2, <2>2, <2>4, <2>5, <2>6 DEF Overtakes
<1>3. pc # "checkStart"
    BY DEF Tick, Sleep, QuietHazards
<1>4. UNCHANGED <<loop, inFlight, hooks, pass, lock, sweep, lake, stamped, heard, lost,
                  crashes, faults>>
    BY DEF Tick, Sleep, bounds
<1> QED BY <1>1, <1>2, <1>3, <1>4

\* What the hazards left out do not take.
LEMMA QuietNext ==
    ASSUME QuietHazards, Next
    PROVE  ~ StepBack /\ ~ OtherSweep /\ (Start => sweeps = 0 /\ lock # "sweep")
BY DEF QuietHazards, StepBack, OtherSweep, Start

LEMMA Unmoved ==
    ASSUME UNCHANGED vars
    PROVE  UNCHANGED <<now, loop, inFlight, hooks, pass, lock, sweep, lake, stamped, heard, lost,
                      bounds>>
BY DEF vars

\* What the passes and the daemon's end say of the loop.
LEMMA PassPlaces ==
    ASSUME Context
    PROVE  /\ pc = "marking" => ret \in {"wait", "skipGuard"}
           /\ pc = "down" => inFlight = <<>>
BY DEF Context, QueueInv, Base, Control

\* A cycle that goes on is in the queue, and moves nothing of the loop's.
LEMMA CyclesAside ==
    ASSUME Cycles \/ \E i \in DOMAIN inFlight : CycleRaises(i)
    PROVE  /\ inFlight # <<>>
           /\ UNCHANGED <<now, loop, hooks, pass, lock, sweep, partition, sealed, stamped, heard>>
<1>1. \E i : i \in DOMAIN inFlight
    BY DEF Cycles
<1>2. DOMAIN <<>> = {}
    OBVIOUS
<1>3. UNCHANGED <<now, loop, hooks, pass, lock, sweep, partition, sealed, stamped, heard>>
    BY DEF Cycles, CycleDone, LandSurface, CycleRaises, lake
<1> QED BY <1>1, <1>2, <1>3

LEMMA LoopClockStep ==
    ASSUME Context, LoopInv, QuietHazards, [Next]_vars
    PROVE  LoopClock'
<1>0. now \in Nat /\ last \in Nat /\ slot \in Nat
    BY ContextTypes
<1>1. CASE Start
    <2>1. now' = now /\ last' = now /\ pc' = "checkStart"
        BY <1>1 DEF Start
    <2>2. ~ InTick'
        BY <2>1 DEF InTick, GuardAt
    <2> QED BY <1>0, <2>1, <2>2 DEF LoopClock
<1>2. CASE Crash
    BY <1>2, <1>0, GuardPlaces, PassPlaces DEF LoopInv, LoopClock, InTick, GuardAt, loop, Crash, Gone
<1>3. CASE RaiseOn
    BY <1>3, <1>0, GuardPlaces, PassPlaces DEF LoopInv, LoopClock, InTick, GuardAt, loop, RaiseOn, Gone
<1>4. CASE HandOn
    BY <1>4, <1>0, GuardPlaces, PassPlaces DEF LoopInv, LoopClock, InTick, GuardAt, loop, HandOn
<1>5. CASE CheckStart
    BY <1>5, <1>0, GuardPlaces, PassPlaces DEF LoopInv, LoopClock, InTick, GuardAt, loop, CheckStart, CheckGuard
<1>6. CASE ReachTop
    BY <1>6, <1>0, GuardPlaces, PassPlaces DEF LoopInv, LoopClock, InTick, GuardAt, loop, ReachTop
<1>7. CASE HandedOn
    BY <1>7, <1>0, GuardPlaces, PassPlaces DEF LoopInv, LoopClock, InTick, GuardAt, loop, HandedOn
<1>8. CASE TickGuard
    BY <1>8, <1>0, GuardPlaces, PassPlaces DEF LoopInv, LoopClock, InTick, GuardAt, loop, TickGuard, CheckGuard
<1>9. CASE TickCompact
    BY <1>9, <1>0, GuardPlaces, PassPlaces DEF LoopInv, LoopClock, InTick, GuardAt, loop, TickCompact
<1>10. CASE SkippedGuard
    BY <1>10, <1>0, GuardPlaces, PassPlaces DEF LoopInv, LoopClock, InTick, GuardAt, loop, SkippedGuard, CheckGuard
<1>11. CASE Launch
    BY <1>11, <1>0, GuardPlaces, PassPlaces DEF LoopInv, LoopClock, InTick, GuardAt, loop, Launch, WaitFrom
<1>12. CASE GuardReads
    BY <1>12, <1>0, GuardPlaces, PassPlaces DEF LoopInv, LoopClock, InTick, GuardAt, loop, GuardReads, GuardStep
<1>13. CASE SpotSettled
    BY <1>13, <1>0, GuardPlaces, PassPlaces DEF LoopInv, LoopClock, InTick, GuardAt, loop, SpotSettled, GuardStep
<1>14. CASE SpotAbsent
    BY <1>14, <1>0, GuardPlaces, PassPlaces DEF LoopInv, LoopClock, InTick, GuardAt, loop, SpotAbsent, GuardStep
<1>15. CASE SpotMarked
    BY <1>15, <1>0, GuardPlaces, PassPlaces DEF LoopInv, LoopClock, InTick, GuardAt, loop, SpotMarked, GuardStep
<1>16. CASE OptionSettled
    BY <1>16, <1>0, GuardPlaces, PassPlaces DEF LoopInv, LoopClock, InTick, GuardAt, loop, OptionSettled, GuardStep
<1>17. CASE OptionOwed
    BY <1>17, <1>0, GuardPlaces, PassPlaces DEF LoopInv, LoopClock, InTick, GuardAt, loop, OptionOwed, GuardStep
<1>18. CASE OptionFilled
    BY <1>18, <1>0, GuardPlaces, PassPlaces DEF LoopInv, LoopClock, InTick, GuardAt, loop, OptionFilled, GuardStep
<1>19. CASE StartupPass
    BY <1>19, <1>0, GuardPlaces, PassPlaces DEF LoopInv, LoopClock, InTick, GuardAt, loop, StartupPass
<1>20. CASE SkippedPass
    BY <1>20, <1>0, GuardPlaces, PassPlaces DEF LoopInv, LoopClock, InTick, GuardAt, loop, SkippedPass
<1>21. CASE MarkSegment
    BY <1>21, <1>0, GuardPlaces, PassPlaces DEF LoopInv, LoopClock, InTick, GuardAt, loop, MarkSegment
<1>22. CASE PassDone
    BY <1>22, <1>0, GuardPlaces, PassPlaces DEF LoopInv, LoopClock, InTick, GuardAt, loop, PassDone, WaitFrom
<1>23. CASE SweepBegins
    BY <1>23, <1>0, GuardPlaces, PassPlaces DEF LoopInv, LoopClock, InTick, GuardAt, loop, SweepBegins
<1>24. CASE SweepSeals
    BY <1>24, <1>0, GuardPlaces, PassPlaces DEF LoopInv, LoopClock, InTick, GuardAt, loop, SweepSeals
<1>25. CASE SweepCleans
    BY <1>25, <1>0, GuardPlaces, PassPlaces DEF LoopInv, LoopClock, InTick, GuardAt, loop, SweepCleans
<1>26. CASE SweepEnds
    BY <1>26, <1>0, GuardPlaces, PassPlaces DEF LoopInv, LoopClock, InTick, GuardAt, loop, SweepEnds
<1>27. CASE Tick \/ Sleep
    BY <1>27, <1>0, GuardPlaces, PassPlaces, ClockForward DEF LoopInv, LoopClock, InTick, GuardAt, loop
<1>28. CASE UNCHANGED vars
    BY <1>28, Unmoved DEF LoopInv, LoopClock, InTick, GuardAt, loop
<1>29. CASE Cycles \/ \E i \in DOMAIN inFlight : CycleRaises(i)
    BY <1>29, CyclesAside DEF LoopInv, LoopClock, InTick, GuardAt, loop
<1> QED BY <1>1, <1>2, <1>3, <1>4, <1>5, <1>6, <1>7, <1>8, <1>9, <1>10, <1>11, <1>12, <1>13, <1>14, <1>15, <1>16, <1>17, <1>18, <1>19, <1>20, <1>21, <1>22, <1>23, <1>24, <1>25, <1>26, <1>27, <1>28, <1>29, QuietNext
       DEF Next, LoopNext, TickNext, PassNext, GuardNext, SweepNext

LEMMA LoopLocksStep ==
    ASSUME Context, LoopInv, QuietHazards, [Next]_vars
    PROVE  LoopLocks'
<1>1. CASE Start
    BY <1>1, GuardPlaces, PassPlaces DEF LoopInv, LoopLocks, Starting, Unmarked, GuardAt, QuietHazards, loop, pass, sweep, Start
<1>2. CASE Crash
    BY <1>2, GuardPlaces, PassPlaces DEF LoopInv, LoopLocks, Starting, Unmarked, GuardAt, QuietHazards, loop, pass, sweep, Crash, Gone
<1>3. CASE RaiseOn
    BY <1>3, GuardPlaces, PassPlaces DEF LoopInv, LoopLocks, Starting, Unmarked, GuardAt, QuietHazards, loop, pass, sweep, RaiseOn, Gone
<1>4. CASE HandOn
    BY <1>4, GuardPlaces, PassPlaces DEF LoopInv, LoopLocks, Starting, Unmarked, GuardAt, QuietHazards, loop, pass, sweep, HandOn
<1>5. CASE CheckStart
    BY <1>5, GuardPlaces, PassPlaces DEF LoopInv, LoopLocks, Starting, Unmarked, GuardAt, QuietHazards, loop, pass, sweep, CheckStart, CheckGuard
<1>6. CASE ReachTop
    BY <1>6, GuardPlaces, PassPlaces DEF LoopInv, LoopLocks, Starting, Unmarked, GuardAt, QuietHazards, loop, pass, sweep, ReachTop
<1>7. CASE HandedOn
    BY <1>7, GuardPlaces, PassPlaces DEF LoopInv, LoopLocks, Starting, Unmarked, GuardAt, QuietHazards, loop, pass, sweep, HandedOn
<1>8. CASE TickGuard
    BY <1>8, GuardPlaces, PassPlaces DEF LoopInv, LoopLocks, Starting, Unmarked, GuardAt, QuietHazards, loop, pass, sweep, TickGuard, CheckGuard
<1>9. CASE TickCompact
    BY <1>9, GuardPlaces, PassPlaces DEF LoopInv, LoopLocks, Starting, Unmarked, GuardAt, QuietHazards, loop, pass, sweep, TickCompact
<1>10. CASE SkippedGuard
    BY <1>10, GuardPlaces, PassPlaces DEF LoopInv, LoopLocks, Starting, Unmarked, GuardAt, QuietHazards, loop, pass, sweep, SkippedGuard, CheckGuard
<1>11. CASE Launch
    BY <1>11, GuardPlaces, PassPlaces DEF LoopInv, LoopLocks, Starting, Unmarked, GuardAt, QuietHazards, loop, pass, sweep, Launch, WaitFrom
<1>12. CASE GuardReads
    BY <1>12, GuardPlaces, PassPlaces DEF LoopInv, LoopLocks, Starting, Unmarked, GuardAt, QuietHazards, loop, pass, sweep, GuardReads, GuardStep
<1>13. CASE SpotSettled
    BY <1>13, GuardPlaces, PassPlaces DEF LoopInv, LoopLocks, Starting, Unmarked, GuardAt, QuietHazards, loop, pass, sweep, SpotSettled, GuardStep
<1>14. CASE SpotAbsent
    BY <1>14, GuardPlaces, PassPlaces DEF LoopInv, LoopLocks, Starting, Unmarked, GuardAt, QuietHazards, loop, pass, sweep, SpotAbsent, GuardStep
<1>15. CASE SpotMarked
    BY <1>15, GuardPlaces, PassPlaces DEF LoopInv, LoopLocks, Starting, Unmarked, GuardAt, QuietHazards, loop, pass, sweep, SpotMarked, GuardStep
<1>16. CASE OptionSettled
    BY <1>16, GuardPlaces, PassPlaces DEF LoopInv, LoopLocks, Starting, Unmarked, GuardAt, QuietHazards, loop, pass, sweep, OptionSettled, GuardStep
<1>17. CASE OptionOwed
    BY <1>17, GuardPlaces, PassPlaces DEF LoopInv, LoopLocks, Starting, Unmarked, GuardAt, QuietHazards, loop, pass, sweep, OptionOwed, GuardStep
<1>18. CASE OptionFilled
    BY <1>18, GuardPlaces, PassPlaces DEF LoopInv, LoopLocks, Starting, Unmarked, GuardAt, QuietHazards, loop, pass, sweep, OptionFilled, GuardStep
<1>19. CASE StartupPass
    BY <1>19, GuardPlaces, PassPlaces DEF LoopInv, LoopLocks, Starting, Unmarked, GuardAt, QuietHazards, loop, pass, sweep, StartupPass
<1>20. CASE SkippedPass
    BY <1>20, GuardPlaces, PassPlaces DEF LoopInv, LoopLocks, Starting, Unmarked, GuardAt, QuietHazards, loop, pass, sweep, SkippedPass
<1>21. CASE MarkSegment
    BY <1>21, GuardPlaces, PassPlaces DEF LoopInv, LoopLocks, Starting, Unmarked, GuardAt, QuietHazards, loop, pass, sweep, MarkSegment
<1>22. CASE PassDone
    BY <1>22, GuardPlaces, PassPlaces DEF LoopInv, LoopLocks, Starting, Unmarked, GuardAt, QuietHazards, loop, pass, sweep, PassDone, WaitFrom
<1>23. CASE SweepBegins
    <2>1. sweeps > 0 /\ UNCHANGED <<pc, ret, inFlight, marks>> /\ lock' = "sweep" /\ lock = "free"
        BY <1>23 DEF SweepBegins, loop, pass
    <2>2. sweeps # 0
        BY <2>1
    <2> QED BY <2>1, <2>2 DEF LoopInv, LoopLocks, Starting, Unmarked
<1>24. CASE SweepSeals
    BY <1>24, GuardPlaces, PassPlaces DEF LoopInv, LoopLocks, Starting, Unmarked, GuardAt, QuietHazards, loop, pass, sweep, SweepSeals
<1>25. CASE SweepCleans
    BY <1>25, GuardPlaces, PassPlaces DEF LoopInv, LoopLocks, Starting, Unmarked, GuardAt, QuietHazards, loop, pass, sweep, SweepCleans
<1>26. CASE SweepEnds
    BY <1>26, GuardPlaces, PassPlaces DEF LoopInv, LoopLocks, Starting, Unmarked, GuardAt, QuietHazards, loop, pass, sweep, SweepEnds
<1>27. CASE Tick \/ Sleep
    BY <1>27, GuardPlaces, PassPlaces, ClockForward DEF LoopInv, LoopLocks, Starting, Unmarked, GuardAt, QuietHazards, loop, pass, sweep
<1>28. CASE UNCHANGED vars
    BY <1>28, Unmoved DEF LoopInv, LoopLocks, Starting, Unmarked, loop, pass, sweep
<1>29. CASE Cycles \/ \E i \in DOMAIN inFlight : CycleRaises(i)
    BY <1>29, CyclesAside DEF LoopInv, LoopLocks, Starting, Unmarked, GuardAt, QuietHazards, loop, pass, sweep
<1> QED BY <1>1, <1>2, <1>3, <1>4, <1>5, <1>6, <1>7, <1>8, <1>9, <1>10, <1>11, <1>12, <1>13, <1>14, <1>15, <1>16, <1>17, <1>18, <1>19, <1>20, <1>21, <1>22, <1>23, <1>24, <1>25, <1>26, <1>27, <1>28, <1>29, QuietNext
       DEF Next, LoopNext, TickNext, PassNext, GuardNext, SweepNext

LEMMA LoopHooksStep ==
    ASSUME Context, LoopInv, QuietHazards, [Next]_vars
    PROVE  LoopHooks'
<1>0. now \in Nat /\ last \in Nat /\ slot \in Nat
    BY ContextTypes
<1>1. CASE Start
    BY <1>1, <1>0, GuardPlaces, PassPlaces DEF LoopInv, LoopClock, LoopHooks, Starting, Unmarked, PreGuard, PreCompact, Skipping, InTick, GuardAt, loop, hooks, Start
<1>2. CASE Crash
    BY <1>2, <1>0, GuardPlaces, PassPlaces DEF LoopInv, LoopClock, LoopHooks, Starting, Unmarked, PreGuard, PreCompact, Skipping, InTick, GuardAt, loop, hooks, Crash, Gone
<1>3. CASE RaiseOn
    BY <1>3, <1>0, GuardPlaces, PassPlaces DEF LoopInv, LoopClock, LoopHooks, Starting, Unmarked, PreGuard, PreCompact, Skipping, InTick, GuardAt, loop, hooks, RaiseOn, Gone
<1>4. CASE HandOn
    BY <1>4, <1>0, GuardPlaces, PassPlaces DEF LoopInv, LoopClock, LoopHooks, Starting, Unmarked, PreGuard, PreCompact, Skipping, InTick, GuardAt, loop, hooks, HandOn
<1>5. CASE CheckStart
    BY <1>5, <1>0, GuardPlaces, PassPlaces DEF LoopInv, LoopClock, LoopHooks, Starting, Unmarked, PreGuard, PreCompact, Skipping, InTick, GuardAt, loop, hooks, CheckStart, CheckGuard
<1>6. CASE ReachTop
    BY <1>6, <1>0, GuardPlaces, PassPlaces DEF LoopInv, LoopClock, LoopHooks, Starting, Unmarked, PreGuard, PreCompact, Skipping, InTick, GuardAt, loop, hooks, ReachTop
<1>7. CASE HandedOn
    BY <1>7, <1>0, GuardPlaces, PassPlaces DEF LoopInv, LoopClock, LoopHooks, Starting, Unmarked, PreGuard, PreCompact, Skipping, InTick, GuardAt, loop, hooks, HandedOn
<1>8. CASE TickGuard
    BY <1>8, <1>0, GuardPlaces DEF LoopInv, LoopClock, LoopHooks, Starting, Unmarked, SkipsEquityClose, PreGuard, PreCompact, InTick, Skipping, GuardAt, TickGuard, CheckGuard
<1>9. CASE TickCompact
    BY <1>9, <1>0, GuardPlaces, PassPlaces DEF LoopInv, LoopClock, LoopHooks, Starting, Unmarked, PreGuard, PreCompact, Skipping, InTick, GuardAt, loop, hooks, TickCompact
<1>10. CASE SkippedGuard
    BY <1>10, <1>0, GuardPlaces, PassPlaces DEF LoopInv, LoopClock, LoopHooks, Starting, Unmarked, PreGuard, PreCompact, Skipping, InTick, GuardAt, loop, hooks, SkippedGuard, CheckGuard
<1>11. CASE Launch
    BY <1>11, <1>0, GuardPlaces, PassPlaces DEF LoopInv, LoopClock, LoopHooks, Starting, Unmarked, PreGuard, PreCompact, Skipping, InTick, GuardAt, loop, hooks, Launch, WaitFrom
<1>12. CASE GuardReads
    BY <1>12, <1>0, GuardPlaces, PassPlaces DEF LoopInv, LoopClock, LoopHooks, Starting, Unmarked, PreGuard, PreCompact, Skipping, InTick, GuardAt, loop, hooks, GuardReads, GuardStep
<1>13. CASE SpotSettled
    BY <1>13, <1>0, GuardPlaces, PassPlaces DEF LoopInv, LoopClock, LoopHooks, Starting, Unmarked, PreGuard, PreCompact, Skipping, InTick, GuardAt, loop, hooks, SpotSettled, GuardStep
<1>14. CASE SpotAbsent
    BY <1>14, <1>0, GuardPlaces, PassPlaces DEF LoopInv, LoopClock, LoopHooks, Starting, Unmarked, PreGuard, PreCompact, Skipping, InTick, GuardAt, loop, hooks, SpotAbsent, GuardStep
<1>15. CASE SpotMarked
    BY <1>15, <1>0, GuardPlaces, PassPlaces DEF LoopInv, LoopClock, LoopHooks, Starting, Unmarked, PreGuard, PreCompact, Skipping, InTick, GuardAt, loop, hooks, SpotMarked, GuardStep
<1>16. CASE OptionSettled
    BY <1>16, <1>0, GuardPlaces, PassPlaces DEF LoopInv, LoopClock, LoopHooks, Starting, Unmarked, PreGuard, PreCompact, Skipping, InTick, GuardAt, loop, hooks, OptionSettled, GuardStep
<1>17. CASE OptionOwed
    BY <1>17, <1>0, GuardPlaces, PassPlaces DEF LoopInv, LoopClock, LoopHooks, Starting, Unmarked, PreGuard, PreCompact, Skipping, InTick, GuardAt, loop, hooks, OptionOwed, GuardStep
<1>18. CASE OptionFilled
    BY <1>18, <1>0, GuardPlaces, PassPlaces DEF LoopInv, LoopClock, LoopHooks, Starting, Unmarked, PreGuard, PreCompact, Skipping, InTick, GuardAt, loop, hooks, OptionFilled, GuardStep
<1>19. CASE StartupPass
    BY <1>19, <1>0, GuardPlaces, PassPlaces DEF LoopInv, LoopClock, LoopHooks, Starting, Unmarked, PreGuard, PreCompact, Skipping, InTick, GuardAt, loop, hooks, StartupPass
<1>20. CASE SkippedPass
    BY <1>20, <1>0, GuardPlaces, PassPlaces DEF LoopInv, LoopClock, LoopHooks, Starting, Unmarked, PreGuard, PreCompact, Skipping, InTick, GuardAt, loop, hooks, SkippedPass
<1>21. CASE MarkSegment
    BY <1>21, <1>0, GuardPlaces, PassPlaces DEF LoopInv, LoopClock, LoopHooks, Starting, Unmarked, PreGuard, PreCompact, Skipping, InTick, GuardAt, loop, hooks, MarkSegment
<1>22. CASE PassDone
    BY <1>22, <1>0, GuardPlaces, PassPlaces DEF LoopInv, LoopClock, LoopHooks, Starting, Unmarked, PreGuard, PreCompact, Skipping, InTick, GuardAt, loop, hooks, PassDone, WaitFrom
<1>23. CASE SweepBegins
    BY <1>23, <1>0, GuardPlaces, PassPlaces DEF LoopInv, LoopClock, LoopHooks, Starting, Unmarked, PreGuard, PreCompact, Skipping, InTick, GuardAt, loop, hooks, SweepBegins
<1>24. CASE SweepSeals
    BY <1>24, <1>0, GuardPlaces, PassPlaces DEF LoopInv, LoopClock, LoopHooks, Starting, Unmarked, PreGuard, PreCompact, Skipping, InTick, GuardAt, loop, hooks, SweepSeals
<1>25. CASE SweepCleans
    BY <1>25, <1>0, GuardPlaces, PassPlaces DEF LoopInv, LoopClock, LoopHooks, Starting, Unmarked, PreGuard, PreCompact, Skipping, InTick, GuardAt, loop, hooks, SweepCleans
<1>26. CASE SweepEnds
    BY <1>26, <1>0, GuardPlaces, PassPlaces DEF LoopInv, LoopClock, LoopHooks, Starting, Unmarked, PreGuard, PreCompact, Skipping, InTick, GuardAt, loop, hooks, SweepEnds
<1>27. CASE Tick \/ Sleep
    BY <1>27, <1>0, GuardPlaces, PassPlaces, ClockForward DEF LoopInv, LoopClock, LoopHooks, Starting, Unmarked, PreGuard, PreCompact, Skipping, InTick, GuardAt, loop, hooks
<1>28. CASE UNCHANGED vars
    BY <1>28, Unmoved DEF LoopInv, LoopClock, LoopHooks, Starting, Unmarked, PreGuard, PreCompact, Skipping, InTick, GuardAt, loop, hooks
<1>29. CASE Cycles \/ \E i \in DOMAIN inFlight : CycleRaises(i)
    BY <1>29, CyclesAside DEF LoopInv, LoopClock, LoopHooks, Starting, Unmarked, PreGuard, PreCompact, Skipping, InTick, GuardAt, loop, hooks
<1> QED BY <1>1, <1>2, <1>3, <1>4, <1>5, <1>6, <1>7, <1>8, <1>9, <1>10, <1>11, <1>12, <1>13, <1>14, <1>15, <1>16, <1>17, <1>18, <1>19, <1>20, <1>21, <1>22, <1>23, <1>24, <1>25, <1>26, <1>27, <1>28, <1>29, QuietNext
       DEF Next, LoopNext, TickNext, PassNext, GuardNext, SweepNext

LEMMA GuardTimesStep ==
    ASSUME Context, LoopInv, QuietHazards, [Next]_vars
    PROVE  GuardTimes'
<1>0. now \in Nat /\ last \in Nat /\ slot \in Nat
    BY ContextTypes
<1>1. CASE Start
    BY <1>1, <1>0, GuardPlaces, PassPlaces DEF LoopInv, LoopClock, LoopHooks, GuardTimes, GuardDue, Starting, Unmarked, PreGuard, PreCompact, Skipping, InTick, GuardAt, loop, hooks, Start
<1>2. CASE Crash
    BY <1>2, <1>0, GuardPlaces, PassPlaces DEF LoopInv, LoopClock, LoopHooks, GuardTimes, GuardDue, Starting, Unmarked, PreGuard, PreCompact, Skipping, InTick, GuardAt, loop, hooks, Crash, Gone
<1>3. CASE RaiseOn
    BY <1>3, <1>0, GuardPlaces, PassPlaces DEF LoopInv, LoopClock, LoopHooks, GuardTimes, GuardDue, Starting, Unmarked, PreGuard, PreCompact, Skipping, InTick, GuardAt, loop, hooks, RaiseOn, Gone
<1>4. CASE HandOn
    BY <1>4, <1>0, GuardPlaces, PassPlaces DEF LoopInv, LoopClock, LoopHooks, GuardTimes, GuardDue, Starting, Unmarked, PreGuard, PreCompact, Skipping, InTick, GuardAt, loop, hooks, HandOn
<1>5. CASE CheckStart
    BY <1>5, <1>0, GuardPlaces, PassPlaces DEF LoopInv, LoopClock, LoopHooks, GuardTimes, GuardDue, Starting, Unmarked, PreGuard, PreCompact, Skipping, InTick, GuardAt, loop, hooks, CheckStart, CheckGuard
<1>6. CASE ReachTop
    BY <1>6, <1>0, GuardPlaces, PassPlaces DEF LoopInv, LoopClock, LoopHooks, GuardTimes, GuardDue, Starting, Unmarked, PreGuard, PreCompact, Skipping, InTick, GuardAt, loop, hooks, ReachTop
<1>7. CASE HandedOn
    BY <1>7, <1>0, GuardPlaces, PassPlaces DEF LoopInv, LoopClock, LoopHooks, GuardTimes, GuardDue, Starting, Unmarked, PreGuard, PreCompact, Skipping, InTick, GuardAt, loop, hooks, HandedOn
<1>8. CASE TickGuard
    BY <1>8, <1>0, GuardPlaces DEF LoopInv, LoopClock, LoopHooks, GuardTimes, GuardDue, PastCloseGuard, InSession, SkipsEquityClose, PreGuard, InTick, Skipping, GuardAt, TickGuard, CheckGuard
<1>9. CASE TickCompact
    BY <1>9, <1>0, GuardPlaces, PassPlaces DEF LoopInv, LoopClock, LoopHooks, GuardTimes, GuardDue, Starting, Unmarked, PreGuard, PreCompact, Skipping, InTick, GuardAt, loop, hooks, TickCompact
<1>10. CASE SkippedGuard
    BY <1>10, <1>0, GuardPlaces, PassPlaces DEF LoopInv, LoopClock, LoopHooks, GuardTimes, GuardDue, Starting, Unmarked, PreGuard, PreCompact, Skipping, InTick, GuardAt, loop, hooks, SkippedGuard, CheckGuard
<1>11. CASE Launch
    BY <1>11, <1>0, GuardPlaces, PassPlaces DEF LoopInv, LoopClock, LoopHooks, GuardTimes, GuardDue, Starting, Unmarked, PreGuard, PreCompact, Skipping, InTick, GuardAt, loop, hooks, Launch, WaitFrom
<1>12. CASE GuardReads
    BY <1>12, <1>0, GuardPlaces, PassPlaces DEF LoopInv, LoopClock, LoopHooks, GuardTimes, GuardDue, Starting, Unmarked, PreGuard, PreCompact, Skipping, InTick, GuardAt, loop, hooks, GuardReads, GuardStep
<1>13. CASE SpotSettled
    BY <1>13, <1>0, GuardPlaces, PassPlaces DEF LoopInv, LoopClock, LoopHooks, GuardTimes, GuardDue, Starting, Unmarked, PreGuard, PreCompact, Skipping, InTick, GuardAt, loop, hooks, SpotSettled, GuardStep
<1>14. CASE SpotAbsent
    BY <1>14, <1>0, GuardPlaces, PassPlaces DEF LoopInv, LoopClock, LoopHooks, GuardTimes, GuardDue, Starting, Unmarked, PreGuard, PreCompact, Skipping, InTick, GuardAt, loop, hooks, SpotAbsent, GuardStep
<1>15. CASE SpotMarked
    BY <1>15, <1>0, GuardPlaces, PassPlaces DEF LoopInv, LoopClock, LoopHooks, GuardTimes, GuardDue, Starting, Unmarked, PreGuard, PreCompact, Skipping, InTick, GuardAt, loop, hooks, SpotMarked, GuardStep
<1>16. CASE OptionSettled
    BY <1>16, <1>0, GuardPlaces, PassPlaces DEF LoopInv, LoopClock, LoopHooks, GuardTimes, GuardDue, Starting, Unmarked, PreGuard, PreCompact, Skipping, InTick, GuardAt, loop, hooks, OptionSettled, GuardStep
<1>17. CASE OptionOwed
    BY <1>17, <1>0, GuardPlaces, PassPlaces DEF LoopInv, LoopClock, LoopHooks, GuardTimes, GuardDue, Starting, Unmarked, PreGuard, PreCompact, Skipping, InTick, GuardAt, loop, hooks, OptionOwed, GuardStep
<1>18. CASE OptionFilled
    BY <1>18, <1>0, GuardPlaces, PassPlaces DEF LoopInv, LoopClock, LoopHooks, GuardTimes, GuardDue, Starting, Unmarked, PreGuard, PreCompact, Skipping, InTick, GuardAt, loop, hooks, OptionFilled, GuardStep
<1>19. CASE StartupPass
    BY <1>19, <1>0, GuardPlaces, PassPlaces DEF LoopInv, LoopClock, LoopHooks, GuardTimes, GuardDue, Starting, Unmarked, PreGuard, PreCompact, Skipping, InTick, GuardAt, loop, hooks, StartupPass
<1>20. CASE SkippedPass
    BY <1>20, <1>0, GuardPlaces, PassPlaces DEF LoopInv, LoopClock, LoopHooks, GuardTimes, GuardDue, Starting, Unmarked, PreGuard, PreCompact, Skipping, InTick, GuardAt, loop, hooks, SkippedPass
<1>21. CASE MarkSegment
    BY <1>21, <1>0, GuardPlaces, PassPlaces DEF LoopInv, LoopClock, LoopHooks, GuardTimes, GuardDue, Starting, Unmarked, PreGuard, PreCompact, Skipping, InTick, GuardAt, loop, hooks, MarkSegment
<1>22. CASE PassDone
    BY <1>22, <1>0, GuardPlaces, PassPlaces DEF LoopInv, LoopClock, LoopHooks, GuardTimes, GuardDue, Starting, Unmarked, PreGuard, PreCompact, Skipping, InTick, GuardAt, loop, hooks, PassDone, WaitFrom
<1>23. CASE SweepBegins
    BY <1>23, <1>0, GuardPlaces, PassPlaces DEF LoopInv, LoopClock, LoopHooks, GuardTimes, GuardDue, Starting, Unmarked, PreGuard, PreCompact, Skipping, InTick, GuardAt, loop, hooks, SweepBegins
<1>24. CASE SweepSeals
    BY <1>24, <1>0, GuardPlaces, PassPlaces DEF LoopInv, LoopClock, LoopHooks, GuardTimes, GuardDue, Starting, Unmarked, PreGuard, PreCompact, Skipping, InTick, GuardAt, loop, hooks, SweepSeals
<1>25. CASE SweepCleans
    BY <1>25, <1>0, GuardPlaces, PassPlaces DEF LoopInv, LoopClock, LoopHooks, GuardTimes, GuardDue, Starting, Unmarked, PreGuard, PreCompact, Skipping, InTick, GuardAt, loop, hooks, SweepCleans
<1>26. CASE SweepEnds
    BY <1>26, <1>0, GuardPlaces, PassPlaces DEF LoopInv, LoopClock, LoopHooks, GuardTimes, GuardDue, Starting, Unmarked, PreGuard, PreCompact, Skipping, InTick, GuardAt, loop, hooks, SweepEnds
<1>27. CASE Tick \/ Sleep
    BY <1>27, <1>0, GuardPlaces, PassPlaces, ClockForward DEF LoopInv, LoopClock, LoopHooks, GuardTimes, GuardDue, Starting, Unmarked, PreGuard, PreCompact, Skipping, InTick, GuardAt, loop, hooks
<1>28. CASE UNCHANGED vars
    BY <1>28, Unmoved DEF LoopInv, LoopClock, LoopHooks, GuardTimes, GuardDue, Starting, Unmarked, PreGuard, PreCompact, Skipping, InTick, GuardAt, loop, hooks
<1>29. CASE Cycles \/ \E i \in DOMAIN inFlight : CycleRaises(i)
    BY <1>29, CyclesAside DEF LoopInv, LoopClock, LoopHooks, GuardTimes, GuardDue, Starting, Unmarked, PreGuard, PreCompact, Skipping, InTick, GuardAt, loop, hooks
<1> QED BY <1>1, <1>2, <1>3, <1>4, <1>5, <1>6, <1>7, <1>8, <1>9, <1>10, <1>11, <1>12, <1>13, <1>14, <1>15, <1>16, <1>17, <1>18, <1>19, <1>20, <1>21, <1>22, <1>23, <1>24, <1>25, <1>26, <1>27, <1>28, <1>29, QuietNext
       DEF Next, LoopNext, TickNext, PassNext, GuardNext, SweepNext

LEMMA LoopStep ==
    ASSUME Context, LoopInv, QuietHazards, [Next]_vars
    PROVE  LoopInv'
<1>1. LoopClock' /\ LoopLocks' /\ LoopHooks' /\ GuardTimes'
    BY LoopClockStep, LoopLocksStep, LoopHooksStep, GuardTimesStep
<1> QED BY <1>1 DEF LoopInv

LEMMA LoopInit == Init => LoopInv
<1> SUFFICES ASSUME Init PROVE LoopInv
    OBVIOUS
<1>1. LoopClock /\ LoopLocks
    BY DEF Init, LoopClock, LoopLocks, InTick, GuardAt, Starting, Unmarked
<1>2. LoopHooks
    BY DEF Init, LoopHooks, InTick, GuardAt, PreGuard, PreCompact, Starting, Unmarked, Skipping
<1>3. GuardTimes
    BY DEF Init, GuardTimes, GuardAt
<1> QED BY <1>1, <1>2, <1>3 DEF LoopInv

(***************************************************************************)
(* What the queue's entries are.                                           *)
(***************************************************************************)
\* No slot of a later day than a cycle's that is still owed was reached.
StillNear(s) ==
    /\ last < At(DayOf(s) + 1, Open)
    /\ InTick /\ pc # "hand" => slot < At(DayOf(s) + 1, Open)
\* An entry that is not done is a cycle of a slot the loop has not left behind.
EntrySound(e) ==
    /\ e.kind = "missed" => e.state = "done"
    /\ e.state = "done" => e.left = {}
    /\ e.kind = "cycle" => \E s \in CaptureSlots : e.slots = {s} /\ s <= last
    /\ PastCloseGuard(last) => e.kind = "missed"
    /\ e.state # "done" => \A s \in e.slots : StillNear(s)
    /\ \A s \in e.slots : s <= Reached
\* The queue's slots are in their order.
InOrder ==
    \A i, j \in DOMAIN inFlight : i < j =>
      \A s \in inFlight[i].slots, t \in inFlight[j].slots : s < t
QueueSound ==
    /\ \A i \in DOMAIN inFlight : EntrySound(inFlight[i])
    /\ InOrder
    /\ InTick /\ pc # "hand" /\ PastCloseGuard(slot) => inFlight = <<>>

LEMMA EntryIs ==
    ASSUME Context, NEW i \in DOMAIN inFlight
    PROVE  /\ inFlight \in Seq(Entries) /\ inFlight[i] \in Entries
           /\ i \in 1 .. Len(inFlight) /\ inFlight # <<>> /\ pc # "down"
           /\ inFlight[i].slots \subseteq CaptureSlots
           /\ \A s \in inFlight[i].slots : s \in Nat
<1>1. inFlight \in Seq(Entries)
    BY DEF Context, QueueInv, Base
<1>2. inFlight[i] \in Entries /\ i \in 1 .. Len(inFlight)
    BY <1>1, ElementOfSeq, LenProperties
<1>3. inFlight # <<>>
    BY <1>1, <1>2, EmptySeq
<1>4. inFlight[i].slots \subseteq CaptureSlots
    BY <1>2 DEF Entries
<1>5. \A s \in CaptureSlots : s \in Nat
    BY SlotIs
<1> QED BY <1>1, <1>2, <1>3, <1>4, <1>5, PassPlaces

\* A step of one cycle changes one entry, and neither its kind nor its slots.
LEMMA OneEntry ==
    ASSUME Context, NEW i \in DOMAIN inFlight,
           CycleDone(i) \/ CycleRaises(i) \/ \E sf \in Surfaces : LandSurface(i, sf)
    PROVE  /\ DOMAIN inFlight' = DOMAIN inFlight
           /\ \A j \in DOMAIN inFlight : /\ inFlight'[j].kind = inFlight[j].kind
                                         /\ inFlight'[j].slots = inFlight[j].slots
                                         /\ inFlight'[j].left \subseteq inFlight[j].left
           /\ \A j \in DOMAIN inFlight : j # i => inFlight'[j] = inFlight[j]
           /\ inFlight[i].state = "running"
<1>1. inFlight \in Seq(Entries) /\ inFlight[i] \in Entries
    BY EntryIs
<1>2. ASSUME NEW e, inFlight' = [inFlight EXCEPT ![i] = e]
      PROVE  /\ DOMAIN inFlight' = DOMAIN inFlight /\ inFlight'[i] = e
             /\ \A j \in DOMAIN inFlight : j # i => inFlight'[j] = inFlight[j]
    BY <1>2
<1>3. CASE CycleDone(i)
    <2>1. inFlight' = [inFlight EXCEPT ![i] = [inFlight[i] EXCEPT !.state = "done"]]
          /\ inFlight[i].state = "running"
        BY <1>3 DEF CycleDone
    <2>2. PICK e : e = [inFlight[i] EXCEPT !.state = "done"]
        OBVIOUS
    <2>3. e.kind = inFlight[i].kind /\ e.slots = inFlight[i].slots /\ e.left = inFlight[i].left
        BY <1>1, <2>2 DEF Entries
    <2> QED BY <1>2, <2>1, <2>2, <2>3
<1>4. CASE CycleRaises(i)
    <2>1. inFlight' = [inFlight EXCEPT ![i] = [inFlight[i] EXCEPT !.state = "raised"]]
          /\ inFlight[i].state = "running"
        BY <1>4 DEF CycleRaises
    <2>2. PICK e : e = [inFlight[i] EXCEPT !.state = "raised"]
        OBVIOUS
    <2>3. e.kind = inFlight[i].kind /\ e.slots = inFlight[i].slots /\ e.left = inFlight[i].left
        BY <1>1, <2>2 DEF Entries
    <2> QED BY <1>2, <2>1, <2>2, <2>3
<1>5. CASE \E sf \in Surfaces : LandSurface(i, sf)
    <2>0. PICK sf \in Surfaces : LandSurface(i, sf)
        BY <1>5
    <2>1. inFlight' = [inFlight EXCEPT ![i] = [inFlight[i] EXCEPT !.left = @ \ {sf}]]
          /\ inFlight[i].state = "running"
        BY <2>0 DEF LandSurface
    <2>2. PICK e : e = [inFlight[i] EXCEPT !.left = @ \ {sf}]
        OBVIOUS
    <2>3. e.kind = inFlight[i].kind /\ e.slots = inFlight[i].slots
          /\ e.left = inFlight[i].left \ {sf}
        BY <1>1, <2>2 DEF Entries
    <2> QED BY <1>2, <2>1, <2>2, <2>3
<1> QED BY <1>3, <1>4, <1>5

\* What each of them makes of its entry.
LEMMA EntryStates ==
    ASSUME Context, NEW i \in DOMAIN inFlight
    PROVE  /\ CycleDone(i) => inFlight'[i].state = "done" /\ inFlight[i].left = {}
           /\ CycleRaises(i) => inFlight'[i].state = "raised"
           /\ \A sf \in Surfaces : LandSurface(i, sf) =>
                 inFlight'[i].state = "running" /\ inFlight'[i].left = inFlight[i].left \ {sf}
<1>1. inFlight \in Seq(Entries) /\ inFlight[i] \in Entries
    BY EntryIs
<1>2. CycleDone(i) => inFlight'[i].state = "done" /\ inFlight[i].left = {}
    BY <1>1 DEF CycleDone, Entries
<1>3. CycleRaises(i) => inFlight'[i].state = "raised"
    BY <1>1 DEF CycleRaises, Entries
<1>4. ASSUME NEW sf \in Surfaces, LandSurface(i, sf)
      PROVE  inFlight'[i].state = "running" /\ inFlight'[i].left = inFlight[i].left \ {sf}
    BY <1>1, <1>4 DEF LandSurface, Entries
<1> QED BY <1>2, <1>3, <1>4

\* A queue lost its front, or gained an entry at its back.
LEMMA TailEntries ==
    ASSUME Context, inFlight # <<>>, inFlight' = Tail(inFlight)
    PROVE  \A j \in DOMAIN inFlight' : /\ j + 1 \in DOMAIN inFlight /\ j \in Nat
                                       /\ inFlight'[j] = inFlight[j + 1]
<1>1. inFlight \in Seq(Entries)
    BY DEF Context, QueueInv, Base
<1>2. /\ Tail(inFlight) \in Seq(Entries) /\ Len(Tail(inFlight)) = Len(inFlight) - 1
      /\ \A i \in 1 .. Len(Tail(inFlight)) : Tail(inFlight)[i] = inFlight[i + 1]
    BY <1>1, HeadTailProperties
<1>3. /\ DOMAIN inFlight = 1 .. Len(inFlight) /\ Len(inFlight) \in Nat
      /\ DOMAIN Tail(inFlight) = 1 .. Len(Tail(inFlight))
    BY <1>1, <1>2, LenProperties
<1> QED BY <1>2, <1>3

LEMMA AppendedEntries ==
    ASSUME Context, NEW e \in Entries, inFlight' = Append(inFlight, e)
    PROVE  /\ \A j \in DOMAIN inFlight' :
                 \/ j \in DOMAIN inFlight /\ inFlight'[j] = inFlight[j]
                 \/ j \notin DOMAIN inFlight /\ inFlight'[j] = e /\ j = Len(inFlight) + 1
           /\ \A j \in DOMAIN inFlight : j \in Nat /\ j < Len(inFlight) + 1
           /\ Len(inFlight) + 1 \in DOMAIN inFlight'
<1>1. inFlight \in Seq(Entries)
    BY DEF Context, QueueInv, Base
<1>2. /\ inFlight' \in Seq(Entries) /\ Len(inFlight') = Len(inFlight) + 1
      /\ \A i \in 1 .. Len(inFlight) : inFlight'[i] = inFlight[i]
      /\ inFlight'[Len(inFlight) + 1] = e
    BY <1>1, AppendProperties
<1>3. /\ DOMAIN inFlight = 1 .. Len(inFlight) /\ Len(inFlight) \in Nat
      /\ DOMAIN inFlight' = 1 .. Len(inFlight')
    BY <1>1, <1>2, LenProperties
<1> QED BY <1>2, <1>3

LEMMA HeadEntry ==
    ASSUME Context, inFlight # <<>>
    PROVE  1 \in DOMAIN inFlight /\ Head(inFlight) = inFlight[1]
           /\ \A j \in DOMAIN inFlight : j = 1 \/ 1 < j
<1>1. inFlight \in Seq(Entries)
    BY DEF Context, QueueInv, Base
<1>2. DOMAIN inFlight = 1 .. Len(inFlight) /\ Len(inFlight) \in Nat /\ Len(inFlight) # 0
    BY <1>1, LenProperties, EmptySeq
<1>3. Head(inFlight) = inFlight[1]
    BY HeadTailProperties
<1> QED BY <1>2, <1>3

\* A step that moves neither the queue nor the loop's minutes.
LEMMA QueueRests ==
    ASSUME QueueSound, UNCHANGED <<inFlight, last, slot>>, InTick' = InTick,
           (pc' = "hand") = (pc = "hand")
    PROVE  QueueSound'
<1>1. Reached' = Reached
    BY DEF Reached
<1>2. \A e : EntrySound(e) => EntrySound(e)'
    BY <1>1 DEF EntrySound, StillNear
<1>3. (\A i \in DOMAIN inFlight : EntrySound(inFlight[i]))'
    BY <1>2 DEF QueueSound
<1> QED BY <1>3 DEF QueueSound, InOrder

LEMMA QueueEmptied ==
    ASSUME inFlight' = <<>>
    PROVE  QueueSound'
<1>1. DOMAIN inFlight' = {}
    OBVIOUS
<1> QED BY <1>1 DEF QueueSound, InOrder

\* The loop's minutes in a tick and out of one.
LEMMA Minute ==
    ASSUME Context
    PROVE  /\ Reached \in Int /\ last <= Reached
           /\ InTick => last < slot /\ Reached = slot - 1
<1>1. now \in Nat /\ last \in Nat /\ slot \in Nat
    BY ContextTypes
<1>2. InTick => last < slot
    BY DEF Context, QueueInv, Base, Control
<1> QED BY <1>1, <1>2 DEF Reached

LEMMA CyclesSound ==
    ASSUME Context, LoopInv, Prompt, QueueSound, NEW i \in DOMAIN inFlight,
           CycleDone(i) \/ CycleRaises(i) \/ \E sf \in Surfaces : LandSurface(i, sf)
    PROVE  QueueSound'
<1>1. /\ DOMAIN inFlight' = DOMAIN inFlight
      /\ \A j \in DOMAIN inFlight : /\ inFlight'[j].kind = inFlight[j].kind
                                    /\ inFlight'[j].slots = inFlight[j].slots
                                    /\ inFlight'[j].left \subseteq inFlight[j].left
      /\ \A j \in DOMAIN inFlight : j # i => inFlight'[j] = inFlight[j]
      /\ inFlight[i].state = "running"
    BY OneEntry
<1>2. UNCHANGED <<now, loop>> /\ pc # "down"
    BY EntryIs DEF CycleDone, CycleRaises, LandSurface
<1>3. UNCHANGED <<pc, ret, last, slot>> /\ InTick' = InTick /\ Reached' = Reached
    BY <1>2 DEF loop, InTick, Reached
<1>4. \A s : StillNear(s)' = StillNear(s)
    BY <1>3 DEF StillNear
<1>5. \A s \in inFlight[i].slots : StillNear(s)
    BY <1>1 DEF QueueSound, EntrySound
<1>6. \/ inFlight'[i].state = "done" /\ inFlight[i].left = {}
      \/ inFlight'[i].state \in {"running", "raised"}
    BY EntryStates
<1>7. EntrySound(inFlight[i])
    BY DEF QueueSound
<1>8. ASSUME NEW j \in DOMAIN inFlight, NEW f, f = inFlight'[j] PROVE EntrySound(f)'
    <2>0. PICK e : e = inFlight[j]
        OBVIOUS
    <2>1. EntrySound(e) /\ f.kind = e.kind /\ f.slots = e.slots /\ f.left \subseteq e.left
        BY <1>1, <1>8, <2>0 DEF QueueSound
    <2>2. \A s \in f.slots : f.state # "done" => StillNear(s)
        BY <1>1, <1>5, <1>8, <2>0, <2>1 DEF EntrySound
    <2>3. f.kind = "missed" => f.state = "done"
        BY <1>1, <1>7, <1>8, <2>0, <2>1 DEF EntrySound
    <2>4. f.state = "done" => f.left = {}
        BY <1>1, <1>6, <1>8, <2>0, <2>1 DEF EntrySound
    <2>5. /\ f.kind = "cycle" => \E s \in CaptureSlots : f.slots = {s} /\ s <= last
          /\ PastCloseGuard(last) => f.kind = "missed"
          /\ \A s \in f.slots : s <= Reached
        BY <2>1 DEF EntrySound
    <2> QED BY <1>3, <1>4, <2>2, <2>3, <2>4, <2>5 DEF EntrySound
<1>10. (\A j \in DOMAIN inFlight : EntrySound(inFlight[j]))'
    BY <1>1, <1>8
<1>11. InOrder'
    BY <1>1 DEF QueueSound, InOrder
<1>12. (InTick /\ pc # "hand" /\ PastCloseGuard(slot) => inFlight = <<>>)'
    <2> SUFFICES ASSUME InTick, pc # "hand", PastCloseGuard(slot) PROVE FALSE
        BY <1>3
    <2> QED BY EntryIs DEF QueueSound
<1> QED BY <1>10, <1>11, <1>12 DEF QueueSound

LEMMA HandOnSound ==
    ASSUME Context, QueueSound, HandOn
    PROVE  QueueSound'
<1>1. /\ UNCHANGED <<pc, ret, last, slot>> /\ inFlight # <<>> /\ inFlight' = Tail(inFlight)
      /\ pc \in {"wait", "hand"}
    BY DEF HandOn, loop
<1>2. \A j \in DOMAIN inFlight' : /\ j + 1 \in DOMAIN inFlight /\ j \in Nat
                                  /\ inFlight'[j] = inFlight[j + 1]
    BY <1>1, TailEntries
<1>3. InTick' = InTick /\ Reached' = Reached
    BY <1>1 DEF InTick, Reached
<1>4. \A e : EntrySound(e) => EntrySound(e)'
    BY <1>1, <1>3 DEF EntrySound, StillNear
<1>5. (\A j \in DOMAIN inFlight : EntrySound(inFlight[j]))'
    BY <1>2, <1>4 DEF QueueSound
<1>6. InOrder'
    <2> SUFFICES ASSUME NEW i \in DOMAIN inFlight', NEW j \in DOMAIN inFlight', i < j
                 PROVE  \A s \in inFlight'[i].slots, t \in inFlight'[j].slots : s < t
        BY DEF InOrder
    <2>1. i + 1 < j + 1 /\ i + 1 \in DOMAIN inFlight /\ j + 1 \in DOMAIN inFlight
        BY <1>2
    <2> QED BY <1>2, <2>1 DEF QueueSound, InOrder
<1>7. ~ (InTick /\ pc # "hand")'
    BY <1>1 DEF InTick, GuardAt
<1> QED BY <1>5, <1>6, <1>7 DEF QueueSound

\* A stall or a cycle joins the queue behind the slots reached before.
LEMMA JoinSound ==
    ASSUME Context, QueueSound, NEW e \in Entries, inFlight' = Append(inFlight, e),
           \A s \in e.slots : Reached < s, EntrySound(e)',
           \A i \in DOMAIN inFlight : \A f : f = inFlight[i] => EntrySound(f)',
           (InTick /\ pc # "hand" => ~ PastCloseGuard(slot))'
    PROVE  QueueSound'
<1>1. /\ \A j \in DOMAIN inFlight' :
           \/ j \in DOMAIN inFlight /\ inFlight'[j] = inFlight[j]
           \/ j \notin DOMAIN inFlight /\ inFlight'[j] = e /\ j = Len(inFlight) + 1
      /\ \A j \in DOMAIN inFlight : j \in Nat /\ j < Len(inFlight) + 1
    BY AppendedEntries
<1>2. (\A j \in DOMAIN inFlight : EntrySound(inFlight[j]))'
    BY <1>1
<1>3. InOrder'
    <2> SUFFICES ASSUME NEW i \in DOMAIN inFlight', NEW j \in DOMAIN inFlight', i < j,
                        NEW s \in inFlight'[i].slots, NEW t \in inFlight'[j].slots
                 PROVE  s < t
        BY DEF InOrder
    <2>1. i \in DOMAIN inFlight /\ inFlight'[i] = inFlight[i]
        <3>1. Len(inFlight) \in Nat
            BY LenProperties DEF Context, QueueInv, Base
        <3> QED BY <1>1, <3>1
    <2>2. CASE j \in DOMAIN inFlight /\ inFlight'[j] = inFlight[j]
        BY <2>1, <2>2 DEF QueueSound, InOrder
    <2>3. CASE inFlight'[j] = e
        <3>1. s <= Reached /\ Reached < t /\ Reached \in Int
            BY <2>1, <2>3, Minute DEF QueueSound, EntrySound
        <3>2. s \in Nat /\ t \in Nat
            <4>1. e.slots \subseteq CaptureSlots
                BY DEF Entries
            <4> QED BY <2>1, <2>3, <4>1, EntryIs, SlotIs
        <3> QED BY <3>1, <3>2
    <2> QED BY <1>1, <2>2, <2>3
<1> QED BY <1>2, <1>3 DEF QueueSound

LEMMA ReachTopSound ==
    ASSUME Context, LoopInv, QueueSound, ReachTop
    PROVE  QueueSound'
<1>1. /\ pc = "wait" /\ pc' = "hand" /\ last' = last /\ slot' = now /\ skipped' = MissedSlots(last, now)
      /\ inFlight' = IF skipped' = {} THEN inFlight ELSE Append(inFlight, Missed(skipped'))
    BY DEF ReachTop, Queued
<1>2. last \in Nat /\ now \in Nat /\ last < now
    <2>1. now >= top /\ top > last /\ top \in Int
        BY DEF ReachTop, Context, QueueInv, Base, Control
    <2> QED BY <2>1, ContextTypes
<1>3. Reached = last /\ Reached' = now - 1 /\ ~ (InTick /\ pc # "hand")'
    BY <1>1 DEF Reached, InTick, GuardAt
<1>4. \A s \in CaptureSlots : s \in Nat
    BY SlotIs
<1>5. ASSUME NEW e, EntrySound(e), e.slots \subseteq CaptureSlots PROVE EntrySound(e)'
    <2>1. \A s : StillNear(s) => StillNear(s)'
        BY <1>1, <1>3 DEF StillNear
    <2>2. \A s \in e.slots : s <= now - 1
        <3>1. \A s \in e.slots : s \in Nat /\ s <= last
            BY <1>3, <1>4, <1>5 DEF EntrySound
        <3> QED BY <1>2, <3>1
    <2> QED BY <1>1, <1>3, <1>5, <2>1, <2>2 DEF EntrySound
<1>6. \A i \in DOMAIN inFlight : EntrySound(inFlight[i]) /\ inFlight[i].slots \subseteq CaptureSlots
    BY EntryIs DEF QueueSound
<1>7. CASE skipped' = {}
    <2>1. inFlight' = inFlight
        BY <1>1, <1>7
    <2>2. (\A i \in DOMAIN inFlight : EntrySound(inFlight[i]))'
        BY <1>5, <1>6, <2>1
    <2> QED BY <1>3, <2>1, <2>2 DEF QueueSound, InOrder
<1>8. CASE skipped' # {}
    <2>1. PICK T \in SUBSET CaptureSlots, e \in Entries : 
             T = skipped' /\ e = Missed(T) /\ inFlight' = Append(inFlight, e)
        BY <1>1, <1>8, EntryTypes DEF MissedSlots
    <2>2. \A s \in T : last < s /\ s <= now - 1
        BY <1>1, <1>2, <1>4, <2>1 DEF MissedSlots
    <2>3. e.kind = "missed" /\ e.slots = T /\ e.left = {} /\ e.state = "done"
        BY <2>1 DEF Missed
    <2>4. EntrySound(e)'
        BY <1>3, <2>2, <2>3 DEF EntrySound
    <2>5. \A s \in e.slots : Reached < s
        BY <1>3, <2>2, <2>3
    <2>6. \A i \in DOMAIN inFlight : \A f : f = inFlight[i] => EntrySound(f)'
        BY <1>5, <1>6
    <2> QED BY <1>3, <2>1, <2>4, <2>5, <2>6, JoinSound
<1> QED BY <1>7, <1>8

\* The hand-on ends at a cycle of a day no later than those of what is still owed.
LEMMA HandedOnSound ==
    ASSUME Context, LoopInv, Prompt, QueueSound, HandedOn
    PROVE  QueueSound'
<1>1. /\ UNCHANGED <<last, slot, inFlight>> /\ pc = "hand" /\ pc' = "tick"
      /\ inFlight # <<>> => Head(inFlight).state = "running" /\ ~ PastCloseGuard(slot)
    BY DEF HandedOn, MayTick
<1>2. Reached' = Reached /\ InTick' /\ InTick
    BY <1>1 DEF Reached, InTick
<1>3. now \in Nat /\ slot \in Nat /\ slot <= now
    BY <1>2, ContextTypes DEF LoopInv, LoopClock
<1>4. ASSUME NEW i \in DOMAIN inFlight, NEW s \in inFlight[i].slots, inFlight[i].state # "done"
      PROVE  slot < At(DayOf(s) + 1, Open)
    <2>1. /\ 1 \in DOMAIN inFlight /\ Head(inFlight) = inFlight[1] /\ inFlight # <<>>
          /\ i = 1 \/ 1 < i
        BY HeadEntry, EntryIs
    <2>2. EntrySound(inFlight[1]) /\ inFlight[1].state = "running" /\ inFlight[1] \in Entries
        BY <1>1, <2>1, EntryIs DEF QueueSound
    <2>3. PICK h \in CaptureSlots : inFlight[1].slots = {h}
        BY <2>2 DEF EntrySound, Entries
    <2>4. now < At(DayOf(h) + 1, Open)
        BY <2>1, <2>2, <2>3 DEF Prompt, CyclesPrompt
    <2>5. h \in Nat /\ s \in Nat /\ (h = s \/ h < s)
        BY <2>1, <2>3, EntryIs, SlotIs DEF QueueSound, InOrder
    <2>6. DayOf(h) \in Nat /\ DayOf(s) \in Nat /\ 0 < DayOf(h) /\ 0 < DayOf(s)
        BY <2>5, DayOfIs
    <2>7. ~ (DayOf(s) < DayOf(h))
        <3>1. DayOf(s) < DayOf(h) => s < h
            BY <2>5, LaterMinute
        <3> QED BY <2>5, <3>1
    <2>8. At(DayOf(h) + 1, Open) \in Nat /\ At(DayOf(s) + 1, Open) \in Nat
        BY <2>6, DayEnds
    <2>9. At(DayOf(h) + 1, Open) <= At(DayOf(s) + 1, Open)
        <3>1. CASE DayOf(h) = DayOf(s)
            BY <2>8, <3>1
        <3>2. CASE DayOf(h) < DayOf(s)
            <4>1. At(DayOf(h) + 1, Open) <= At(DayOf(s), Open)
                BY <2>6, <3>2, LaterDay
            <4>2. /\ At(DayOf(s), Open) \in Nat /\ At(DayOf(s), CloseFifteen) \in Nat
                  /\ At(DayOf(s), Open) <= At(DayOf(s), CloseFifteen)
                BY <2>6, DayOrder
            <4>3. At(DayOf(s), CloseFifteen) <= At(DayOf(s) + 1, Open)
                <5>1. /\ At(DayOf(s), CloseFifteen) < At(DayOf(s) + 1, 0)
                      /\ At(DayOf(s) + 1, 0) <= At(DayOf(s) + 1, Open) /\ At(DayOf(s) + 1, 0) \in Nat
                    BY <2>6, DayEnds
                <5> QED BY <5>1, <4>2, <2>8
            <4> QED BY <2>8, <4>1, <4>2, <4>3
        <3> QED BY <2>6, <2>7, <3>1, <3>2
    <2> QED BY <1>3, <2>4, <2>8, <2>9
<1>5. ASSUME NEW i \in DOMAIN inFlight, NEW f, f = inFlight[i] PROVE EntrySound(f)'
    <2>1. EntrySound(f)
        BY <1>5 DEF QueueSound
    <2>2. \A s \in f.slots : f.state # "done" => StillNear(s)'
        BY <1>1, <1>4, <1>5, <2>1 DEF EntrySound, StillNear
    <2> QED BY <1>1, <1>2, <2>1, <2>2 DEF EntrySound
<1>6. (\A i \in DOMAIN inFlight : EntrySound(inFlight[i]))'
    BY <1>1, <1>5
<1> QED BY <1>1, <1>6 DEF QueueSound, InOrder

LEMMA LaunchSound ==
    ASSUME Context, LoopInv, QueueSound, Launch
    PROVE  QueueSound'
<1>1. /\ pc = "launch" /\ pc' = "wait" /\ last' = slot
      /\ inFlight' = IF slot \in CaptureSlots THEN Append(inFlight, Cycle(slot)) ELSE inFlight
    BY DEF Launch, WaitFrom
<1>2. InTick /\ pc # "hand" /\ Reached = slot - 1 /\ Reached' = slot /\ ~ InTick'
    BY <1>1 DEF Reached, InTick, GuardAt
<1>3. last \in Nat /\ slot \in Nat /\ last < slot
    BY <1>2, ContextTypes, Minute
<1>4. \A s \in CaptureSlots : s \in Nat
    BY SlotIs
<1>5. ASSUME NEW i \in DOMAIN inFlight, NEW e, e = inFlight[i] PROVE EntrySound(e)'
    <2>1. EntrySound(e) /\ e.slots \subseteq CaptureSlots /\ ~ PastCloseGuard(slot)
        BY <1>2, <1>5, EntryIs DEF QueueSound
    <2>2. \A s \in e.slots : s \in Nat /\ s <= slot - 1
        BY <1>2, <1>4, <2>1 DEF EntrySound
    <2>3. \A s \in e.slots : e.state # "done" => StillNear(s)'
        BY <1>1, <1>2, <2>1 DEF EntrySound, StillNear
    <2>4. \A s \in e.slots : s <= slot
        BY <1>3, <2>2
    <2>5. e.kind = "cycle" => \E s \in CaptureSlots : e.slots = {s} /\ s <= slot
        BY <2>1, <2>4 DEF EntrySound
    <2> QED BY <1>1, <1>2, <2>1, <2>3, <2>4, <2>5 DEF EntrySound
<1>6. CASE slot \notin CaptureSlots
    <2>1. inFlight' = inFlight
        BY <1>1, <1>6
    <2>2. (\A i \in DOMAIN inFlight : EntrySound(inFlight[i]))'
        BY <1>5, <2>1
    <2> QED BY <1>2, <2>1, <2>2 DEF QueueSound, InOrder
<1>7. CASE slot \in CaptureSlots
    <2>1. PICK c \in CaptureSlots, e \in Entries :
             c = slot /\ e = Cycle(c) /\ inFlight' = Append(inFlight, e)
        BY <1>1, <1>7, EntryTypes
    <2>2. e.kind = "cycle" /\ e.slots = {c} /\ e.state = "running"
        BY <2>1 DEF Cycle
    <2>3. ~ PastCloseGuard(slot)
        BY <1>3, <1>7, NoSlotPastClose DEF PastCloseGuard
    <2>4. slot < At(DayOf(slot) + 1, Open)
        <3>1. DayOf(slot) \in Nat /\ 0 < DayOf(slot) /\ slot < At(DayOf(slot) + 1, 0)
            BY <1>3, DayOfIs
        <3>2. /\ At(DayOf(slot) + 1, 0) \in Nat /\ At(DayOf(slot) + 1, Open) \in Nat
              /\ At(DayOf(slot) + 1, 0) <= At(DayOf(slot) + 1, Open)
            BY <3>1, DayEnds
        <3> QED BY <1>3, <3>1, <3>2
    <2>5. StillNear(c)'
        BY <1>1, <1>2, <2>1, <2>4 DEF StillNear
    <2>6. EntrySound(e)'
        BY <1>1, <1>2, <1>3, <2>1, <2>2, <2>3, <2>5 DEF EntrySound
    <2>7. \A s \in e.slots : Reached < s
        BY <1>2, <1>3, <2>1, <2>2
    <2>8. \A i \in DOMAIN inFlight : \A f : f = inFlight[i] => EntrySound(f)'
        BY <1>5
    <2> QED BY <1>2, <2>1, <2>6, <2>7, <2>8, JoinSound
<1> QED BY <1>6, <1>7

LEMMA RestSound ==
    ASSUME Context, LoopInv, QueueSound,
           \/ CheckStart \/ TickGuard \/ TickCompact \/ SkippedGuard \/ GuardNext \/ PassNext
           \/ SweepNext \/ Tick \/ Sleep \/ UNCHANGED vars, QuietHazards
    PROVE  QueueSound'
<1>1. UNCHANGED <<last, slot, inFlight>> /\ InTick' = InTick /\ (pc' = "hand") = (pc = "hand")
    <2>1. CASE CheckStart \/ TickGuard \/ TickCompact \/ SkippedGuard
        BY <2>1 DEF CheckStart, TickGuard, TickCompact, SkippedGuard, CheckGuard, InTick, GuardAt
    <2>2. CASE GuardNext
        <3>1. /\ UNCHANGED <<ret, last, slot, inFlight>>
              /\ pc \in GuardAt /\ pc' \in GuardAt \cup {ret}
            BY <2>2 DEF GuardNext, GuardReads, SpotSettled, SpotAbsent, SpotMarked, OptionSettled,
                   OptionOwed, OptionFilled, GuardStep, GuardAt
        <3> QED BY <3>1, GuardPlaces DEF InTick, GuardAt
    <2>3. CASE PassNext
        <3>1. CASE StartupPass \/ SkippedPass
            BY <3>1 DEF StartupPass, SkippedPass, InTick, GuardAt
        <3>2. CASE MarkSegment
            BY <3>2 DEF MarkSegment, InTick, loop
        <3>3. CASE PassDone
            BY <3>3, PassPlaces DEF PassDone, WaitFrom, InTick, GuardAt
        <3> QED BY <2>3, <3>1, <3>2, <3>3 DEF PassNext
    <2>4. CASE SweepNext
        BY <2>4 DEF SweepNext, SweepBegins, SweepSeals, SweepCleans, SweepEnds, loop, InTick
    <2>5. CASE Tick \/ Sleep
        BY <2>5, ClockForward DEF loop, InTick
    <2>6. CASE UNCHANGED vars
        BY <2>6, Unmoved DEF loop, InTick
    <2> QED BY <2>1, <2>2, <2>3, <2>4, <2>5, <2>6
<1> QED BY <1>1, QueueRests

LEMMA QueueSoundStep ==
    ASSUME Context, LoopInv, Prompt, QueueSound, QuietHazards, [Next]_vars
    PROVE  QueueSound'
<1>1. CASE Start \/ Crash \/ RaiseOn
    <2>1. inFlight' = <<>>
        BY <1>1, PassPlaces DEF Start, Crash, RaiseOn, Gone
    <2> QED BY <2>1, QueueEmptied
<1>2. CASE Cycles \/ \E i \in DOMAIN inFlight : CycleRaises(i)
    BY <1>2, CyclesSound DEF Cycles
<1> QED
    BY <1>1, <1>2, HandOnSound, ReachTopSound, HandedOnSound, LaunchSound, RestSound, QuietNext
       DEF Next, LoopNext, TickNext

(***************************************************************************)
(* Which steps move what.                                                  *)
(***************************************************************************)
LEMMA Moves ==
    ASSUME QuietHazards, [Next]_vars
    PROVE  /\ UNCHANGED <<partition, sealed>> \/ SweepSeals
           /\ \/ journal' = journal
              \/ \E i \in DOMAIN inFlight : \E sf \in Surfaces : LandSurface(i, sf)
              \/ MarkSegment \/ SpotMarked \/ OptionFilled \/ SweepCleans
           /\ lost' = lost \/ MarkSegment \/ \E i \in DOMAIN inFlight : \E sf \in Surfaces : LandSurface(i, sf)
           /\ UNCHANGED <<scope, sealing>> \/ SweepNext
           /\ now' = now \/ Tick \/ Sleep
           /\ sweeps' = sweeps \/ TickCompact \/ SweepBegins
<1>1. CASE Start \/ Crash \/ RaiseOn \/ HandOn
    BY <1>1 DEF Start, Crash, RaiseOn, Gone, HandOn, sweep, lake
<1>2. CASE CheckStart \/ ReachTop \/ HandedOn \/ TickGuard \/ SkippedGuard \/ Launch
    BY <1>2 DEF CheckStart, ReachTop, HandedOn, TickGuard, SkippedGuard, Launch, sweep, lake
<1>3. CASE TickCompact
    BY <1>3 DEF TickCompact, lake
<1>4. CASE GuardReads \/ SpotSettled \/ SpotAbsent \/ OptionSettled \/ OptionOwed
    BY <1>4 DEF GuardReads, SpotSettled, SpotAbsent, OptionSettled, OptionOwed, GuardStep, sweep
<1>5. CASE SpotMarked \/ OptionFilled
    BY <1>5 DEF SpotMarked, OptionFilled, GuardStep, sweep
<1>6. CASE StartupPass \/ SkippedPass \/ PassDone
    BY <1>6 DEF StartupPass, SkippedPass, PassDone, sweep, lake
<1>7. CASE MarkSegment
    BY <1>7 DEF MarkSegment, sweep
<1>8. CASE SweepNext
    BY <1>8 DEF SweepNext, SweepBegins, SweepSeals, SweepCleans, SweepEnds, sweep, lake
<1>9. CASE Tick \/ Sleep
    BY <1>9 DEF Tick, Sleep, sweep, lake
<1>10. CASE UNCHANGED vars
    BY <1>10 DEF vars, sweep, lake
<1>11. CASE \E i \in DOMAIN inFlight : CycleDone(i) \/ CycleRaises(i)
    BY <1>11 DEF CycleDone, CycleRaises, sweep, lake
<1>12. CASE \E i \in DOMAIN inFlight : \E sf \in Surfaces : LandSurface(i, sf)
    BY <1>12 DEF LandSurface, sweep
<1> QED BY <1>1, <1>2, <1>3, <1>4, <1>5, <1>6, <1>7, <1>8, <1>9, <1>10, <1>11, <1>12, QuietNext
        DEF Next, Cycles, LoopNext, TickNext, GuardNext, PassNext

\* A cycle that is owed was owed before, or is the tick's own.
LEMMA EntriesCome ==
    ASSUME Context, QuietHazards, [Next]_vars,
           NEW j \in DOMAIN inFlight', NEW e, e = inFlight'[j], e.state # "done" \/ e.left # {}
    PROVE  \/ \E i \in DOMAIN inFlight : /\ inFlight[i].state # "done" \/ inFlight[i].left # {}
                                         /\ e.slots = inFlight[i].slots /\ e.left \subseteq inFlight[i].left
           \/ Launch /\ slot \in CaptureSlots /\ e.slots = {slot}
<1>1. CASE UNCHANGED inFlight
    BY <1>1
<1>2. CASE Start \/ Crash \/ RaiseOn
    <2>1. inFlight' = <<>>
        BY <1>2, PassPlaces DEF Start, Crash, RaiseOn, Gone
    <2> QED BY <2>1
<1>3. ASSUME NEW i \in DOMAIN inFlight,
             CycleDone(i) \/ CycleRaises(i) \/ \E sf \in Surfaces : LandSurface(i, sf)
      PROVE  \E k \in DOMAIN inFlight : 
                /\ inFlight[k].state # "done" \/ inFlight[k].left # {}
                /\ e.slots = inFlight[k].slots /\ e.left \subseteq inFlight[k].left
    <2>1. j \in DOMAIN inFlight /\ e.slots = inFlight[j].slots /\ e.left \subseteq inFlight[j].left
          /\ (j # i => e = inFlight[j]) /\ inFlight[i].state = "running"
        BY <1>3, OneEntry
    <2> QED BY <2>1
<1>4. CASE HandOn
    <2>1. inFlight # <<>> /\ inFlight' = Tail(inFlight)
        BY <1>4 DEF HandOn
    <2>2. j + 1 \in DOMAIN inFlight /\ e = inFlight[j + 1]
        BY <2>1, TailEntries
    <2> QED BY <2>2
<1>5. CASE ReachTop /\ inFlight' # inFlight
    <2>1. PICK f \in Entries : inFlight' = Append(inFlight, f) /\ f.left = {} /\ f.state = "done"
        <3>1. inFlight' = Append(inFlight, Missed(skipped')) /\ skipped' \in SUBSET CaptureSlots
            BY <1>5 DEF ReachTop, Queued, MissedSlots
        <3> QED BY <3>1, EntryTypes DEF Missed
    <2>2. j \in DOMAIN inFlight /\ e = inFlight[j]
        BY <2>1, AppendedEntries
    <2> QED BY <2>2
<1>6. CASE Launch
    <2>1. CASE slot \in CaptureSlots
        <3>1. PICK f \in Entries : inFlight' = Append(inFlight, f) /\ f.slots = {slot}
            BY <1>6, <2>1, EntryTypes DEF Launch, Cycle
        <3>2. \/ j \in DOMAIN inFlight /\ e = inFlight[j]
              \/ j \notin DOMAIN inFlight /\ e = f
            BY <3>1, AppendedEntries
        <3> QED BY <1>6, <2>1, <3>1, <3>2
    <2>2. CASE slot \notin CaptureSlots
        BY <1>1, <1>6, <2>2 DEF Launch
    <2> QED BY <2>1, <2>2
<1>7. CASE CheckStart \/ HandedOn \/ TickGuard \/ TickCompact \/ SkippedGuard
    BY <1>1, <1>7 DEF CheckStart, HandedOn, TickGuard, TickCompact, SkippedGuard
<1>8. CASE GuardNext \/ PassNext \/ SweepNext \/ Tick \/ Sleep \/ UNCHANGED vars
    <2>1. CASE GuardNext
        BY <2>1, <1>1 DEF GuardNext, GuardReads, SpotSettled, SpotAbsent, SpotMarked,
           OptionSettled, OptionOwed, OptionFilled, GuardStep
    <2>2. CASE PassNext
        <3>1. MarkSegment => UNCHANGED inFlight
            BY DEF MarkSegment
        <3>2. StartupPass \/ SkippedPass \/ PassDone => UNCHANGED inFlight
            BY DEF StartupPass, SkippedPass, PassDone
        <3> QED BY <2>2, <1>1, <3>1, <3>2 DEF PassNext
    <2>3. CASE SweepNext
        BY <2>3, <1>1 DEF SweepNext, SweepBegins, SweepSeals, SweepCleans, SweepEnds
    <2>4. CASE Tick \/ Sleep \/ UNCHANGED vars
        BY <2>4, <1>1, ClockForward, Unmoved
    <2> QED BY <1>8, <2>1, <2>2, <2>3, <2>4
<1> QED BY <1>1, <1>2, <1>3, <1>4, <1>5, <1>6, <1>7, <1>8, QuietNext
        DEF Next, Cycles, LoopNext, TickNext

(***************************************************************************)
(* The segments a gap pass still has to write.                             *)
(***************************************************************************)
\* A startup pass owes minutes up to its start, a tick's pass its skipped slots.
MarksSound ==
    /\ \A m \in marks : m.kind \in {"dead", "overrun"} /\ m.slots # {}
    /\ \A m \in marks : \A s \in m.slots : IF ret = "wait" THEN s <= last ELSE s \in skipped
    /\ \A m, n \in marks : m.surface = n.surface /\ m.day = n.day => m = n

LEMMA MarkIs ==
    ASSUME Context, NEW m \in marks
    PROVE  /\ m.surface \in Surfaces /\ m.day \in Sessions /\ m.slots \subseteq SlotsOf(m.day)
           /\ \A s \in m.slots : s \in CaptureSlots /\ s \in Nat /\ DayOf(s) = m.day
<1>1. m.surface \in Surfaces /\ m.day \in Sessions /\ m.slots \subseteq SlotsOf(m.day)
    BY DEF Context, TypeOK
<1> QED BY <1>1, SlotsAre

\* Which segments each pass owes.
LEMMA StartupMarks ==
    ASSUME StartupPass, NEW m \in marks'
    PROVE  \E sf \in Surfaces, d \in Sessions :
             /\ m = Segment(sf, d, Missing(sf, d, last + 1), "dead") /\ m.slots # {}
             /\ m.surface = sf /\ m.day = d /\ m.slots = Missing(sf, d, last + 1) /\ m.kind = "dead"
             /\ d \in Walked(sf, last + 1)
<1>1. PICK sf \in Surfaces, d \in Sessions :
             /\ m = Segment(sf, d, Missing(sf, d, last + 1), "dead") /\ m.slots # {}
             /\ m.day \in Walked(m.surface, last + 1)
    BY DEF StartupPass
<1>2. m.surface = sf /\ m.day = d /\ m.slots = Missing(sf, d, last + 1) /\ m.kind = "dead"
    BY <1>1 DEF Segment
<1> QED BY <1>1, <1>2

LEMMA SkippedMarks ==
    ASSUME SkippedPass, NEW m \in marks'
    PROVE  \E sf \in Surfaces, d \in Sessions :
             /\ m = Segment(sf, d, skipped \cap SlotsOf(d), "overrun") /\ m.slots # {}
             /\ m.surface = sf /\ m.day = d /\ m.slots = skipped \cap SlotsOf(d) /\ m.kind = "overrun"
<1>1. PICK sf \in Surfaces, d \in Sessions :
             m = Segment(sf, d, skipped \cap SlotsOf(d), "overrun") /\ m.slots # {}
    BY DEF SkippedPass
<1>2. m.surface = sf /\ m.day = d /\ m.slots = skipped \cap SlotsOf(d) /\ m.kind = "overrun"
    BY <1>1 DEF Segment
<1> QED BY <1>1, <1>2

\* Outside the passes' own steps there is nothing owed, or it stays so.
LEMMA MarksStay ==
    ASSUME Context, LoopInv, QuietHazards, [Next]_vars
    PROVE  \/ marks' = {} \/ StartupPass \/ SkippedPass
           \/ marks' \subseteq marks /\ UNCHANGED <<pc, ret, last, slot, skipped>>
<1>0. pc # "marking" => marks = {}
    BY DEF LoopInv, LoopLocks
<1>1. CASE Start \/ Crash \/ RaiseOn
    BY <1>0, <1>1 DEF Start, Crash, RaiseOn, Gone, pass
<1>2. CASE TickNext \/ HandOn \/ GuardNext
    <2>1. UNCHANGED marks /\ pc # "marking"
        BY <1>2 DEF TickNext, CheckStart, ReachTop, HandedOn, TickGuard, TickCompact, SkippedGuard,
           Launch, HandOn, GuardNext, GuardReads, SpotSettled, SpotAbsent, SpotMarked,
           OptionSettled, OptionOwed, OptionFilled, GuardStep, pass
    <2> QED BY <1>0, <2>1
<1>3. CASE MarkSegment
    BY <1>3 DEF MarkSegment, loop
<1>4. CASE PassDone
    BY <1>4 DEF PassDone, pass
<1>5. CASE SweepNext
    BY <1>5 DEF SweepNext, SweepBegins, SweepSeals, SweepCleans, SweepEnds, loop, pass
<1>6. CASE Tick \/ Sleep \/ UNCHANGED vars
    BY <1>6, ClockForward, Unmoved DEF loop, pass
<1>7. CASE Cycles \/ \E i \in DOMAIN inFlight : CycleRaises(i)
    BY <1>7, CyclesAside DEF loop, pass
<1> QED BY <1>1, <1>2, <1>3, <1>4, <1>5, <1>6, <1>7, QuietNext
        DEF Next, LoopNext, PassNext

LEMMA MarksSoundStep ==
    ASSUME Context, LoopInv, QuietHazards, MarksSound, [Next]_vars
    PROVE  MarksSound'
<1>1. CASE marks' = {}
    BY <1>1 DEF MarksSound
<1>2. CASE StartupPass
    <2>1. ret' = "wait" /\ last' = last /\ last \in Nat
        BY <1>2, ContextTypes DEF StartupPass
    <2>2. \A m \in marks' : m.kind = "dead" /\ m.slots # {} /\ \A s \in m.slots : s <= last
        <3> SUFFICES ASSUME NEW m \in marks'
                     PROVE  m.kind = "dead" /\ m.slots # {} /\ \A s \in m.slots : s <= last
            OBVIOUS
        <3>1. PICK sf \in Surfaces, d \in Sessions :
                 m.slots # {} /\ m.slots = Missing(sf, d, last + 1) /\ m.kind = "dead"
            BY <1>2, StartupMarks
        <3>2. \A s \in m.slots : s \in Nat /\ s < last + 1
            BY <3>1, SlotsAre DEF Missing
        <3> QED BY <2>1, <3>1, <3>2
    <2>3. ASSUME NEW m \in marks', NEW n \in marks', m.surface = n.surface, m.day = n.day
          PROVE  m = n
        <3>1. m = Segment(m.surface, m.day, Missing(m.surface, m.day, last + 1), "dead")
            BY <1>2, StartupMarks
        <3>2. n = Segment(n.surface, n.day, Missing(n.surface, n.day, last + 1), "dead")
            BY <1>2, StartupMarks
        <3> QED BY <2>3, <3>1, <3>2
    <2> QED BY <2>1, <2>2, <2>3 DEF MarksSound
<1>3. CASE SkippedPass
    <2>1. ret' = "skipGuard" /\ skipped' = skipped
        BY <1>3 DEF SkippedPass
    <2>2. \A m \in marks' : m.kind = "overrun" /\ m.slots # {} /\ \A s \in m.slots : s \in skipped
        BY <1>3, SkippedMarks
    <2>3. ASSUME NEW m \in marks', NEW n \in marks', m.surface = n.surface, m.day = n.day
          PROVE  m = n
        <3>1. m = Segment(m.surface, m.day, skipped \cap SlotsOf(m.day), "overrun")
            BY <1>3, SkippedMarks
        <3>2. n = Segment(n.surface, n.day, skipped \cap SlotsOf(n.day), "overrun")
            BY <1>3, SkippedMarks
        <3> QED BY <2>3, <3>1, <3>2
    <2> QED BY <2>1, <2>2, <2>3 DEF MarksSound
<1>4. CASE marks' \subseteq marks /\ UNCHANGED <<pc, ret, last, slot, skipped>>
    BY <1>4 DEF MarksSound
<1> QED BY <1>1, <1>2, <1>3, <1>4, MarksStay

\* What a pass owes lies with the tick's missed slots, or before the start.
LEMMA MarksPlace ==
    ASSUME Context, LoopInv, MarksSound, NEW m \in marks
    PROVE  /\ pc = "marking" /\ ret \in {"wait", "skipGuard"}
           /\ ret = "wait" => inFlight = <<>> /\ \A s \in m.slots : s <= last
           /\ ret = "skipGuard" => \A s \in m.slots : s \in skipped /\ last < s /\ s < slot
<1>1. pc = "marking"
    BY DEF LoopInv, LoopLocks
<1>2. ret \in {"wait", "skipGuard"}
    BY <1>1, PassPlaces
<1>3. ret = "wait" => inFlight = <<>>
    BY <1>1 DEF LoopInv, LoopLocks, Starting
<1>4. ret = "skipGuard" => skipped = MissedSlots(last, slot)
    BY <1>1 DEF LoopInv, LoopClock, InTick
<1> QED BY <1>1, <1>2, <1>3, <1>4 DEF MarksSound, MissedSlots

(***************************************************************************)
(* When a day's writers are done with it.                                  *)
(***************************************************************************)
\* A compaction process will seal the day, or is at it.
IsDue(sf, d) ==
    \/ sweeps > 0 /\ now >= At(d, Deadline)
    \/ lock = "sweep" /\ (<<sf, d>> \in scope \/ <<sf, d>> = sealing)
\* The loop is past the day's close+5, and owes it no cycle and no marker.
Behind(sf, d) ==
    pc # "down" => 
      /\ last >= At(d, Deadline)
      /\ \A i \in DOMAIN inFlight : inFlight[i].state # "done" => 
           \A s \in inFlight[i].slots : DayOf(s) # d
      /\ \A m \in marks : ~ (m.surface = sf /\ m.day = d)
\* So is the guard.
GuardOff(d) ==
    pc # "down" => 
      /\ guardLast >= At(d, Deadline)
      /\ DayOf(guardLast) = d => guardServed = d
      /\ ~ (pc \in GuardAt /\ guardServed = d)
      /\ waiting # None => DayOf(waiting) # d

\* The loop is past a day's close+5, its guard done with it, before a sweep may
\* seal it.
DaysSound ==
    \A sf \in Surfaces, d \in Sessions :
      /\ IsDue(sf, d) => Behind(sf, d) /\ GuardOff(d)
      /\ <<sf, d>> \in sealed => Behind(sf, d) /\ At(d, Deadline) < now

\* A sweep visits days past their close+5 and cleans the one it sealed.
SweepStates ==
    /\ \A sf \in Surfaces, d \in Sessions : <<sf, d>> \in scope => At(d, Deadline) < now
    /\ lock # "sweep" => sealing = None /\ scope = {}
    /\ sealing # None => sealing \in sealed

\* A guard at a sealed day knows so.
GuardKnows ==
    /\ seen \subseteq sealed
    /\ pc \in {"spot", "unobserved", "option", "fill"} =>
         \A sf \in Surfaces : <<sf, guardServed>> \in sealed => <<sf, guardServed>> \in seen
    /\ pc = "unobserved" => <<"quotes", guardServed>> \notin seen
    /\ pc = "fill" => <<"chains", guardServed>> \notin seen

\* Past a day's close+5 there is no slot of it, and no first minute of it.
LEMMA DayPassed ==
    ASSUME NEW d \in Sessions, NEW a \in Nat, At(d, Deadline) <= a, NEW t \in Nat, a < t
    PROVE  /\ DayOf(t) = d => DayOf(a) = d
           /\ t \in CaptureSlots => DayOf(t) # d
           /\ \A e \in Sessions : DayOf(t) = d => ~ (a < At(e, EquityClose) /\ At(e, EquityClose) < t)
<1>1. d \in Nat /\ 0 < d /\ At(d, Deadline) \in Nat /\ At(d, OptionClose) < At(d, Deadline)
      /\ At(d, OptionClose) \in Nat
    BY CalendarTypes, DayOrder
<1>2. ASSUME DayOf(t) = d PROVE DayOf(a) = d
    <2>1. d <= DayOf(a) /\ DayOf(a) \in Nat
        BY DayReached, DayOfIs
    <2>2. ~ (DayOf(t) < DayOf(a))
        <3>1. DayOf(t) < DayOf(a) => t < a
            BY LaterMinute
        <3> QED BY <3>1
    <2> QED BY <1>1, <1>2, <2>1, <2>2
<1>3. t \in CaptureSlots => DayOf(t) # d
    <2> SUFFICES ASSUME t \in CaptureSlots, DayOf(t) = d PROVE FALSE
        OBVIOUS
    <2>1. t <= At(d, OptionClose)
        BY SlotIs
    <2> QED BY <1>1, <2>1
<1>4. ASSUME NEW e \in Sessions, DayOf(t) = d, a < At(e, EquityClose), At(e, EquityClose) < t PROVE FALSE
    <2>1. At(e, EquityClose) \in SlotsOf(e)
        BY ClosesAreSlots
    <2>2. PICK q \in Nat : q = At(e, EquityClose) /\ q \in CaptureSlots /\ DayOf(q) = e
        BY <2>1, SlotsAre
    <2>3. e # d
        <3>1. DayOf(q) = d => q <= At(d, OptionClose)
            BY <2>2, SlotIs
        <3> QED BY <1>1, <1>4, <2>2, <3>1
    <2>4. DayOf(a) = d
        BY <1>2, <1>4
    <2>5. e \in Nat
        BY CalendarTypes
    <2>6. e < d => q < a
        BY <2>2, <2>4, LaterMinute
    <2>7. d < e => t < q
        BY <1>4, <2>2, LaterMinute
    <2> QED BY <1>1, <1>4, <2>2, <2>3, <2>5, <2>6, <2>7
<1> QED BY <1>2, <1>3, <1>4

\* The loop's minutes only go forward.
LEMMA LastForward ==
    ASSUME Context, LoopInv, QuietHazards, [Next]_vars, pc # "down", pc' # "down"
    PROVE  \/ last' = last
           \/ Launch /\ last' = slot /\ last < slot
<1>1. CASE Launch
    <2>1. InTick
        BY <1>1 DEF Launch, InTick
    <2> QED BY <1>1, <2>1, Minute DEF Launch
<1>2. Start \/ Crash \/ RaiseOn => FALSE
    BY DEF Start, Crash, RaiseOn, Gone
<1>3. HandOn \/ CheckStart \/ ReachTop \/ HandedOn \/ TickGuard \/ TickCompact \/ SkippedGuard
        => last' = last
    BY DEF HandOn, CheckStart, ReachTop, HandedOn, TickGuard, TickCompact, SkippedGuard, loop
<1>4. GuardNext => last' = last
    BY DEF GuardNext, GuardReads, SpotSettled, SpotAbsent, SpotMarked,
           OptionSettled, OptionOwed, OptionFilled, GuardStep
<1>5. PassNext => last' = last
    <2>1. MarkSegment => last' = last
        BY DEF MarkSegment, loop
    <2> QED BY <2>1 DEF PassNext, StartupPass, SkippedPass, PassDone
<1>6. SweepNext => last' = last
    BY DEF SweepNext, SweepBegins, SweepSeals, SweepCleans, SweepEnds, loop
<1>7. Tick \/ Sleep \/ UNCHANGED vars => last' = last
    BY ClockForward, Unmoved DEF loop
<1>8. (Cycles \/ \E i \in DOMAIN inFlight : CycleRaises(i)) => last' = last
    BY CyclesAside DEF loop
<1> QED BY <1>1, <1>2, <1>3, <1>4, <1>5, <1>6, <1>7, <1>8, QuietNext DEF Next, LoopNext, TickNext

LEMMA BehindKept ==
    ASSUME Context, LoopInv, QuietHazards, QueueSound, MarksSound, [Next]_vars,
           pc # "down", pc' # "down", NEW sf \in Surfaces, NEW d \in Sessions, Behind(sf, d), StartupPass => <<sf, d>> \in sealed
    PROVE  Behind(sf, d)'
<1>0. last \in Nat /\ slot \in Nat /\ At(d, Deadline) \in Nat /\ At(d, Deadline) <= last
    <2>1. d \in Nat /\ 0 < d /\ At(d, Deadline) \in Nat
        BY CalendarTypes, DayOrder
    <2> QED BY <2>1, ContextTypes DEF Behind
<1>1. At(d, Deadline) <= last'
    BY <1>0, LastForward
<1>2. ASSUME NEW j \in DOMAIN inFlight', NEW e, e = inFlight'[j], e.state # "done", NEW s \in e.slots
      PROVE  DayOf(s) # d
    <2>1. CASE \E i \in DOMAIN inFlight : /\ inFlight[i].state # "done" 
                                          /\ e.slots = inFlight[i].slots
        BY <1>2, <2>1 DEF Behind
    <2>2. CASE Launch /\ slot \in CaptureSlots /\ e.slots = {slot}
        <3>1. last < slot
            BY <2>2, Minute DEF Launch, InTick
        <3>2. s = slot
            BY <1>2, <2>2
        <3> QED BY <2>2, <3>1, <3>2, <1>0, DayPassed
    <2>3. \/ \E i \in DOMAIN inFlight : /\ inFlight[i].state # "done" \/ inFlight[i].left # {}
                                        /\ e.slots = inFlight[i].slots
          \/ Launch /\ slot \in CaptureSlots /\ e.slots = {slot}
        BY <1>2, EntriesCome
    <2>4. \A i \in DOMAIN inFlight : inFlight[i].left # {} => inFlight[i].state # "done"
        BY DEF QueueSound, EntrySound
    <2> QED BY <2>1, <2>2, <2>3, <2>4
<1>3. ASSUME NEW m \in marks' PROVE ~ (m.surface = sf /\ m.day = d)
    <2>1. CASE marks' \subseteq marks
        BY <2>1, <1>3 DEF Behind
    <2>2. CASE StartupPass
        <3>1. PICK f \in Surfaces, e \in Sessions : m.surface = f /\ m.day = e /\ e \in Walked(f, last + 1)
            BY <1>3, <2>2, StartupMarks
        <3>2. <<f, e>> \notin sealed
            BY <3>1 DEF Walked
        <3> QED BY <2>2, <3>1, <3>2
    <2>3. CASE SkippedPass
        <3>1. PICK f \in Surfaces, e \in Sessions :
                 m.day = e /\ m.slots = skipped \cap SlotsOf(e) /\ m.slots # {}
            BY <1>3, <2>3, SkippedMarks
        <3>2. PICK s \in SlotsOf(e) : s \in skipped
            BY <3>1
        <3>3. skipped = MissedSlots(last, slot)
            BY <2>3 DEF LoopInv, LoopClock, InTick, SkippedPass
        <3>4. s \in Nat /\ last < s /\ s \in CaptureSlots /\ DayOf(s) = e
            BY <3>2, <3>3, SlotsAre DEF MissedSlots
        <3>5. e # d
            BY <3>4, <1>0, DayPassed
        <3> QED BY <3>1, <3>5
    <2> QED BY <1>3, <2>1, <2>2, <2>3, MarksStay
<1> QED BY <1>1, <1>2, <1>3 DEF Behind

\* The guard's own steps are at the day it was started for.
LEMMA GuardPath ==
    ASSUME Context, GuardNext
    PROVE  /\ UNCHANGED <<now, ret, last, slot, skipped, inFlight, hooks, marks, lock, sweep,
                          partition, sealed, lost>>
           /\ pc \in GuardAt /\ pc' \in GuardAt \cup {ret} /\ pc' # "down" /\ pc # "down"
<1>1. /\ UNCHANGED <<now, ret, last, slot, skipped, inFlight, hooks, marks, lock, sweep,
                     partition, sealed, lost>>
      /\ pc \in GuardAt /\ pc' \in GuardAt \cup {ret}
    BY DEF GuardNext, GuardReads, SpotSettled, SpotAbsent, SpotMarked,
           OptionSettled, OptionOwed, OptionFilled, GuardStep, GuardAt
<1> QED BY <1>1, GuardPlaces DEF GuardAt

\* Steps that leave the guard's hooks and the loop's place alone.
LEMMA HooksRest ==
    ASSUME QuietHazards,
           \/ HandOn \/ ReachTop \/ HandedOn \/ Launch \/ TickCompact \/ PassNext \/ SweepNext
           \/ Tick \/ Sleep \/ UNCHANGED vars \/ Cycles \/ \E i \in DOMAIN inFlight : CycleRaises(i),
           Context
    PROVE  /\ UNCHANGED <<guardLast, waiting, guardServed>>
           /\ pc' \in GuardAt => pc \in GuardAt
<1>1. HandOn \/ ReachTop \/ HandedOn \/ Launch \/ TickCompact
        => UNCHANGED <<guardLast, waiting, guardServed>> /\ (pc' \in GuardAt => pc \in GuardAt)
    BY DEF HandOn, ReachTop, HandedOn, Launch, WaitFrom, TickCompact, loop, hooks, GuardAt
<1>2. PassNext => UNCHANGED <<guardLast, waiting, guardServed>> /\ (pc' \in GuardAt => pc \in GuardAt)
    <2>1. MarkSegment => UNCHANGED <<guardLast, waiting, guardServed, pc>>
        BY DEF MarkSegment, loop, hooks
    <2>2. StartupPass \/ SkippedPass \/ PassDone
            => UNCHANGED <<guardLast, waiting, guardServed>> /\ pc' \notin GuardAt
        BY PassPlaces DEF StartupPass, SkippedPass, PassDone, WaitFrom, hooks, GuardAt
    <2> QED BY <2>1, <2>2 DEF PassNext
<1>3. SweepNext => UNCHANGED <<guardLast, waiting, guardServed, pc>>
    BY DEF SweepNext, SweepBegins, SweepSeals, SweepCleans, SweepEnds, loop, hooks
<1>4. Tick \/ Sleep \/ UNCHANGED vars => UNCHANGED <<guardLast, waiting, guardServed, pc>>
    BY ClockForward, Unmoved DEF loop, hooks
<1>5. (Cycles \/ \E i \in DOMAIN inFlight : CycleRaises(i)) 
        => UNCHANGED <<guardLast, waiting, guardServed, pc>>
    BY CyclesAside DEF loop, hooks
<1> QED BY <1>1, <1>2, <1>3, <1>4, <1>5

\* A guard that is past a day stays past it, however the next ticks fall.
LEMMA GuardOffKept ==
    ASSUME Context, LoopInv, QuietHazards, [Next]_vars, pc # "down", pc' # "down", ~ Starting,
           NEW d \in Sessions, GuardOff(d), At(d, Deadline) <= last
    PROVE  GuardOff(d)'
<1>0. last \in Nat /\ slot \in Nat /\ At(d, Deadline) \in Nat
    <2>1. d \in Nat /\ 0 < d /\ At(d, Deadline) \in Nat
        BY CalendarTypes, DayOrder
    <2> QED BY <2>1, ContextTypes
<1>1. CASE UNCHANGED <<guardLast, waiting, guardServed>> /\ (pc' \in GuardAt => pc \in GuardAt)
    BY <1>1 DEF GuardOff
<1>2. CASE GuardNext
    BY <1>2, GuardPath DEF GuardOff, hooks
<1>3. CASE Start \/ Crash \/ RaiseOn \/ CheckStart
    BY <1>3 DEF Start, Crash, RaiseOn, Gone, CheckStart, Starting, Unmarked
<1>4. CASE TickGuard
    <2>1. pc = "tick" /\ InTick /\ last < slot /\ guardLast = last /\ guardLast' = slot
        BY <1>4, Minute DEF TickGuard, InTick, LoopInv, LoopHooks, PreGuard
    <2>2. At(d, Deadline) <= guardLast'
        BY <1>0, <2>1
    <2>3. DayOf(slot) = d => guardServed = d /\ ~ SkipsEquityClose(MissedSlots(last, slot))
        <3> SUFFICES ASSUME DayOf(slot) = d
                     PROVE  guardServed = d /\ ~ SkipsEquityClose(MissedSlots(last, slot))
            OBVIOUS
        <3>1. DayOf(last) = d
            BY <1>0, <2>1, DayPassed
        <3>2. \A e \in Sessions : ~ (last < At(e, EquityClose) /\ At(e, EquityClose) < slot)
            BY <1>0, <2>1, DayPassed
        <3> QED BY <2>1, <3>1, <3>2 DEF GuardOff, SkipsEquityClose, MissedSlots
    <2>4. CASE SkipsEquityClose(MissedSlots(guardLast, slot))
        <3>1. waiting' = slot /\ pc' = "compact" /\ UNCHANGED guardServed
            BY <1>4, <2>4 DEF TickGuard
        <3> QED BY <2>1, <2>2, <2>3, <2>4, <3>1 DEF GuardOff, GuardAt
    <2>5. CASE ~ SkipsEquityClose(MissedSlots(guardLast, slot))
        <3>1. CheckGuard(slot, "compact") /\ UNCHANGED waiting
            BY <1>4, <2>5 DEF TickGuard
        <3>2. CASE GuardDue(slot)
            <4>1. guardServed' = DayOf(slot) /\ DayOf(slot) # guardServed
                BY <3>1, <3>2 DEF CheckGuard, GuardDue
            <4> QED BY <2>1, <2>2, <2>3, <3>1, <4>1 DEF GuardOff
        <3>3. CASE ~ GuardDue(slot)
            <4>1. UNCHANGED guardServed /\ pc' = "compact"
                BY <3>1, <3>3 DEF CheckGuard
            <4> QED BY <2>1, <2>2, <2>3, <3>1, <4>1 DEF GuardOff, GuardAt
        <3> QED BY <3>2, <3>3
    <2> QED BY <2>4, <2>5
<1>5. CASE SkippedGuard
    <2>1. pc = "skipGuard" /\ waiting' = None /\ UNCHANGED guardLast
        BY <1>5 DEF SkippedGuard
    <2>2. CASE waiting = None
        <3>1. pc' = "launch" /\ UNCHANGED guardServed
            BY <1>5, <2>2 DEF SkippedGuard
        <3> QED BY <2>1, <2>2, <3>1 DEF GuardOff, GuardAt
    <2>3. CASE waiting # None
        <3>1. CheckGuard(waiting, "launch")
            BY <1>5, <2>3 DEF SkippedGuard
        <3>2. waiting = slot /\ guardLast = slot
            BY <2>1, <2>3 DEF LoopInv, LoopHooks, InTick
        <3>3. CASE GuardDue(waiting)
            <4>1. guardServed' = DayOf(waiting)
                BY <3>1, <3>3 DEF CheckGuard
            <4> QED BY <2>1, <2>3, <3>2, <4>1 DEF GuardOff
        <3>4. CASE ~ GuardDue(waiting)
            <4>1. UNCHANGED guardServed /\ pc' = "launch"
                BY <3>1, <3>4 DEF CheckGuard
            <4> QED BY <2>1, <2>3, <4>1 DEF GuardOff, GuardAt
        <3> QED BY <3>3, <3>4
    <2> QED BY <2>2, <2>3
<1> QED BY <1>1, <1>2, <1>3, <1>4, <1>5, HooksRest, QuietNext DEF Next, LoopNext, TickNext

\* A dispatch finds every day whose close+5 has passed behind the loop.
LEMMA DispatchReady ==
    ASSUME Context, LoopInv, QuietHazards, QueueSound, MarksSound, Prompt,
           TickCompact, Dispatches, NEW sf \in Surfaces, NEW d \in Sessions, At(d, Deadline) <= now
    PROVE  Behind(sf, d) /\ GuardOff(d)
<1>1. /\ pc = "compact" /\ InTick /\ last < slot /\ guardLast = slot /\ marks = {}
      /\ previous = last /\ previous \in Nat /\ CompactDue(previous)
    <2>1. pc = "compact" /\ InTick
        BY DEF TickCompact, InTick
    <2>2. previous # None /\ CompactDue(previous)
        BY DEF Dispatches
    <2> QED BY <2>1, <2>2, Minute, ContextTypes DEF LoopInv, LoopLocks, LoopHooks, PreCompact
<1>2. /\ d \in Nat /\ 0 < d /\ last \in Nat /\ slot \in Nat /\ now \in Nat /\ At(d, Deadline) \in Nat
      /\ DayOf(last) \in Nat /\ 0 < DayOf(last)
    <2>1. d \in Nat /\ 0 < d
        BY CalendarTypes
    <2> QED BY <2>1, DayOrder, ContextTypes, DayOfIs
<1>3. At(d, Deadline) <= last
    BY <1>1, <1>2 DEF Prompt, DispatchPrompt
<1>4. last >= At(DayOf(last), CloseFifteen)
    BY <1>1 DEF CompactDue
<1>5. ASSUME NEW i \in DOMAIN inFlight, inFlight[i].state # "done", NEW s \in inFlight[i].slots
      PROVE  DayOf(s) # d
    <2> SUFFICES ASSUME DayOf(s) = d PROVE FALSE
        OBVIOUS
    <2>1. EntrySound(inFlight[i])
        BY DEF QueueSound
    <2>2. last < At(d + 1, Open)
        BY <1>5, <2>1 DEF EntrySound, StillNear
    <2>3. ~ PastCloseGuard(last)
        BY <1>5, <2>1 DEF EntrySound
    <2>4. d < DayOf(last)
        BY <1>2, <1>3, <2>3, DayReached
    <2>5. At(d + 1, Open) <= At(DayOf(last), Open) /\ At(d + 1, Open) \in Nat
        BY <1>2, <2>4, LaterDay, DayEnds
    <2>6. /\ At(DayOf(last), Open) \in Nat /\ At(DayOf(last), CloseFifteen) \in Nat
          /\ At(DayOf(last), Open) <= At(DayOf(last), CloseFifteen)
        BY <1>2, DayOrder
    <2> QED BY <1>2, <1>4, <2>2, <2>5, <2>6
<1>6. Behind(sf, d)
    BY <1>1, <1>3, <1>5 DEF Behind
<1>7. At(d, Deadline) <= slot
    BY <1>1, <1>2, <1>3
<1>8. waiting # None => DayOf(waiting) # d
    <2> SUFFICES ASSUME waiting # None, DayOf(waiting) = d PROVE FALSE
        OBVIOUS
    <2>1. waiting = slot /\ skipped = MissedSlots(last, slot)
          /\ \E e \in Sessions : At(e, EquityClose) \in skipped
        BY <1>1 DEF LoopInv, LoopHooks, LoopClock
    <2>2. PICK e \in Sessions : last < At(e, EquityClose) /\ At(e, EquityClose) < slot
        BY <2>1 DEF MissedSlots
    <2> QED BY <1>1, <1>2, <1>3, <2>1, <2>2, DayPassed
<1>9. DayOf(guardLast) = d => guardServed = d
    <2> SUFFICES ASSUME DayOf(slot) = d PROVE guardServed = d
        BY <1>1
    <2>1. PastCloseGuard(guardLast)
        BY <1>1, <1>2, <1>7, DayReached
    <2>2. guardServed = DayOf(guardLast) \/ waiting = guardLast
        BY <1>1, <2>1 DEF LoopInv, GuardTimes
    <2>3. waiting # guardLast
        <3>1. slot # None
            BY <1>2, CalendarTypes
        <3> QED BY <1>1, <1>8, <3>1
    <2> QED BY <1>1, <2>2, <2>3
<1> QED BY <1>1, <1>6, <1>7, <1>8, <1>9 DEF GuardOff, GuardAt

LEMMA DueCame ==
    ASSUME Context, LoopInv, QuietHazards, SweepStates, [Next]_vars,
           NEW sf \in Surfaces, NEW d \in Sessions, IsDue(sf, d)'
    PROVE  \/ IsDue(sf, d)
           \/ TickCompact /\ Dispatches /\ At(d, Deadline) <= now
<1>0. /\ now \in Nat /\ sweeps \in Nat /\ At(d, Deadline) \in Nat
    <2>1. d \in Nat /\ 0 < d
        BY CalendarTypes
    <2> QED BY <2>1, DayOrder, ContextTypes DEF Context, TypeOK
<1>1. CASE UNCHANGED <<now, lock, sweep>>
    BY <1>1 DEF IsDue, sweep
<1>2. CASE Tick \/ Sleep
    BY <1>0, <1>2, ClockForward DEF IsDue, sweep
<1>3. CASE TickCompact
    <2>1. UNCHANGED <<now, lock, scope, sealing>> /\ (Dispatches \/ UNCHANGED sweeps)
        BY <1>3 DEF TickCompact
    <2> QED BY <1>0, <1>3, <2>1 DEF IsDue
<1>4. CASE SweepBegins
    <2>1. sweeps > 0 /\ lock = "free" /\ scope' = SweepScope /\ UNCHANGED <<now, sealing>> 
          /\ sealing = None
        BY <1>4 DEF SweepBegins, SweepStates
    <2>2. None # <<sf, d>>
        <3>1. <<sf, d>> \in Surfaces \X Nat
            BY CalendarTypes
        <3> QED BY <3>1, CalendarAssumption
    <2>3. <<sf, d>> \in SweepScope => At(d, Deadline) < now
        BY DEF SweepScope
    <2> QED BY <1>0, <2>1, <2>2, <2>3 DEF IsDue
<1>5. CASE SweepSeals
    <2>1. PICK sd \in scope : scope' = scope \ {sd} /\ sealing' = sd
        BY <1>5 DEF SweepSeals
    <2>2. lock = "sweep" /\ UNCHANGED <<now, lock, sweeps>>
        BY <1>5 DEF SweepSeals
    <2> QED BY <2>1, <2>2 DEF IsDue
<1>6. CASE SweepCleans
    <2>1. UNCHANGED <<now, lock, sweeps, scope>> /\ sealing' = None
        BY <1>6 DEF SweepCleans
    <2>2. None # <<sf, d>>
        <3>1. <<sf, d>> \in Surfaces \X Nat
            BY CalendarTypes
        <3> QED BY <3>1, CalendarAssumption
    <2> QED BY <2>1, <2>2 DEF IsDue
<1>7. CASE SweepEnds
    BY <1>7 DEF SweepEnds, IsDue, sweep
<1>8. CASE Crash \/ RaiseOn
    <2>1. UNCHANGED <<now, sweep>> /\ (lock' = "sweep" => lock = "sweep")
        BY <1>8 DEF Crash, RaiseOn, Gone
    <2> QED BY <2>1 DEF IsDue, sweep
<1>9. CASE PassNext
    <2>1. StartupPass \/ SkippedPass \/ PassDone => UNCHANGED <<now, sweep>> /\ (lock' = "sweep" => lock = "sweep")
        BY DEF StartupPass, SkippedPass, PassDone
    <2>2. MarkSegment => UNCHANGED <<now, sweep>> /\ (lock' = "sweep" => lock = "sweep")
        BY DEF MarkSegment
    <2> QED BY <1>9, <2>1, <2>2 DEF IsDue, sweep, PassNext
<1>10. Start \/ HandOn \/ CheckStart \/ ReachTop \/ HandedOn \/ TickGuard \/ SkippedGuard \/ Launch
         => UNCHANGED <<now, lock, sweep>>
    BY DEF Start, HandOn, CheckStart, ReachTop, HandedOn, TickGuard, SkippedGuard, Launch
<1>11. GuardNext \/ UNCHANGED vars => UNCHANGED <<now, lock, sweep>>
    BY GuardPath, Unmoved
<1>12. (Cycles \/ \E i \in DOMAIN inFlight : CycleRaises(i)) => UNCHANGED <<now, lock, sweep>>
    BY CyclesAside
<1> QED BY <1>1, <1>2, <1>3, <1>4, <1>5, <1>6, <1>7, <1>8, <1>9, <1>10, <1>11, <1>12, QuietNext
        DEF Next, LoopNext, TickNext, SweepNext

\* Before the startup pass is over no compaction process runs.
LEMMA StartingAlone ==
    ASSUME Context, LoopInv, SweepStates, Starting, NEW sf \in Surfaces, NEW d \in Sessions
    PROVE  ~ IsDue(sf, d)
BY DEF LoopInv, LoopLocks, IsDue

LEMMA BackUp ==
    ASSUME Context, QuietHazards, [Next]_vars, pc = "down", pc' # "down"
    PROVE  Start /\ sweeps = 0 /\ lock # "sweep"
<1>1. Tick \/ Sleep \/ UNCHANGED vars => pc' = pc
    BY ClockForward, Unmoved DEF loop
<1>2. Crash \/ RaiseOn => pc' = "down"
    BY DEF Crash, RaiseOn, Gone
<1>3. (Cycles \/ \E i \in DOMAIN inFlight : CycleRaises(i)) => pc' = pc
    BY CyclesAside DEF loop
<1>4. GuardNext => pc # "down"
    BY GuardPath
<1>5. HandOn \/ TickNext \/ PassNext => pc # "down"
    BY DEF HandOn, TickNext, CheckStart, ReachTop, HandedOn, TickGuard, TickCompact, SkippedGuard,
           Launch, PassNext, StartupPass, SkippedPass, MarkSegment, PassDone
<1>6. SweepNext => pc' = pc
    BY DEF SweepNext, SweepBegins, SweepSeals, SweepCleans, SweepEnds, loop
<1> QED BY <1>1, <1>2, <1>3, <1>4, <1>5, <1>6, QuietNext DEF Next, LoopNext

\* Who is at a sealed day, or about to be, has seen every writer leave it.
LEMMA DaysSoundStep ==
    ASSUME Context, LoopInv, QuietHazards, QueueSound, MarksSound, SweepStates, DaysSound, Prompt,
           [Next]_vars
    PROVE  DaysSound'
<1> SUFFICES ASSUME NEW sf \in Surfaces, NEW d \in Sessions
             PROVE  /\ IsDue(sf, d)' => Behind(sf, d)' /\ GuardOff(d)'
                    /\ <<sf, d>> \in sealed' => Behind(sf, d)' /\ At(d, Deadline) < now'
    BY DEF DaysSound
<1>0. now \in Nat /\ now' \in Nat /\ now <= now' /\ last \in Nat /\ At(d, Deadline) \in Nat
    <2>1. d \in Nat /\ 0 < d
        BY CalendarTypes
    <2>2. now \in Nat /\ last \in Nat
        BY ContextTypes
    <2>3. now' = now \/ (now' \in Nat /\ now < now')
        BY Moves, ClockForward
    <2> QED BY <2>1, <2>2, <2>3, DayOrder
<1>1. ASSUME IsDue(sf, d)' PROVE Behind(sf, d)' /\ GuardOff(d)'
    <2>1. CASE pc' = "down"
        BY <2>1 DEF Behind, GuardOff
    <2>2. CASE pc = "down" /\ pc' # "down"
        <3>1. Start /\ sweeps = 0 /\ lock # "sweep"
            BY <2>2, BackUp
        <3>2. sweeps' = 0 /\ lock' # "sweep"
            BY <3>1 DEF Start, sweep
        <3> QED BY <1>1, <3>2 DEF IsDue
    <2>3. CASE pc # "down" /\ pc' # "down"
        <3>1. /\ Behind(sf, d) /\ GuardOff(d) /\ ~ Starting
            <4>1. IsDue(sf, d) => Behind(sf, d) /\ GuardOff(d)
                BY DEF DaysSound
            <4>2. CASE TickCompact /\ Dispatches /\ At(d, Deadline) <= now
                <5>1. ~ Starting
                    BY <4>2 DEF TickCompact, Starting, Unmarked, GuardAt
                <5> QED BY <4>2, <5>1, DispatchReady
            <4> QED BY <1>1, <4>1, <4>2, DueCame, StartingAlone
        <3>2. ~ StartupPass
            BY <3>1 DEF StartupPass, Starting, Unmarked
        <3>3. At(d, Deadline) <= last
            BY <2>3, <3>1 DEF Behind
        <3> QED BY <2>3, <3>1, <3>2, <3>3, BehindKept, GuardOffKept
    <2> QED BY <2>1, <2>2, <2>3
<1>2. ASSUME <<sf, d>> \in sealed' PROVE Behind(sf, d)' /\ At(d, Deadline) < now'
    <2>1. Behind(sf, d) /\ At(d, Deadline) < now /\ (StartupPass => <<sf, d>> \in sealed)
        <3>1. CASE <<sf, d>> \in sealed
            BY <3>1 DEF DaysSound
        <3>2. CASE <<sf, d>> \notin sealed
            <4>1. SweepSeals
                BY <1>2, <3>2, Moves
            <4>2. <<sf, d>> \in scope /\ lock = "sweep" /\ UNCHANGED pc
                BY <1>2, <3>2, <4>1 DEF SweepSeals, loop
            <4>3. IsDue(sf, d) /\ At(d, Deadline) < now
                BY <4>2 DEF IsDue, SweepStates
            <4>4. ~ StartupPass
                BY <4>2 DEF StartupPass
            <4> QED BY <4>3, <4>4 DEF DaysSound
        <3> QED BY <3>1, <3>2
    <2>2. At(d, Deadline) < now'
        BY <1>0, <2>1
    <2>3. CASE pc' = "down"
        BY <2>2, <2>3 DEF Behind
    <2>4. CASE pc = "down" /\ pc' # "down"
        <3>1. last' = now /\ UNCHANGED <<inFlight, marks>> /\ inFlight = <<>> /\ marks = {}
            BY <2>4, BackUp, PassPlaces DEF Start, pass, LoopInv, LoopLocks
        <3>2. At(d, Deadline) <= last'
            BY <1>0, <2>1, <3>1
        <3>3. DOMAIN inFlight' = {}
            BY <3>1
        <3> QED BY <2>2, <3>1, <3>2, <3>3 DEF Behind
    <2>5. CASE pc # "down" /\ pc' # "down"
        BY <2>1, <2>2, <2>5, BehindKept
    <2> QED BY <2>3, <2>4, <2>5
<1> QED BY <1>1, <1>2

LEMMA SweepStatesStep ==
    ASSUME Context, LoopInv, QuietHazards, SweepStates, [Next]_vars
    PROVE  SweepStates'
<1>1. CASE SweepBegins
    BY <1>1 DEF SweepBegins, SweepStates, SweepScope, lake
<1>2. CASE SweepSeals
    <2>1. PICK sd \in scope : scope' = scope \ {sd} /\ sealing' = sd /\ sealed' = sealed \cup {sd}
        BY <1>2 DEF SweepSeals
    <2>2. lock = "sweep" /\ UNCHANGED <<now, lock>>
        BY <1>2 DEF SweepSeals
    <2> QED BY <2>1, <2>2 DEF SweepStates
<1>3. CASE SweepCleans
    BY <1>3 DEF SweepCleans, SweepStates
<1>4. CASE SweepEnds
    BY <1>4 DEF SweepEnds, SweepStates, sweep, lake
<1>5. CASE ~ SweepNext
    <2>1. UNCHANGED <<scope, sealing, sealed>>
        BY <1>5, Moves DEF SweepNext
    <2>2. now \in Nat /\ (now' = now \/ (now' \in Nat /\ now < now'))
        BY Moves, ClockForward, ContextTypes
    <2>3. \A d \in Sessions : At(d, Deadline) \in Nat
        BY CalendarTypes, DayOrder
    <2>4. \A d \in Sessions : At(d, Deadline) < now => At(d, Deadline) < now'
        BY <2>2, <2>3
    <2>5. lock' # "sweep" => sealing = None /\ scope = {}
        <3>1. CASE Crash \/ RaiseOn
            BY <3>1 DEF Crash, RaiseOn, Gone, SweepStates
        <3>2. CASE PassNext
            <4>1. StartupPass \/ SkippedPass \/ PassDone => (lock = "sweep" => lock' = "sweep")
                BY DEF StartupPass, SkippedPass, PassDone
            <4>2. MarkSegment => UNCHANGED lock
                BY DEF MarkSegment
            <4> QED BY <3>2, <4>1, <4>2 DEF PassNext, SweepStates
        <3>3. Start \/ HandOn \/ TickNext => UNCHANGED lock
            BY DEF Start, HandOn, TickNext, CheckStart, ReachTop, HandedOn, TickGuard, TickCompact,
                   SkippedGuard, Launch
        <3>4. GuardNext \/ Tick \/ Sleep \/ UNCHANGED vars => UNCHANGED lock
            BY GuardPath, ClockForward, Unmoved
        <3>5. (Cycles \/ \E i \in DOMAIN inFlight : CycleRaises(i)) => UNCHANGED lock
            BY CyclesAside
        <3>6. UNCHANGED lock => (lock' # "sweep" => sealing = None /\ scope = {})
            BY DEF SweepStates
        <3> QED BY <1>5, <3>1, <3>2, <3>3, <3>4, <3>5, <3>6, QuietNext DEF Next, LoopNext
    <2> QED BY <2>1, <2>4, <2>5 DEF SweepStates
<1> QED BY <1>1, <1>2, <1>3, <1>4, <1>5 DEF SweepNext

\* The guard's one read tells it of every seal that comes before its marks.
LEMMA GuardKnowsStep ==
    ASSUME Context, LoopInv, QuietHazards, SweepStates, DaysSound, GuardKnows, [Next]_vars
    PROVE  GuardKnows'
<1>1. CASE Start \/ Crash \/ RaiseOn
    <2>1. seen' \subseteq seen /\ UNCHANGED sealed /\ pc' \in {"checkStart", "down"}
        BY <1>1 DEF Start, Crash, RaiseOn, Gone, pass, lake
    <2> QED BY <2>1 DEF GuardKnows
<1>2. CASE TickNext
    <2>1. UNCHANGED <<seen, sealed>> /\ pc' \notin {"spot", "unobserved", "option", "fill"}
        BY <1>2 DEF TickNext, CheckStart, ReachTop, HandedOn, TickGuard, TickCompact, SkippedGuard,
                    Launch, CheckGuard, WaitFrom, pass, lake
    <2> QED BY <2>1 DEF GuardKnows
<1>3. CASE PassNext
    <2>1. UNCHANGED <<seen, sealed>> /\ pc' \notin {"spot", "unobserved", "option", "fill"}
        <3>1. StartupPass \/ SkippedPass => UNCHANGED <<seen, sealed>> /\ pc' = "marking"
            BY DEF StartupPass, SkippedPass, lake
        <3>2. MarkSegment => UNCHANGED <<seen, sealed>> /\ pc' = "marking"
            BY DEF MarkSegment, loop
        <3>3. PassDone => UNCHANGED <<seen, sealed>> /\ pc' \in {"wait", "skipGuard"}
            BY PassPlaces DEF PassDone, WaitFrom, pass, lake
        <3> QED BY <1>3, <3>1, <3>2, <3>3 DEF PassNext
    <2> QED BY <2>1 DEF GuardKnows
<1>4. CASE GuardNext
    <2>1. UNCHANGED <<guardServed, sealed, ret>> /\ ret \in {"startup", "compact", "launch"}
          /\ sealing \in sealed \cup {None}
        BY <1>4, GuardPath, GuardPlaces DEF hooks, SweepStates
    <2>2. None \notin Surfaces \X Nat
        BY CalendarAssumption
    <2>3. CASE GuardReads
        BY <2>1, <2>3 DEF GuardReads, GuardStep, GuardKnows
    <2>4. CASE SpotSettled
        BY <2>1, <2>4 DEF SpotSettled, GuardStep, GuardKnows
    <2>5. CASE SpotAbsent
        BY <2>1, <2>5 DEF SpotAbsent, GuardStep, GuardKnows
    <2>6. CASE SpotMarked
        BY <2>1, <2>6 DEF SpotMarked, GuardStep, GuardKnows
    <2>7. CASE OptionSettled
        BY <2>1, <2>7 DEF OptionSettled, GuardStep, GuardKnows
    <2>8. CASE OptionOwed
        BY <2>1, <2>8 DEF OptionOwed, GuardStep, GuardKnows
    <2>9. CASE OptionFilled
        BY <2>1, <2>9 DEF OptionFilled, GuardStep, GuardKnows
    <2> QED BY <1>4, <2>3, <2>4, <2>5, <2>6, <2>7, <2>8, <2>9 DEF GuardNext
<1>5. CASE SweepSeals
    <2>1. PICK sd \in scope : sealed' = sealed \cup {sd}
        BY <1>5 DEF SweepSeals
    <2>2. UNCHANGED <<pc, guardServed, seen>> /\ lock = "sweep"
        BY <1>5 DEF SweepSeals, loop, hooks, pass
    <2>3. PICK sf \in Surfaces, d \in Sessions : sd = <<sf, d>>
        BY DEF Context, TypeOK
    <2>4. GuardOff(d)
        BY <2>2, <2>3 DEF DaysSound, IsDue
    <2>5. pc \in GuardAt => guardServed # d
        BY <2>4 DEF GuardOff, GuardAt
    <2> QED BY <2>1, <2>2, <2>3, <2>5 DEF GuardKnows, GuardAt
<1>6. CASE UNCHANGED <<pc, guardServed, seen, sealed>>
    BY <1>6 DEF GuardKnows
<1>7. HandOn \/ SweepBegins \/ SweepCleans \/ SweepEnds => UNCHANGED <<pc, guardServed, seen, sealed>>
    BY DEF HandOn, SweepBegins, SweepCleans, SweepEnds, loop, hooks, pass, lake
<1>8. Tick \/ Sleep \/ UNCHANGED vars => UNCHANGED <<pc, guardServed, seen, sealed>>
    BY ClockForward, Unmoved DEF loop, hooks, pass, lake
<1>9. (Cycles \/ \E i \in DOMAIN inFlight : CycleRaises(i)) => UNCHANGED <<pc, guardServed, seen, sealed>>
    BY CyclesAside DEF loop, hooks, pass
<1> QED BY <1>1, <1>2, <1>3, <1>4, <1>5, <1>6, <1>7, <1>8, <1>9, QuietNext DEF Next, LoopNext, SweepNext

(***************************************************************************)
(* A minute's rows.                                                        *)
(***************************************************************************)
\* No row, one row, or one and a fill.
Others == Kinds \ {"data", "fill"}
\* The rows of a minute: none, one, or one fill beside a gap row or a marker.
Shapes == {<<>>} \cup {<<k>> : k \in Kinds} \cup {<<k, "fill">> : k \in Others}
                 \cup {<<"fill", k>> : k \in Others}
\* What a gap pass may still add a marker to.
Plain == {<<>>, <<"fill">>}

\* The newest minute a row can be of.
Newest == IF pc = "down" THEN now ELSE Reached

\* No minute ever has other rows than these.
RowsShaped ==
    \A sf \in Surfaces, s \in CaptureSlots : journal[sf][s] \in Shapes /\ partition[sf][s] \in Shapes
\* No row is of a minute the loop has not reached.
RowsPast ==
    \A sf \in Surfaces, s \in CaptureSlots : journal[sf][s] # <<>> => s <= Newest
\* What a cycle owes has no row, what a pass owes none but a fill.
RowsOwed ==
    /\ \A i \in DOMAIN inFlight : \A sf \in inFlight[i].left : \A s \in inFlight[i].slots :
         journal[sf][s] = <<>>
    /\ \A m \in marks : \A s \in m.slots : journal[m.surface][s] \in Plain
    /\ PreSkip => \A sf \in Surfaces, s \in skipped : journal[sf][s] \in Plain
\* A day's rows are in its segments or in its partition, and move as it is sealed.
RowsSealed ==
    \A sf \in Surfaces, s \in CaptureSlots :
      /\ <<sf, DayOf(s)>> \notin sealed => partition[sf][s] = <<>>
      /\ <<sf, DayOf(s)>> \in sealed /\ sealing # <<sf, DayOf(s)>> => journal[sf][s] = <<>>
\* What the guard found absent is absent until it has written it.
RowsGuarded ==
    /\ pc = "unobserved" => journal["quotes"][At(guardServed, EquityClose)] = <<>>
    /\ pc = "fill" => ~ HasData("chains", At(guardServed, OptionClose))
RowsSound == RowsShaped /\ RowsPast /\ RowsOwed /\ RowsSealed /\ RowsGuarded

\* All that is known of the evening but what is accounted for.
Evening == Context /\ LoopInv /\ QueueSound /\ MarksSound /\ SweepStates /\ DaysSound /\ GuardKnows

LEMMA JournalTypes ==
    ASSUME Context, NEW sf \in Surfaces, NEW s \in CaptureSlots
    PROVE  /\ journal \in [Surfaces -> [CaptureSlots -> Seq(Kinds)]] /\ journal[sf][s] \in Seq(Kinds)
           /\ partition \in [Surfaces -> [CaptureSlots -> Seq(Kinds)]]
<1>1. journal \in [Surfaces -> [CaptureSlots -> Seq(Kinds)]]
      /\ partition \in [Surfaces -> [CaptureSlots -> Seq(Kinds)]]
    BY DEF Context, TypeOK
<1> QED BY <1>1

LEMMA WrittenRows ==
    ASSUME Context, NEW sf \in Surfaces, NEW T, NEW k, journal' = Written(sf, T, k)
    PROVE  \A f \in Surfaces, s \in CaptureSlots :
             journal'[f][s] = IF f = sf /\ s \in T THEN Append(journal[f][s], k) ELSE journal[f][s]
<1>1. journal \in [Surfaces -> [CaptureSlots -> Seq(Kinds)]]
    BY DEF Context, TypeOK
<1> QED BY <1>1 DEF Written

LEMMA TwoRows ==
    ASSUME NEW j \in Kinds, NEW k \in Kinds
    PROVE  Append(<<j>>, k) = <<j, k>>
<1>1. /\ <<j>> \in Seq(Kinds) /\ <<j, k>> \in Seq(Kinds) /\ Len(<<j>>) = 1 /\ Len(<<j, k>>) = 2
      /\ <<j>>[1] = j /\ <<j, k>>[1] = j /\ <<j, k>>[2] = k
    OBVIOUS
<1>2. /\ Append(<<j>>, k) \in Seq(Kinds) /\ Len(Append(<<j>>, k)) = Len(<<j>>) + 1
      /\ \A i \in 1 .. Len(<<j>>) : Append(<<j>>, k)[i] = <<j>>[i]
      /\ Append(<<j>>, k)[Len(<<j>>) + 1] = k
    BY <1>1, AppendProperties
<1>3. Append(<<j>>, k)[1] = j /\ Append(<<j>>, k)[2] = k /\ Len(Append(<<j>>, k)) = 2
    BY <1>1, <1>2
<1>4. \A i \in 1 .. 2 : i = 1 \/ i = 2
    OBVIOUS
<1>5. PICK r \in Seq(Kinds), q \in Seq(Kinds) : r = Append(<<j>>, k) /\ q = <<j, k>>
    BY <1>1, <1>2
<1>6. Len(r) = Len(q) /\ \A i \in 1 .. Len(r) : r[i] = q[i]
    BY <1>1, <1>3, <1>4, <1>5
<1> QED BY <1>5, <1>6, SeqEqual

\* A marker fits where there is nothing or a fill, a fill where there is no data.
LEMMA RowAdded ==
    /\ \A k : Append(<<>>, k) = <<k>> /\ <<k>> # <<>>
    /\ \A k \in Kinds : <<k>> \in Shapes
    /\ \A k \in Others : Append(<<k>>, "fill") \in Shapes
    /\ \A r \in Plain, k \in Others : Append(r, k) \in Shapes /\ Append(r, k) # <<>>
    /\ Plain \subseteq Shapes /\ <<>> \in Plain /\ <<"fill">> \in Plain /\ <<>> \in Shapes
    /\ Others \subseteq Kinds /\ {"data", "gap", "fill", "unobserved"} \subseteq Kinds
    /\ "unobserved" \in Others
<1>1. \A k : Append(<<>>, k) = <<k>> /\ <<k>> # <<>>
    OBVIOUS
<1>2. /\ Others \subseteq Kinds /\ {"data", "gap", "fill", "unobserved"} \subseteq Kinds
      /\ "unobserved" \in Others /\ "fill" \in Kinds
    BY DEF Others, Kinds
<1>3. \A k \in Kinds : <<k>> \in Shapes
    BY DEF Shapes
<1>4. \A k \in Others : <<k, "fill">> \in Shapes /\ <<"fill", k>> \in Shapes /\ <<"fill", k>> # <<>>
    BY DEF Shapes
<1>5. \A k \in Others : Append(<<k>>, "fill") = <<k, "fill">> /\ Append(<<"fill">>, k) = <<"fill", k>>
    BY <1>2, TwoRows
<1>6. \A k \in Others : Append(<<k>>, "fill") \in Shapes
    BY <1>4, <1>5
<1>7. \A r \in Plain, k \in Others : Append(r, k) \in Shapes /\ Append(r, k) # <<>>
    <2> SUFFICES ASSUME NEW r \in Plain, NEW k \in Others PROVE Append(r, k) \in Shapes /\ Append(r, k) # <<>>
        OBVIOUS
    <2>1. CASE r = <<>>
        BY <1>1, <1>2, <1>3, <2>1
    <2>2. CASE r = <<"fill">>
        BY <1>4, <1>5, <2>2
    <2> QED BY <2>1, <2>2 DEF Plain
<1>8. Plain \subseteq Shapes /\ <<>> \in Plain /\ <<"fill">> \in Plain /\ <<>> \in Shapes
    BY <1>2, <1>3 DEF Plain, Shapes
<1> QED BY <1>1, <1>2, <1>3, <1>6, <1>7, <1>8

\* A running guard is at a day with a session, whose slots the loop has reached.
LEMMA GuardDay ==
    ASSUME Context, LoopInv, QueueSound, pc \in GuardAt
    PROVE  /\ guardServed \in Sessions /\ inFlight = <<>> /\ marks = {} /\ pc # "down"
           /\ \A s \in SlotsOf(guardServed) : s \in CaptureSlots /\ DayOf(s) = guardServed /\ s <= Reached
           /\ At(guardServed, EquityClose) \in SlotsOf(guardServed)
           /\ At(guardServed, OptionClose) \in SlotsOf(guardServed)
           /\ At(guardServed, EquityClose) \in CaptureSlots /\ At(guardServed, OptionClose) \in CaptureSlots
           /\ ret = "compact" => At(guardServed, EquityClose) \notin skipped
<1>1. /\ PastCloseGuard(guardLast) /\ guardServed = DayOf(guardLast) /\ guardLast \in Nat
      /\ ret = "compact" => At(guardServed, EquityClose) \notin skipped
      /\ guardServed \in Sessions /\ At(guardServed, Deadline) <= guardLast
    BY ContextTypes DEF LoopInv, GuardTimes, PastCloseGuard, InSession
<1>2. /\ guardServed \in Nat /\ 0 < guardServed /\ At(guardServed, OptionClose) < At(guardServed, Deadline)
      /\ At(guardServed, OptionClose) \in Nat /\ At(guardServed, Deadline) \in Nat
    BY <1>1, CalendarTypes, DayOrder
<1>3. \A s \in SlotsOf(guardServed) : s \in CaptureSlots /\ s \in Nat /\ DayOf(s) = guardServed /\ s < guardLast
    <2>1. \A s \in SlotsOf(guardServed) : /\ s \in CaptureSlots /\ s \in Nat /\ DayOf(s) = guardServed
                                          /\ s <= At(guardServed, OptionClose)
        BY <1>1, SlotsAre
    <2> QED BY <1>1, <1>2, <2>1
<1>4. marks = {} /\ pc # "down"
    BY DEF LoopInv, LoopLocks, GuardAt
<1>5. CASE ret = "startup"
    <2>1. Starting /\ ~ InTick
        BY <1>5 DEF Starting, Unmarked, InTick, GuardAt
    <2>2. inFlight = <<>> /\ guardLast = last
        BY <2>1 DEF LoopInv, LoopLocks, LoopHooks, PreGuard
    <2>3. Reached = last
        BY <2>1 DEF Reached
    <2>4. \A s \in SlotsOf(guardServed) : s <= Reached
        BY <1>1, <1>3, <2>2, <2>3
    <2> QED BY <1>1, <1>3, <1>4, <2>2, <2>4, ClosesAreSlots
<1>6. CASE ret \in {"compact", "launch"}
    <2>1. InTick /\ pc \notin {"hand", "tick"}
        BY <1>6 DEF InTick, GuardAt
    <2>2. guardLast = slot /\ Reached = slot - 1
        BY <2>1, Minute DEF LoopInv, LoopHooks
    <2>3. inFlight = <<>>
        BY <1>1, <2>1, <2>2 DEF QueueSound
    <2>4. \A s \in SlotsOf(guardServed) : s <= Reached
        BY <1>1, <1>3, <2>2
    <2> QED BY <1>1, <1>3, <1>4, <2>3, <2>4, ClosesAreSlots
<1> QED BY <1>5, <1>6, GuardPlaces

\* What lands is a cycle's one slot, of a day not sealed.
LEMMA LandIs ==
    ASSUME Evening, RowsSound, NEW i \in DOMAIN inFlight, NEW sf \in Surfaces, LandSurface(i, sf)
    PROVE  \E s \in CaptureSlots :
             /\ inFlight[i].slots = {s} /\ s <= last /\ journal[sf][s] = <<>> /\ sf \in inFlight[i].left
             /\ <<sf, DayOf(s)>> \notin sealed
             /\ \/ /\ \E k \in {"data", "gap"} : journal' = Written(sf, {s}, k)
                   /\ lost' = lost
                \/ journal' = journal /\ lost' = lost \cup {<<sf, s>>}
             /\ UNCHANGED <<now, loop, marks, lock, sweep, partition, sealed, guardServed>> /\ pc # "down"
<1>1. inFlight[i].state = "running" /\ sf \in inFlight[i].left
    BY DEF LandSurface
<1>2. PICK s \in CaptureSlots : inFlight[i].slots = {s} /\ s <= last
    <2>1. EntrySound(inFlight[i]) /\ inFlight[i] \in Entries
        BY EntryIs DEF Evening, QueueSound
    <2>2. inFlight[i].kind = "cycle"
        BY <1>1, <2>1 DEF EntrySound, Entries
    <2> QED BY <2>1, <2>2 DEF EntrySound
<1>3. FirstOf(inFlight[i].slots) = s
    <2>1. s \in Nat
        BY SlotIs
    <2> QED BY <1>2, <2>1 DEF FirstOf
<1>4. journal[sf][s] = <<>>
    BY <1>1, <1>2 DEF RowsSound, RowsOwed
<1>5. pc # "down"
    BY EntryIs DEF Evening
<1>6. <<sf, DayOf(s)>> \notin sealed
    <2> SUFFICES ASSUME <<sf, DayOf(s)>> \in sealed PROVE FALSE
        OBVIOUS
    <2>1. Behind(sf, DayOf(s))
        BY SlotIs DEF Evening, DaysSound
    <2> QED BY <1>1, <1>2, <1>5, <2>1 DEF Behind
<1>7. \/ /\ \E k \in {"data", "gap"} : journal' = Written(sf, {s}, k)
         /\ lost' = lost
      \/ journal' = journal /\ lost' = lost \cup {<<sf, s>>}
    <2>1. \/ /\ \E k \in Landings(sf, s) : journal' = Written(sf, {s}, k)
             /\ lost' = lost
          \/ journal' = journal /\ lost' = lost \cup {<<sf, s>>}
        BY <1>3 DEF LandSurface
    <2>2. Landings(sf, s) \subseteq {"data", "gap"}
        BY DEF Landings
    <2> QED BY <2>1, <2>2
<1>8. UNCHANGED <<now, loop, marks, lock, sweep, partition, sealed, guardServed>>
    BY DEF LandSurface, pass, hooks
<1> QED BY <1>1, <1>2, <1>4, <1>5, <1>6, <1>7, <1>8

\* What a pass writes is one segment of its surface's oldest day.
LEMMA MarkIsWritten ==
    ASSUME MarkSegment
    PROVE  /\ pc = "marking" /\ UNCHANGED <<now, loop, inFlight, lock, sweep, partition, sealed, guardServed>>
           /\ \E m \in marks :
                /\ \A n \in marks : n.surface = m.surface => m.day <= n.day
                /\ \/ /\ journal' = Written(m.surface, m.slots, m.kind)
                      /\ marks' = marks \ {m} /\ lost' = lost
                   \/ /\ journal' = journal /\ marks' = {n \in marks : n.surface # m.surface}
                      /\ lost' = lost \cup UNION {{n.surface} \X n.slots : n \in marks \ marks'}
<1>1. pc = "marking" /\ UNCHANGED <<now, loop, inFlight, lock, sweep, partition, sealed, guardServed>>
    BY DEF MarkSegment, hooks
<1>2. PICK m \in marks :
       LET name == <<m.surface, FirstOf(m.slots)>> IN
       /\ \A n \in marks : n.surface = m.surface => m.day <= n.day
       /\ \/ /\ name \notin stamped
             /\ journal' = Written(m.surface, m.slots, m.kind)
             /\ stamped' = stamped \cup {name} /\ marks' = marks \ {m}
             /\ UNCHANGED <<lost, faults>>
          \/ /\ name \in stamped \/ ("failed mark" \in Hazards /\ faults < MaxFaults)
             /\ faults' = IF name \in stamped THEN faults ELSE faults + 1
             /\ marks' = {n \in marks : n.surface # m.surface}
             /\ lost' = lost \cup UNION {{n.surface} \X n.slots : n \in marks \ marks'}
             /\ UNCHANGED <<journal, stamped>>
    BY DEF MarkSegment
<1> QED BY <1>1, <1>2

\* A segment still owed is of a day not sealed, whose rows leave room for it.
LEMMA MarkFits ==
    ASSUME Evening, RowsSound, NEW m \in marks
    PROVE  /\ m.surface \in Surfaces /\ m.slots \subseteq CaptureSlots /\ m.kind \in Others
           /\ <<m.surface, m.day>> \notin sealed /\ pc = "marking"
           /\ \A s \in m.slots : /\ DayOf(s) = m.day /\ s <= Reached
                                 /\ journal[m.surface][s] \in Plain
<1>1. /\ m.surface \in Surfaces /\ m.day \in Sessions
      /\ \A s \in m.slots : s \in CaptureSlots /\ s \in Nat /\ DayOf(s) = m.day
    BY MarkIs DEF Evening
<1>2. m.kind \in Others
    BY DEF Evening, MarksSound, Others, Kinds
<1>3. /\ pc = "marking" /\ ret \in {"wait", "skipGuard"}
      /\ ret = "wait" => \A s \in m.slots : s <= last
      /\ ret = "skipGuard" => \A s \in m.slots : last < s /\ s < slot
    BY MarksPlace DEF Evening
<1>4. \A s \in m.slots : s <= Reached
    <2>1. ret = "wait" => Reached = last
        BY <1>3 DEF Reached, InTick, GuardAt
    <2>2. ret = "skipGuard" => Reached = slot - 1
        BY <1>3 DEF Reached, InTick
    <2>3. slot \in Nat
        BY ContextTypes DEF Evening
    <2> QED BY <1>1, <1>3, <2>1, <2>2, <2>3
<1>5. <<m.surface, m.day>> \notin sealed
    <2> SUFFICES ASSUME <<m.surface, m.day>> \in sealed PROVE FALSE
        OBVIOUS
    <2>1. Behind(m.surface, m.day)
        BY <1>1 DEF Evening, DaysSound
    <2> QED BY <1>3, <2>1 DEF Behind
<1>6. \A s \in m.slots : journal[m.surface][s] \in Plain
    BY DEF RowsSound, RowsOwed
<1> QED BY <1>1, <1>2, <1>3, <1>4, <1>5, <1>6

\* The guard's marker and its fill.
LEMMA SpotIsMarked ==
    ASSUME Evening, RowsSound, SpotMarked
    PROVE  /\ <<"quotes", guardServed>> \notin sealed
           /\ journal["quotes"][At(guardServed, EquityClose)] = <<>>
           /\ \/ journal' = journal
              \/ journal' = Written("quotes", {At(guardServed, EquityClose)}, "unobserved")
<1>1. <<"quotes", guardServed>> \notin sealed
    BY DEF Evening, GuardKnows, SpotMarked, Surfaces
<1> QED BY <1>1 DEF RowsSound, RowsGuarded, SpotMarked

LEMMA OptionIsFilled ==
    ASSUME Evening, RowsSound, OptionFilled
    PROVE  /\ <<"chains", guardServed>> \notin sealed
           /\ journal["chains"][At(guardServed, OptionClose)] \in {<<>>} \cup {<<k>> : k \in Others}
           /\ \/ journal' = journal
              \/ journal' = Written("chains", {At(guardServed, OptionClose)}, "fill")
<1> DEFINE s == At(guardServed, OptionClose)
           r == journal["chains"][s]
<1>1. <<"chains", guardServed>> \notin sealed
    BY DEF Evening, GuardKnows, OptionFilled, Surfaces
<1>2. s \in CaptureSlots /\ "chains" \in Surfaces
    BY GuardDay DEF Evening, OptionFilled, GuardAt, Surfaces
<1>3. r \in Shapes /\ \A i \in DOMAIN r : r[i] \notin {"data", "fill"}
    BY <1>2 DEF RowsSound, RowsShaped, RowsGuarded, HasData, OptionFilled
<1>4. r \in {<<>>} \cup {<<k>> : k \in Others}
    <2> HIDE DEF r
    <2>1. CASE r \in {<<k>> : k \in Kinds}
        <3>1. PICK k \in Kinds : r = <<k>>
            BY <2>1
        <3>2. 1 \in DOMAIN r /\ r[1] = k
            BY <3>1
        <3> QED BY <1>3, <3>1, <3>2 DEF Others
    <2>2. CASE r \in {<<k, "fill">> : k \in Others}
        <3>1. PICK k \in Others : r = <<k, "fill">>
            BY <2>2
        <3>2. 2 \in DOMAIN r /\ r[2] = "fill"
            BY <3>1
        <3> QED BY <1>3, <3>2
    <2>3. CASE r \in {<<"fill", k>> : k \in Others}
        <3>1. PICK k \in Others : r = <<"fill", k>>
            BY <2>3
        <3>2. 1 \in DOMAIN r /\ r[1] = "fill"
            BY <3>1
        <3> QED BY <1>3, <3>2
    <2> QED BY <1>3, <2>1, <2>2, <2>3 DEF Shapes
<1> QED BY <1>1, <1>4 DEF OptionFilled

\* Every row is added to a minute the loop has reached, of a day not sealed.
LEMMA Adding ==
    ASSUME Evening, RowsSound, QuietHazards, [Next]_vars
    PROVE  \/ journal' = journal
           \/ SweepCleans
           \/ \E sf \in Surfaces, T \in SUBSET CaptureSlots, k \in Kinds :
                /\ journal' = Written(sf, T, k) /\ pc # "down" /\ pc' # "down"
                /\ \A s \in T : /\ <<sf, DayOf(s)>> \notin sealed /\ s <= Reached
                                /\ Append(journal[sf][s], k) \in Shapes
                /\ UNCHANGED <<last, partition, sealed, sealing>>
<1>1. ASSUME NEW i \in DOMAIN inFlight, NEW sf \in Surfaces, LandSurface(i, sf), journal' # journal
      PROVE  \E T \in SUBSET CaptureSlots, k \in Kinds :
                /\ journal' = Written(sf, T, k) /\ pc # "down" /\ pc' # "down"
                /\ \A s \in T : /\ <<sf, DayOf(s)>> \notin sealed /\ s <= Reached
                                /\ Append(journal[sf][s], k) \in Shapes
                /\ UNCHANGED <<last, partition, sealed, sealing>>
    <2>1. PICK s \in CaptureSlots :
             /\ s <= last /\ journal[sf][s] = <<>> /\ <<sf, DayOf(s)>> \notin sealed
             /\ \E k \in {"data", "gap"} : journal' = Written(sf, {s}, k)
             /\ UNCHANGED <<loop, sweep, partition, sealed>> /\ pc # "down"
        BY <1>1, LandIs
    <2>2. PICK k \in {"data", "gap"} : journal' = Written(sf, {s}, k)
        BY <2>1
    <2>3. k \in Kinds /\ Append(journal[sf][s], k) \in Shapes
        BY <2>1, <2>2, RowAdded
    <2>4. s <= Reached
        <3>1. last \in Nat /\ s \in Nat /\ Reached \in Int /\ last <= Reached
            BY ContextTypes, Minute, SlotIs DEF Evening
        <3> QED BY <2>1, <3>1
    <2>5. UNCHANGED <<pc, last, sealing>>
        BY <2>1 DEF loop, sweep
    <2>6. {s} \in SUBSET CaptureSlots
          /\ \A t \in {s} : /\ <<sf, DayOf(t)>> \notin sealed /\ t <= Reached
                             /\ Append(journal[sf][t], k) \in Shapes
        BY <2>1, <2>3, <2>4
    <2> QED BY <2>1, <2>2, <2>3, <2>5, <2>6
<1>2. ASSUME MarkSegment, journal' # journal
      PROVE  \E sf \in Surfaces, T \in SUBSET CaptureSlots, k \in Kinds :
                /\ journal' = Written(sf, T, k) /\ pc # "down" /\ pc' # "down"
                /\ \A s \in T : /\ <<sf, DayOf(s)>> \notin sealed /\ s <= Reached
                                /\ Append(journal[sf][s], k) \in Shapes
                /\ UNCHANGED <<last, partition, sealed, sealing>>
    <2>1. PICK m \in marks : journal' = Written(m.surface, m.slots, m.kind)
        BY <1>2, MarkIsWritten
    <2>2. /\ m.surface \in Surfaces /\ m.slots \subseteq CaptureSlots /\ m.kind \in Others
          /\ <<m.surface, m.day>> \notin sealed /\ pc = "marking"
          /\ \A s \in m.slots : /\ DayOf(s) = m.day /\ s <= Reached
                                /\ journal[m.surface][s] \in Plain
        BY MarkFits
    <2>3. m.kind \in Kinds /\ \A s \in m.slots : Append(journal[m.surface][s], m.kind) \in Shapes
        BY <2>2, RowAdded
    <2>4. UNCHANGED <<pc, last, partition, sealed, sealing>>
        BY <1>2, MarkIsWritten DEF loop, sweep
    <2> QED BY <2>1, <2>2, <2>3, <2>4
<1>3. ASSUME SpotMarked \/ OptionFilled, journal' # journal
      PROVE  \E sf \in Surfaces, T \in SUBSET CaptureSlots, k \in Kinds :
                /\ journal' = Written(sf, T, k) /\ pc # "down" /\ pc' # "down"
                /\ \A s \in T : /\ <<sf, DayOf(s)>> \notin sealed /\ s <= Reached
                                /\ Append(journal[sf][s], k) \in Shapes
                /\ UNCHANGED <<last, partition, sealed, sealing>>
    <2>1. /\ UNCHANGED <<last, partition, sealed, sealing>> /\ pc \in GuardAt /\ pc # "down" /\ pc' # "down"
        BY <1>3, GuardPath DEF Evening, GuardNext, sweep
    <2>2. \A s \in SlotsOf(guardServed) : s \in CaptureSlots /\ DayOf(s) = guardServed /\ s <= Reached
        BY <2>1, GuardDay DEF Evening
    <2>3. At(guardServed, EquityClose) \in SlotsOf(guardServed)
          /\ At(guardServed, OptionClose) \in SlotsOf(guardServed)
        BY <2>1, GuardDay DEF Evening
    <2>4. "quotes" \in Surfaces /\ "chains" \in Surfaces /\ "unobserved" \in Kinds /\ "fill" \in Kinds
        BY DEF Surfaces, Kinds
    <2>5. CASE SpotMarked
        <3>1. PICK s \in SlotsOf(guardServed) : s = At(guardServed, EquityClose)
            BY <2>3
        <3>2. /\ <<"quotes", guardServed>> \notin sealed /\ journal["quotes"][s] = <<>>
              /\ journal' = Written("quotes", {s}, "unobserved")
            BY <1>3, <2>5, <3>1, SpotIsMarked
        <3>3. Append(journal["quotes"][s], "unobserved") \in Shapes
            BY <3>2, RowAdded
        <3>4. {s} \in SUBSET CaptureSlots
              /\ \A t \in {s} : /\ <<"quotes", DayOf(t)>> \notin sealed /\ t <= Reached
                                 /\ Append(journal["quotes"][t], "unobserved") \in Shapes
            BY <2>2, <3>2, <3>3
        <3> QED BY <2>1, <2>4, <3>2, <3>4
    <2>6. CASE OptionFilled
        <3>1. PICK s \in SlotsOf(guardServed) : s = At(guardServed, OptionClose)
            BY <2>3
        <3>2. /\ <<"chains", guardServed>> \notin sealed
              /\ journal["chains"][s] \in {<<>>} \cup {<<k>> : k \in Others}
              /\ journal' = Written("chains", {s}, "fill")
            BY <1>3, <2>6, <3>1, OptionIsFilled
        <3>3. Append(journal["chains"][s], "fill") \in Shapes
            BY <2>4, <3>2, RowAdded
        <3>4. {s} \in SUBSET CaptureSlots
              /\ \A t \in {s} : /\ <<"chains", DayOf(t)>> \notin sealed /\ t <= Reached
                                 /\ Append(journal["chains"][t], "fill") \in Shapes
            BY <2>2, <3>2, <3>3
        <3> QED BY <2>1, <2>4, <3>2, <3>4
    <2> QED BY <1>3, <2>5, <2>6
<1> QED BY <1>1, <1>2, <1>3, Moves

\* The newest minute never goes back.
LEMMA NewestForward ==
    ASSUME Evening, QuietHazards, [Next]_vars
    PROVE  Newest \in Int /\ Newest' \in Int /\ Newest <= Newest'
<1>0. /\ now \in Nat /\ last \in Nat /\ slot \in Nat
      /\ Reached \in Int /\ (pc # "down" => Reached <= now)
    <2>1. now \in Nat /\ last \in Nat /\ slot \in Nat /\ Reached \in Int
        BY ContextTypes, Minute DEF Evening
    <2>2. (pc # "down" => last <= now) /\ (InTick => slot <= now)
        BY DEF Evening, LoopInv, LoopClock
    <2> QED BY <2>1, <2>2 DEF Reached
<1>1. CASE UNCHANGED <<pc, ret, last, slot, now>>
    BY <1>0, <1>1 DEF Newest, Reached, InTick
<1>2. CASE Start
    <2>1. Newest = now /\ Newest' = now
        BY <1>2 DEF Start, Newest, Reached, InTick, GuardAt
    <2> QED BY <1>0, <2>1
<1>3. CASE Crash \/ RaiseOn
    <2>1. pc # "down" /\ Newest = Reached /\ Newest' = now
        BY <1>3 DEF Crash, RaiseOn, Gone, Newest
    <2> QED BY <1>0, <2>1
<1>4. CASE Tick \/ Sleep
    <2>1. now' \in Nat /\ now < now' /\ UNCHANGED <<pc, ret, last, slot>>
        BY <1>4, ClockForward DEF Evening, loop
    <2>2. Newest' = IF pc = "down" THEN now' ELSE Reached
        BY <2>1 DEF Newest, Reached, InTick
    <2>3. CASE pc = "down"
        BY <1>0, <2>1, <2>2, <2>3 DEF Newest
    <2>4. CASE pc # "down"
        BY <1>0, <2>2, <2>4 DEF Newest
    <2> QED BY <2>3, <2>4
<1>5. CASE ReachTop
    <2>1. Newest = last /\ Newest' = now - 1
        BY <1>5 DEF ReachTop, Newest, Reached, InTick, GuardAt
    <2>2. last < now
        <3>1. now >= top /\ top > last /\ top \in Int
            BY <1>5 DEF ReachTop, Evening, Context, QueueInv, Base, Control
        <3> QED BY <1>0, <3>1
    <2> QED BY <1>0, <2>1, <2>2
<1>6. CASE Launch
    <2>1. Newest = slot - 1 /\ Newest' = slot
        BY <1>6 DEF Launch, WaitFrom, Newest, Reached, InTick, GuardAt
    <2> QED BY <1>0, <2>1
<1>7. CASE CheckStart \/ HandedOn \/ TickGuard \/ TickCompact \/ SkippedGuard
    <2>1. UNCHANGED <<last, slot>> /\ InTick' = InTick /\ pc # "down" /\ pc' # "down"
        BY <1>7 DEF CheckStart, HandedOn, TickGuard, TickCompact, SkippedGuard, CheckGuard, InTick, GuardAt
    <2> QED BY <1>0, <2>1 DEF Newest, Reached
<1>8. CASE GuardNext
    <2>1. /\ UNCHANGED <<ret, last, slot>> /\ pc \in GuardAt /\ pc' \in GuardAt \cup {ret}
          /\ pc' # "down" /\ pc # "down"
        BY <1>8, GuardPath DEF Evening
    <2>2. InTick' = InTick
        BY <2>1, GuardPlaces DEF Evening, InTick, GuardAt
    <2> QED BY <1>0, <2>1, <2>2 DEF Newest, Reached
<1>9. CASE PassNext
    <2>1. StartupPass \/ SkippedPass => UNCHANGED <<last, slot>> /\ InTick' = InTick /\ pc # "down" /\ pc' # "down"
        BY DEF StartupPass, SkippedPass, InTick, GuardAt
    <2>2. MarkSegment => UNCHANGED <<last, slot>> /\ InTick' = InTick /\ pc # "down" /\ pc' # "down"
        BY DEF MarkSegment, loop, InTick
    <2>3. PassDone => UNCHANGED <<last, slot>> /\ InTick' = InTick /\ pc # "down" /\ pc' # "down"
        BY PassPlaces DEF Evening, PassDone, WaitFrom, InTick, GuardAt
    <2> QED BY <1>0, <1>9, <2>1, <2>2, <2>3 DEF PassNext, Newest, Reached
<1>10. HandOn \/ SweepNext \/ UNCHANGED vars => UNCHANGED <<pc, ret, last, slot, now>>
    BY Unmoved DEF HandOn, SweepNext, SweepBegins, SweepSeals, SweepCleans, SweepEnds, loop
<1>11. (Cycles \/ \E i \in DOMAIN inFlight : CycleRaises(i)) => UNCHANGED <<pc, ret, last, slot, now>>
    BY CyclesAside DEF loop
<1> QED BY <1>1, <1>2, <1>3, <1>4, <1>5, <1>6, <1>7, <1>8, <1>9, <1>10, <1>11, QuietNext
        DEF Next, LoopNext, TickNext

LEMMA Cleaned ==
    ASSUME Context, SweepCleans
    PROVE  /\ sealing \in Surfaces \X Sessions /\ sealing' = None /\ UNCHANGED <<sealed, partition>>
           /\ \A sf \in Surfaces, s \in CaptureSlots : journal'[sf][s] \in {<<>>, journal[sf][s]}
           /\ \A sf \in Surfaces, s \in CaptureSlots : sealing = <<sf, DayOf(s)>> => journal'[sf][s] = <<>>
           /\ \A sf \in Surfaces, s \in CaptureSlots : sealing # <<sf, DayOf(s)>> => journal'[sf][s] = journal[sf][s]
<1>1. sealing \in Surfaces \X Sessions /\ sealing' = None /\ UNCHANGED <<sealed, partition>>
    BY DEF Context, TypeOK, SweepCleans
<1>2. PICK f \in Surfaces, d \in Sessions : sealing = <<f, d>>
    BY <1>1
<1>3. journal' = [journal EXCEPT ![f] = [s \in CaptureSlots |->
                   IF s \in SlotsOf(d) THEN <<>> ELSE @[s]]]
    BY <1>2 DEF SweepCleans
<1>4. \A sf \in Surfaces, s \in CaptureSlots :
        journal'[sf][s] = IF sf = f /\ s \in SlotsOf(d) THEN <<>> ELSE journal[sf][s]
    BY <1>3, JournalTypes
<1>5. \A s \in CaptureSlots : s \in SlotsOf(d) <=> DayOf(s) = d
    BY SlotsAre, SlotIs
<1> QED BY <1>1, <1>2, <1>4, <1>5

LEMMA SealedNow ==
    ASSUME Context, SweepSeals
    PROVE  \E f \in Surfaces, d \in Sessions :
             /\ <<f, d>> \in scope /\ sealing = None /\ sealing' = <<f, d>> /\ sealed' = sealed \cup {<<f, d>>}
             /\ lock = "sweep" /\ UNCHANGED <<journal, lost, pc, inFlight, marks>>
             /\ \A sf \in Surfaces, s \in CaptureSlots :
                  partition'[sf][s] = IF <<f, d>> \notin sealed /\ sf = f /\ DayOf(s) = d
                                      THEN journal[sf][s] ELSE partition[sf][s]
<1>1. PICK sd \in scope : /\ sealing' = sd /\ sealed' = sealed \cup {sd}
                          /\ partition' = IF sd \in sealed THEN partition
                             ELSE [partition EXCEPT ![sd[1]] = [s \in CaptureSlots |->
                                     IF s \in SlotsOf(sd[2]) THEN journal[sd[1]][s] ELSE @[s]]]
    BY DEF SweepSeals
<1>2. PICK f \in Surfaces, d \in Sessions : sd = <<f, d>>
    BY DEF Context, TypeOK
<1>3. \A sf \in Surfaces, s \in CaptureSlots :
        partition'[sf][s] = IF <<f, d>> \notin sealed /\ sf = f /\ s \in SlotsOf(d)
                            THEN journal[sf][s] ELSE partition[sf][s]
    BY <1>1, <1>2, JournalTypes
<1>4. \A s \in CaptureSlots : s \in SlotsOf(d) <=> DayOf(s) = d
    BY SlotsAre, SlotIs
<1>5. sealing = None /\ lock = "sweep" /\ UNCHANGED <<journal, lost, pc, inFlight, marks>>
    BY DEF SweepSeals, loop, pass
<1> QED BY <1>1, <1>2, <1>3, <1>4, <1>5

LEMMA RowsShapedStep ==
    ASSUME Evening, RowsSound, QuietHazards, [Next]_vars
    PROVE  RowsShaped' /\ RowsPast'
<1> SUFFICES ASSUME NEW sf \in Surfaces, NEW s \in CaptureSlots
             PROVE  /\ journal'[sf][s] \in Shapes /\ partition'[sf][s] \in Shapes
                    /\ journal'[sf][s] # <<>> => s <= Newest'
    BY DEF RowsShaped, RowsPast
<1>0. /\ journal[sf][s] \in Shapes /\ partition[sf][s] \in Shapes
      /\ journal[sf][s] # <<>> => s <= Newest
    BY DEF RowsSound, RowsShaped, RowsPast
<1>1. s \in Nat /\ Newest \in Int /\ Newest' \in Int /\ Newest <= Newest'
    BY NewestForward, SlotIs
<1>2. partition'[sf][s] \in Shapes
    <2>1. CASE SweepSeals
        <3>1. partition'[sf][s] \in {partition[sf][s], journal[sf][s]}
            BY <2>1, SealedNow DEF Evening
        <3> QED BY <1>0, <3>1
    <2>2. CASE ~ SweepSeals
        BY <1>0, <2>2, Moves
    <2> QED BY <2>1, <2>2
<1>3. CASE journal' = journal
    BY <1>0, <1>1, <1>2, <1>3
<1>4. CASE SweepCleans
    <2>1. journal'[sf][s] \in {<<>>, journal[sf][s]}
        BY <1>4, Cleaned DEF Evening
    <2> QED BY <1>0, <1>1, <1>2, <2>1, RowAdded
<1>5. ASSUME NEW f \in Surfaces, NEW T \in SUBSET CaptureSlots, NEW k \in Kinds,
             journal' = Written(f, T, k), pc # "down",
             \A t \in T : t <= Reached /\ Append(journal[f][t], k) \in Shapes
      PROVE  journal'[sf][s] \in Shapes /\ (journal'[sf][s] # <<>> => s <= Newest')
    <2>1. journal'[sf][s] = IF sf = f /\ s \in T THEN Append(journal[sf][s], k) ELSE journal[sf][s]
        BY <1>5, WrittenRows DEF Evening
    <2>2. Newest = Reached
        BY <1>5 DEF Newest
    <2> QED BY <1>0, <1>1, <1>5, <2>1, <2>2
<1> QED BY <1>2, <1>3, <1>4, <1>5, Adding

LEMMA RowsSealedStep ==
    ASSUME Evening, RowsSound, QuietHazards, [Next]_vars
    PROVE  RowsSealed'
<1> SUFFICES ASSUME NEW sf \in Surfaces, NEW s \in CaptureSlots
             PROVE  /\ <<sf, DayOf(s)>> \notin sealed' => partition'[sf][s] = <<>>
                    /\ <<sf, DayOf(s)>> \in sealed' /\ sealing' # <<sf, DayOf(s)>> => journal'[sf][s] = <<>>
    BY DEF RowsSealed
<1>0. /\ <<sf, DayOf(s)>> \notin sealed => partition[sf][s] = <<>>
      /\ <<sf, DayOf(s)>> \in sealed /\ sealing # <<sf, DayOf(s)>> => journal[sf][s] = <<>>
      /\ None # <<sf, DayOf(s)>>
    <2>1. <<sf, DayOf(s)>> \in Surfaces \X Nat
        BY SlotIs, CalendarTypes
    <2> QED BY <2>1, CalendarAssumption DEF RowsSound, RowsSealed
<1>1. CASE SweepSeals
    <2>1. PICK f \in Surfaces, d \in Sessions :
             /\ sealing = None /\ sealing' = <<f, d>> /\ sealed' = sealed \cup {<<f, d>>}
             /\ journal' = journal
             /\ partition'[sf][s] = IF <<f, d>> \notin sealed /\ sf = f /\ DayOf(s) = d
                                    THEN journal[sf][s] ELSE partition[sf][s]
        BY <1>1, SealedNow DEF Evening
    <2> QED BY <1>0, <2>1
<1>2. CASE SweepCleans
    <2>1. /\ sealing' = None /\ UNCHANGED <<sealed, partition>>
          /\ sealing = <<sf, DayOf(s)>> => journal'[sf][s] = <<>>
          /\ sealing # <<sf, DayOf(s)>> => journal'[sf][s] = journal[sf][s]
        BY <1>2, Cleaned DEF Evening
    <2> QED BY <1>0, <2>1
<1>3. CASE ~ SweepSeals /\ ~ SweepCleans
    <2>1. UNCHANGED <<partition, sealed, sealing>>
        <3>1. UNCHANGED <<partition, sealed>> /\ (UNCHANGED sealing \/ SweepNext)
            BY <1>3, Moves
        <3>2. SweepBegins \/ SweepEnds => UNCHANGED sealing
            BY DEF SweepBegins, SweepEnds, sweep
        <3> QED BY <1>3, <3>1, <3>2 DEF SweepNext
    <2>2. CASE journal' = journal
        BY <1>0, <2>1, <2>2
    <2>3. ASSUME NEW f \in Surfaces, NEW T \in SUBSET CaptureSlots, NEW k \in Kinds,
                 journal' = Written(f, T, k), \A t \in T : <<f, DayOf(t)>> \notin sealed
          PROVE  <<sf, DayOf(s)>> \in sealed /\ sealing # <<sf, DayOf(s)>> => journal'[sf][s] = <<>>
        <3>1. journal'[sf][s] = IF sf = f /\ s \in T THEN Append(journal[sf][s], k) ELSE journal[sf][s]
            BY <2>3, WrittenRows DEF Evening
        <3> QED BY <1>0, <2>3, <3>1
    <2> QED BY <1>0, <1>3, <2>1, <2>2, <2>3, Adding
<1> QED BY <1>1, <1>2, <1>3

\* What is owed stays owed until it is written, and nobody else writes it.
LEMMA PreSkipCame ==
    ASSUME Context, QuietHazards, [Next]_vars, PreSkip'
    PROVE  ReachTop \/ (PreSkip /\ UNCHANGED <<skipped, last, slot>>)
<1>1. Start \/ Crash \/ RaiseOn => ~ PreSkip'
    BY DEF Start, Crash, RaiseOn, Gone, PreSkip, GuardAt
<1>2. CheckStart => ~ PreSkip'
    BY DEF CheckStart, CheckGuard, PreSkip, GuardAt
<1>3. HandedOn \/ TickGuard => PreSkip /\ UNCHANGED <<skipped, last, slot>>
    BY DEF HandedOn, TickGuard, PreSkip
<1>4. TickCompact => PreSkip /\ UNCHANGED <<skipped, last, slot>>
    BY DEF TickCompact, PreSkip
<1>5. SkippedGuard \/ Launch => ~ PreSkip'
    BY DEF SkippedGuard, CheckGuard, Launch, WaitFrom, PreSkip, GuardAt
<1>6. GuardNext => PreSkip /\ UNCHANGED <<skipped, last, slot>>
    <2> SUFFICES ASSUME GuardNext PROVE PreSkip /\ UNCHANGED <<skipped, last, slot>>
        OBVIOUS
    <2>1. /\ UNCHANGED <<ret, skipped, last, slot>> /\ pc \in GuardAt /\ pc' \in GuardAt \cup {ret}
        BY GuardPath
    <2> QED BY <2>1, GuardPlaces DEF PreSkip, GuardAt
<1>7. PassNext => ~ PreSkip'
    <2>1. StartupPass \/ SkippedPass => ~ PreSkip'
        BY DEF StartupPass, SkippedPass, PreSkip, GuardAt
    <2>2. MarkSegment => ~ PreSkip'
        BY DEF MarkSegment, loop, PreSkip, GuardAt
    <2>3. PassDone => ~ PreSkip'
        BY PassPlaces DEF PassDone, WaitFrom, PreSkip, GuardAt
    <2> QED BY <2>1, <2>2, <2>3 DEF PassNext
<1>8. HandOn \/ SweepNext \/ Tick \/ Sleep \/ UNCHANGED vars => UNCHANGED loop
    BY Unmoved, ClockForward DEF HandOn, SweepNext, SweepBegins, SweepSeals, SweepCleans, SweepEnds
<1>9. (Cycles \/ \E i \in DOMAIN inFlight : CycleRaises(i)) => UNCHANGED loop
    BY CyclesAside
<1>10. UNCHANGED loop => PreSkip /\ UNCHANGED <<skipped, last, slot>>
    BY DEF loop, PreSkip
<1> QED BY <1>1, <1>2, <1>3, <1>4, <1>5, <1>6, <1>7, <1>8, <1>9, <1>10, QuietNext
        DEF Next, LoopNext, TickNext

\* While a guard runs, only it and a sweep's unlink touch the journal.
LEMMA GuardAlone ==
    ASSUME Evening, QuietHazards, [Next]_vars, pc \in GuardAt
    PROVE  journal' = journal \/ SpotMarked \/ OptionFilled \/ SweepCleans
<1>1. inFlight = <<>> /\ DOMAIN inFlight = {}
    BY GuardDay DEF Evening
<1>2. ~ MarkSegment
    BY DEF MarkSegment, GuardAt
<1> QED BY <1>1, <1>2, Moves

LEMMA RowsGuardedStep ==
    ASSUME Evening, RowsSound, QuietHazards, [Next]_vars
    PROVE  RowsGuarded'
<1>0. sealing \in sealed \cup {None} /\ None \notin Surfaces \X Nat
    BY CalendarAssumption DEF Evening, SweepStates
<1>1. ASSUME pc' \in {"unobserved", "fill"}
      PROVE  SpotAbsent \/ OptionOwed \/ (pc' = pc /\ UNCHANGED guardServed /\ ~ SpotMarked /\ ~ OptionFilled)
    <2>1. Start \/ Crash \/ RaiseOn \/ TickNext => FALSE
        BY <1>1 DEF Start, Crash, RaiseOn, Gone, TickNext, CheckStart, ReachTop, HandedOn, TickGuard,
           TickCompact, SkippedGuard, CheckGuard, Launch, WaitFrom
    <2>2. PassNext => FALSE
        <3>1. StartupPass \/ SkippedPass => FALSE
            BY <1>1 DEF StartupPass, SkippedPass
        <3>2. MarkSegment => FALSE
            BY <1>1 DEF MarkSegment, loop
        <3>3. PassDone => FALSE
            BY <1>1, PassPlaces DEF Evening, PassDone, WaitFrom
        <3> QED BY <3>1, <3>2, <3>3 DEF PassNext
    <2>3. GuardNext => SpotAbsent \/ OptionOwed
        <3>1. GuardReads \/ SpotSettled \/ SpotMarked => FALSE
            BY <1>1 DEF GuardReads, SpotSettled, SpotMarked, GuardStep
        <3>2. OptionSettled \/ OptionFilled => FALSE
            BY <1>1, GuardPlaces DEF Evening, OptionSettled, OptionFilled, GuardStep, GuardAt
        <3> QED BY <3>1, <3>2 DEF GuardNext
    <2>4. HandOn \/ SweepNext \/ Tick \/ Sleep \/ UNCHANGED vars => UNCHANGED <<loop, hooks>>
        BY Unmoved, ClockForward DEF Evening, HandOn, SweepNext, SweepBegins, SweepSeals, SweepCleans, SweepEnds
    <2>5. (Cycles \/ \E i \in DOMAIN inFlight : CycleRaises(i)) => UNCHANGED <<loop, hooks>>
        BY CyclesAside
    <2>6. UNCHANGED <<loop, hooks>> => pc' = pc /\ UNCHANGED <<ret, guardServed>>
        BY DEF loop, hooks
    <2>7. SpotMarked => ~ (pc' = pc)
        BY DEF SpotMarked, GuardStep
    <2>8. OptionFilled => ~ (pc' = pc)
        BY GuardPlaces DEF Evening, OptionFilled, GuardStep, GuardAt
    <2> QED BY <2>1, <2>2, <2>3, <2>4, <2>5, <2>6, <2>7, <2>8, QuietNext DEF Next, LoopNext
<1>2. CASE SpotAbsent
    <2>1. /\ pc = "spot" /\ pc' = "unobserved" /\ UNCHANGED <<journal, guardServed>>
          /\ <<"quotes", guardServed>> \notin seen
          /\ \/ journal["quotes"][At(guardServed, EquityClose)] = <<>>
             \/ sealing = <<"quotes", guardServed>>
        BY <1>2 DEF SpotAbsent, GuardStep, hooks
    <2>2. sealing # <<"quotes", guardServed>>
        <3> SUFFICES ASSUME sealing = <<"quotes", guardServed>> PROVE FALSE
            OBVIOUS
        <3>1. guardServed \in Sessions
            BY <2>1, GuardDay DEF Evening, GuardAt
        <3>2. sealing # None
            BY <1>0, <3>1, CalendarTypes DEF Surfaces
        <3> QED BY <1>0, <2>1, <3>2 DEF Evening, GuardKnows, Surfaces
    <2> QED BY <2>1, <2>2 DEF RowsGuarded
<1>3. CASE OptionOwed
    <2>1. /\ pc = "option" /\ pc' = "fill" /\ UNCHANGED <<journal, guardServed>>
          /\ <<"chains", guardServed>> \notin seen
          /\ \/ ~ HasData("chains", At(guardServed, OptionClose))
             \/ sealing = <<"chains", guardServed>>
        BY <1>3 DEF OptionOwed, GuardStep, hooks
    <2>2. sealing # <<"chains", guardServed>>
        <3> SUFFICES ASSUME sealing = <<"chains", guardServed>> PROVE FALSE
            OBVIOUS
        <3>1. guardServed \in Sessions
            BY <2>1, GuardDay DEF Evening, GuardAt
        <3>2. sealing # None
            BY <1>0, <3>1, CalendarTypes DEF Surfaces
        <3> QED BY <1>0, <2>1, <3>2 DEF Evening, GuardKnows, Surfaces
    <2>3. HasData("chains", At(guardServed, OptionClose))' = HasData("chains", At(guardServed, OptionClose))
        BY <2>1 DEF HasData
    <2> QED BY <2>1, <2>2, <2>3 DEF RowsGuarded
<1>4. CASE pc' = pc /\ UNCHANGED guardServed /\ ~ SpotMarked /\ ~ OptionFilled /\ pc' \in {"unobserved", "fill"}
    <2>1. journal' = journal \/ SweepCleans
        BY <1>4, GuardAlone DEF GuardAt
    <2>2. \A sf \in Surfaces, s \in CaptureSlots : journal'[sf][s] \in {<<>>, journal[sf][s]}
        BY <2>1, Cleaned DEF Evening
    <2>3. At(guardServed, EquityClose) \in CaptureSlots /\ At(guardServed, OptionClose) \in CaptureSlots
        BY <1>4, GuardDay DEF Evening, GuardAt
    <2>4. /\ journal'["quotes"][At(guardServed, EquityClose)]
               \in {<<>>, journal["quotes"][At(guardServed, EquityClose)]}
          /\ journal'["chains"][At(guardServed, OptionClose)]
               \in {<<>>, journal["chains"][At(guardServed, OptionClose)]}
        BY <2>2, <2>3 DEF Surfaces
    <2>5. DOMAIN <<>> = {}
        OBVIOUS
    <2>6. HasData("chains", At(guardServed, OptionClose))' => HasData("chains", At(guardServed, OptionClose))
        BY <1>4, <2>4, <2>5 DEF HasData
    <2> QED BY <1>4, <2>4, <2>6 DEF RowsSound, RowsGuarded
<1> QED BY <1>1, <1>2, <1>3, <1>4 DEF RowsGuarded

\* Who a new row is of.
LEMMA RowComes ==
    ASSUME Evening, RowsSound, QuietHazards, [Next]_vars,
           NEW sf \in Surfaces, NEW s \in CaptureSlots, journal'[sf][s] # journal[sf][s]
    PROVE  \/ SweepCleans /\ journal'[sf][s] = <<>>
           \/ /\ \E i \in DOMAIN inFlight :
                   LandSurface(i, sf) /\ inFlight[i].slots = {s} /\ sf \in inFlight[i].left
              /\ s <= last /\ journal[sf][s] = <<>> /\ journal'[sf][s] \in {<<"data">>, <<"gap">>}
           \/ /\ MarkSegment /\ pc = "marking" /\ UNCHANGED <<loop, inFlight>>
              /\ \E m \in marks : /\ m.surface = sf /\ s \in m.slots /\ DayOf(s) = m.day
                                  /\ marks' = marks \ {m}
                                  /\ \A n \in marks : n.surface = m.surface => m.day <= n.day
           \/ SpotMarked /\ sf = "quotes" /\ s = At(guardServed, EquityClose) /\ journal[sf][s] = <<>>
           \/ /\ OptionFilled /\ sf = "chains" /\ s = At(guardServed, OptionClose)
              /\ journal[sf][s] = <<>> => journal'[sf][s] = <<"fill">>
              /\ journal[sf][s] \in {<<>>} \cup {<<k>> : k \in Others}
<1>1. CASE SweepCleans
    <2>1. journal'[sf][s] \in {<<>>, journal[sf][s]}
        BY <1>1, Cleaned DEF Evening
    <2> QED BY <1>1, <2>1
<1>2. ASSUME NEW i \in DOMAIN inFlight, NEW f \in Surfaces, LandSurface(i, f)
      PROVE  /\ f = sf /\ inFlight[i].slots = {s} /\ sf \in inFlight[i].left /\ s <= last
             /\ journal[sf][s] = <<>> /\ journal'[sf][s] \in {<<"data">>, <<"gap">>}
    <2>1. PICK t \in CaptureSlots :
             /\ inFlight[i].slots = {t} /\ t <= last /\ journal[f][t] = <<>> /\ f \in inFlight[i].left
             /\ \/ \E k \in {"data", "gap"} : journal' = Written(f, {t}, k)
                \/ journal' = journal
        BY <1>2, LandIs
    <2>2. PICK k \in {"data", "gap"} : journal' = Written(f, {t}, k)
        BY <2>1
    <2>3. journal'[sf][s] = IF sf = f /\ s \in {t} THEN Append(journal[sf][s], k) ELSE journal[sf][s]
        <3>1. PICK T : T = {t}
            OBVIOUS
        <3>2. Context /\ journal' = Written(f, T, k)
            BY <2>2, <3>1 DEF Evening
        <3>3. \A g \in Surfaces, u \in CaptureSlots :
                 journal'[g][u] = IF g = f /\ u \in T THEN Append(journal[g][u], k) ELSE journal[g][u]
            BY <3>2, WrittenRows
        <3> QED BY <3>1, <3>3
    <2>4. sf = f /\ s = t
        BY <2>3
    <2>5. journal'[sf][s] = <<k>>
        BY <2>1, <2>3, <2>4, RowAdded
    <2> QED BY <2>1, <2>2, <2>4, <2>5
<1>3. CASE MarkSegment
    <2>1. PICK m \in marks :
             /\ \A n \in marks : n.surface = m.surface => m.day <= n.day
             /\ journal' = Written(m.surface, m.slots, m.kind) /\ marks' = marks \ {m}
        BY <1>3, MarkIsWritten
    <2>2. /\ pc = "marking" /\ UNCHANGED <<loop, inFlight>>
        BY <1>3, MarkIsWritten
    <2>3. m.surface \in Surfaces /\ \A t \in m.slots : DayOf(t) = m.day
        BY MarkFits
    <2>4. journal'[sf][s] = IF sf = m.surface /\ s \in m.slots THEN Append(journal[sf][s], m.kind)
                                                               ELSE journal[sf][s]
        BY <2>1, <2>3, WrittenRows DEF Evening
    <2> QED BY <1>3, <2>1, <2>2, <2>3, <2>4
<1>4. CASE SpotMarked
    <2>1. /\ journal["quotes"][At(guardServed, EquityClose)] = <<>>
          /\ journal' = Written("quotes", {At(guardServed, EquityClose)}, "unobserved")
        BY <1>4, SpotIsMarked
    <2>2. "quotes" \in Surfaces /\ Context
        BY DEF Evening, Surfaces
    <2>3. \A f \in Surfaces, t \in CaptureSlots :
             journal'[f][t] = IF f = "quotes" /\ t \in {At(guardServed, EquityClose)}
                              THEN Append(journal[f][t], "unobserved") ELSE journal[f][t]
        <3>1. PICK q, T, k : q = "quotes" /\ T = {At(guardServed, EquityClose)} /\ k = "unobserved"
            OBVIOUS
        <3>2. q \in Surfaces /\ Context /\ journal' = Written(q, T, k)
            BY <2>1, <2>2, <3>1
        <3>3. \A f \in Surfaces, t \in CaptureSlots :
                 journal'[f][t] = IF f = q /\ t \in T THEN Append(journal[f][t], k) ELSE journal[f][t]
            BY <3>2, WrittenRows
        <3> QED BY <3>1, <3>3
    <2> QED BY <1>4, <2>1, <2>3
<1>5. CASE OptionFilled
    <2>1. /\ journal["chains"][At(guardServed, OptionClose)] \in {<<>>} \cup {<<k>> : k \in Others}
          /\ journal' = Written("chains", {At(guardServed, OptionClose)}, "fill")
        BY <1>5, OptionIsFilled
    <2>5. "chains" \in Surfaces /\ Context
        BY DEF Evening, Surfaces
    <2>2. \A f \in Surfaces, t \in CaptureSlots :
             journal'[f][t] = IF f = "chains" /\ t \in {At(guardServed, OptionClose)}
                              THEN Append(journal[f][t], "fill") ELSE journal[f][t]
        <3>1. PICK q, T, k : q = "chains" /\ T = {At(guardServed, OptionClose)} /\ k = "fill"
            OBVIOUS
        <3>2. q \in Surfaces /\ Context /\ journal' = Written(q, T, k)
            BY <2>1, <2>5, <3>1
        <3>3. \A f \in Surfaces, t \in CaptureSlots :
                 journal'[f][t] = IF f = q /\ t \in T THEN Append(journal[f][t], k) ELSE journal[f][t]
            BY <3>2, WrittenRows
        <3> QED BY <3>1, <3>3
    <2>3. sf = "chains" /\ s = At(guardServed, OptionClose)
        BY <2>2
    <2>4. journal[sf][s] = <<>> => journal'[sf][s] = <<"fill">>
        BY <2>2, <2>3, RowAdded
    <2> QED BY <1>5, <2>1, <2>3, <2>4
<1> QED BY <1>1, <1>2, <1>3, <1>4, <1>5, Moves

\* A cycle's slot that is still owed was reached, and not missed.
LEMMA OwedIs ==
    ASSUME Evening, NEW i \in DOMAIN inFlight, inFlight[i].left # {}
    PROVE  /\ inFlight[i].state # "done"
           /\ \A s \in inFlight[i].slots : inFlight[i].slots = {s} /\ s <= last /\ StillNear(s)
<1>1. EntrySound(inFlight[i]) /\ inFlight[i] \in Entries
    BY EntryIs DEF Evening, QueueSound
<1>2. inFlight[i].state # "done" /\ inFlight[i].kind = "cycle"
    BY <1>1 DEF EntrySound, Entries
<1> QED BY <1>1, <1>2 DEF EntrySound

LEMMA RowsOwedStep ==
    ASSUME Evening, RowsSound, QuietHazards, [Next]_vars
    PROVE  RowsOwed'
<1>0. Context /\ LoopInv /\ QueueSound /\ MarksSound
    BY DEF Evening
<1>1. last \in Nat /\ slot \in Nat /\ now \in Nat
    BY <1>0, ContextTypes
<1>2. ASSUME NEW j \in DOMAIN inFlight', NEW sf \in inFlight'[j].left, NEW s \in inFlight'[j].slots
      PROVE  journal'[sf][s] = <<>>
    <2>1. ASSUME NEW i \in DOMAIN inFlight, sf \in inFlight[i].left, s \in inFlight[i].slots,
                 ~ LandSurface(i, sf), sf \in Surfaces
          PROVE  journal'[sf][s] = <<>>
        <3> SUFFICES ASSUME journal'[sf][s] # <<>> PROVE FALSE
            OBVIOUS
        <3>1. /\ sf \in Surfaces /\ s \in CaptureSlots /\ s \in Nat /\ s <= last
              /\ journal[sf][s] = <<>> /\ inFlight # <<>>
            <4>1. inFlight[i] \in Entries /\ inFlight[i].slots \subseteq CaptureSlots /\ inFlight # <<>>
                BY <1>0, EntryIs
            <4>2. sf \in Surfaces /\ s \in CaptureSlots
                BY <2>1, <4>1 DEF Entries
            <4> QED BY <2>1, <4>1, <4>2, OwedIs, SlotIs DEF RowsSound, RowsOwed
        <3>2. CASE \E k \in DOMAIN inFlight : LandSurface(k, sf) /\ inFlight[k].slots = {s}
            <4>1. PICK k \in DOMAIN inFlight : LandSurface(k, sf) /\ inFlight[k].slots = {s}
                BY <3>2
            <4>2. k # i /\ k \in Nat /\ i \in Nat
                BY <1>0, <2>1, <4>1, EntryIs
            <4>3. k < i \/ i < k
                BY <4>2
            <4>4. s \in inFlight[k].slots
                BY <4>1
            <4>5. \A a, b \in DOMAIN inFlight : a < b =>
                     \A t \in inFlight[a].slots, u \in inFlight[b].slots : t < u
                BY <1>0 DEF QueueSound, InOrder
            <4>6. s < s
                BY <2>1, <4>1, <4>3, <4>4, <4>5
            <4> QED BY <3>1, <4>6
        <3>3. CASE MarkSegment /\ \E m \in marks : s \in m.slots
            <4>1. PICK m \in marks : s \in m.slots
                BY <3>3
            <4> QED BY <1>0, <1>1, <3>1, <4>1, MarksPlace
        <3>4. CASE SpotMarked \/ OptionFilled
            <4>1. pc \in GuardAt
                BY <3>4 DEF SpotMarked, OptionFilled, GuardAt
            <4> QED BY <1>0, <3>1, <4>1, GuardDay
        <3> QED BY <3>1, <3>2, <3>3, <3>4, RowComes
    <2>2. CASE \E i \in DOMAIN inFlight : \E f \in Surfaces : LandSurface(i, f)
        <3>1. PICK i \in DOMAIN inFlight, f \in Surfaces : LandSurface(i, f)
            BY <2>2
        <3>2. /\ j \in DOMAIN inFlight /\ inFlight'[j].slots = inFlight[j].slots
              /\ inFlight'[j].left \subseteq inFlight[j].left
            BY <1>0, <3>1, OneEntry
        <3>3. sf \in inFlight[j].left /\ inFlight[j] \in Entries /\ sf \in Surfaces
            BY <1>0, <3>2, EntryIs DEF Entries
        <3>4. ~ LandSurface(j, sf)
            <4> SUFFICES ASSUME LandSurface(j, sf) PROVE FALSE
                OBVIOUS
            <4>1. inFlight'[j].left = inFlight[j].left \ {sf}
                BY <1>0, <3>2, <3>3, EntryStates
            <4> QED BY <4>1
        <3> QED BY <2>1, <3>2, <3>3, <3>4
    <2>3. CASE ~ \E i \in DOMAIN inFlight : \E f \in Surfaces : LandSurface(i, f)
        <3>1. CASE \E i \in DOMAIN inFlight : /\ inFlight'[j].slots = inFlight[i].slots
                                              /\ inFlight'[j].left \subseteq inFlight[i].left
            <4>1. PICK i \in DOMAIN inFlight : s \in inFlight[i].slots /\ sf \in inFlight[i].left
                BY <3>1
            <4>2. sf \in Surfaces
                BY <1>0, <4>1, EntryIs DEF Entries
            <4> QED BY <2>1, <2>3, <4>1, <4>2
        <3>2. CASE Launch /\ slot \in CaptureSlots /\ inFlight'[j].slots = {slot}
            <4>1. s = slot /\ journal' = journal
                BY <3>2 DEF Launch, lake
            <4>2. Newest = slot - 1
                BY <3>2 DEF Launch, Newest, Reached, InTick
            <4>3. sf \in Surfaces
                <5>1. inFlight' = Append(inFlight, Cycle(slot)) /\ Cycle(slot) \in Entries
                    BY <3>2, EntryTypes DEF Launch
                <5>2. inFlight' \in Seq(Entries)
                    BY <1>0, <5>1, AppendProperties DEF Context, QueueInv, Base
                <5>3. inFlight'[j] \in Entries
                    BY <5>2, ElementOfSeq, LenProperties
                <5> QED BY <5>3 DEF Entries
            <4> QED BY <1>1, <3>2, <4>1, <4>2, <4>3 DEF RowsSound, RowsPast
        <3>3. \/ \E i \in DOMAIN inFlight : /\ inFlight'[j].slots = inFlight[i].slots
                                            /\ inFlight'[j].left \subseteq inFlight[i].left
              \/ Launch /\ slot \in CaptureSlots /\ inFlight'[j].slots = {slot}
            <4>1. PICK e : e = inFlight'[j]
                OBVIOUS
            <4>2. e.left # {}
                BY <4>1
            <4> QED BY <1>0, <4>1, <4>2, EntriesCome
        <3> QED BY <3>1, <3>2, <3>3
    <2> QED BY <2>2, <2>3
<1>3. ASSUME NEW m \in marks', NEW s \in m.slots
      PROVE  journal'[m.surface][s] \in Plain
    <2>1. CASE StartupPass
        <3>1. PICK sf \in Surfaces, d \in Sessions : m.surface = sf /\ m.slots = Missing(sf, d, last + 1)
            BY <1>3, <2>1, StartupMarks
        <3>2. journal' = journal
            BY <2>1 DEF StartupPass, lake
        <3> QED BY <3>1, <3>2, RowAdded DEF Missing
    <2>2. CASE SkippedPass
        <3>1. PICK sf \in Surfaces, d \in Sessions : m.surface = sf /\ m.slots = skipped \cap SlotsOf(d)
            BY <1>3, <2>2, SkippedMarks
        <3>2. journal' = journal /\ PreSkip
            BY <2>2 DEF SkippedPass, lake, PreSkip
        <3> QED BY <3>1, <3>2 DEF RowsSound, RowsOwed
    <2>3. CASE m \in marks
        <3>1. /\ m.surface \in Surfaces /\ s \in CaptureSlots /\ pc = "marking" /\ DayOf(s) = m.day
              /\ journal[m.surface][s] \in Plain /\ s \in Nat
            BY <2>3, MarkFits, SlotIs
        <3>2. ret = "wait" => inFlight = <<>>
            BY <1>0, <2>3, MarksPlace
        <3>3. ret = "skipGuard" => last < s
            BY <1>0, <2>3, MarksPlace
        <3>4. ret \in {"wait", "skipGuard"}
            BY <1>0, <2>3, MarksPlace
        <3> SUFFICES ASSUME journal'[m.surface][s] # journal[m.surface][s]
                     PROVE  journal'[m.surface][s] \in Plain
            BY <3>1
        <3>5. CASE journal'[m.surface][s] = <<>>
            BY <3>5, RowAdded
        <3>6. ~ (s <= last /\ \E i \in DOMAIN inFlight : inFlight[i].slots = {s})
            <4> SUFFICES ASSUME s <= last, NEW i \in DOMAIN inFlight PROVE FALSE
                OBVIOUS
            <4>1. inFlight # <<>>
                BY <1>0, EntryIs
            <4> QED BY <1>1, <3>1, <3>2, <3>3, <3>4, <4>1
        <3>7. ~ \E n \in marks : n.surface = m.surface /\ DayOf(s) = n.day /\ marks' = marks \ {n}
            <4> SUFFICES ASSUME NEW n \in marks, n.surface = m.surface, n.day = m.day, marks' = marks \ {n}
                         PROVE  FALSE
                BY <3>1
            <4>1. m = n
                BY <1>0, <2>3 DEF MarksSound
            <4> QED BY <1>3, <4>1
        <3>8. ~ SpotMarked /\ ~ OptionFilled
            BY <3>1 DEF SpotMarked, OptionFilled
        <3> QED BY <3>1, <3>5, <3>6, <3>7, <3>8, RowComes
    <2>4. m \in marks \/ StartupPass \/ SkippedPass
        BY <1>0, <1>3, MarksStay
    <2> QED BY <2>1, <2>2, <2>3, <2>4
<1>4. ASSUME PreSkip', NEW sf \in Surfaces, NEW s \in skipped'
      PROVE  journal'[sf][s] \in Plain
    <2>1. CASE ReachTop
        <3>1. s \in CaptureSlots /\ last < s /\ journal' = journal
            BY <1>4, <2>1 DEF ReachTop, MissedSlots, lake
        <3>2. Newest = last
            BY <2>1 DEF ReachTop, Newest, Reached, InTick, GuardAt
        <3>3. s \in Nat
            BY <3>1, SlotIs
        <3>4. journal[sf][s] = <<>>
            BY <1>1, <3>1, <3>2, <3>3 DEF RowsSound, RowsPast
        <3> QED BY <3>1, <3>4, RowAdded
    <2>2. CASE PreSkip /\ skipped' = skipped
        <3>1. journal[sf][s] \in Plain
            BY <1>4, <2>2 DEF RowsSound, RowsOwed
        <3>2. s \in CaptureSlots /\ s \in Nat /\ last < s
            <4>1. InTick
                BY <2>2 DEF PreSkip, InTick
            <4>2. skipped = MissedSlots(last, slot)
                BY <1>0, <4>1 DEF LoopInv, LoopClock
            <4> QED BY <1>4, <2>2, <4>2, SlotIs DEF MissedSlots
        <3>3. pc # "marking"
            BY <2>2 DEF PreSkip, GuardAt
        <3>4. CASE SpotMarked /\ sf = "quotes" /\ s = At(guardServed, EquityClose)
            <4>1. pc \in GuardAt /\ ret = "compact"
                BY <2>2, <3>4 DEF SpotMarked, PreSkip, GuardAt
            <4> QED BY <1>0, <1>4, <2>2, <3>4, <4>1, GuardDay
        <3>5. CASE OptionFilled /\ journal[sf][s] \in {<<>>} \cup {<<k>> : k \in Others}
                     /\ (journal[sf][s] = <<>> => journal'[sf][s] = <<"fill">>)
            <4>1. \A k \in Others : <<k>> # <<>> /\ <<k>> # <<"fill">>
                <5>1. \A k \in Others : k # "fill"
                    BY DEF Others
                <5>2. \A k \in Others : <<k>>[1] = k /\ <<"fill">>[1] = "fill"
                    OBVIOUS
                <5> QED BY <5>1, <5>2
            <4>2. journal[sf][s] = <<>>
                BY <3>1, <3>5, <4>1 DEF Plain
            <4> QED BY <3>5, <4>2, RowAdded
        <3>6. CASE journal'[sf][s] \in {<<>>, journal[sf][s]}
            BY <3>1, <3>6, RowAdded
        <3>7. ~ (s <= last)
            BY <1>1, <3>2
        <3> QED BY <3>2, <3>3, <3>4, <3>5, <3>6, <3>7, RowComes
    <2> QED BY <1>0, <1>4, <2>1, <2>2, PreSkipCame
<1> QED BY <1>2, <1>3, <1>4 DEF RowsOwed

(***************************************************************************)
(* Nothing the loop has reached is forgotten.                              *)
(***************************************************************************)

\* A row of the slot is in a segment, or the disk refused it.
Kept(sf, s) == journal[sf][s] # <<>> \/ <<sf, s>> \in lost

\* A cycle, a pass or the tick's own skipped slots still owe it.
Claimed(sf, s) ==
    \/ \E i \in DOMAIN inFlight : s \in inFlight[i].slots /\ sf \in inFlight[i].left
    \/ \E m \in marks : m.surface = sf /\ s \in m.slots
    \/ PreSkip /\ s \in skipped

\* Of an unsealed day every minute reached is kept or claimed.
Accounted ==
    pc # "down" /\ ~ Unmarked =>
      \A sf \in Surfaces, s \in CaptureSlots :
        s <= Reached /\ <<sf, DayOf(s)>> \notin sealed => Kept(sf, s) \/ Claimed(sf, s)

\* The slot of a day no guard ever writes: a row there came in its order.
Probe(sf, d) == IF sf = "quotes" THEN At(d, OptionClose) ELSE At(d, EquityClose)

\* A day with its probe's row has every unsealed day below it kept.
FromBelow ==
    \A sf \in Surfaces, d \in Sessions, e \in Sessions :
      d < e /\ <<sf, d>> \notin sealed /\ journal[sf][Probe(sf, e)] # <<>> =>
        \A s \in SlotsOf(d) : Kept(sf, s)

\* A day a sweep may seal is kept.
DueComplete ==
    \A sf \in Surfaces, d \in Sessions :
      IsDue(sf, d) /\ <<sf, d>> \notin sealed => \A s \in SlotsOf(d) : Kept(sf, s)

KeptSound == Accounted /\ FromBelow /\ DueComplete

LEMMA LostStays ==
    ASSUME QuietHazards, [Next]_vars
    PROVE  lost \subseteq lost'
<1>1. MarkSegment => lost \subseteq lost'
    BY DEF MarkSegment
<1>2. (\E i \in DOMAIN inFlight : \E sf \in Surfaces : LandSurface(i, sf)) => lost \subseteq lost'
    BY DEF LandSurface
<1> QED BY <1>1, <1>2, Moves

\* A row stays until its day is sealed.
LEMMA KeptStays ==
    ASSUME Evening, RowsSound, QuietHazards, [Next]_vars,
           NEW sf \in Surfaces, NEW s \in CaptureSlots, Kept(sf, s), <<sf, DayOf(s)>> \notin sealed
    PROVE  Kept(sf, s)'
<1>1. CASE <<sf, s>> \in lost
    BY <1>1, LostStays DEF Kept
<1>2. CASE journal[sf][s] # <<>>
    <2>1. CASE journal' = journal
        BY <1>2, <2>1 DEF Kept
    <2>2. CASE SweepCleans
        <3>1. sealing \in sealed
            BY <2>2 DEF SweepCleans, Evening, SweepStates
        <3>2. journal'[sf][s] = journal[sf][s]
            BY <2>2, <3>1, Cleaned DEF Evening
        <3> QED BY <1>2, <3>2 DEF Kept
    <2>3. CASE \E f \in Surfaces, T \in SUBSET CaptureSlots, k \in Kinds : journal' = Written(f, T, k)
        <3>1. PICK f \in Surfaces, T \in SUBSET CaptureSlots, k \in Kinds : journal' = Written(f, T, k)
            BY <2>3
        <3>2. journal'[sf][s] = IF sf = f /\ s \in T THEN Append(journal[sf][s], k) ELSE journal[sf][s]
            BY <3>1, WrittenRows DEF Evening
        <3>3. Append(journal[sf][s], k) # <<>>
            <4>1. PICK r \in Seq(Kinds) : r = journal[sf][s]
                BY JournalTypes DEF Evening
            <4>2. Append(r, k) # <<>>
                BY AppendProperties
            <4> QED BY <4>1, <4>2
        <3> QED BY <1>2, <3>2, <3>3 DEF Kept
    <2> QED BY <2>1, <2>2, <2>3, Adding
<1> QED BY <1>1, <1>2 DEF Kept

LEMMA SealedStays ==
    ASSUME QuietHazards, [Next]_vars
    PROVE  sealed \subseteq sealed'
<1>1. SweepSeals => sealed \subseteq sealed'
    BY DEF SweepSeals
<1> QED BY <1>1, Moves

\* Before its startup pass an incarnation owes nothing yet.
LEMMA UnmarkedLeft ==
    ASSUME Context, QuietHazards, [Next]_vars, pc = "down" \/ Unmarked
    PROVE  pc' = "down" \/ Unmarked' \/ StartupPass
<1>1. CASE Start \/ Crash \/ RaiseOn
    BY <1>1 DEF Start, Crash, RaiseOn, Gone, Unmarked
<1>2. CASE CheckStart
    BY <1>2 DEF CheckStart, CheckGuard, Unmarked, GuardAt
<1>3. CASE HandOn \/ ReachTop \/ HandedOn \/ TickGuard \/ TickCompact \/ SkippedGuard \/ Launch
    BY <1>3 DEF HandOn, ReachTop, HandedOn, TickGuard, TickCompact, SkippedGuard, Launch, Unmarked, GuardAt
<1>4. CASE GuardNext
    <2>1. /\ UNCHANGED ret /\ pc \in GuardAt /\ pc' \in GuardAt \cup {ret} /\ ret = "startup"
        BY <1>4, GuardPath DEF Unmarked, GuardAt
    <2> QED BY <2>1 DEF Unmarked
<1>5. CASE PassNext
    <2>1. pc # "skip" /\ pc # "marking"
        BY DEF Unmarked, GuardAt
    <2>2. SkippedPass => pc = "skip"
        BY DEF SkippedPass
    <2>3. MarkSegment \/ PassDone => pc = "marking"
        BY DEF MarkSegment, PassDone
    <2> QED BY <1>5, <2>1, <2>2, <2>3 DEF PassNext
<1>6. CASE UNCHANGED loop
    BY <1>6 DEF loop, Unmarked
<1>7. HandOn \/ SweepNext \/ Tick \/ Sleep \/ UNCHANGED vars => UNCHANGED loop
    BY Unmoved, ClockForward DEF HandOn, SweepNext, SweepBegins, SweepSeals, SweepCleans, SweepEnds
<1>8. (Cycles \/ \E i \in DOMAIN inFlight : CycleRaises(i)) => UNCHANGED loop
    BY CyclesAside
<1> QED BY <1>1, <1>2, <1>3, <1>4, <1>5, <1>6, <1>7, <1>8, QuietNext DEF Next, LoopNext, TickNext

\* The loop's reach grows by a tick's skipped slots and by its own slot.
LEMMA ReachedGrows ==
    ASSUME Context, QuietHazards, [Next]_vars, pc # "down", pc' # "down"
    PROVE  \/ Reached' = Reached
           \/ ReachTop /\ Reached = last /\ Reached' = now - 1
           \/ Launch /\ Reached = slot - 1 /\ Reached' = slot
<1>1. CASE UNCHANGED loop
    BY <1>1 DEF Reached, InTick, loop
<1>2. Start \/ Crash \/ RaiseOn => FALSE
    BY DEF Start, Crash, RaiseOn, Gone
<1>3. CASE ReachTop
    <2>1. Reached = last /\ Reached' = now - 1
        BY <1>3 DEF ReachTop, Reached, InTick, GuardAt
    <2> QED BY <1>3, <2>1
<1>4. CASE Launch
    <2>1. Reached = slot - 1 /\ Reached' = slot
        BY <1>4 DEF Launch, WaitFrom, Reached, InTick, GuardAt
    <2> QED BY <1>4, <2>1
<1>5. CASE CheckStart \/ HandedOn \/ TickGuard \/ TickCompact \/ SkippedGuard
    <2>1. UNCHANGED <<last, slot>> /\ InTick' = InTick
        BY <1>5 DEF CheckStart, HandedOn, TickGuard, TickCompact, SkippedGuard, CheckGuard, InTick, GuardAt
    <2> QED BY <2>1 DEF Reached
<1>6. CASE GuardNext
    <2>1. UNCHANGED <<ret, last, slot>> /\ pc \in GuardAt /\ pc' \in GuardAt \cup {ret}
        BY <1>6, GuardPath
    <2>2. InTick' = InTick
        BY <2>1, GuardPlaces DEF InTick, GuardAt
    <2> QED BY <2>1, <2>2 DEF Reached
<1>7. CASE PassNext
    <2>1. StartupPass \/ SkippedPass => UNCHANGED <<last, slot>> /\ InTick' = InTick
        BY DEF StartupPass, SkippedPass, InTick, GuardAt
    <2>2. MarkSegment => UNCHANGED <<last, slot>> /\ InTick' = InTick
        BY DEF MarkSegment, loop, InTick
    <2>3. PassDone => UNCHANGED <<last, slot>> /\ InTick' = InTick
        BY PassPlaces DEF PassDone, WaitFrom, InTick, GuardAt
    <2> QED BY <1>7, <2>1, <2>2, <2>3 DEF PassNext, Reached
<1>8. HandOn \/ SweepNext \/ Tick \/ Sleep \/ UNCHANGED vars => UNCHANGED loop
    BY Unmoved, ClockForward DEF HandOn, SweepNext, SweepBegins, SweepSeals, SweepCleans, SweepEnds
<1>9. (Cycles \/ \E i \in DOMAIN inFlight : CycleRaises(i)) => UNCHANGED loop
    BY CyclesAside
<1> QED BY <1>1, <1>2, <1>3, <1>4, <1>5, <1>6, <1>7, <1>8, <1>9, QuietNext DEF Next, LoopNext, TickNext

\* What a cycle owes it owes until it lands it.
LEMMA OwedStays ==
    ASSUME Evening, QuietHazards, [Next]_vars, pc' # "down",
           NEW i \in DOMAIN inFlight, NEW sf \in inFlight[i].left
    PROVE  \/ LandSurface(i, sf)
           \/ \E j \in DOMAIN inFlight' : inFlight'[j].slots = inFlight[i].slots /\ sf \in inFlight'[j].left
<1>0. /\ Context /\ inFlight \in Seq(Entries) /\ pc # "down" /\ inFlight # <<>> /\ i \in 1 .. Len(inFlight)
      /\ inFlight[i].state # "done" /\ inFlight[i] \in Entries /\ sf \in Surfaces
    <2>1. inFlight[i] \in Entries
        BY EntryIs DEF Evening
    <2> QED BY <2>1, EntryIs, OwedIs DEF Evening, Entries
<1>1. CASE UNCHANGED inFlight
    BY <1>1
<1>2. Start \/ Crash \/ RaiseOn => FALSE
    BY <1>0 DEF Start, Crash, RaiseOn, Gone
<1>3. ASSUME NEW k \in DOMAIN inFlight,
             CycleDone(k) \/ CycleRaises(k) \/ \E f \in Surfaces : LandSurface(k, f)
      PROVE  \/ LandSurface(i, sf)
             \/ /\ i \in DOMAIN inFlight' /\ inFlight'[i].slots = inFlight[i].slots
                /\ sf \in inFlight'[i].left
    <2>1. /\ i \in DOMAIN inFlight' /\ inFlight'[i].slots = inFlight[i].slots
          /\ i # k => inFlight'[i] = inFlight[i]
        BY <1>0, <1>3, OneEntry
    <2>2. CASE i # k
        BY <2>1, <2>2
    <2>3. CASE CycleDone(i)
        BY <1>0, <2>3, EntryStates
    <2>4. CASE CycleRaises(i)
        <3>1. inFlight'[i].left = inFlight[i].left
            BY <1>0, <2>4 DEF CycleRaises, Entries
        <3> QED BY <2>1, <3>1
    <2>5. ASSUME NEW f \in Surfaces, LandSurface(i, f), f # sf
          PROVE  sf \in inFlight'[i].left
        <3>1. inFlight'[i].left = inFlight[i].left \ {f}
            BY <1>0, <2>5, EntryStates
        <3> QED BY <2>5, <3>1
    <2> QED BY <1>3, <2>1, <2>2, <2>3, <2>4, <2>5
<1>4. CASE HandOn
    <2>1. inFlight' = Tail(inFlight) /\ Head(inFlight).state = "done"
        BY <1>4 DEF HandOn
    <2>2. i # 1
        BY <1>0, <2>1, HeadEntry
    <2>3. /\ Tail(inFlight) \in Seq(Entries) /\ Len(Tail(inFlight)) = Len(inFlight) - 1
          /\ \A j \in 1 .. Len(Tail(inFlight)) : Tail(inFlight)[j] = inFlight[j + 1]
        BY <1>0, HeadTailProperties
    <2>4. DOMAIN Tail(inFlight) = 1 .. Len(Tail(inFlight)) /\ Len(inFlight) \in Nat
        BY <1>0, <2>3, LenProperties
    <2>5. i - 1 \in 1 .. Len(Tail(inFlight)) /\ (i - 1) + 1 = i
        BY <1>0, <2>2, <2>3, <2>4
    <2>6. Tail(inFlight)[i - 1] = inFlight[i] /\ i - 1 \in DOMAIN Tail(inFlight)
        BY <2>3, <2>4, <2>5
    <2> QED BY <2>1, <2>6
<1>5. ASSUME NEW e \in Entries, inFlight' = Append(inFlight, e)
      PROVE  i \in DOMAIN inFlight' /\ inFlight'[i] = inFlight[i]
    <2>1. /\ inFlight' \in Seq(Entries) /\ Len(inFlight') = Len(inFlight) + 1
          /\ \A j \in 1 .. Len(inFlight) : inFlight'[j] = inFlight[j]
        BY <1>0, <1>5, AppendProperties
    <2>2. DOMAIN inFlight' = 1 .. Len(inFlight') /\ Len(inFlight) \in Nat
        BY <1>0, <2>1, LenProperties
    <2> QED BY <1>0, <2>1, <2>2
<1>6. CASE ReachTop /\ inFlight' # inFlight
    <2>1. inFlight' = Append(inFlight, Missed(skipped')) /\ skipped' \in SUBSET CaptureSlots
        BY <1>6 DEF ReachTop, Queued, MissedSlots
    <2>2. Missed(skipped') \in Entries
        BY <2>1, EntryTypes
    <2>3. i \in DOMAIN inFlight' /\ inFlight'[i] = inFlight[i]
        BY <1>5, <2>1, <2>2
    <2> QED BY <2>3
<1>7. CASE Launch
    <2>1. CASE slot \in CaptureSlots
        <3>1. inFlight' = Append(inFlight, Cycle(slot)) /\ Cycle(slot) \in Entries
            BY <1>7, <2>1, EntryTypes DEF Launch
        <3>2. i \in DOMAIN inFlight' /\ inFlight'[i] = inFlight[i]
            BY <1>5, <3>1
        <3> QED BY <3>2
    <2>2. CASE slot \notin CaptureSlots
        BY <1>1, <1>7, <2>2 DEF Launch
    <2> QED BY <2>1, <2>2
<1>8. CASE CheckStart \/ HandedOn \/ TickGuard \/ TickCompact \/ SkippedGuard
    BY <1>1, <1>8 DEF CheckStart, HandedOn, TickGuard, TickCompact, SkippedGuard
<1>9. CASE GuardNext
    BY <1>1, <1>9, <1>0, GuardPath
<1>10. CASE PassNext
    <2>1. MarkSegment => UNCHANGED inFlight
        BY DEF MarkSegment
    <2> QED BY <1>1, <1>10, <2>1 DEF PassNext, StartupPass, SkippedPass, PassDone
<1>11. CASE SweepNext
    BY <1>1, <1>11 DEF SweepNext, SweepBegins, SweepSeals, SweepCleans, SweepEnds
<1>12. CASE Tick \/ Sleep \/ UNCHANGED vars
    BY <1>0, <1>1, <1>12, ClockForward, Unmoved
<1> QED BY <1>1, <1>2, <1>3, <1>4, <1>6, <1>7, <1>8, <1>9, <1>10, <1>11, <1>12, QuietNext
        DEF Next, Cycles, LoopNext, TickNext

\* A segment is owed until the pass writes it, or gives its surface up.
LEMMA MarkOwed ==
    ASSUME Evening, RowsSound, QuietHazards, [Next]_vars, pc' # "down", NEW m \in marks, NEW s \in m.slots
    PROVE  m \in marks' \/ Kept(m.surface, s)'
<1>0. Context /\ pc = "marking"
    BY MarkFits DEF Evening
<1>1. CASE UNCHANGED marks
    BY <1>1
<1>2. Start \/ Crash \/ RaiseOn => FALSE
    BY <1>0 DEF Start, Crash, RaiseOn, Gone
<1>3. CASE TickNext \/ HandOn \/ GuardNext
    <2>1. UNCHANGED marks
        BY <1>3 DEF TickNext, CheckStart, ReachTop, HandedOn, TickGuard, TickCompact, SkippedGuard,
           Launch, HandOn, GuardNext, GuardReads, SpotSettled, SpotAbsent, SpotMarked,
           OptionSettled, OptionOwed, OptionFilled, GuardStep, pass
    <2> QED BY <1>1, <2>1
<1>4. ~ StartupPass /\ ~ SkippedPass
    BY <1>0 DEF StartupPass, SkippedPass
<1>5. CASE MarkSegment
    <2>0. m.surface \in Surfaces /\ s \in CaptureSlots
        BY MarkFits
    <2>1. PICK n \in marks :
             \/ /\ journal' = Written(n.surface, n.slots, n.kind)
                /\ marks' = marks \ {n} /\ lost' = lost
             \/ /\ journal' = journal /\ marks' = {q \in marks : q.surface # n.surface}
                /\ lost' = lost \cup UNION {{q.surface} \X q.slots : q \in marks \ marks'}
        BY <1>5, MarkIsWritten
    <2>2. CASE m = n /\ journal' = Written(n.surface, n.slots, n.kind)
        <3>1. journal'[m.surface][s] = Append(journal[m.surface][s], n.kind)
            <4>1. PICK f, T, k : f \in Surfaces /\ f = m.surface /\ T = m.slots /\ k = n.kind
                BY <2>0
            <4>2. journal' = Written(f, T, k)
                BY <2>2, <4>1
            <4>3. \A g \in Surfaces, t \in CaptureSlots :
                     journal'[g][t] = IF g = f /\ t \in T THEN Append(journal[g][t], k) ELSE journal[g][t]
                BY <1>0, <4>1, <4>2, WrittenRows
            <4> QED BY <2>0, <4>1, <4>3
        <3>2. m.kind \in Others /\ journal[m.surface][s] \in Plain
            BY MarkFits
        <3>3. journal'[m.surface][s] # <<>>
            BY <2>2, <3>1, <3>2, RowAdded
        <3> QED BY <3>3 DEF Kept
    <2>3. CASE m \notin marks' /\ lost' = lost \cup UNION {{q.surface} \X q.slots : q \in marks \ marks'}
        <3>1. <<m.surface, s>> \in lost'
            BY <2>3
        <3> QED BY <3>1 DEF Kept
    <2> QED BY <2>1, <2>2, <2>3
<1>6. CASE PassDone
    BY <1>1, <1>6 DEF PassDone, pass
<1>7. CASE SweepNext
    BY <1>1, <1>7 DEF SweepNext, SweepBegins, SweepSeals, SweepCleans, SweepEnds, pass
<1>8. CASE Tick \/ Sleep \/ UNCHANGED vars
    BY <1>0, <1>1, <1>8, ClockForward, Unmoved DEF pass
<1>9. CASE Cycles \/ \E i \in DOMAIN inFlight : CycleRaises(i)
    BY <1>1, <1>9, CyclesAside DEF pass
<1> QED BY <1>1, <1>2, <1>3, <1>4, <1>5, <1>6, <1>7, <1>8, <1>9, QuietNext
        DEF Next, LoopNext, PassNext

\* The tick's skipped slots are owed until the pass takes them up.
LEMMA PreSkipLeft ==
    ASSUME Context, QuietHazards, [Next]_vars, PreSkip, skipped # {}
    PROVE  pc' = "down" \/ SkippedPass \/ (PreSkip' /\ skipped' = skipped)
<1>0. pc \notin {"down", "wait", "startup", "marking", "skipGuard", "launch", "checkStart"}
    BY DEF PreSkip, GuardAt
<1>1. Start \/ CheckStart \/ ReachTop \/ SkippedGuard \/ Launch \/ StartupPass \/ MarkSegment \/ PassDone
      => FALSE
    <2>1. Start \/ CheckStart \/ ReachTop => pc \in {"down", "checkStart", "wait"}
        BY DEF Start, CheckStart, ReachTop
    <2>2. SkippedGuard \/ Launch => pc \in {"skipGuard", "launch"}
        BY DEF SkippedGuard, Launch
    <2>3. StartupPass => pc = "startup"
        BY DEF StartupPass
    <2>4. MarkSegment \/ PassDone => pc = "marking"
        BY DEF MarkSegment, PassDone
    <2> QED BY <1>0, <2>1, <2>2, <2>3, <2>4
<1>2. Crash \/ RaiseOn => pc' = "down"
    BY DEF Crash, RaiseOn, Gone
<1>3. CASE HandedOn
    BY <1>3 DEF HandedOn, PreSkip
<1>4. CASE TickGuard
    BY <1>4 DEF TickGuard, CheckGuard, PreSkip, GuardAt
<1>5. CASE TickCompact
    BY <1>5 DEF TickCompact, PreSkip
<1>6. CASE GuardNext
    <2>1. /\ UNCHANGED <<ret, skipped>> /\ pc \in GuardAt /\ pc' \in GuardAt \cup {ret} /\ ret = "compact"
        BY <1>6, GuardPath DEF PreSkip, GuardAt
    <2> QED BY <2>1 DEF PreSkip
<1>7. HandOn \/ SweepNext \/ Tick \/ Sleep \/ UNCHANGED vars => UNCHANGED loop
    BY Unmoved, ClockForward DEF HandOn, SweepNext, SweepBegins, SweepSeals, SweepCleans, SweepEnds
<1>8. (Cycles \/ \E i \in DOMAIN inFlight : CycleRaises(i)) => UNCHANGED loop
    BY CyclesAside
<1>9. UNCHANGED loop => PreSkip' /\ skipped' = skipped
    BY DEF loop, PreSkip
<1> QED BY <1>1, <1>2, <1>3, <1>4, <1>5, <1>6, <1>7, <1>8, <1>9, QuietNext
        DEF Next, LoopNext, TickNext, PassNext

\* Who still owes a slot that lies before the loop's last slot.
LEMMA ClaimsAhead ==
    ASSUME Evening, NEW sf \in Surfaces, NEW s \in CaptureSlots, Claimed(sf, s)
    PROVE  \/ \E i \in DOMAIN inFlight : /\ s \in inFlight[i].slots /\ sf \in inFlight[i].left
                                         /\ inFlight[i].state # "done" /\ StillNear(s)
           \/ \E m \in marks : m.surface = sf /\ s \in m.slots /\ m.day = DayOf(s)
           \/ PreSkip /\ s \in skipped /\ last < s
<1>1. ASSUME NEW i \in DOMAIN inFlight, s \in inFlight[i].slots, sf \in inFlight[i].left
      PROVE  inFlight[i].state # "done" /\ StillNear(s)
    BY <1>1, OwedIs
<1>2. ASSUME NEW m \in marks, s \in m.slots PROVE m.day = DayOf(s)
    BY <1>2, MarkIs DEF Evening
<1>3. ASSUME PreSkip, s \in skipped PROVE last < s
    <2>1. InTick
        BY <1>3 DEF PreSkip, InTick
    <2>2. skipped = MissedSlots(last, slot)
        BY <2>1 DEF Evening, LoopInv, LoopClock
    <2> QED BY <1>3, <2>2 DEF MissedSlots
<1> QED BY <1>1, <1>2, <1>3 DEF Claimed

\* The startup pass takes up every minute its incarnation found owed.
LEMMA StartupAccounts ==
    ASSUME Evening, FromBelow, QuietHazards, StartupPass,
           NEW sf \in Surfaces, NEW s \in CaptureSlots, s <= Reached', <<sf, DayOf(s)>> \notin sealed
    PROVE  Kept(sf, s)' \/ Claimed(sf, s)'
<1>1. /\ marks' = {m \in {Segment(f, d, Missing(f, d, last + 1), "dead") : f \in Surfaces, d \in Sessions} :
                     m.slots # {} /\ m.day \in Walked(m.surface, last + 1)}
      /\ pc' = "marking" /\ ret' = "wait" /\ last' = last /\ UNCHANGED <<journal, lost>>
    BY DEF StartupPass, lake
<1>2. Reached' = last /\ last \in Nat /\ s \in Nat
    BY <1>1, ContextTypes, SlotIs DEF Evening, Reached, InTick, GuardAt
<1>3. PICK d \in Sessions : d = DayOf(s) /\ s \in SlotsOf(d) /\ d \in Nat /\ 0 < d
    BY SlotIs, CalendarTypes
<1>4. CASE journal[sf][s] # <<>>
    BY <1>1, <1>4 DEF Kept
<1>5. CASE journal[sf][s] = <<>> /\ d \in Walked(sf, last + 1)
    <2>1. s < last + 1
        BY <1>2
    <2>2. s \in Missing(sf, d, last + 1)
        BY <1>3, <1>5, <2>1 DEF Missing
    <2>3. PICK m : m = Segment(sf, d, Missing(sf, d, last + 1), "dead")
        OBVIOUS
    <2>4. m.surface = sf /\ m.day = d /\ m.slots = Missing(sf, d, last + 1)
        BY <2>3 DEF Segment
    <2>5. m \in marks'
        BY <1>1, <1>5, <2>2, <2>3, <2>4
    <2> QED BY <2>2, <2>4, <2>5 DEF Claimed
<1>6. CASE d \notin Walked(sf, last + 1)
    <2>1. last + 1 \in Nat /\ DayOf(last + 1) \in Nat /\ 0 < DayOf(last + 1) /\ At(DayOf(last + 1), 0) <= last + 1
        BY <1>2, DayOfIs
    <2>2. d <= DayOf(last + 1)
        <3>1. ~ (DayOf(last + 1) < DayOf(s))
            BY <1>2, <2>1, LaterMinute
        <3> QED BY <1>3, <2>1, <3>1
    <2>3. PICK e \in d + 1 .. DayOf(last + 1) - 1 : e \in Sessions /\ Missing(sf, e, last + 1) = {}
        BY <1>3, <1>6, <2>2 DEF Walked
    <2>4. e \in Nat /\ d < e /\ e < DayOf(last + 1) /\ 0 < e
        BY <1>3, <2>1, <2>3
    <2>5. Probe(sf, e) \in SlotsOf(e)
        BY <2>3, ClosesAreSlots DEF Probe
    <2>6. Probe(sf, e) < last + 1
        <3>1. Probe(sf, e) \in Nat /\ DayOf(Probe(sf, e)) = e
            BY <2>3, <2>5, SlotsAre
        <3> QED BY <2>1, <2>4, <3>1, LaterMinute
    <2>7. journal[sf][Probe(sf, e)] # <<>>
        BY <2>3, <2>5, <2>6 DEF Missing
    <2>8. Kept(sf, s)
        BY <1>3, <2>3, <2>4, <2>7 DEF FromBelow
    <2> QED BY <1>1, <2>8 DEF Kept
<1> QED BY <1>4, <1>5, <1>6

LEMMA AccountedStep ==
    ASSUME Evening, RowsSound, KeptSound, QuietHazards, [Next]_vars
    PROVE  Accounted'
<1> SUFFICES ASSUME pc' # "down", ~ Unmarked', NEW sf \in Surfaces, NEW s \in CaptureSlots,
                    s <= Reached', <<sf, DayOf(s)>> \notin sealed'
             PROVE  Kept(sf, s)' \/ Claimed(sf, s)'
    BY DEF Accounted
<1>0. /\ Context /\ now \in Nat /\ last \in Nat /\ slot \in Nat /\ s \in Nat /\ Reached \in Int
      /\ <<sf, DayOf(s)>> \notin sealed
    BY ContextTypes, SlotIs, SealedStays, Minute DEF Evening
<1>1. CASE StartupPass
    BY <1>0, <1>1, StartupAccounts DEF KeptSound
<1>2. CASE ~ StartupPass /\ s <= Reached
    <2>1. pc # "down" /\ ~ Unmarked
        BY <1>0, <1>2, UnmarkedLeft
    <2>2. Kept(sf, s) \/ Claimed(sf, s)
        BY <1>0, <1>2, <2>1 DEF KeptSound, Accounted
    <2>3. CASE Kept(sf, s)
        BY <1>0, <2>3, KeptStays
    <2>4. ASSUME NEW i \in DOMAIN inFlight, s \in inFlight[i].slots, sf \in inFlight[i].left
          PROVE  Kept(sf, s)' \/ Claimed(sf, s)'
        <3>1. CASE LandSurface(i, sf)
            <4>1. PICK t \in CaptureSlots :
                     /\ inFlight[i].slots = {t} /\ journal[sf][t] = <<>>
                     /\ \/ \E k \in {"data", "gap"} : journal' = Written(sf, {t}, k)
                        \/ lost' = lost \cup {<<sf, t>>}
                BY <2>4, <3>1, LandIs
            <4>2. t = s
                BY <2>4, <4>1
            <4>3. CASE \E k \in {"data", "gap"} : journal' = Written(sf, {t}, k)
                <5>1. PICK T, k : T = {t} /\ journal' = Written(sf, T, k)
                    BY <4>3
                <5>2. journal'[sf][s] = Append(journal[sf][s], k)
                    <6>0. Context /\ journal' = Written(sf, T, k)
                        BY <1>0, <5>1
                    <6>1. \A f \in Surfaces, u \in CaptureSlots :
                             journal'[f][u] = IF f = sf /\ u \in T THEN Append(journal[f][u], k) ELSE journal[f][u]
                        BY <6>0, WrittenRows
                    <6>2. s \in T
                        BY <4>2, <5>1
                    <6> QED BY <6>1, <6>2
                <5>3. journal[sf][s] = <<>>
                    BY <4>1, <4>2
                <5> QED BY <5>2, <5>3, RowAdded DEF Kept
            <4>4. CASE lost' = lost \cup {<<sf, t>>}
                BY <4>2, <4>4 DEF Kept
            <4> QED BY <4>1, <4>3, <4>4
        <3>2. CASE \E j \in DOMAIN inFlight' : inFlight'[j].slots = inFlight[i].slots /\ sf \in inFlight'[j].left
            BY <2>4, <3>2 DEF Claimed
        <3> QED BY <2>4, <3>1, <3>2, OwedStays
    <2>5. ASSUME NEW m \in marks, m.surface = sf, s \in m.slots
          PROVE  Kept(sf, s)' \/ Claimed(sf, s)'
        <3>1. m \in marks' \/ Kept(m.surface, s)'
            BY <2>5, MarkOwed
        <3>2. CASE m \in marks'
            BY <2>5, <3>2 DEF Claimed
        <3>3. CASE Kept(m.surface, s)'
            BY <2>5, <3>3 DEF Kept
        <3> QED BY <3>1, <3>2, <3>3
    <2>6. ASSUME PreSkip, s \in skipped
          PROVE  Kept(sf, s)' \/ Claimed(sf, s)'
        <3>1. CASE SkippedPass
            <4>1. marks' = {m \in {Segment(f, d, skipped \cap SlotsOf(d), "overrun") : f \in Surfaces, d \in Sessions} :
                              m.slots # {} /\ ~ (~ BeforeTodaysClose(skipped) /\ <<m.surface, m.day>> \in sealed)}
                BY <3>1 DEF SkippedPass
            <4>2. PICK d \in Sessions : d = DayOf(s) /\ s \in SlotsOf(d)
                BY SlotIs
            <4>3. PICK m : m = Segment(sf, d, skipped \cap SlotsOf(d), "overrun")
                OBVIOUS
            <4>4. m.surface = sf /\ m.day = d /\ m.slots = skipped \cap SlotsOf(d)
                BY <4>3 DEF Segment
            <4>5. m \in marks' /\ s \in m.slots
                <5>1. s \in m.slots /\ <<m.surface, m.day>> \notin sealed
                    BY <1>0, <2>6, <4>2, <4>4
                <5>2. m \in {Segment(f, e, skipped \cap SlotsOf(e), "overrun") : f \in Surfaces, e \in Sessions}
                    BY <4>2, <4>3
                <5>3. m.slots # {}
                    BY <5>1
                <5> QED BY <4>1, <5>1, <5>2, <5>3
            <4> QED BY <4>4, <4>5 DEF Claimed
        <3>2. CASE PreSkip' /\ skipped' = skipped
            BY <2>6, <3>2 DEF Claimed
        <3> QED BY <1>0, <2>6, <3>1, <3>2, PreSkipLeft
    <2> QED BY <2>2, <2>3, <2>4, <2>5, <2>6 DEF Claimed
<1>3. CASE ~ StartupPass /\ ~ (s <= Reached)
    <2>1. pc # "down"
        BY <1>0, <1>3, UnmarkedLeft DEF Unmarked
    <2>2. CASE ReachTop /\ Reached = last /\ Reached' = now - 1
        <3>1. last < s /\ s < now
            BY <1>0, <1>3, <2>2
        <3>2. s \in skipped' /\ pc' = "hand"
            BY <2>2, <3>1 DEF ReachTop, MissedSlots
        <3> QED BY <3>2 DEF Claimed, PreSkip
    <2>3. CASE Launch /\ Reached = slot - 1 /\ Reached' = slot
        <3>1. s = slot
            BY <1>0, <1>3, <2>3
        <3>2. inFlight' = Append(inFlight, Cycle(slot)) /\ inFlight \in Seq(Entries) /\ Cycle(slot) \in Entries
            BY <1>0, <2>3, <3>1, EntryTypes DEF Launch, Context, QueueInv, Base
        <3>3. /\ Len(inFlight) + 1 \in DOMAIN inFlight' /\ inFlight'[Len(inFlight) + 1] = Cycle(slot)
            BY <3>2, AppendProperties, LenProperties
        <3>4. Cycle(slot).slots = {s} /\ Cycle(slot).left = Surfaces
            BY <3>1 DEF Cycle
        <3> QED BY <3>3, <3>4 DEF Claimed
    <2> QED BY <1>0, <1>3, <2>1, <2>2, <2>3, ReachedGrows
<1> QED BY <1>1, <1>2, <1>3

LEMMA ProbeIs ==
    ASSUME NEW sf \in Surfaces, NEW e \in Sessions
    PROVE  /\ Probe(sf, e) \in SlotsOf(e) /\ Probe(sf, e) \in CaptureSlots /\ Probe(sf, e) \in Nat
           /\ DayOf(Probe(sf, e)) = e
<1>1. Probe(sf, e) \in SlotsOf(e)
    BY ClosesAreSlots DEF Probe
<1> QED BY <1>1, SlotsAre

\* A probe's row comes from a cycle or a pass, and after the day below it.
LEMMA FromBelowStep ==
    ASSUME Evening, RowsSound, KeptSound, QuietHazards, [Next]_vars
    PROVE  FromBelow'
<1> SUFFICES ASSUME NEW sf \in Surfaces, NEW d \in Sessions, NEW e \in Sessions, d < e,
                    <<sf, d>> \notin sealed', journal'[sf][Probe(sf, e)] # <<>>, NEW s \in SlotsOf(d)
             PROVE  Kept(sf, s)'
    BY DEF FromBelow, Probe
<1>0. /\ s \in CaptureSlots /\ s \in Nat /\ DayOf(s) = d /\ <<sf, d>> \notin sealed
      /\ d \in Nat /\ e \in Nat /\ 0 < d /\ last \in Nat /\ slot \in Nat
    BY SlotsAre, CalendarTypes, SealedStays, ContextTypes DEF Evening
<1>1. PICK p \in CaptureSlots : p = Probe(sf, e) /\ p \in SlotsOf(e) /\ p \in Nat /\ DayOf(p) = e
    BY ProbeIs
<1>2. s < p /\ At(d + 1, Open) <= p /\ At(d + 1, Open) \in Nat
    <2>1. s < p
        BY <1>0, <1>1, LaterMinute
    <2>2. At(d + 1, Open) <= At(e, Open) /\ At(e, Open) <= p
        BY <1>0, <1>1, LaterDay, SlotsAre
    <2>3. At(d + 1, Open) \in Nat /\ At(e, Open) \in Nat
        BY <1>0, DayEnds, DayOrder
    <2> QED BY <1>1, <2>1, <2>2, <2>3
<1>3. Kept(sf, s) => Kept(sf, s)'
    BY <1>0, KeptStays
<1>4. CASE journal[sf][p] # <<>>
    BY <1>0, <1>1, <1>3, <1>4 DEF KeptSound, FromBelow
<1>5. CASE journal[sf][p] = <<>>
    <2>1. journal'[sf][p] # journal[sf][p] /\ journal'[sf][p] # <<>>
        BY <1>1, <1>5
    <2>2. CASE \E i \in DOMAIN inFlight : inFlight[i].slots = {p} /\ p <= last
        <3>1. inFlight # <<>> /\ pc # "down" /\ ~ Starting /\ p <= last
            BY <2>2, EntryIs DEF Evening, LoopInv, LoopLocks
        <3>2. s <= Reached
            BY <1>0, <1>1, <1>2, <3>1, Minute DEF Evening
        <3>3. Kept(sf, s) \/ Claimed(sf, s)
            BY <1>0, <3>1, <3>2 DEF KeptSound, Accounted, Starting
        <3>4. ~ (\E i \in DOMAIN inFlight : StillNear(s))
            BY <1>0, <1>1, <1>2, <3>1 DEF StillNear
        <3>5. ~ \E m \in marks : s \in m.slots
            <4> SUFFICES ASSUME NEW m \in marks, s \in m.slots PROVE FALSE
                OBVIOUS
            <4>1. pc = "marking" /\ ret \in {"wait", "skipGuard"} /\ (ret = "skipGuard" => last < s)
                BY MarksPlace DEF Evening
            <4>2. ret # "wait"
                BY <3>1, <4>1 DEF Starting
            <4> QED BY <1>0, <1>1, <1>2, <3>1, <4>1, <4>2
        <3>6. ~ (last < s)
            BY <1>0, <1>1, <1>2, <3>1
        <3> QED BY <1>0, <1>3, <3>3, <3>4, <3>5, <3>6, ClaimsAhead
    <2>3. CASE MarkSegment /\ \E m \in marks : /\ m.surface = sf /\ p \in m.slots /\ DayOf(p) = m.day
                                               /\ \A n \in marks : n.surface = m.surface => m.day <= n.day
        <3>1. PICK m \in marks : /\ m.surface = sf /\ p \in m.slots /\ m.day = e
                                 /\ \A n \in marks : n.surface = m.surface => m.day <= n.day
            BY <1>1, <2>3
        <3>2. pc = "marking" /\ ret \in {"wait", "skipGuard"} /\ p <= Reached
              /\ (ret = "wait" => inFlight = <<>>) /\ (ret = "skipGuard" => p < slot)
            BY <3>1, MarksPlace, MarkFits DEF Evening
        <3>3. Reached \in Int /\ s <= Reached
            BY <1>0, <1>1, <1>2, <3>2, Minute DEF Evening
        <3>4. ~ Unmarked /\ ~ PreSkip
            BY <3>2 DEF Unmarked, PreSkip, GuardAt
        <3>5. Kept(sf, s) \/ Claimed(sf, s)
            BY <1>0, <3>2, <3>3, <3>4 DEF KeptSound, Accounted
        <3>6. ~ (\E i \in DOMAIN inFlight : StillNear(s))
            <4> SUFFICES ASSUME NEW i \in DOMAIN inFlight, StillNear(s) PROVE FALSE
                OBVIOUS
            <4>1. inFlight # <<>>
                BY EntryIs DEF Evening
            <4>2. ret = "skipGuard" /\ p < slot
                BY <3>2, <4>1
            <4>3. InTick /\ pc # "hand"
                BY <3>2, <4>2 DEF InTick
            <4>4. slot < At(d + 1, Open)
                BY <1>0, <4>3 DEF StillNear
            <4> QED BY <1>0, <1>1, <1>2, <4>2, <4>4
        <3>7. ~ \E n \in marks : n.surface = sf /\ s \in n.slots /\ n.day = DayOf(s)
            <4> SUFFICES ASSUME NEW n \in marks, n.surface = sf, n.day = d PROVE FALSE
                BY <1>0
            <4>1. e <= d
                BY <3>1
            <4> QED BY <1>0, <4>1
        <3> QED BY <1>0, <1>3, <3>4, <3>5, <3>6, <3>7, ClaimsAhead
    <2>4. ~ (sf = "quotes" /\ p = At(guardServed, EquityClose) /\ SpotMarked)
        <3> SUFFICES ASSUME sf = "quotes", p = At(guardServed, EquityClose), SpotMarked PROVE FALSE
            OBVIOUS
        <3>1. pc \in GuardAt
            BY DEF SpotMarked, GuardAt
        <3>2. guardServed \in Sessions /\ At(guardServed, EquityClose) \in SlotsOf(guardServed)
            BY <3>1, GuardDay DEF Evening
        <3>3. guardServed = e
            BY <1>1, <3>2, SlotsAre
        <3>4. p = At(e, OptionClose) /\ At(e, EquityClose) < At(e, OptionClose) /\ At(e, EquityClose) \in Nat
            <4>1. 0 < e
                BY CalendarTypes
            <4> QED BY <1>0, <1>1, <4>1, DayOrder DEF Probe
        <3> QED BY <3>3, <3>4
    <2>5. ~ (sf = "chains" /\ p = At(guardServed, OptionClose) /\ OptionFilled)
        <3> SUFFICES ASSUME sf = "chains", p = At(guardServed, OptionClose), OptionFilled PROVE FALSE
            OBVIOUS
        <3>1. pc \in GuardAt
            BY DEF OptionFilled, GuardAt
        <3>2. guardServed \in Sessions /\ At(guardServed, OptionClose) \in SlotsOf(guardServed)
            BY <3>1, GuardDay DEF Evening
        <3>3. guardServed = e
            BY <1>1, <3>2, SlotsAre
        <3>4. p = At(e, EquityClose) /\ At(e, EquityClose) < At(e, OptionClose) /\ At(e, EquityClose) \in Nat
            <4>1. 0 < e
                BY CalendarTypes
            <4> QED BY <1>0, <1>1, <4>1, DayOrder DEF Probe
        <3> QED BY <3>3, <3>4
    <2> QED BY <2>1, <2>2, <2>3, <2>4, <2>5, RowComes
<1> QED BY <1>4, <1>5

\* A day is due for a sweep with nothing of it owed any more.
LEMMA DueCompleteStep ==
    ASSUME Evening, RowsSound, KeptSound, QuietHazards, Prompt, [Next]_vars
    PROVE  DueComplete'
<1> SUFFICES ASSUME NEW sf \in Surfaces, NEW d \in Sessions, IsDue(sf, d)', <<sf, d>> \notin sealed',
                    NEW s \in SlotsOf(d)
             PROVE  Kept(sf, s)'
    BY DEF DueComplete
<1>0. /\ s \in CaptureSlots /\ s \in Nat /\ DayOf(s) = d /\ s <= At(d, OptionClose) /\ <<sf, d>> \notin sealed
      /\ At(d, OptionClose) < At(d, Deadline) /\ At(d, Deadline) \in Nat /\ At(d, OptionClose) \in Nat
      /\ last \in Nat
    <2>1. d \in Nat /\ 0 < d
        BY CalendarTypes
    <2> QED BY <2>1, SlotsAre, DayOrder, SealedStays, ContextTypes DEF Evening
<1>1. Kept(sf, s) => Kept(sf, s)'
    BY <1>0, KeptStays
<1>2. CASE IsDue(sf, d)
    BY <1>0, <1>1, <1>2 DEF KeptSound, DueComplete
<1>3. CASE TickCompact /\ Dispatches /\ At(d, Deadline) <= now
    <2>1. Behind(sf, d) /\ pc = "compact"
        BY <1>3, DispatchReady DEF Evening, TickCompact
    <2>2. At(d, Deadline) <= last
        BY <2>1 DEF Behind
    <2>3. s <= Reached
        BY <1>0, <2>2, Minute DEF Evening
    <2>4. Kept(sf, s) \/ Claimed(sf, s)
        BY <1>0, <2>1, <2>3 DEF KeptSound, Accounted, Unmarked, GuardAt
    <2>5. ~ (last < s)
        BY <1>0, <2>2
    <2>6. ~ Claimed(sf, s)
        <3>1. ~ \E i \in DOMAIN inFlight : inFlight[i].state # "done" /\ s \in inFlight[i].slots
            BY <1>0, <2>1 DEF Behind
        <3>2. ~ \E m \in marks : m.surface = sf /\ m.day = d
            BY <2>1 DEF Behind
        <3> QED BY <1>0, <2>5, <3>1, <3>2, ClaimsAhead
    <2> QED BY <1>1, <2>4, <2>6
<1> QED BY <1>2, <1>3, DueCame DEF Evening

LEMMA KeptSoundStep ==
    ASSUME Evening, RowsSound, KeptSound, QuietHazards, Prompt, [Next]_vars
    PROVE  KeptSound'
BY AccountedStep, FromBelowStep, DueCompleteStep DEF KeptSound

LEMMA SealedCompleteStep ==
    ASSUME Evening, RowsSound, KeptSound, SealedComplete, QuietHazards, [Next]_vars
    PROVE  SealedComplete'
<1> SUFFICES ASSUME NEW sd \in sealed', NEW s \in SlotsOf(sd[2])
             PROVE  partition'[sd[1]][s] # <<>> \/ <<sd[1], s>> \in lost'
    BY DEF SealedComplete
<1>1. lost \subseteq lost'
    BY LostStays
<1>2. CASE UNCHANGED <<partition, sealed>>
    BY <1>1, <1>2 DEF SealedComplete
<1>3. CASE SweepSeals
    <2>1. PICK f \in Surfaces, d \in Sessions :
             /\ <<f, d>> \in scope /\ sealed' = sealed \cup {<<f, d>>} /\ lock = "sweep"
             /\ UNCHANGED <<journal, lost>>
             /\ \A sf \in Surfaces, t \in CaptureSlots :
                  partition'[sf][t] = IF <<f, d>> \notin sealed /\ sf = f /\ DayOf(t) = d
                                      THEN journal[sf][t] ELSE partition[sf][t]
        BY <1>3, SealedNow DEF Evening
    <2>2. sealed \subseteq Surfaces \X Sessions
        BY DEF Evening, Context, TypeOK
    <2>3. sd[1] \in Surfaces /\ sd[2] \in Sessions /\ sd = <<sd[1], sd[2]>>
        BY <2>1, <2>2
    <2>4. s \in CaptureSlots /\ DayOf(s) = sd[2]
        BY <2>3, SlotsAre
    <2>5. CASE <<f, d>> \notin sealed /\ sd = <<f, d>>
        <3>1. partition'[f][s] = journal[f][s]
            BY <2>1, <2>3, <2>4, <2>5
        <3>2. IsDue(f, d)
            BY <2>1 DEF IsDue
        <3>3. Kept(f, s)
            BY <2>5, <3>2 DEF KeptSound, DueComplete
        <3> QED BY <1>1, <2>5, <3>1, <3>3 DEF Kept
    <2>6. CASE ~ (<<f, d>> \notin sealed /\ sd = <<f, d>>)
        <3>1. sd \in sealed
            BY <2>1, <2>6
        <3>2. partition'[sd[1]][s] = partition[sd[1]][s]
            BY <2>1, <2>3, <2>4, <2>6
        <3> QED BY <1>1, <3>1, <3>2 DEF SealedComplete
    <2> QED BY <2>5, <2>6
<1> QED BY <1>2, <1>3, Moves

LEMMA AtMostOne ==
    ASSUME NEW x, NEW S, S \subseteq {x}
    PROVE  Cardinality(S) <= 1
<1>1. Cardinality({x}) = 1 /\ IsFiniteSet({x})
    BY FS_Singleton
<1>2. Cardinality({}) = 0
    BY FS_EmptySet
<1>3. S = {} \/ S = {x}
    OBVIOUS
<1> QED BY <1>1, <1>2, <1>3

\* The fills among a minute's rows.
Fills(r) == {i \in DOMAIN r : r[i] = "fill"}

\* What the rows of a minute can be is what OneRowPerMinute asks.
LEMMA ShapesAreSound ==
    ASSUME NEW r \in Shapes
    PROVE  /\ Cardinality(Fills(r)) <= 1 /\ Cardinality(DOMAIN r \ Fills(r)) <= 1
           /\ Fills(r) # {} => \A i \in DOMAIN r : r[i] # "data"
<1>1. CASE r = <<>>
    <2>1. Fills(r) \subseteq {1} /\ DOMAIN r \ Fills(r) \subseteq {1} /\ Fills(r) = {}
        BY <1>1 DEF Fills
    <2> QED BY <2>1, AtMostOne
<1>2. ASSUME NEW k \in Kinds, r = <<k>> PROVE
           /\ Cardinality(Fills(r)) <= 1 /\ Cardinality(DOMAIN r \ Fills(r)) <= 1
           /\ Fills(r) # {} => \A i \in DOMAIN r : r[i] # "data"
    <2>1. DOMAIN r = {1} /\ r[1] = k
        BY <1>2
    <2>2. Fills(r) \subseteq {1} /\ DOMAIN r \ Fills(r) \subseteq {1}
        BY <2>1 DEF Fills
    <2>3. Fills(r) # {} => k = "fill"
        BY <2>1 DEF Fills
    <2> QED BY <2>1, <2>2, <2>3, AtMostOne
<1>3. ASSUME NEW k \in Others, r = <<k, "fill">> PROVE
           /\ Cardinality(Fills(r)) <= 1 /\ Cardinality(DOMAIN r \ Fills(r)) <= 1
           /\ \A i \in DOMAIN r : r[i] # "data"
    <2>1. DOMAIN r = {1, 2} /\ r[1] = k /\ r[2] = "fill" /\ k # "fill" /\ k # "data"
        BY <1>3 DEF Others
    <2>2. Fills(r) \subseteq {2} /\ DOMAIN r \ Fills(r) \subseteq {1}
        BY <2>1 DEF Fills
    <2> QED BY <2>1, <2>2, AtMostOne
<1>4. ASSUME NEW k \in Others, r = <<"fill", k>> PROVE
           /\ Cardinality(Fills(r)) <= 1 /\ Cardinality(DOMAIN r \ Fills(r)) <= 1
           /\ \A i \in DOMAIN r : r[i] # "data"
    <2>1. DOMAIN r = {1, 2} /\ r[2] = k /\ r[1] = "fill" /\ k # "fill" /\ k # "data"
        BY <1>4 DEF Others
    <2>2. Fills(r) \subseteq {1} /\ DOMAIN r \ Fills(r) \subseteq {2}
        BY <2>1 DEF Fills
    <2> QED BY <2>1, <2>2, AtMostOne
<1> QED BY <1>1, <1>2, <1>3, <1>4 DEF Shapes

LEMMA RowsAreOne ==
    ASSUME Context, RowsSound
    PROVE  OneRowPerMinute
<1> SUFFICES ASSUME NEW sf \in Surfaces, NEW s \in CaptureSlots
             PROVE  Rows(sf, s) \in Shapes
    BY ShapesAreSound DEF OneRowPerMinute, Fills
<1>1. journal[sf][s] \in Shapes /\ partition[sf][s] \in Shapes
    BY DEF RowsSound, RowsShaped
<1>2. CASE sealing = <<sf, DayOf(s)>>
    BY <1>1, <1>2 DEF Rows
<1>3. CASE sealing # <<sf, DayOf(s)>>
    <2>1. journal[sf][s] = <<>> \/ partition[sf][s] = <<>>
        BY <1>3 DEF RowsSound, RowsSealed
    <2>2. PICK j \in Seq(Kinds), p \in Seq(Kinds) : j = journal[sf][s] /\ p = partition[sf][s]
        <3>1. partition[sf][s] \in Seq(Kinds)
            BY JournalTypes
        <3> QED BY <3>1, JournalTypes
    <2>3. <<>> \o j = j /\ p \o <<>> = p
        BY ConcatEmptySeq
    <2>4. Rows(sf, s) = p \o j
        BY <1>3, <2>2 DEF Rows
    <2> QED BY <1>1, <2>1, <2>2, <2>3, <2>4
<1> QED BY <1>2, <1>3

LEMMA BelowIsComplete ==
    ASSUME Evening, KeptSound
    PROVE  CompleteFromBelow
<1> SUFFICES ASSUME NEW sf \in Surfaces, NEW d \in Sessions, NEW e \in Sessions, d < e, e < DayOf(now + 1),
                    <<sf, d>> \notin sealed, Missing(sf, e, now + 1) = {}, NEW s \in Missing(sf, d, now + 1)
             PROVE  <<sf, s>> \in lost
    BY DEF CompleteFromBelow
<1>1. s \in SlotsOf(d) /\ journal[sf][s] = <<>> /\ now + 1 \in Nat
    BY ContextTypes DEF Missing, Evening
<1>2. Probe(sf, e) \in SlotsOf(e) /\ Probe(sf, e) < now + 1
    <2>1. Probe(sf, e) \in SlotsOf(e) /\ Probe(sf, e) \in Nat /\ DayOf(Probe(sf, e)) = e
        BY ProbeIs
    <2> QED BY <1>1, <2>1, LaterMinute
<1>3. journal[sf][Probe(sf, e)] # <<>>
    BY <1>2 DEF Missing
<1> QED BY <1>1, <1>3 DEF KeptSound, FromBelow, Kept

\* No step adds a row to a day the manifest names.
LEMMA SealedGainsNothing ==
    ASSUME Evening, RowsSound, QuietHazards, [Next]_vars,
           NEW sd \in sealed, NEW s \in SlotsOf(sd[2])
    PROVE  Len(journal'[sd[1]][s]) <= Len(journal[sd[1]][s])
<1>1. sd \in Surfaces \X Sessions /\ Context
    BY DEF Evening, Context, TypeOK
<1>2. PICK sf \in Surfaces, d \in Sessions : sd = <<sf, d>> /\ sd[1] = sf /\ sd[2] = d
    BY <1>1
<1>3. s \in CaptureSlots /\ DayOf(s) = d
    BY <1>2, SlotsAre
<1>4. Len(journal[sf][s]) \in Nat /\ Len(<<>>) = 0
    BY <1>1, <1>3, JournalTypes, LenProperties
<1>5. journal'[sf][s] \in {<<>>, journal[sf][s]}
    <2>1. CASE SweepCleans
        BY <1>1, <1>3, <2>1, Cleaned
    <2>2. ASSUME NEW f \in Surfaces, NEW T \in SUBSET CaptureSlots, NEW k \in Kinds,
                 journal' = Written(f, T, k), \A t \in T : <<f, DayOf(t)>> \notin sealed
          PROVE  journal'[sf][s] = journal[sf][s]
        <3>1. journal'[sf][s] = IF sf = f /\ s \in T THEN Append(journal[sf][s], k) ELSE journal[sf][s]
            BY <1>1, <1>3, <2>2, WrittenRows
        <3> QED BY <1>2, <1>3, <2>2, <3>1
    <2> QED BY <2>1, <2>2, Adding
<1> QED BY <1>2, <1>4, <1>5

(***************************************************************************)
(* The evening's invariant.                                                *)
(***************************************************************************)
\* Inductive while the cycles and the dispatches are prompt.
EveningInv == Evening /\ RowsSound /\ KeptSound /\ SealedComplete

LEMMA EveningStep ==
    ASSUME EveningInv, Context', QuietHazards, Prompt, [Next]_vars
    PROVE  EveningInv'
<1>1. Context /\ LoopInv /\ QueueSound /\ MarksSound /\ SweepStates /\ DaysSound /\ GuardKnows
    BY DEF EveningInv, Evening
<1>2. LoopInv' /\ QueueSound' /\ MarksSound'
    BY <1>1, LoopStep, QueueSoundStep, MarksSoundStep
<1>3. SweepStates' /\ DaysSound' /\ GuardKnows'
    BY <1>1, SweepStatesStep, DaysSoundStep, GuardKnowsStep
<1>4. RowsShaped' /\ RowsPast' /\ RowsOwed'
    BY RowsShapedStep, RowsOwedStep DEF EveningInv
<1>5. RowsSealed' /\ RowsGuarded'
    BY RowsSealedStep, RowsGuardedStep DEF EveningInv
<1>6. KeptSound' /\ SealedComplete'
    BY KeptSoundStep, SealedCompleteStep DEF EveningInv
<1> QED BY <1>2, <1>3, <1>4, <1>5, <1>6 DEF EveningInv, Evening, RowsSound

LEMMA EveningInit ==
    ASSUME Init, Context
    PROVE  EveningInv
<1>1. LoopInv
    BY LoopInit
<1>2. DOMAIN inFlight = {} /\ marks = {} /\ sealed = {} /\ lost = {} /\ pc = "down" /\ sweeps = 0
      /\ lock = "free" /\ scope = {} /\ sealing = None /\ seen = {}
    BY DEF Init
<1>3. QueueSound
    BY <1>2 DEF QueueSound, InOrder, InTick, GuardAt
<1>4. MarksSound /\ SweepStates
    BY <1>2 DEF MarksSound, SweepStates
<1>5. \A sf \in Surfaces, d \in Sessions : ~ IsDue(sf, d)
    BY <1>2 DEF IsDue
<1>6. DaysSound /\ GuardKnows
    BY <1>2, <1>5 DEF DaysSound, GuardKnows
<1>7. \A sf \in Surfaces, s \in CaptureSlots : journal[sf][s] = <<>> /\ partition[sf][s] = <<>>
    BY DEF Init
<1>8. RowsShaped /\ RowsPast /\ RowsSealed
    BY <1>2, <1>7, RowAdded DEF RowsShaped, RowsPast, RowsSealed
<1>9. RowsOwed /\ RowsGuarded
    BY <1>2 DEF RowsOwed, RowsGuarded, PreSkip, GuardAt
<1>10. KeptSound
    <2>1. Accounted /\ DueComplete
        BY <1>2, <1>5 DEF Accounted, DueComplete
    <2>2. FromBelow
        <3>1. \A sf \in Surfaces, e \in Sessions : journal[sf][Probe(sf, e)] = <<>>
            BY <1>7, ProbeIs
        <3> QED BY <3>1 DEF FromBelow
    <2> QED BY <2>1, <2>2 DEF KeptSound
<1>11. SealedComplete
    BY <1>2 DEF SealedComplete
<1> QED BY <1>1, <1>3, <1>4, <1>6, <1>8, <1>9, <1>10, <1>11 DEF EveningInv, Evening, RowsSound

\* The whole of it holds in every state of an evening that is quiet and prompt.
THEOREM EveningInvariant == QuietHazards => (Spec /\ []Prompt => []EveningInv)
<1> SUFFICES ASSUME QuietHazards PROVE Spec /\ []Prompt => []EveningInv
    OBVIOUS
<1>1. Init /\ Context => EveningInv
    BY EveningInit
<1>2. EveningInv /\ Prompt /\ Context' /\ [Next]_vars => EveningInv'
    BY EveningStep
<1>3. TypeOK /\ QueueInv <=> Context
    BY DEF Context
<1> QED BY <1>1, <1>2, <1>3, TypesAlways, QueueInvariant, PTL DEF Spec

\* A minute of a surface is captured or marked, never both and never twice,
\* however run_loop's passes, its cycles' threads, the guard, stalls and
\* restarts fall: at most one fill may stand beside a gap row or a marker.
THEOREM MinutesSoundAlways == QuietHazards => (Spec /\ []Prompt => []MinutesSound)
<1> SUFFICES ASSUME QuietHazards PROVE Spec /\ []Prompt => []MinutesSound
    OBVIOUS
<1>1. EveningInv => MinutesSound
    BY RowsAreOne DEF EveningInv, Evening, Context, MinutesSound
<1> QED BY <1>1, EveningInvariant, PTL

\* compact's sweep seals a day when it has a row or a marker for each of its
\* minutes, but for those the disk refused.
THEOREM SealedCompleteAlways == QuietHazards => (Spec /\ []Prompt => []SealedComplete)
<1> SUFFICES ASSUME QuietHazards PROVE Spec /\ []Prompt => []SealedComplete
    OBVIOUS
<1>1. EveningInv => SealedComplete
    BY DEF EveningInv
<1> QED BY <1>1, EveningInvariant, PTL

\* _startup_missing may stop at a day with nothing missing: below it no
\* unsealed day has a minute that nothing records.
THEOREM CompleteFromBelowAlways == QuietHazards => (Spec /\ []Prompt => []CompleteFromBelow)
<1> SUFFICES ASSUME QuietHazards PROVE Spec /\ []Prompt => []CompleteFromBelow
    OBVIOUS
<1>1. EveningInv => CompleteFromBelow
    BY BelowIsComplete DEF EveningInv
<1> QED BY <1>1, EveningInvariant, PTL

\* No cycle, pass or guard adds a row to a day the manifest names, so that a
\* later sweep may take what lies beside a partition for debris.
THEOREM NothingAfterSealAlways == QuietHazards => (Spec /\ []Prompt => NothingAfterSeal)
<1> SUFFICES ASSUME QuietHazards PROVE Spec /\ []Prompt => NothingAfterSeal
    OBVIOUS
<1>1. EveningInv /\ [Next]_vars =>
        [\A sd \in sealed : \A s \in SlotsOf(sd[2]) :
           Len(journal'[sd[1]][s]) <= Len(journal[sd[1]][s])]_vars
    BY SealedGainsNothing DEF EveningInv
<1> QED BY <1>1, EveningInvariant, PTL DEF Spec, NothingAfterSeal
=============================================================================
