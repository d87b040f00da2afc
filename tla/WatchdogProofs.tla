--------------------------- MODULE WatchdogProofs ---------------------------
(***************************************************************************)
(* Theorems about the watchdog's pages, for every roster, threshold and    *)
(* way a surface may fail: what is down is paged or spoken for, and what   *)
(* was paged is not paged again while it lasts.                            *)
(***************************************************************************)
EXTENDS Watchdog, FiniteSetTheorems, TLAPS

LEMMA Titles ==
  /\ TokenDead \notin {RateLimited, Writes, Fold, Sampler, Stalled, OutOfSpan, NoCause, "surface"}
  /\ RateLimited \notin {Writes, Fold, Sampler, Stalled, OutOfSpan, NoCause, "surface"}
  /\ Writes \notin {Fold, Sampler, Stalled, OutOfSpan, NoCause, "surface"}
  /\ Fold \notin {Sampler, Stalled, OutOfSpan, "surface"}
  /\ "surface" \notin {Sampler, Stalled, OutOfSpan} /\ Sampler \notin {Stalled, OutOfSpan}
  BY DEF TokenDead, RateLimited, Writes, Fold, Sampler, Stalled, OutOfSpan, NoCause

USE DEF Causes

(* What is paged was named by a page of its own, or by a collapse that took it in.  *)
Accounted == paged = alone \cup absorbed /\ alone \cap absorbed = {}

(* A dead-token page still speaks for what it named and stayed in the cycle, and    *)
(* has been told as long as its cause is live.                                      *)
TokenHeld ==
    /\ tokenQuiet \subseteq Quotes
    /\ \A q \in tokenQuiet : <<TokenDead, q>> \in pagedCauses
    /\ TokenDead \in LiveCauses(pagedCauses) => tokenTold
    /\ tokenRun <= dataless

------------------------------------------------------------------------------
(* What a minute's tally says. *)

LEMMA WatchedFinite == \A S : S \subseteq Watched => IsFiniteSet(S)
  BY FS_Subset, WatchdogAssumption

LEMMA TallyFacts ==
  ASSUME NEW m \in Tallies
  PROVE  /\ m.touched \subseteq Watched /\ m.landed \subseteq m.touched
         /\ m.failed = m.touched \ m.landed /\ m.recorded \subseteq m.failed
         /\ m.title \in Causes \cup {NoCause}
         /\ m.title # NoCause => m.landed = {} /\ m.failed # {}
         /\ m.joins \subseteq Causes \X m.failed
         /\ m.landed # {} => m.joins = {}
<1> PICK r \in UNION {{f \in [{k \in Watched : Ticker[k] \in on} -> Outcomes] :
                         \A k \in DOMAIN f : f[k] \in Fails[k] \cup {"data"}} : on \in Fetched} :
           m = Tally(r)
  BY DEF Tallies
<1>1. DOMAIN r \subseteq Watched
  OBVIOUS
<1>2. Cardinality({}) < 2
  <2>1. Cardinality({}) = 0
    BY FS_EmptySet
  <2> QED
    BY <2>1
<1>3. \A c : CauseOf(c) \in Causes \cup {NoCause}
  BY DEF CauseOf
<1>4. m.title # NoCause => ~(Cardinality(m.failed) < 2)
  BY DEF Tally
<1>5. m.title # NoCause => m.landed = {}
  BY DEF Tally
<1>6. m.title # NoCause => m.failed # {}
  BY <1>2, <1>4, Zenon
<1> QED
  BY <1>1, <1>3, <1>5, <1>6 DEF Tally

(* While nothing lands, a dead token keeps every quotes surface it named.           *)
LEMMA QuotesKept ==
  ASSUME NEW m \in Tallies, m.landed = {}, NEW q \in Quotes
  PROVE  <<TokenDead, q>> \notin m.released
<1> PICK r \in UNION {{f \in [{k \in Watched : Ticker[k] \in on} -> Outcomes] :
                         \A k \in DOMAIN f : f[k] \in Fails[k] \cup {"data"}} : on \in Fetched} :
           m = Tally(r)
  BY DEF Tallies
<1>1. q \in DOMAIN r => r[q] # "contracts_absent"
  <2> SUFFICES ASSUME q \in DOMAIN r PROVE r[q] # "contracts_absent"
    OBVIOUS
  <2>1. r[q] \in Fails[q] \cup {"data"}
    OBVIOUS
  <2> QED
    BY <2>1, WatchdogAssumption
<1> QED
  BY <1>1, Titles DEF Tally, Released

(* A minute the token worked in releases all a dead token held of the cycle.        *)
LEMMA WorksReleases ==
  ASSUME NEW m \in Tallies, m.landed # {}, \A k \in m.recorded : m.class[k] # "http_401",
         NEW k \in m.touched
  PROVE  <<TokenDead, k>> \in m.released
<1> PICK r \in UNION {{f \in [{x \in Watched : Ticker[x] \in on} -> Outcomes] :
                         \A x \in DOMAIN f : f[x] \in Fails[x] \cup {"data"}} : on \in Fetched} :
           m = Tally(r)
  BY DEF Tallies
<1>1. CASE k \in m.landed
  BY <1>1, Titles DEF Tally, Released
<1>2. CASE k \in m.failed \ m.recorded
  BY <1>2 DEF Tally, Released
<1>3. CASE k \in m.recorded
  <2>1. CauseOf(r[k]) # TokenDead
    BY <1>3, Titles DEF Tally, CauseOf
  <2> QED
    BY <1>3, <2>1 DEF Tally, Released
<1> QED
  BY <1>1, <1>2, <1>3, TallyFacts

(* Its title names a dead token only if something was recorded as one.              *)
LEMMA UpFacts ==
  ASSUME NEW n \in 0..Threshold
  PROVE  Up(n) \in 0..Threshold /\ Up(n) > 0 /\ Up(n) >= n
  BY WatchdogAssumption DEF Up

LEMMA AddFacts ==
  ASSUME NEW n \in 0..Threshold, NEW slots \in Slots
  PROVE  Add(n, slots) \in 0..Threshold /\ Add(n, slots) > 0
  BY WatchdogAssumption DEF Add

------------------------------------------------------------------------------
(* What a minute does, apart from its pages. *)

H(m) == Holding(LiveCauses(HeldAfter(m)), m)
Kept(m, out) == (paged \ Departed(m, out)) \ m.landed

Counted(m, out) ==
    /\ dataless' = IF m.touched # {} /\ m.landed = {} THEN Up(dataless) ELSE 0
    /\ refused' = IF m.touched # {} /\ m.wroteNothing THEN Up(refused) ELSE 0
    /\ taken' = IF m.wroteNothing THEN 0 ELSE Up(taken)
    /\ counts' = [k \in Watched |->
            IF k \in Departed(m, out) \cup m.landed THEN 0
            ELSE IF k \in m.failed THEN Up(counts[k]) ELSE counts[k]]
    /\ letGo' = LetGoAfter(LiveCauses(HeldAfter(m)), m)
    /\ OutPages(m, out)

(* A cause that was paged speaks for the minute.                                     *)
Spoken(m, out) ==
    /\ m.title # NoCause
    /\ CauseLive(m.title, H(m), m) \/ CauseRemembered(m.title, H(m), m)
    /\ Tells(m, out, {})
    /\ paged' = Kept(m, out) /\ absorbed' = absorbed \ Departed(m, out)

(* A cause is paged.                                                                  *)
Blamed(m, out) ==
    /\ m.title # NoCause
    /\ CausePaged(m.title, H(m), m)
    /\ Tells(m, out, {[title |-> m.title, surfaces |-> m.failed]})
    /\ paged' = Kept(m, out) /\ absorbed' = absorbed \ Departed(m, out)

(* Each surface is looked at by itself.                                               *)
Looked(m, out) ==
    /\ m.title # NoCause =>
         /\ m.title \notin LiveCauses(H(m))
         /\ m.title # Writes => dataless' < Threshold
    /\ SurfacesPaged(H(m), m, out, Kept(m, out))

LEMMA Observed ==
  ASSUME NEW m, NEW out, Observe(m, out)
  PROVE  Counted(m, out) /\ (Spoken(m, out) \/ Blamed(m, out) \/ Looked(m, out))
  BY ZenonT(40) DEF Observe, Counted, Spoken, Blamed, Looked, H, Kept

Absorbing(m, out) == absorbed \ Departed(m, out)
SamplerOf(m) == (Quotes \cap m.recorded) \ Covered(H(m), m)
Dead(m) == IF SamplerDead(SamplerOf(m), m) THEN SamplerOf(m) ELSE {}
StillOf(m, out) == Still(m, Absorbing(m, out), Covered(H(m), m), Dead(m))
PagedNow(m, out) == Kept(m, out) \ (Absorbing(m, out) \ StillOf(m, out))
TrippedOf(m, out) ==
    {k \in m.failed : counts'[k] = Threshold} \ (PagedNow(m, out) \cup Covered(H(m), m))
CollapsedOf(m, out) == IF TrippedOf(m, out) \cap Dead(m) # {} THEN Dead(m) ELSE {}

(* SurfacesPaged from the surfaces its collapse explains on.                          *)
PagedFrom(m, out, absorbing, covered, dead) ==
    \E still \in {Still(m, absorbing, covered, dead)} :
    \E pagedNow \in {Kept(m, out) \ (absorbing \ still)} :
    \E tripped \in {{k \in m.failed : counts'[k] = Threshold} \ (pagedNow \cup covered)} :
    \E collapsed \in {IF tripped \cap dead # {} THEN dead ELSE {}} :
        /\ pagedCauses' = H(m)
        /\ paged' = pagedNow \cup tripped \cup collapsed
        /\ absorbed' = still \cup Absorbs(collapsed, pagedNow)
        /\ Tells(m, out, TrippedPages(tripped, collapsed, m))

LEMMA LookedParts ==
  ASSUME NEW m, NEW out, Looked(m, out)
  PROVE  /\ pagedCauses' = H(m)
         /\ paged' = PagedNow(m, out) \cup TrippedOf(m, out) \cup CollapsedOf(m, out)
         /\ absorbed' = StillOf(m, out) \cup (CollapsedOf(m, out) \ PagedNow(m, out))
         /\ Tells(m, out, TrippedPages(TrippedOf(m, out), CollapsedOf(m, out), m))
<1>1. SurfacesPaged(H(m), m, out, Kept(m, out))
  BY DEF Looked
<1>2. PICK absorbing \in {Absorbing(m, out)}, covered \in {Covered(H(m), m)} :
        \E sampler \in {(Quotes \cap m.recorded) \ covered} :
          PagedFrom(m, out, absorbing, covered, IF SamplerDead(sampler, m) THEN sampler ELSE {})
  BY <1>1, Zenon DEF SurfacesPaged, Absorbing, PagedFrom
<1>3. PICK sampler \in {SamplerOf(m)} :
        PagedFrom(m, out, absorbing, covered, IF SamplerDead(sampler, m) THEN sampler ELSE {})
  BY <1>2, Zenon DEF SamplerOf
<1>4. absorbing = Absorbing(m, out) /\ covered = Covered(H(m), m)
      /\ (IF SamplerDead(sampler, m) THEN sampler ELSE {}) = Dead(m)
  BY DEF Dead
<1>5. PagedFrom(m, out, Absorbing(m, out), Covered(H(m), m), Dead(m))
  BY <1>3, <1>4
<1>6. PICK still \in {StillOf(m, out)} :
       \E pagedNow \in {Kept(m, out) \ (Absorbing(m, out) \ still)} :
       \E tripped \in {{k \in m.failed : counts'[k] = Threshold}
                          \ (pagedNow \cup Covered(H(m), m))} :
       \E collapsed \in {IF tripped \cap Dead(m) # {} THEN Dead(m) ELSE {}} :
           /\ pagedCauses' = H(m)
           /\ paged' = pagedNow \cup tripped \cup collapsed
           /\ absorbed' = still \cup Absorbs(collapsed, pagedNow)
           /\ Tells(m, out, TrippedPages(tripped, collapsed, m))
  BY <1>5, Zenon DEF PagedFrom, StillOf
<1>7. PICK tripped \in {TrippedOf(m, out)} :
       \E collapsed \in {IF tripped \cap Dead(m) # {} THEN Dead(m) ELSE {}} :
           /\ pagedCauses' = H(m)
           /\ paged' = PagedNow(m, out) \cup tripped \cup collapsed
           /\ absorbed' = StillOf(m, out) \cup Absorbs(collapsed, PagedNow(m, out))
           /\ Tells(m, out, TrippedPages(tripped, collapsed, m))
  BY <1>6, Zenon DEF PagedNow, TrippedOf
<1>8. tripped = TrippedOf(m, out)
  OBVIOUS
<1>9. \E collapsed \in {CollapsedOf(m, out)} :
           /\ pagedCauses' = H(m)
           /\ paged' = PagedNow(m, out) \cup TrippedOf(m, out) \cup collapsed
           /\ absorbed' = StillOf(m, out) \cup Absorbs(collapsed, PagedNow(m, out))
           /\ Tells(m, out, TrippedPages(TrippedOf(m, out), collapsed, m))
  BY <1>7, <1>8, Zenon DEF CollapsedOf
<1> QED
  BY <1>9, Zenon DEF Absorbs

(* The surfaces named by a page of their own.                                         *)
Own(ps) == UNION {p.surfaces : p \in {q \in ps : q.title \in {"surface", Fold}}}

LEMMA TrippedPagesFacts ==
  ASSUME NEW m, NEW tripped, NEW sampler, sampler \subseteq m.recorded
  PROVE  LET ps == TrippedPages(tripped, sampler, m)
         IN  /\ \A p \in ps : p.title \in {Sampler, Fold, "surface"}
             /\ Own(ps) = tripped \ sampler
             /\ \A p, q \in ps : p # q => p.surfaces \cap q.surfaces = {}
<1> DEFINE ps == TrippedPages(tripped, sampler, m)
           alike(k) == {x \in tripped \ m.recorded : m.class[x] = m.class[k]}
           folds == {f \in {alike(k) : k \in tripped \ m.recorded} : Cardinality(f) >= 2}
           singles == tripped \ ((UNION folds) \cup sampler)
<1>1. ps = Titled(Sampler, {sampler} \ {{}}) \cup Titled(Fold, folds)
           \cup Titled("surface", {{k} : k \in singles})
  BY Zenon DEF TrippedPages
<1>2. \A f \in folds : f \subseteq tripped \ m.recorded
  OBVIOUS
<1>3. \A f, g \in folds : f # g => f \cap g = {}
  OBVIOUS
<1> HIDE DEF folds
<1>4. \A p \in ps : \/ p.title = Sampler /\ p.surfaces = sampler
                    \/ p.title = Fold /\ p.surfaces \in folds
                    \/ \E k \in singles : p.title = "surface" /\ p.surfaces = {k}
  <2>1. \A p \in Titled(Sampler, {sampler} \ {{}}) : p.title = Sampler /\ p.surfaces = sampler
    BY DEF Titled
  <2>2. \A p \in Titled(Fold, folds) : p.title = Fold /\ p.surfaces \in folds
    BY DEF Titled
  <2>3. \A p \in Titled("surface", {{k} : k \in singles}) :
            \E k \in singles : p.title = "surface" /\ p.surfaces = {k}
    BY DEF Titled
  <2> QED
    BY <1>1, <2>1, <2>2, <2>3
<1>5. \A p \in ps : p = [title |-> p.title, surfaces |-> p.surfaces]
  BY <1>1 DEF Titled
<1>6. \A f \in folds : [title |-> Fold, surfaces |-> f] \in ps
  BY <1>1 DEF Titled
<1>7. \A k \in singles : [title |-> "surface", surfaces |-> {k}] \in ps
  BY <1>1 DEF Titled
<1>8. (UNION folds) \cup singles = tripped \ sampler
  BY <1>2 DEF singles
<1>9. singles \cap UNION folds = {} /\ singles \cap sampler = {} /\ sampler \cap UNION folds = {}
  BY <1>2 DEF singles
<1> HIDE DEF ps, singles
<1>10. \A p \in ps : p.title \in {Sampler, Fold, "surface"}
  BY <1>4
<1> USE Titles
<1>11. Own(ps) = (UNION folds) \cup singles
  <2>1. ASSUME NEW k \in Own(ps) PROVE k \in (UNION folds) \cup singles
    <3> PICK p \in ps : p.title \in {"surface", Fold} /\ k \in p.surfaces
      BY <2>1 DEF Own
    <3> QED
      BY <1>4
  <2>2. ASSUME NEW f \in folds PROVE f \subseteq Own(ps)
    BY <1>6, [title |-> Fold, surfaces |-> f].title = Fold,
       [title |-> Fold, surfaces |-> f].surfaces = f DEF Own
  <2>3. ASSUME NEW k \in singles PROVE k \in Own(ps)
    BY <1>7, [title |-> "surface", surfaces |-> {k}].title = "surface",
       [title |-> "surface", surfaces |-> {k}].surfaces = {k} DEF Own
  <2> QED
    BY <2>1, <2>2, <2>3
<1>12. ASSUME NEW p \in ps, NEW q \in ps, p # q PROVE p.surfaces \cap q.surfaces = {}
  <2>1. p.title # q.title \/ p.surfaces # q.surfaces
    BY <1>5, <1>12
  <2>2. CASE p.title = q.title
    BY <2>1, <2>2, <1>4, <1>9, <1>3
  <2>3. CASE p.title = Sampler /\ p.title # q.title
    BY <2>3, <1>4, <1>9
  <2>4. CASE p.title = Fold /\ p.title # q.title
    BY <2>4, <1>4, <1>9
  <2>5. CASE p.title = "surface" /\ p.title # q.title
    BY <2>5, <1>4, <1>9
  <2> QED
    BY <2>2, <2>3, <2>4, <2>5, <1>10
<1> QED
  BY <1>8, <1>10, <1>11, <1>12 DEF ps

------------------------------------------------------------------------------
(* What the causes hold. *)

CausesHold == pagedCauses \subseteq Causes \X Watched /\ letGo \subseteq (Causes \X Watched) \ pagedCauses

LEMMA HeldFacts ==
  ASSUME NEW m \in Tallies, CausesHold
  PROVE  /\ HeldAfter(m) \subseteq H(m) /\ H(m) \subseteq Causes \X Watched
         /\ LetGoAfter(LiveCauses(HeldAfter(m)), m) \subseteq (Causes \X Watched) \ H(m)
         /\ LiveCauses(H(m)) = LiveCauses(HeldAfter(m))
         /\ \A p \in LetGoAfter(LiveCauses(HeldAfter(m)), m) : p[1] \in LiveCauses(H(m))
         /\ \A p \in H(m) : p[2] \in m.touched \/ m.touched = {}
<1>1. m.joins \subseteq Causes \X Watched
  BY TallyFacts
<1>2. HeldAfter(m) \subseteq pagedCauses /\ HeldAfter(m) \cap m.released = {}
  BY DEF HeldAfter
<1>3. \A p \in Causes \X Watched : p[2] \in Watched
  OBVIOUS
<1>4. HeldAfter(m) \subseteq H(m) /\ H(m) \subseteq Causes \X Watched
  BY <1>1, <1>2 DEF H, Holding, CausesHold
<1>5. LiveCauses(H(m)) = LiveCauses(HeldAfter(m))
  <2>1. \A p \in H(m) : p \in HeldAfter(m) \/ p[1] \in LiveCauses(HeldAfter(m))
    BY DEF H, Holding
  <2> QED
    BY <1>4, <2>1 DEF LiveCauses
<1>6. LetGoAfter(LiveCauses(HeldAfter(m)), m) \subseteq (Causes \X Watched) \ H(m)
  BY <1>2 DEF H, Holding, LetGoAfter, CausesHold
<1>7. \A p \in H(m) : p[2] \in m.touched \/ m.touched = {}
  <2>1. \A p \in m.joins : p[2] \in m.touched
    BY TallyFacts
  <2> QED
    BY <2>1 DEF H, Holding, HeldAfter
<1> QED
  BY <1>4, <1>5, <1>6, <1>7 DEF LetGoAfter

LEMMA CausesAfter ==
  ASSUME NEW m \in Tallies, NEW out, CausesHold, Counted(m, out),
         Spoken(m, out) \/ Blamed(m, out) \/ Looked(m, out)
  PROVE  CausesHold' /\ H(m) \subseteq pagedCauses'
<1> USE HeldFacts, TallyFacts
<1>1. letGo' = LetGoAfter(LiveCauses(HeldAfter(m)), m)
  BY DEF Counted
<1>2. ASSUME m.title # NoCause, pagedCauses' = H(m) \cup ({m.title} \X m.failed),
             m.title \notin LiveCauses(H(m))
      PROVE  CausesHold' /\ H(m) \subseteq pagedCauses'
  <2>1. \A p \in letGo' : p \notin {m.title} \X m.failed
    BY <1>1, <1>2
  <2> QED
    BY <1>1, <1>2, <2>1 DEF CausesHold
<1>3. CASE Looked(m, out)
  BY <1>1, <1>3, LookedParts DEF CausesHold
<1>4. CASE Blamed(m, out)
  BY <1>2, <1>4 DEF Blamed, CausePaged
<1>5. CASE Spoken(m, out) /\ CauseRemembered(m.title, H(m), m)
  BY <1>2, <1>5 DEF Spoken, CauseRemembered
<1>6. CASE Spoken(m, out) /\ CauseLive(m.title, H(m), m)
  BY <1>1, <1>6 DEF Spoken, CauseLive, CausesHold
<1> QED
  BY <1>3, <1>4, <1>5, <1>6 DEF Spoken

------------------------------------------------------------------------------
(* The counters. *)

Ranges ==
    /\ counts \in [Watched -> 0..Threshold] /\ outFor \in [Tickers -> 0..Threshold]
    /\ {dataless, refused, taken, tokenRun} \subseteq 0..Threshold
    /\ pagedOut \subseteq Tickers /\ \A t \in pagedOut : outFor[t] > 0

LEMMA ZeroInRange == 0 \in 0..Threshold /\ Threshold \in 0..Threshold
  BY WatchdogAssumption

LEMMA MinuteRanges ==
  ASSUME Ranges, NEW m \in Tallies, NEW out \in SUBSET Spanned, Counted(m, out),
         NEW ps, Tells(m, out, ps)
  PROVE  Ranges'
<1> USE UpFacts, ZeroInRange
<1>1. out \subseteq Tickers
  BY WatchdogAssumption
<1>2. counts' \in [Watched -> 0..Threshold]
  BY DEF Ranges, Counted
<1>3. {dataless', refused', taken', tokenRun'} \subseteq 0..Threshold
  <2>1. tokenRun' \in 0..Threshold
    BY DEF Ranges, Tells
  <2> QED
    BY <2>1 DEF Ranges, Counted
<1>4. outFor' \in [Tickers -> 0..Threshold] /\ pagedOut' \subseteq out
      /\ \A t \in out : outFor'[t] > 0
  BY <1>1 DEF Ranges, Counted, OutPages
<1> QED
  BY <1>1, <1>2, <1>3, <1>4 DEF Ranges

------------------------------------------------------------------------------
(* The surfaces paged, and what is paged of them. *)

LEMMA MinuteAccounted ==
  ASSUME NEW m \in Tallies, NEW out, Accounted, paged \subseteq Watched, Counted(m, out),
         Spoken(m, out) \/ Blamed(m, out) \/ Looked(m, out)
  PROVE  Accounted' /\ paged' \subseteq Watched /\ NotRepeated /\ NamedOnce
<1> USE TallyFacts, Titles
<1> DEFINE gone == Departed(m, out) \cup m.landed
           span == IF OutTripped THEN {[title |-> OutOfSpan, surfaces |-> {}]} ELSE {}
<1>0. \A p \in span : p.title = OutOfSpan /\ p.surfaces = {}
  OBVIOUS
<1> HIDE DEF span
<1>1. ASSUME NEW ps, Tells(m, out, ps)
      PROVE  pages' = ps \cup span /\ alone' = (alone \ gone) \cup Own(ps)
  BY <1>1, Zenon DEF Tells, Own, span
<1>2. ASSUME m.title # NoCause, NEW ps, Tells(m, out, ps),
             \A p \in ps : p.title \in Causes, \A p, q \in ps : p = q,
             paged' = Kept(m, out), absorbed' = absorbed \ Departed(m, out)
      PROVE  Accounted' /\ paged' \subseteq Watched /\ NotRepeated /\ NamedOnce
  <2>1. Own(ps) = {}
    BY <1>2 DEF Own
  <2>2. alone' = alone \ Departed(m, out) /\ paged' = paged \ Departed(m, out)
    BY <1>1, <1>2, <2>1 DEF Kept
  <2>3. NotRepeated
    BY <1>0, <1>1, <1>2 DEF NotRepeated
  <2>4. NamedOnce
    BY <1>0, <1>1, <1>2 DEF NamedOnce
  <2> QED
    BY <1>2, <2>2, <2>3, <2>4 DEF Accounted
<1>3. CASE Spoken(m, out)
  BY <1>2, <1>3 DEF Spoken
<1>4. CASE Blamed(m, out)
  <2>1. \A p, q \in {[title |-> m.title, surfaces |-> m.failed]} : p = q /\ p.title = m.title
    OBVIOUS
  <2> QED
    BY <1>2, <1>4, <2>1 DEF Blamed
<1>5. CASE Looked(m, out)
  <2> DEFINE tripped == TrippedOf(m, out)
             taken_in == CollapsedOf(m, out)
             ps == TrippedPages(tripped, taken_in, m)
  <2>1. /\ paged' = PagedNow(m, out) \cup tripped \cup taken_in
        /\ absorbed' = StillOf(m, out) \cup (taken_in \ PagedNow(m, out))
        /\ Tells(m, out, ps)
    BY <1>5, LookedParts
  <2>2. taken_in \subseteq m.recorded
    BY DEF CollapsedOf, Dead, SamplerOf
  <2>3. /\ Own(ps) = tripped \ taken_in
        /\ \A p \in ps : p.title \in {Sampler, Fold, "surface"}
        /\ \A p, q \in ps : p # q => p.surfaces \cap q.surfaces = {}
    BY <2>2, TrippedPagesFacts
  <2>4. tripped \subseteq m.failed /\ tripped \cap PagedNow(m, out) = {}
    BY DEF TrippedOf
  <2>5. StillOf(m, out) \subseteq Absorbing(m, out)
    BY DEF StillOf, Still
  <2>6. StillOf(m, out) \cap m.landed = {}
    <3>1. m.touched = {} => m.landed = {}
      OBVIOUS
    <3>2. Covered(H(m), m) \cap m.landed = {}
      <4>1. \A p \in m.covers : p[2] \in m.failed
        <5> PICK r \in UNION {{f \in [{x \in Watched : Ticker[x] \in on} -> Outcomes] :
                \A x \in DOMAIN f : f[x] \in Fails[x] \cup {"data"}} : on \in Fetched} :
                m = Tally(r)
          BY DEF Tallies
        <5> QED
          BY DEF Tally
      <4> QED
        BY <4>1 DEF Covered
    <3>3. Dead(m) \cap m.landed = {}
      BY DEF Dead, SamplerOf
    <3> QED
      BY <3>1, <3>2, <3>3 DEF StillOf, Still
  <2>7. PagedNow(m, out) = (paged \ gone) \ (Absorbing(m, out) \ StillOf(m, out))
    BY Zenon DEF PagedNow, Kept
  <2>8. alone' = (alone \ gone) \cup (tripped \ taken_in)
    BY <1>1, <2>1, <2>3
  <2>9. PagedNow(m, out) = (alone \ gone) \cup StillOf(m, out)
        /\ (alone \ gone) \cap StillOf(m, out) = {}
    BY <2>5, <2>6, <2>7 DEF Accounted, Absorbing
  <2> HIDE DEF gone
  <2>10. taken_in \subseteq Watched /\ tripped \subseteq Watched
    BY <2>2, <2>4
  <2>11. Accounted'
    BY <2>1, <2>4, <2>8, <2>9 DEF Accounted
  <2>12. paged' \subseteq Watched
    BY <2>1, <2>7, <2>10
  <2>13. Own(ps) \cap alone = {}
    <3>1. m.failed \cap gone = {} \/ m.touched = {}
      BY DEF gone, Departed
    <3> QED
      BY <2>3, <2>4, <2>9, <3>1
  <2>14. NotRepeated
    <3>1. \A p \in ps : p.title \in {"surface", Fold} => p.surfaces \subseteq Own(ps)
      BY DEF Own
    <3> QED
      BY <1>0, <1>1, <2>1, <2>13, <3>1 DEF NotRepeated
  <2>15. NamedOnce
    <3>1. pages' = ps \cup span
      BY <1>1, <2>1
    <3> QED
      BY <1>0, <2>3, <3>1 DEF NamedOnce
  <2> QED
    BY <2>11, <2>12, <2>14, <2>15
<1> QED
  BY <1>3, <1>4, <1>5

------------------------------------------------------------------------------
(* The dead token. *)

(* Only a paged cause tells of the token, and it names what failed.                   *)
LEMMA TellsToken ==
  ASSUME NEW m \in Tallies, NEW out, Spoken(m, out) \/ Blamed(m, out) \/ Looked(m, out)
  PROVE  \E ps :
           /\ Tells(m, out, ps)
           /\ \A p \in ps : p.title = TokenDead => /\ Blamed(m, out) /\ m.title = TokenDead
                                                   /\ p.surfaces = m.failed
           /\ Blamed(m, out) /\ m.title = TokenDead => \E p \in ps : p.title = TokenDead
<1> USE Titles
<1>1. CASE Blamed(m, out)
  <2> DEFINE ps == {[title |-> m.title, surfaces |-> m.failed]}
  <2>1. \A p \in ps : p.title = m.title /\ p.surfaces = m.failed
    OBVIOUS
  <2>2. \E p \in ps : TRUE
    OBVIOUS
  <2>3. Tells(m, out, ps)
    BY <1>1 DEF Blamed
  <2> HIDE DEF ps
  <2> QED
    BY <1>1, <2>1, <2>2, <2>3
<1>2. CASE Spoken(m, out) /\ ~Blamed(m, out)
  BY <1>2 DEF Spoken
<1>3. CASE Looked(m, out) /\ ~Blamed(m, out)
  <2> DEFINE ps == TrippedPages(TrippedOf(m, out), CollapsedOf(m, out), m)
  <2>1. CollapsedOf(m, out) \subseteq m.recorded
    BY DEF CollapsedOf, Dead, SamplerOf
  <2>2. \A p \in ps : p.title # TokenDead
    BY <2>1, TrippedPagesFacts
  <2> QED
    BY <1>3, <2>2, LookedParts
<1> QED
  BY <1>1, <1>2, <1>3

LEMMA QuietHeld ==
  ASSUME NEW m \in Tallies, TokenHeld, m.landed = {}, NEW q \in tokenQuiet,
         m.touched = {} \/ q \in m.touched
  PROVE  <<TokenDead, q>> \in HeldAfter(m)
<1>1. <<TokenDead, q>> \in pagedCauses /\ q \in Quotes
  BY DEF TokenHeld
<1> QED
  BY <1>1, QuotesKept DEF HeldAfter

LEMMA MinuteToken ==
  ASSUME NEW m \in Tallies, NEW out, TokenHeld, CausesHold, Ranges, Counted(m, out),
         Spoken(m, out) \/ Blamed(m, out) \/ Looked(m, out)
  PROVE  TokenHeld' /\ CauseOnce /\ SecondDeathHeard'
<1> USE TallyFacts, Titles
<1> PICK ps : /\ Tells(m, out, ps)
              /\ \A p \in ps : p.title = TokenDead => /\ Blamed(m, out) /\ m.title = TokenDead
                                                      /\ p.surfaces = m.failed
              /\ Blamed(m, out) /\ m.title = TokenDead => \E p \in ps : p.title = TokenDead
  BY TellsToken
<1> DEFINE told == \E p \in ps : p.title = TokenDead
           works == m.landed # {} /\ \A k \in m.recorded : m.class[k] # "http_401"
<1>1. told <=> Blamed(m, out) /\ m.title = TokenDead
  OBVIOUS
<1> HIDE DEF told
<1>2. /\ tokenRun' = IF m.title = TokenDead THEN Up(tokenRun) ELSE 0
      /\ tokenTold' = (told \/ (tokenTold /\ ~works))
      /\ tokenQuiet' = IF m.landed # {} THEN {}
                       ELSE {q \in tokenQuiet : m.touched = {} \/ q \in m.touched}
                            \cup (IF told THEN Quotes \cap m.failed ELSE {})
  BY Zenon DEF Tells, told
<1>3. HeldAfter(m) \subseteq H(m) /\ H(m) \subseteq pagedCauses'
      /\ LiveCauses(H(m)) = LiveCauses(HeldAfter(m))
  BY HeldFacts, CausesAfter
<1>4. Blamed(m, out) => /\ pagedCauses' = H(m) \cup ({m.title} \X m.failed)
                        /\ m.title \notin LiveCauses(H(m))
  BY DEF Blamed, CausePaged
<1>5. TokenDead \in LiveCauses(H(m)) => tokenTold /\ ~works
  <2> SUFFICES ASSUME TokenDead \in LiveCauses(HeldAfter(m)) PROVE tokenTold /\ ~works
    BY <1>3
  <2>1. PICK p \in HeldAfter(m) : p[1] = TokenDead
    BY DEF LiveCauses
  <2>2. p \in pagedCauses /\ p \notin m.released /\ (m.touched = {} \/ p[2] \in m.touched)
    BY DEF HeldAfter
  <2>3. p = <<TokenDead, p[2]>>
    BY <2>1, <2>2 DEF CausesHold
  <2>4. tokenTold
    BY <2>1, <2>2 DEF TokenHeld, LiveCauses
  <2>5. works => m.touched # {}
    OBVIOUS
  <2>6. works => p \in m.released
    BY <2>2, <2>3, <2>5, WorksReleases
  <2> QED
    BY <2>2, <2>4, <2>6
<1>6. TokenDead \in LiveCauses(pagedCauses') => tokenTold'
  <2> SUFFICES ASSUME TokenDead \in LiveCauses(pagedCauses'), TokenDead \notin LiveCauses(H(m))
               PROVE  told
    BY <1>2, <1>5
  <2>1. \E p \in pagedCauses' : p[1] = TokenDead /\ p \notin H(m)
    BY DEF LiveCauses
  <2>2. CASE Looked(m, out)
    BY <2>1, <2>2, LookedParts
  <2>3. CASE Blamed(m, out)
    BY <1>1, <1>4, <2>1, <2>3
  <2>4. CASE Spoken(m, out)
    <3>1. pagedCauses' \subseteq H(m) \cup ({m.title} \X m.failed)
          /\ (m.title \in LiveCauses(H(m)) \/ m.title = Writes)
      BY <2>4 DEF Spoken, CauseLive, CauseRemembered
    <3>2. \E p \in {m.title} \X m.failed : p[1] = TokenDead
      BY <2>1, <3>1
    <3> QED
      BY <3>1, <3>2
  <2> QED
    BY <2>2, <2>3, <2>4
<1>7. ASSUME NEW q \in tokenQuiet' PROVE q \in Quotes /\ <<TokenDead, q>> \in pagedCauses'
  <2>1. m.landed = {}
    BY <1>2
  <2>2. CASE q \in tokenQuiet /\ (m.touched = {} \/ q \in m.touched)
    BY <1>3, <2>1, <2>2, QuietHeld DEF TokenHeld
  <2>3. CASE told /\ q \in Quotes \cap m.failed
    BY <1>1, <1>4, <2>3
  <2> QED
    BY <1>2, <2>1, <2>2, <2>3
<1>8. tokenRun' <= dataless' /\ (tokenRun' = Threshold => m.title = TokenDead /\ dataless' = Threshold)
  <2>1. tokenRun \in 0..Threshold /\ dataless \in 0..Threshold /\ Threshold \in Nat \ {0}
    BY WatchdogAssumption DEF Ranges
  <2>2. m.title = TokenDead => dataless' = Up(dataless)
    BY DEF Counted
  <2>3. dataless' \in 0..Threshold
    BY <2>1, UpFacts, ZeroInRange DEF Counted
  <2> QED
    BY <1>2, <2>1, <2>2, <2>3 DEF Up, TokenHeld
<1>9. SecondDeathHeard'
  <2> SUFFICES ASSUME tokenRun' = Threshold PROVE tokenTold'
    BY DEF SecondDeathHeard
  <2>1. m.title = TokenDead /\ dataless' = Threshold /\ Threshold \in Nat
    BY <1>8, WatchdogAssumption
  <2>2. ~Looked(m, out)
    BY <2>1 DEF Looked
  <2>3. CASE Blamed(m, out)
    BY <1>1, <1>2, <2>1, <2>3
  <2>4. CASE Spoken(m, out)
    <3>1. TokenDead \in LiveCauses(H(m))
      BY <2>1, <2>4 DEF Spoken, CauseLive, CauseRemembered
    <3> QED
      BY <1>2, <1>5, <3>1
  <2> QED
    BY <2>2, <2>3, <2>4
<1>10. CauseOnce
  <2> SUFFICES ASSUME NEW p \in pages', p.title = TokenDead, NEW q \in p.surfaces \cap tokenQuiet
               PROVE  FALSE
    BY DEF CauseOnce
  <2>1. \A x \in (IF OutTripped THEN {[title |-> OutOfSpan, surfaces |-> {}]} ELSE {}) :
            x.title = OutOfSpan
    OBVIOUS
  <2>2. p \in ps
    BY <2>1 DEF Tells
  <2>3. Blamed(m, out) /\ m.title = TokenDead /\ q \in m.failed
    BY <2>2
  <2>4. <<TokenDead, q>> \in H(m)
    BY <1>3, <2>3, QuietHeld
  <2>5. TokenDead \in LiveCauses(H(m))
    BY <2>4 DEF LiveCauses
  <2> QED
    BY <1>4, <2>3, <2>5
<1> QED
  BY <1>6, <1>7, <1>8, <1>9, <1>10 DEF TokenHeld

------------------------------------------------------------------------------
(* What is down is heard. *)

LEMMA MinuteHeard ==
  ASSUME NEW m \in Tallies, NEW out, Accounted', Ranges, CausesHold, Counted(m, out),
         Spoken(m, out) \/ Blamed(m, out) \/ Looked(m, out)
  PROVE  Heard'
<1> USE TallyFacts, Titles
<1> SUFFICES ASSUME landing', NEW k \in Watched, counts'[k] = Threshold
             PROVE  \/ k \in alone' \cup {p[2] : p \in pagedCauses'}
                    \/ k \in absorbed' /\ Cardinality({q \in Quotes : counts'[q] > 0}) >= 2
  BY DEF Heard
<1>1. m.landed # {}
  <2>1. \E ps : Tells(m, out, ps)
    BY TellsToken
  <2> QED
    BY <2>1 DEF Tells
<1>2. m.title = NoCause /\ m.touched # {}
  BY <1>1
<1>3. Looked(m, out)
  BY <1>2 DEF Spoken, Blamed
<1>4. /\ pagedCauses' = H(m)
      /\ paged' = PagedNow(m, out) \cup TrippedOf(m, out) \cup CollapsedOf(m, out)
      /\ absorbed' = StillOf(m, out) \cup (CollapsedOf(m, out) \ PagedNow(m, out))
  BY <1>3, LookedParts
<1>5. counts' = [x \in Watched |->
            IF x \in (Watched \ m.touched) \cup m.landed THEN 0
            ELSE IF x \in m.failed THEN Up(counts[x]) ELSE counts[x]]
  BY <1>2 DEF Counted, Departed
<1>6. k \in m.failed
  BY <1>5, WatchdogAssumption
<1>7. CASE k \in Covered(H(m), m)
  BY <1>4, <1>7 DEF Covered
<1>8. CASE k \notin Covered(H(m), m)
  <2>1. k \in paged'
    BY <1>4, <1>6, <1>8 DEF TrippedOf
  <2>2. CASE k \in alone'
    BY <2>2
  <2>3. CASE k \in absorbed'
    <3>1. k \in Dead(m)
      BY <1>2, <1>4, <1>8, <2>3 DEF StillOf, Still, CollapsedOf
    <3>2. k \in SamplerOf(m) /\ SamplerDead(SamplerOf(m), m)
      BY <3>1 DEF Dead
    <3>3. Cardinality(SamplerOf(m)) >= 2
      BY <3>2 DEF SamplerDead
    <3>4. SamplerOf(m) \subseteq {q \in Quotes : counts'[q] > 0}
      <4>1. ASSUME NEW q \in SamplerOf(m) PROVE q \in Quotes /\ counts'[q] > 0
        <5>1. q \in Quotes /\ q \in m.failed /\ q \in Watched
          BY DEF SamplerOf
        <5>2. counts'[q] = Up(counts[q])
          BY <1>5, <5>1
        <5> QED
          BY <5>1, <5>2, UpFacts DEF Ranges
      <4> QED
        BY <4>1
    <3>5. IsFiniteSet({q \in Quotes : counts'[q] > 0})
      BY WatchedFinite, {q \in Quotes : counts'[q] > 0} \subseteq Watched DEF Watched
    <3>6. /\ Cardinality(SamplerOf(m)) <= Cardinality({q \in Quotes : counts'[q] > 0})
          /\ Cardinality(SamplerOf(m)) \in Nat
          /\ Cardinality({q \in Quotes : counts'[q] > 0}) \in Nat
      BY <3>4, <3>5, FS_Subset, FS_CardinalityType
    <3> QED
      BY <2>3, <3>3, <3>6
  <2> QED
    BY <2>1, <2>2, <2>3 DEF Accounted
<1> QED
  BY <1>7, <1>8

------------------------------------------------------------------------------
(* The invariant. *)

WatchInv == Ranges /\ paged \subseteq Watched /\ Accounted /\ CausesHold /\ TokenHeld
            /\ Heard /\ SecondDeathHeard

LEMMA WatchBegins == WatchInit => WatchInv
<1> SUFFICES ASSUME WatchInit PROVE WatchInv
  OBVIOUS
<1>1. 0 # Threshold
  BY WatchdogAssumption
<1> QED
  BY <1>1, ZeroInRange
     DEF WatchInit, WatchInv, Ranges, Accounted, CausesHold, TokenHeld, Heard, SecondDeathHeard,
         LiveCauses

LEMMA MinuteStep ==
  ASSUME WatchInv, Minute
  PROVE  WatchInv' /\ CauseOnce /\ NotRepeated /\ NamedOnce
<1> PICK m \in Tallies, out \in SUBSET Spanned : Observe(m, out)
  BY DEF Minute
<1>1. Counted(m, out) /\ (Spoken(m, out) \/ Blamed(m, out) \/ Looked(m, out))
  BY Observed
<1>2. Ranges'
  BY <1>1, TellsToken, MinuteRanges DEF WatchInv
<1>3. Accounted' /\ paged' \subseteq Watched /\ NotRepeated /\ NamedOnce
  BY <1>1, MinuteAccounted DEF WatchInv
<1>4. CausesHold'
  BY <1>1, CausesAfter DEF WatchInv
<1>5. TokenHeld' /\ CauseOnce /\ SecondDeathHeard'
  BY <1>1, MinuteToken DEF WatchInv
<1>6. Heard'
  BY <1>1, <1>3, MinuteHeard DEF WatchInv
<1> QED
  BY <1>2, <1>3, <1>4, <1>5, <1>6 DEF WatchInv

LEMMA StallStep ==
  ASSUME WatchInv, Stall
  PROVE  WatchInv' /\ CauseOnce /\ NotRepeated /\ NamedOnce
<1> USE Titles
<1> PICK slots \in Slots : LoopMissed(slots)
  BY DEF Stall
<1>1. /\ landing' = FALSE /\ tokenRun' = 0
      /\ UNCHANGED <<paged, absorbed, pagedCauses, letGo, pagedOut, taken, writesPaged,
                     writesClass, tokenTold, tokenQuiet, alone>>
  BY Zenon DEF LoopMissed
<1>2. \E watched \in SUBSET Watched : Charge(watched, slots)
  <2>1. Charge({k \in Watched : outFor[Ticker[k]] = 0}, slots)
    BY Zenon DEF LoopMissed
  <2> QED
    BY <2>1
<1>3. \A p, q \in pages' : p = q /\ p.title = Stalled
  <2>1. \E watched : pages' \in {{}, {[title |-> Stalled, surfaces |-> watched]}}
    <3>1. \/ pages' = {}
          \/ pages' = {[title |-> Stalled, surfaces |-> {k \in Watched : outFor[Ticker[k]] = 0}]}
      BY Zenon DEF LoopMissed
    <3> QED
      BY <3>1
  <2> QED
    BY <2>1
<1>4. Ranges'
  <2> PICK watched \in SUBSET Watched : Charge(watched, slots)
    BY <1>2
  <2>1. counts' \in [Watched -> 0..Threshold]
    BY AddFacts, ZeroInRange DEF Charge, WatchInv, Ranges
  <2>2. outFor' \in [Tickers -> 0..Threshold] /\ \A t \in Tickers : outFor[t] > 0 => outFor'[t] > 0
    BY AddFacts, ZeroInRange DEF Charge, WatchInv, Ranges
  <2>3. {dataless', refused', taken', tokenRun'} \subseteq 0..Threshold
    BY <1>1, AddFacts, ZeroInRange DEF Charge, WatchInv, Ranges
  <2> QED
    BY <1>1, <2>1, <2>2, <2>3 DEF WatchInv, Ranges
<1>5. TokenHeld'
  <2>1. 0 <= dataless'
    BY <1>4 DEF Ranges
  <2> QED
    BY <1>1, <2>1 DEF WatchInv, TokenHeld
<1>6. Heard' /\ SecondDeathHeard'
  BY <1>1, WatchdogAssumption DEF Heard, SecondDeathHeard
<1>7. CauseOnce /\ NotRepeated /\ NamedOnce
  BY <1>3 DEF CauseOnce, NotRepeated, NamedOnce
<1> QED
  BY <1>1, <1>4, <1>5, <1>6, <1>7 DEF WatchInv, Accounted, CausesHold

LEMMA SessionStep ==
  ASSUME WatchInv, NewSession
  PROVE  WatchInv' /\ CauseOnce /\ NotRepeated /\ NamedOnce
<1>1. 0 # Threshold
  BY WatchdogAssumption
<1>2. WatchInv'
  BY <1>1, ZeroInRange
     DEF NewSession, WatchInv, Ranges, Accounted, CausesHold, TokenHeld, Heard, SecondDeathHeard,
         LiveCauses
<1> QED
  BY <1>2 DEF NewSession, CauseOnce, NotRepeated, NamedOnce

LEMMA WatchStep ==
  ASSUME WatchInv, [WatchNext]_watchVars
  PROVE  WatchInv'
<1>1. CASE UNCHANGED watchVars
  BY <1>1 DEF watchVars, WatchInv, Ranges, Accounted, CausesHold, TokenHeld, Heard,
              SecondDeathHeard, LiveCauses
<1> QED
  BY <1>1, MinuteStep, StallStep, SessionStep DEF WatchNext

(* Whatever fails, for every roster: every page is counted for, what the causes hold  *)
(* is theirs, and a live dead-token page still speaks for what it named.              *)
THEOREM WatchInvariant == WatchSpec => []WatchInv
<1> QED
  BY WatchBegins, WatchStep, PTL DEF WatchSpec

(* A surface down for the threshold's minutes while others land is named by a page,   *)
(* or spoken for by one that stands; and a token that dies again is told again.       *)
THEOREM DownIsPagedAlways == WatchSpec => []DownIsPaged
<1>1. WatchInv => DownIsPaged
  <2> SUFFICES ASSUME WatchInv PROVE WatchTypeOK
    BY DEF WatchInv, DownIsPaged
  <2> QED
    BY DEF WatchInv, Ranges, Accounted, CausesHold, WatchTypeOK
<1> QED
  BY <1>1, WatchInvariant, PTL

(* No minute pages what an earlier page already told and still speaks for.            *)
THEOREM PagedOnceAlways == WatchSpec => PagedOnce
<1>1. ASSUME WatchInv, [WatchNext]_watchVars
      PROVE  [CauseOnce /\ NotRepeated /\ NamedOnce]_watchVars
  BY <1>1, MinuteStep, StallStep, SessionStep DEF WatchNext
<1> QED
  BY <1>1, WatchInvariant, PTL DEF WatchSpec, PagedOnce
==============================================================================
