------------------------------ MODULE Watchdog ------------------------------
(***************************************************************************)
(* The pages the daemon owes (watchdog.py).  Each minute every surface of  *)
(* the roster lands data or fails in one of a few ways; a surface that     *)
(* fails for the threshold's minutes is paged once, unless a cause that    *)
(* took everything down was paged and still speaks for it.                 *)
(*                                                                         *)
(* Counters stop at the threshold, past which nothing tells them apart but *)
(* a page's wording.                                                       *)
(***************************************************************************)
EXTENDS Naturals, FiniteSets

CONSTANTS
    Quotes, Chains,     \* surfaces
    Ticker,             \* the ticker of each surface
    VendorClasses,      \* the classes a failure is journaled with
    WriteClasses,       \* and those of a refused write
    Fails,              \* the classes each surface may fail with
    Spanned,            \* the tickers a capture span may leave out
    Leaving,            \* the tickers that may leave the roster and come back
    Threshold,          \* watchdog_page_minutes
    Slots               \* how many minutes the loop may sleep through at once

Watched == Quotes \cup Chains
Tickers == {Ticker[k] : k \in Watched}

ASSUME WatchdogAssumption ==
    /\ IsFiniteSet(Watched) /\ Quotes \cap Chains = {} /\ Spanned \cup Leaving \subseteq Tickers
    /\ VendorClasses \cap WriteClasses = {} /\ "data" \notin VendorClasses \cup WriteClasses
    /\ \A k \in Watched : Fails[k] \subseteq VendorClasses \cup WriteClasses
    /\ \A k \in Quotes : "contracts_absent" \notin Fails[k]
    /\ Threshold \in Nat \ {0} /\ Slots \subseteq Nat \ {0}

TokenDead == "token dead"
RateLimited == "rate limited"
Writes == "lake writes failing"
Fold == "lake writes failing, folded"    \* Page.write_fold
Sampler == "quote sampler dead"
Stalled == "loop stalled"
OutOfSpan == "tickers outside every capture span"
Causes == {TokenDead, RateLimited, Writes}
NoCause == "no cause"

CauseOf(class) == CASE class = "http_401" -> TokenDead
                    [] class = "http_429" -> RateLimited
                    [] OTHER -> NoCause

VARIABLES
    counts,         \* minutes without data, of each surface
    paged,          \* _paged
    absorbed,       \* _sampler_absorbed
    pagedCauses,    \* _paged_causes, as pairs of a cause and a surface it speaks for
    letGo,          \* _cause_released, as such pairs
    pagedOverrun,
    outFor, pagedOut,   \* _out_of_span, _paged_out_of_span
    dataless,       \* _minutes_without_data
    refused, taken, \* _minutes_writes_refused, _minutes_writes_taken
    writesPaged, writesClass,   \* _writes_paged_this_outage, _writes_paged_cause
    pages,          \* the pages of the last call
    landing,        \* whether its minute landed data
    tokenRun,       \* minutes every surface has failed on a dead token (history)
    tokenTold,      \* a dead-token page since the token last worked (history)
    tokenQuiet,     \* quotes a dead-token page named, fetched since with nothing landing (history)
    alone           \* surfaces named by a page of their own since their last data (history)

watchVars == <<counts, paged, absorbed, pagedCauses, letGo, pagedOverrun, outFor, pagedOut, dataless,
               refused, taken, writesPaged, writesClass, pages, landing,
               tokenRun, tokenTold, tokenQuiet, alone>>

Up(n) == IF n < Threshold THEN n + 1 ELSE n

WatchInit ==
    /\ counts = [k \in Watched |-> 0] /\ paged = {} /\ absorbed = {}
    /\ pagedCauses = {} /\ letGo = {}
    /\ pagedOverrun = FALSE
    /\ outFor = [t \in Tickers |-> 0] /\ pagedOut = {}
    /\ dataless = 0 /\ refused = 0 /\ taken = 0
    /\ writesPaged = FALSE /\ writesClass = "none"
    /\ pages = {} /\ landing = FALSE
    /\ tokenRun = 0 /\ tokenTold = FALSE /\ tokenQuiet = {} /\ alone = {}

Shared(classes) == IF Cardinality(classes) = 1 THEN CHOOSE c \in classes : TRUE ELSE "mixed"

\* What a minute releases from the causes, not to be taken back: a surface that landed
\* data or reached the vendor for no contracts, a recorded one from the failing writes,
\* and, once others land, what fails with a failure of its own.
Released(r, landed, failed, recorded) ==
    LET absent == {k \in failed : r[k] = "contracts_absent"}
        own == (Causes \X (failed \ recorded))
               \cup ({TokenDead} \X {k \in recorded : CauseOf(r[k]) # TokenDead})
    IN  (Causes \X (landed \cup absent)) \cup ({Writes} \X recorded)
        \cup (IF landed = {} THEN {} ELSE own)

\* _tally and _whole_daemon_title: a minute, from what each touched surface did; and, as
\* pairs of a cause and a surface, what it releases, what a live cause takes in when
\* nothing landed, and what a cause covers.
Tally(r) ==
    LET landed == {k \in DOMAIN r : r[k] = "data"}
        failed == DOMAIN r \ landed
        recorded == {k \in failed : r[k] \in VendorClasses}
    IN  [touched |-> DOMAIN r, landed |-> landed, failed |-> failed, recorded |-> recorded,
         class |-> r, wroteNothing |-> landed \cup recorded = {},
         title |-> IF landed # {} \/ Cardinality(failed) < 2 THEN NoCause
                   ELSE IF recorded = {} THEN Writes
                   ELSE CauseOf(Shared({r[k] : k \in recorded})),
         released |-> Released(r, landed, failed, recorded),
         joins |-> IF landed # {} THEN {}
                   ELSE {p \in Causes \X recorded : p[1] = CauseOf(r[p[2]])}
                        \cup ({Writes} \X (failed \ recorded)),
         covers |-> {p \in Causes \X failed : CauseOf(r[p[2]]) \in {NoCause, p[1]}}]

Outcomes == {"data"} \cup VendorClasses \cup WriteClasses

\* A ticker's surfaces are fetched or not together.
Fetched == {on \in SUBSET Tickers : Tickers \ on \subseteq Spanned \cup Leaving}
Tallies ==
    {Tally(r) : r \in UNION {{f \in [{k \in Watched : Ticker[k] \in on} -> Outcomes] :
                                \A k \in DOMAIN f : f[k] \in Fails[k] \cup {"data"}} :
                             on \in Fetched}}

Departed(m, out) ==
    IF m.touched # {} THEN Watched \ m.touched
    ELSE {k \in Watched : Ticker[k] \in out}

LiveCauses(h) == {p[1] : p \in h}

\* _release_from, _release and _release_retired: what the causes still hold.
HeldAfter(m) ==
    {p \in pagedCauses \ m.released : m.touched = {} \/ p[2] \in m.touched}

\* A cause that is over forgets what it let go.
LetGoAfter(live, m) == {p \in letGo \cup (pagedCauses \cap m.released) : p[1] \in live}

\* A live cause takes in what fails its way.
Holding(live, m) ==
    HeldAfter(m) \cup {p \in m.joins \ LetGoAfter(live, m) : p[1] \in live}

\* _covered: the failed surfaces a live cause accounts for.
Covered(h, m) == {p[2] : p \in h \cap m.covers}

\* The pages of the call, and what the properties remember of it.
OutTripped == pagedOut' \ pagedOut # {}

Tells(m, out, ps) ==
    /\ pages' = ps \cup (IF OutTripped THEN {[title |-> OutOfSpan, surfaces |-> {}]} ELSE {})
    /\ landing' = (m.landed # {})
    /\ LET told == \E p \in ps : p.title = TokenDead
           unanimous == m.title = TokenDead
           works == m.landed # {} /\ \A k \in m.recorded : m.class[k] # "http_401"
       IN  /\ tokenRun' = IF unanimous THEN Up(tokenRun) ELSE 0
           /\ tokenTold' = (told \/ (tokenTold /\ ~works))
           /\ tokenQuiet' = IF m.landed # {} THEN {}
                            ELSE {q \in tokenQuiet : m.touched = {} \/ q \in m.touched}
                                 \cup (IF told THEN Quotes \cap m.failed ELSE {})
    /\ alone' = (alone \ (Departed(m, out) \cup m.landed))
                \cup UNION {p.surfaces : p \in {q \in ps : q.title \in {"surface", Fold}}}

------------------------------------------------------------------------------
(* _pages *)

SamplerDead(sampler, m) ==
    /\ Cardinality(Quotes \cap m.touched) > 1
    /\ Quotes \cap m.touched \subseteq m.failed
    /\ Cardinality(sampler) >= 2

Titled(title, sets) == {[title |-> title, surfaces |-> set] : set \in sets}

\* The pages of the surfaces that tripped, where `sampler` is the collapse's or nothing.
TrippedPages(tripped, sampler, m) ==
    LET alike(k) == {x \in tripped \ m.recorded : m.class[x] = m.class[k]}
        folds == {f \in {alike(k) : k \in tripped \ m.recorded} : Cardinality(f) >= 2}
    IN  Titled(Sampler, {sampler} \ {{}}) \cup Titled(Fold, folds)
        \cup Titled("surface", {{k} : k \in tripped \ ((UNION folds) \cup sampler)})

\* A mutant of Still: a collapse that ended keeps its surfaces.
StillAll(m, absorbing, covered, dead) == absorbing

\* The absorbed surfaces the collapse, or a live cause, still explains.
Still(m, absorbing, covered, dead) ==
    IF m.touched = {} THEN absorbing ELSE absorbing \cap (covered \cup dead)

\* A mutant of Absorbs: it takes in the paged ones too.
AbsorbsPaged(collapsed, pagedNow) == collapsed

\* A collapse takes in the surfaces no page of their own has named.
Absorbs(collapsed, pagedNow) == collapsed \ pagedNow

\* The new absorbed and paged surfaces, and the pages.
SurfacesPaged(h, m, out, pagedSoFar) ==
    \E absorbing \in {absorbed \ Departed(m, out)}, covered \in {Covered(h, m)} :
    \E sampler \in {(Quotes \cap m.recorded) \ covered} :
        LET dead == IF SamplerDead(sampler, m) THEN sampler ELSE {}
        IN  \E still \in {Still(m, absorbing, covered, dead)} :
            \E pagedNow \in {pagedSoFar \ (absorbing \ still)} :
            \E tripped \in {{k \in m.failed : counts'[k] = Threshold} \ (pagedNow \cup covered)} :
            \E collapsed \in {IF tripped \cap dead # {} THEN dead ELSE {}} :
                /\ pagedCauses' = h
                /\ paged' = pagedNow \cup tripped \cup collapsed
                /\ absorbed' = still \cup Absorbs(collapsed, pagedNow)
                /\ Tells(m, out, TrippedPages(tripped, collapsed, m))

------------------------------------------------------------------------------
(* observe: one minute, with the tickers the spans left out *)

WritesRemembered(m) == writesPaged /\ m.landed = {} /\ taken' < Threshold
UnwrittenClass(m) == Shared({m.class[k] : k \in m.failed \ m.recorded})

\* _whole_daemon, when it has something to say of the minute.
CauseLive(c, h, m) ==
    /\ c \in LiveCauses(h)
    /\ pagedCauses' = h \cup (({c} \X m.failed) \ letGo')
    /\ UNCHANGED writesClass /\ writesPaged' = WritesRemembered(m)

CauseRemembered(c, h, m) ==
    /\ c \notin LiveCauses(h) /\ c = Writes /\ WritesRemembered(m) /\ UnwrittenClass(m) = writesClass
    /\ pagedCauses' = h \cup ({c} \X m.failed)
    /\ UNCHANGED writesClass /\ writesPaged' = TRUE

CausePaged(c, h, m) ==
    /\ c \notin LiveCauses(h) /\ ~(c = Writes /\ WritesRemembered(m) /\ UnwrittenClass(m) = writesClass)
    /\ (IF c = Writes THEN refused' ELSE dataless') = Threshold
    /\ pagedCauses' = h \cup ({c} \X m.failed)
    /\ writesPaged' = (WritesRemembered(m) \/ c = Writes)
    /\ writesClass' = IF c = Writes THEN UnwrittenClass(m) ELSE writesClass

\* _out_of_span_pages
OutPages(m, out) ==
    LET tripped == IF m.touched = {} THEN {}
                   ELSE {t \in out : outFor'[t] = Threshold /\ t \notin pagedOut}
    IN  /\ outFor' = [t \in Tickers |-> IF t \in out THEN Up(outFor[t]) ELSE 0]
        /\ pagedOut' = (pagedOut \cap out) \cup tripped

Observe(m, out) ==
    \E live \in {LiveCauses(HeldAfter(m))} : \E h \in {Holding(live, m)}, c \in {m.title},
       kept \in {(paged \ Departed(m, out)) \ m.landed} :
        /\ dataless' = IF m.touched # {} /\ m.landed = {} THEN Up(dataless) ELSE 0
        /\ refused' = IF m.touched # {} /\ m.wroteNothing THEN Up(refused) ELSE 0
        /\ taken' = IF m.wroteNothing THEN 0 ELSE Up(taken)
        /\ counts' = [k \in Watched |->
                IF k \in Departed(m, out) \cup m.landed THEN 0
                ELSE IF k \in m.failed THEN Up(counts[k]) ELSE counts[k]]
        /\ letGo' = LetGoAfter(live, m)
        /\ pagedOverrun' = (pagedOverrun /\ m.landed = {})
        /\ OutPages(m, out)
        /\ \/ /\ c # NoCause
              /\ \/ (CauseLive(c, h, m) \/ CauseRemembered(c, h, m)) /\ Tells(m, out, {})
                 \/ CausePaged(c, h, m) /\ Tells(m, out, {[title |-> c, surfaces |-> m.failed]})
              /\ paged' = kept /\ absorbed' = absorbed \ Departed(m, out)
           \/ /\ c # NoCause =>
                    /\ c \notin LiveCauses(h)
                    /\ ~(c = Writes /\ WritesRemembered(m) /\ UnwrittenClass(m) = writesClass)
                    /\ (IF c = Writes THEN refused' ELSE dataless') < Threshold
              /\ SurfacesPaged(h, m, out, kept)
              /\ writesPaged' = WritesRemembered(m) /\ UNCHANGED writesClass

\* A ticker is fetched, left out by the spans, or off the roster.
Minute ==
    \E m \in Tallies, out \in SUBSET Spanned :
        /\ \A k \in m.touched : Ticker[k] \notin out
        /\ Observe(m, out)

------------------------------------------------------------------------------
(* missed: one slot of those the loop slept through, and the page at their end *)

Add(n, slots) == IF n + slots > Threshold THEN Threshold ELSE n + slots

Charge(watched, slots) ==
    /\ counts' = [k \in Watched |-> IF k \in watched THEN Add(counts[k], slots) ELSE counts[k]]
    /\ dataless' = IF watched = {} THEN 0 ELSE Add(dataless, slots)
    /\ refused' = IF watched = {} \/ refused = 0 THEN 0 ELSE Add(refused, slots)
    /\ outFor' = [t \in Tickers |-> IF outFor[t] = 0 THEN 0 ELSE Add(outFor[t], slots)]

LoopMissed(slots) ==
    LET watched == {k \in Watched : outFor[Ticker[k]] = 0}
        tripped == {k \in watched : counts'[k] = Threshold /\ k \notin paged
                                    /\ k \notin {p[2] : p \in pagedCauses}}
    IN  /\ Charge(watched, slots)
        /\ IF pagedOverrun \/ tripped = {}
           THEN pages' = {} /\ UNCHANGED pagedOverrun
           ELSE pages' = {[title |-> Stalled, surfaces |-> watched]} /\ pagedOverrun' = TRUE
        /\ landing' = FALSE /\ tokenRun' = 0
        /\ UNCHANGED <<paged, absorbed, pagedCauses, letGo, pagedOut, taken, writesPaged, writesClass,
                       tokenTold, tokenQuiet, alone>>

Stall == \E slots \in Slots : LoopMissed(slots)

\* _roll: the first call of a session day starts from nothing.
NewSession ==
    /\ counts' = [k \in Watched |-> 0] /\ paged' = {} /\ absorbed' = {}
    /\ pagedCauses' = {} /\ letGo' = {}
    /\ pagedOverrun' = FALSE
    /\ outFor' = [t \in Tickers |-> 0] /\ pagedOut' = {}
    /\ dataless' = 0 /\ refused' = 0 /\ taken' = 0
    /\ writesPaged' = FALSE /\ UNCHANGED writesClass
    /\ pages' = {} /\ landing' = FALSE
    /\ tokenRun' = 0 /\ tokenTold' = FALSE /\ tokenQuiet' = {} /\ alone' = {}

WatchNext == Minute \/ Stall \/ NewSession
WatchSpec == WatchInit /\ [][WatchNext]_watchVars

------------------------------------------------------------------------------
WatchTypeOK ==
    /\ counts \in [Watched -> 0..Threshold] /\ outFor \in [Tickers -> 0..Threshold]
    /\ {dataless, refused, taken, tokenRun} \subseteq 0..Threshold
    /\ absorbed \subseteq paged /\ paged \subseteq Watched
    /\ pagedCauses \subseteq Causes \X Watched /\ letGo \subseteq (Causes \X Watched) \ pagedCauses
    /\ \A t \in pagedOut : outFor[t] > 0

\* Once others land data, a surface down for the threshold's minutes has been named by a
\* page of its own, or is still spoken for: by a cause that was paged, or by a collapse of
\* the sampler that still stands.  No page it was owed stays swallowed by one that ended.
Heard ==
    landing => \A k \in Watched : counts[k] = Threshold =>
        \/ k \in alone \cup {p[2] : p \in pagedCauses}
        \/ k \in absorbed /\ Cardinality({q \in Quotes : counts[q] > 0}) >= 2

\* A token that dies again is paged again, whatever each surface did in between.
SecondDeathHeard == tokenRun = Threshold => tokenTold

\* Whatever is down is paged, or spoken for by a page that still stands.
DownIsPaged == WatchTypeOK /\ Heard /\ SecondDeathHeard

\* A dead token is paged once for as long as nothing lands data: no second page names a
\* quotes ticker that stayed in the cycle since the first.
CauseOnce == \A p \in pages' : p.title = TokenDead => p.surfaces \cap tokenQuiet = {}

\* A surface is not named by a page of its own twice before it lands data.
NotRepeated == \A p \in pages' : p.title \in {"surface", Fold} => p.surfaces \cap alone = {}

\* No minute names a surface in two pages.
NamedOnce == \A p, q \in pages' : p # q => p.surfaces \cap q.surfaces = {}

\* What was paged is not paged again while it lasts, under its own name or another's.
PagedOnce == [][CauseOnce /\ NotRepeated /\ NamedOnce]_watchVars
=============================================================================
