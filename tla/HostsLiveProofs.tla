-------------------------- MODULE HostsLiveProofs ---------------------------
(***************************************************************************)
(* Theorems about what else goes to the bucket: the hosts that take turns  *)
(* on it, for any number of hosts, paths, writes, repairs and deaths, and  *)
(* the live upload beside the loop, for any number of segments, ticks and  *)
(* upsets.                                                                 *)
(***************************************************************************)
EXTENDS Resync, LiveUpload, SequenceTheorems, WellFoundedInduction, TLAPS

------------------------------------------------------------------------------
(* The hosts (Resync). *)

(* One entry comes before another in a manifest.                           *)
Prec(m, e, f) == \E i, j \in 1..Len(m) : i < j /\ m[i] = e /\ m[j] = f
Distinct(m) == \A i, j \in 1..Len(m) : m[i] = m[j] => i = j

(* What one manifest has before an entry of a path, another that has the   *)
(* entry has before it too.                                                *)
Follows(m, w) ==
    \A e, f \in Entry : e.path = f.path /\ Prec(m, e, f) /\ f \in Pairs(w) => Prec(w, e, f)

------------------------------------------------------------------------------
(* Manifests. *)

LEMMA ManifestIs ==
  ASSUME NEW m \in Seq(Entry)
  PROVE  /\ Len(m) \in Nat /\ DOMAIN m = 1..Len(m) /\ \A i \in 1..Len(m) : m[i] \in Entry
         /\ Pairs(m) = {m[i] : i \in 1..Len(m)} /\ Pairs(m) \subseteq Entry
         /\ Named(m) = {e.path : e \in Pairs(m)} /\ Named(m) \subseteq Paths
<1>1. Len(m) \in Nat /\ DOMAIN m = 1..Len(m) /\ \A i \in 1..Len(m) : m[i] \in Entry
  OBVIOUS
<1> QED
  BY <1>1 DEF Pairs, Named, Entry

LEMMA BeforeIs ==
  ASSUME NEW m \in Seq(Entry), NEW n \in 0..Len(m)
  PROVE  /\ Before(m, n) \in Seq(Entry) /\ Len(Before(m, n)) = n
         /\ \A i \in 1..n : Before(m, n)[i] = m[i]
<1>1. Len(m) \in Nat /\ \A i \in 1..n : m[i] \in Entry
  BY ManifestIs
<1> QED
  BY <1>1, SubSeqProperties DEF Before

LEMMA AfterIs ==
  ASSUME NEW m \in Seq(Entry), NEW n \in 0..Len(m)
  PROVE  /\ After(m, n) \in Seq(Entry) /\ Len(After(m, n)) = Len(m) - n
         /\ \A i \in 1..(Len(m) - n) : After(m, n)[i] = m[n + i]
<1>1. Len(m) \in Nat /\ \A i \in 1..Len(m) : m[i] \in Entry
  BY ManifestIs
<1>2. \A i \in (n + 1)..Len(m) : m[i] \in Entry
  BY <1>1
<1>3. SubSeq(m, n + 1, Len(m)) \in Seq(Entry)
  BY <1>1, <1>2, SubSeqProperties
<1>4. Len(SubSeq(m, n + 1, Len(m))) = Len(m) - n
  BY <1>1, SubSeqProperties
<1>5. \A i \in 1..(Len(m) - n) : SubSeq(m, n + 1, Len(m))[i] = m[n + i]
  BY <1>1, SubSeqProperties
<1> QED
  BY <1>3, <1>4, <1>5 DEF After

LEMMA AppendIs ==
  ASSUME NEW m \in Seq(Entry), NEW x \in Entry
  PROVE  /\ Append(m, x) \in Seq(Entry) /\ Len(Append(m, x)) = Len(m) + 1
         /\ \A i \in 1..Len(m) : Append(m, x)[i] = m[i]
         /\ Append(m, x)[Len(m) + 1] = x
  BY AppendProperties

(* A set of positions has a last one.                                      *)
LEMMA HasLast ==
  ASSUME NEW n \in Nat, NEW T \in SUBSET (0..n), T # {}
  PROVE  \E t \in T : \A s \in T : s <= t
<1> DEFINE less == {ss \in Nat \X Nat : ss[1] < ss[2]}
           D == {n - s : s \in T}
<1>1. D \subseteq Nat /\ D # {}
  <2>1. \A s \in T : n - s \in Nat /\ s \in Int
    OBVIOUS
  <2> QED
    BY <2>1
<1>2. IsWellFoundedOn(less, Nat)
  BY NatLessThanWellFounded DEF OpToRel
<1>3. PICK d \in D : \A y \in D : ~ (<<y, d>> \in less)
  BY <1>1, <1>2, WFMin
<1>4. PICK t \in T : d = n - t
  OBVIOUS
<1>5. ASSUME NEW s \in T PROVE s <= t
  <2>1. n - s \in D /\ n - s \in Nat /\ n - t \in Nat
    BY <1>1, <1>4
  <2>2. ~ (n - s < n - t)
    BY <1>3, <1>4, <2>1
  <2> QED
    BY <2>2
<1> QED
  BY <1>5

LEMMA LatestAt ==
  ASSUME NEW m \in Seq(Entry), NEW i \in 1..Len(m), \A j \in 1..Len(m) : m[j].path = m[i].path => j <= i
  PROVE  Latest(m, m[i].path) = m[i].sha
<1> DEFINE at == {j \in 1..Len(m) : m[j].path = m[i].path}
<1>1. Len(m) \in Nat /\ DOMAIN m = 1..Len(m)
  BY ManifestIs
<1>2. i \in at /\ \A j \in at : j <= i
  OBVIOUS
<1>3. \A k \in at : (\A j \in at : j <= k) => k = i
  BY <1>1, <1>2
<1> QED
  BY <1>1, <1>2, <1>3 DEF Latest

LEMMA LatestIs ==
  ASSUME NEW m \in Seq(Entry), NEW p
  PROVE  /\ p \notin Named(m) => Latest(m, p) = None
         /\ p \in Named(m) =>
               /\ Latest(m, p) \in Nat /\ Latest(m, p) # None
               /\ \E i \in 1..Len(m) : /\ m[i] = [path |-> p, sha |-> Latest(m, p)]
                                       /\ \A j \in 1..Len(m) : m[j].path = p => j <= i
<1>1. CASE p \notin Named(m)
  BY <1>1 DEF Latest, Named
<1>2. CASE p \in Named(m)
  <2> DEFINE at == {j \in 1..Len(m) : m[j].path = p}
  <2>1. Len(m) \in Nat /\ DOMAIN m = 1..Len(m) /\ \A i \in 1..Len(m) : m[i] \in Entry
    BY ManifestIs
  <2>2. at # {} /\ at \in SUBSET (0..Len(m))
    BY <1>2, <2>1 DEF Named
  <2>3. PICK i \in at : \A j \in at : j <= i
    BY <2>1, <2>2, HasLast
  <2>4. m[i].path = p /\ i \in 1..Len(m) /\ \A j \in 1..Len(m) : m[j].path = m[i].path => j <= i
    BY <2>3
  <2>5. Latest(m, p) = m[i].sha
    BY <2>4, LatestAt
  <2>6. m[i] = [path |-> p, sha |-> m[i].sha] /\ m[i].sha \in Nat
    BY <2>1, <2>4 DEF Entry
  <2> QED
    BY <1>2, <2>4, <2>5, <2>6, ConstantsAssumption
<1> QED
  BY <1>1, <1>2

(* The last entry of a path, and what comes before it.                     *)
LEMMA LatestLast ==
  ASSUME NEW m \in Seq(Entry), NEW p \in Named(m)
  PROVE  /\ [path |-> p, sha |-> Latest(m, p)] \in Pairs(m)
         /\ \A e \in Pairs(m) : e.path = p =>
               \/ e = [path |-> p, sha |-> Latest(m, p)]
               \/ Prec(m, e, [path |-> p, sha |-> Latest(m, p)])
<1>1. PICK i \in 1..Len(m) : /\ m[i] = [path |-> p, sha |-> Latest(m, p)]
                             /\ \A j \in 1..Len(m) : m[j].path = p => j <= i
  BY LatestIs
<1>2. ASSUME NEW e \in Pairs(m), e.path = p, e # [path |-> p, sha |-> Latest(m, p)]
      PROVE  Prec(m, e, [path |-> p, sha |-> Latest(m, p)])
  <2>1. PICK j \in 1..Len(m) : e = m[j]
    BY ManifestIs
  <2>2. j <= i /\ j # i
    BY <1>1, <1>2, <2>1
  <2> QED
    BY <1>1, <2>1, <2>2, ManifestIs DEF Prec
<1> QED
  BY <1>1, <1>2, ManifestIs

LEMMA NotLatest ==
  ASSUME NEW m \in Seq(Entry), Distinct(m), NEW e \in Entry, NEW f \in Entry, e.path = f.path,
         Prec(m, e, f)
  PROVE  Latest(m, e.path) # e.sha /\ ~Prec(m, f, e) /\ e \in Pairs(m) /\ f \in Pairs(m) /\ e # f
<1>1. PICK i, j \in 1..Len(m) : i < j /\ m[i] = e /\ m[j] = f
  BY DEF Prec
<1>2. e \in Pairs(m) /\ f \in Pairs(m) /\ e.path \in Named(m) /\ e # f
  BY <1>1, ManifestIs DEF Distinct
<1>3. ~Prec(m, f, e)
  BY <1>1, ManifestIs DEF Prec, Distinct
<1>4. ASSUME Latest(m, e.path) = e.sha PROVE FALSE
  <2>1. e = [path |-> e.path, sha |-> Latest(m, e.path)]
    BY <1>4 DEF Entry
  <2> QED
    BY <1>2, <1>3, <2>1, LatestLast
<1> QED
  BY <1>2, <1>3, <1>4

------------------------------------------------------------------------------
(* What is made of a manifest: an entry appended, a first part, a hand repair. *)

(* Less of a manifest, or the same in another order that keeps each path's.   *)
Derived(m, w) ==
    /\ Pairs(m) \subseteq Pairs(w)
    /\ \A e, f \in Entry : e.path = f.path /\ f \in Pairs(m) => (Prec(m, e, f) <=> Prec(w, e, f))

LEMMA DerivedSelf == \A m : Derived(m, m)
  BY DEF Derived

LEMMA DerivedFollows ==
  ASSUME NEW m \in Seq(Entry), NEW w \in Seq(Entry), NEW m1 \in Seq(Entry), NEW w1 \in Seq(Entry),
         Distinct(m1), Derived(m1, m), Derived(w1, w), Follows(m, w)
  PROVE  Follows(m1, w1)
<1> SUFFICES ASSUME NEW e \in Entry, NEW f \in Entry, e.path = f.path, Prec(m1, e, f), f \in Pairs(w1)
             PROVE  Prec(w1, e, f)
  BY DEF Follows
<1>1. f \in Pairs(m1)
  BY NotLatest
<1> QED
  BY <1>1 DEF Derived, Follows

LEMMA PrefixDerived ==
  ASSUME NEW m \in Seq(Entry), Distinct(m), NEW n \in 0..Len(m)
  PROVE  /\ Distinct(Before(m, n)) /\ Derived(Before(m, n), m)
         /\ \A i \in (n + 1)..Len(m) : m[i] \notin Pairs(Before(m, n))
<1> USE ManifestIs
<1>1. /\ Before(m, n) \in Seq(Entry) /\ Len(Before(m, n)) = n
      /\ \A i \in 1..n : Before(m, n)[i] = m[i]
  BY BeforeIs
<1> DEFINE b == Before(m, n)
<1>2. \A i \in 1..Len(b) : b[i] = m[i] /\ i \in 1..Len(m)
  BY <1>1
<1>3. Distinct(b)
  BY <1>2 DEF Distinct
<1>4. Pairs(b) = {m[i] : i \in 1..n}
  BY <1>1
<1>5. Pairs(b) \subseteq Pairs(m)
  BY <1>2, <1>4, <1>1
<1>6. ASSUME NEW e \in Entry, NEW f \in Entry, Prec(b, e, f) PROVE Prec(m, e, f)
  BY <1>2, <1>6 DEF Prec
<1>7. ASSUME NEW e \in Entry, NEW f \in Pairs(b), Prec(m, e, f) PROVE Prec(b, e, f)
  <2>1. PICK i, j \in 1..Len(m) : i < j /\ m[i] = e /\ m[j] = f
    BY <1>7 DEF Prec
  <2>2. PICK k \in 1..n : f = m[k]
    BY <1>4
  <2>3. j = k
    BY <1>1, <2>1, <2>2 DEF Distinct
  <2>4. i \in 1..n /\ j \in 1..n
    BY <1>1, <2>1, <2>2, <2>3
  <2> QED
    BY <1>1, <2>1, <2>4 DEF Prec
<1>8. ASSUME NEW i \in (n + 1)..Len(m), m[i] \in Pairs(b) PROVE FALSE
  <2>1. PICK k \in 1..n : m[i] = m[k]
    BY <1>4, <1>8
  <2> QED
    BY <2>1 DEF Distinct
<1> QED
  BY <1>3, <1>5, <1>6, <1>7, <1>8 DEF Derived

LEMMA AppendFresh ==
  ASSUME NEW m \in Seq(Entry), Distinct(m), NEW x \in Entry, x \notin Pairs(m)
  PROVE  /\ Append(m, x) \in Seq(Entry) /\ Distinct(Append(m, x))
         /\ Pairs(Append(m, x)) = Pairs(m) \cup {x}
         /\ \A e, f \in Entry : Prec(Append(m, x), e, f) <=>
                                  Prec(m, e, f) \/ (e \in Pairs(m) /\ f = x)
         /\ \A p : Latest(Append(m, x), p) = IF p = x.path THEN x.sha ELSE Latest(m, p)
<1> USE ManifestIs
<1> DEFINE a == Append(m, x)
           n == Len(m)
<1>1. /\ a \in Seq(Entry) /\ Len(a) = n + 1 /\ \A i \in 1..n : a[i] = m[i]
      /\ a[n + 1] = x /\ n \in Nat
  BY AppendIs
<1> HIDE DEF a
<1>2. Distinct(a)
  <2>1. \A i \in 1..n : m[i] # x
    OBVIOUS
  <2> QED
    BY <1>1, <2>1 DEF Distinct
<1>3. Pairs(a) = Pairs(m) \cup {x}
  <2>1. 1..(n + 1) = (1..n) \cup {n + 1}
    BY <1>1
  <2> QED
    BY <1>1, <2>1
<1>4. ASSUME NEW e \in Entry, NEW f \in Entry
      PROVE  Prec(a, e, f) <=> Prec(m, e, f) \/ (e \in Pairs(m) /\ f = x)
  <2>1. ASSUME Prec(a, e, f) PROVE Prec(m, e, f) \/ (e \in Pairs(m) /\ f = x)
    <3>1. PICK i, j \in 1..(n + 1) : i < j /\ a[i] = e /\ a[j] = f
      BY <1>1, <2>1 DEF Prec
    <3>2. i \in 1..n /\ e = m[i]
      BY <1>1, <3>1
    <3>3. CASE j = n + 1
      BY <1>1, <3>1, <3>2, <3>3
    <3>4. CASE j \in 1..n
      BY <1>1, <3>1, <3>2, <3>4 DEF Prec
    <3> QED
      BY <1>1, <3>3, <3>4
  <2>2. ASSUME Prec(m, e, f) PROVE Prec(a, e, f)
    <3>1. PICK i, j \in 1..n : i < j /\ m[i] = e /\ m[j] = f
      BY <2>2 DEF Prec
    <3> QED
      BY <1>1, <3>1 DEF Prec
  <2>3. ASSUME e \in Pairs(m), f = x PROVE Prec(a, e, f)
    <3>1. PICK i \in 1..n : e = m[i]
      BY <2>3
    <3>2. i \in 1..Len(a) /\ n + 1 \in 1..Len(a) /\ i < n + 1
      BY <1>1
    <3> QED
      BY <1>1, <2>3, <3>1, <3>2 DEF Prec
  <2> QED
    BY <2>1, <2>2, <2>3
<1>5. ASSUME NEW p PROVE Latest(a, p) = IF p = x.path THEN x.sha ELSE Latest(m, p)
  <2>1. CASE p = x.path
    <3>1. n + 1 \in 1..Len(a) /\ \A j \in 1..Len(a) : j <= n + 1
      BY <1>1
    <3> QED
      BY <1>1, <2>1, <3>1, LatestAt
  <2>2. CASE p # x.path /\ p \in Named(m)
    <3>1. PICK i \in 1..n : /\ m[i] = [path |-> p, sha |-> Latest(m, p)]
                            /\ \A j \in 1..n : m[j].path = p => j <= i
      BY <2>2, LatestIs
    <3>2. i \in 1..Len(a) /\ a[i].path = p /\ a[i].sha = Latest(m, p)
          /\ \A j \in 1..Len(a) : a[j].path = p => j <= i
      BY SMTT(30), <1>1, <2>2, <3>1
    <3> QED
      BY <1>1, <2>2, <3>2, LatestAt
  <2>3. CASE p # x.path /\ p \notin Named(m)
    <3>1. p \notin Named(a)
      BY <1>1, <1>3, <2>3
    <3> QED
      BY <1>1, <2>3, <3>1, LatestIs
  <2> QED
    BY <2>1, <2>2, <2>3
<1> QED
  BY <1>1, <1>2, <1>3, <1>4, <1>5 DEF a

(* Manifests of the same entries, each path's in the same order.              *)
LEMMA SameLatest ==
  ASSUME NEW m \in Seq(Entry), NEW w \in Seq(Entry), Distinct(m), Distinct(w), Derived(m, w),
         Pairs(m) = Pairs(w), NEW p
  PROVE  Latest(m, p) = Latest(w, p)
<1> USE ManifestIs
<1>1. Named(m) = Named(w)
  OBVIOUS
<1>2. CASE p \notin Named(m)
  BY <1>1, <1>2, LatestIs
<1>3. CASE p \in Named(m)
  <2> DEFINE e == [path |-> p, sha |-> Latest(m, p)]
             f == [path |-> p, sha |-> Latest(w, p)]
  <2>1. e \in Pairs(m) /\ f \in Pairs(w) /\ e \in Entry /\ f \in Entry
    BY <1>1, <1>3, LatestLast
  <2>2. (f = e \/ Prec(m, f, e)) /\ (e = f \/ Prec(w, e, f))
    BY <1>1, <1>3, <2>1, LatestLast
  <2>3. e.path = f.path /\ e.path = p
    OBVIOUS
  <2>4. CASE Prec(m, f, e) /\ Prec(w, e, f)
    <3>1. Prec(m, e, f)
      BY <2>1, <2>3, <2>4 DEF Derived
    <3> QED
      BY <2>1, <2>3, <2>4, <3>1, NotLatest
  <2> QED
    BY <2>2, <2>4
<1> QED
  BY <1>2, <1>3

(* A line taken out of the middle and recorded again, when it is its path's last.  *)
Repaired(m, i) == Before(m, i - 1) \o After(m, i) \o <<m[i]>>

LEMMA RepairIs ==
  ASSUME NEW m \in Seq(Entry), NEW i \in 2..(Len(m) - 1)
  PROVE  /\ Repaired(m, i) \in Seq(Entry) /\ Len(Repaired(m, i)) = Len(m)
         /\ \A k \in 1..Len(m) : Repaired(m, i)[k] = IF k < i THEN m[k]
                                                     ELSE IF k = Len(m) THEN m[i] ELSE m[k + 1]
<1>1. Len(m) \in Nat /\ m[i] \in Entry
  BY ManifestIs
<1>2. i - 1 \in 0..Len(m) /\ i \in 0..Len(m)
  BY <1>1
<1> DEFINE b == Before(m, i - 1)
           a == After(m, i)
<1>3. b \in Seq(Entry) /\ Len(b) = i - 1 /\ \A k \in 1..(i - 1) : b[k] = m[k]
  BY <1>2, BeforeIs
<1>4. a \in Seq(Entry) /\ Len(a) = Len(m) - i /\ \A k \in 1..(Len(m) - i) : a[k] = m[i + k]
  BY <1>2, AfterIs
<1> HIDE DEF a, b
<1>5. /\ b \o a \in Seq(Entry) /\ Len(b \o a) = Len(m) - 1
      /\ \A k \in 1..(Len(m) - 1) : (b \o a)[k] = IF k < i THEN m[k] ELSE m[k + 1]
  <2>1. b \o a \in Seq(Entry) /\ Len(b \o a) = Len(b) + Len(a)
        /\ \A k \in 1..(Len(b) + Len(a)) : (b \o a)[k] = IF k <= Len(b) THEN b[k] ELSE a[k - Len(b)]
    BY <1>3, <1>4, ConcatProperties
  <2>2. Len(b) + Len(a) = Len(m) - 1
    BY <1>1, <1>3, <1>4
  <2>3. ASSUME NEW k \in 1..(Len(m) - 1) PROVE (b \o a)[k] = IF k < i THEN m[k] ELSE m[k + 1]
    <3>1. CASE k < i
      BY <1>1, <1>3, <2>1, <2>2, <3>1
    <3>2. CASE ~(k < i)
      <4>1. k - Len(b) \in 1..(Len(m) - i) /\ i + (k - Len(b)) = k + 1 /\ ~(k <= Len(b))
        BY <1>1, <1>3, <3>2
      <4> QED
        BY <1>4, <2>1, <2>2, <3>2, <4>1
    <3> QED
      BY <3>1, <3>2
  <2> QED
    BY <2>1, <2>2, <2>3
<1> DEFINE c == b \o a
<1> HIDE DEF c
<1>6. /\ c \o <<m[i]>> \in Seq(Entry) /\ Len(c \o <<m[i]>>) = Len(m)
      /\ \A k \in 1..Len(m) : (c \o <<m[i]>>)[k] = IF k <= Len(m) - 1 THEN c[k] ELSE m[i]
  <2>1. <<m[i]>> \in Seq(Entry) /\ Len(<<m[i]>>) = 1 /\ <<m[i]>>[1] = m[i]
    BY <1>1
  <2>2. c \in Seq(Entry) /\ Len(c) = Len(m) - 1
    BY <1>5 DEF c
  <2>3. /\ c \o <<m[i]>> \in Seq(Entry) /\ Len(c \o <<m[i]>>) = Len(c) + 1
        /\ \A k \in 1..(Len(c) + 1) : (c \o <<m[i]>>)[k] = IF k <= Len(c) THEN c[k] ELSE <<m[i]>>[k - Len(c)]
    BY <2>1, <2>2, ConcatProperties
  <2>4. \A k \in 1..Len(m) : ~(k <= Len(m) - 1) => k - Len(c) = 1
    BY <1>1, <2>2
  <2>5. Len(c) + 1 = Len(m)
    BY <1>1, <2>2
  <2> QED
    BY <2>1, <2>2, <2>3, <2>4, <2>5
<1>7. Repaired(m, i) = c \o <<m[i]>>
  BY DEF Repaired, a, b, c
<1>8. \A k \in 1..(Len(m) - 1) : c[k] = IF k < i THEN m[k] ELSE m[k + 1]
  BY <1>5 DEF c
<1>9. ASSUME NEW k \in 1..Len(m)
      PROVE  (c \o <<m[i]>>)[k] = IF k < i THEN m[k] ELSE IF k = Len(m) THEN m[i] ELSE m[k + 1]
  <2>1. CASE k = Len(m)
    <3>1. ~(k <= Len(m) - 1) /\ ~(k < i)
      BY <1>1, <2>1
    <3> QED
      BY <1>6, <2>1, <3>1
  <2>2. CASE k # Len(m)
    <3>1. k \in 1..(Len(m) - 1) /\ k <= Len(m) - 1
      BY <1>1, <2>2
    <3>2. (c \o <<m[i]>>)[k] = c[k]
      BY <1>6, <3>1
    <3> QED
      BY <1>8, <2>2, <3>1, <3>2
  <2> QED
    BY <2>1, <2>2
<1> QED
  BY <1>6, <1>7, <1>9

LEMMA RepairDerived ==
  ASSUME NEW m \in Seq(Entry), Distinct(m), NEW i \in 2..(Len(m) - 1),
         m[i].sha = Latest(m, m[i].path)
  PROVE  /\ Repaired(m, i) \in Seq(Entry) /\ Distinct(Repaired(m, i))
         /\ Pairs(Repaired(m, i)) = Pairs(m) /\ Derived(Repaired(m, i), m)
<1> USE ManifestIs
<1> DEFINE r == Repaired(m, i)
           n == Len(m)
           at(k) == IF k < i THEN k ELSE IF k = n THEN i ELSE k + 1
           from(k) == IF k < i THEN k ELSE IF k = i THEN n ELSE k - 1
<1>1. r \in Seq(Entry) /\ Len(r) = n /\ n \in Nat /\ i \in 2..(n - 1)
      /\ \A k \in 1..n : r[k] = IF k < i THEN m[k] ELSE IF k = n THEN m[i] ELSE m[k + 1]
  BY RepairIs
<1> HIDE DEF r
<1>2. \A k \in 1..n : at(k) \in 1..n /\ r[k] = m[at(k)]
  BY <1>1
<1>3. \A k \in 1..n : from(k) \in 1..n /\ m[k] = r[from(k)]
  <2> TAKE k \in 1..n
  <2>1. CASE k < i
    BY <1>1, <2>1
  <2>2. CASE k = i
    BY <1>1, <2>2
  <2>3. CASE k > i
    <3>1. k - 1 \in 1..n /\ ~(k - 1 < i) /\ k - 1 # n /\ (k - 1) + 1 = k
      BY <1>1, <2>3
    <3> QED
      BY <1>1, <2>3, <3>1
  <2> QED
    BY <1>1, <2>1, <2>2, <2>3
<1>4. \A k, l \in 1..n : at(k) = at(l) => k = l
  BY <1>1
<1>5. Distinct(r)
  <2> SUFFICES ASSUME NEW k \in 1..n, NEW l \in 1..n, r[k] = r[l] PROVE k = l
    BY <1>1 DEF Distinct
  <2>1. m[at(k)] = m[at(l)] /\ at(k) \in 1..n /\ at(l) \in 1..n
    BY <1>2
  <2>2. at(k) = at(l)
    BY <2>1 DEF Distinct
  <2> QED
    BY <1>4, <2>2
<1>6. Pairs(r) = Pairs(m)
  <2>1. Pairs(r) = {r[k] : k \in 1..n} /\ Pairs(m) = {m[k] : k \in 1..n}
    BY <1>1
  <2>2. ASSUME NEW e \in Pairs(r) PROVE e \in Pairs(m)
    <3>1. PICK k \in 1..n : e = r[k]
      BY <2>1
    <3> QED
      BY <1>2, <2>1, <3>1
  <2>3. ASSUME NEW e \in Pairs(m) PROVE e \in Pairs(r)
    <3>1. PICK k \in 1..n : e = m[k]
      BY <2>1
    <3> QED
      BY <1>3, <2>1, <3>1
  <2> QED
    BY <2>2, <2>3
<1>7. \A j \in 1..n : m[j].path = m[i].path => j <= i
  <2>1. m[i].path \in Named(m)
    BY <1>1
  <2>2. PICK l \in 1..n : /\ m[l] = [path |-> m[i].path, sha |-> Latest(m, m[i].path)]
                          /\ \A j \in 1..n : m[j].path = m[i].path => j <= l
    BY <2>1, LatestIs
  <2>3. m[i] = [path |-> m[i].path, sha |-> m[i].sha] /\ i \in 1..n
    <3>1. i \in 1..n
      BY <1>1
    <3>2. m[i] \in Entry
      BY <3>1
    <3> QED
      BY <3>1, <3>2 DEF Entry
  <2>4. l = i
    BY <2>2, <2>3 DEF Distinct
  <2> QED
    BY <2>2, <2>4
<1>8. ASSUME NEW k \in 1..n, NEW l \in 1..n, k < l, r[k].path = r[l].path PROVE at(k) < at(l)
  <2>1. m[at(k)].path = m[at(l)].path
    <3>1. r[k] = m[at(k)] /\ r[l] = m[at(l)]
      BY <1>2
    <3> QED
      BY <1>8, <3>1
  <2>2. CASE l = n
    <3>1. at(l) = i /\ at(k) # i /\ at(k) \in 1..n
      BY <1>1, <1>8, <2>2
    <3>2. at(k) <= i
      BY <1>7, <2>1, <3>1
    <3> QED
      BY <1>1, <3>1, <3>2
  <2>3. CASE l # n
    BY <1>1, <1>8, <2>3
  <2> QED
    BY <2>2, <2>3
<1>9. ASSUME NEW k \in 1..n, NEW l \in 1..n, k < l, m[k].path = m[l].path PROVE from(k) < from(l)
  <2>1. k # i
    BY <1>7, <1>9
  <2> QED
    BY <1>1, <1>9, <2>1
<1>10. ASSUME NEW e \in Entry, NEW f \in Entry, e.path = f.path
       PROVE  Prec(r, e, f) <=> Prec(m, e, f)
  <2>1. ASSUME Prec(r, e, f) PROVE Prec(m, e, f)
    <3>1. PICK k, l \in 1..n : k < l /\ r[k] = e /\ r[l] = f
      BY <1>1, <2>1 DEF Prec
    <3>2. at(k) \in 1..n /\ at(l) \in 1..n /\ at(k) < at(l) /\ m[at(k)] = e /\ m[at(l)] = f
      BY <1>2, <1>8, <1>10, <3>1
    <3> QED
      BY <3>2 DEF Prec
  <2>2. ASSUME Prec(m, e, f) PROVE Prec(r, e, f)
    <3>1. PICK k, l \in 1..n : k < l /\ m[k] = e /\ m[l] = f
      BY <2>2 DEF Prec
    <3>2. /\ from(k) \in 1..n /\ from(l) \in 1..n /\ from(k) < from(l)
          /\ r[from(k)] = e /\ r[from(l)] = f
      BY <1>3, <1>9, <1>10, <3>1
    <3> QED
      BY <1>1, <3>2 DEF Prec
  <2> QED
    BY <2>1, <2>2
<1> QED
  BY <1>1, <1>5, <1>6, <1>10 DEF Derived, r

(* What both manifests begin with.                                            *)
LEMMA SharedIs ==
  ASSUME NEW m \in Seq(Entry), NEW w \in Seq(Entry)
  PROVE  Shared(m, w) \in 0..Len(m) /\ Shared(m, w) <= Len(w)
         /\ Before(m, Shared(m, w)) = Before(w, Shared(m, w))
<1> DEFINE T == {n \in 0..Len(m) : n <= Len(w) /\ Before(m, n) = Before(w, n)}
<1>1. Len(m) \in Nat /\ Len(w) \in Nat
  BY ManifestIs
<1>2. 0 \in T
  <2>1. Before(m, 0) = <<>> /\ Before(w, 0) = <<>>
    <3>1. Before(m, 0) \in Seq(Entry) /\ Len(Before(m, 0)) = 0
          /\ Before(w, 0) \in Seq(Entry) /\ Len(Before(w, 0)) = 0
      BY <1>1, BeforeIs
    <3> QED
      BY <3>1, EmptySeq
  <2> QED
    BY <1>1, <2>1
<1>3. PICK t \in T : \A s \in T : s <= t
  BY <1>1, <1>2, HasLast
<1>4. t = Len(m) \/ t = Len(w) \/ m[t + 1] # w[t + 1]
  <2> SUFFICES ASSUME t # Len(m), t # Len(w), m[t + 1] = w[t + 1] PROVE FALSE
    OBVIOUS
  <2>1. t + 1 \in 0..Len(m) /\ t + 1 \in 0..Len(w)
    BY <1>1
  <2>2. Before(m, t + 1) = Before(w, t + 1)
    <3>1. /\ Before(m, t + 1) \in Seq(Entry) /\ Len(Before(m, t + 1)) = t + 1
          /\ \A j \in 1..(t + 1) : Before(m, t + 1)[j] = m[j]
      BY <2>1, BeforeIs
    <3>2. /\ Before(w, t + 1) \in Seq(Entry) /\ Len(Before(w, t + 1)) = t + 1
          /\ \A j \in 1..(t + 1) : Before(w, t + 1)[j] = w[j]
      BY <2>1, BeforeIs
    <3>3. \A j \in 1..t : m[j] = w[j]
      <4>1. t \in 0..Len(m) /\ t \in 0..Len(w) /\ Before(m, t) = Before(w, t)
        BY <1>1
      <4>2. \A j \in 1..t : Before(m, t)[j] = m[j] /\ Before(w, t)[j] = w[j]
        BY <4>1, BeforeIs
      <4> QED
        BY <4>1, <4>2
    <3>4. \A j \in 1..(t + 1) : m[j] = w[j]
      BY <1>1, <3>3
    <3> QED
      BY <3>1, <3>2, <3>4, SeqEqual
  <2>3. t + 1 \in T /\ t \in Nat
    BY <1>1, <2>1, <2>2
  <2> QED
    BY <1>3, <2>3
<1> QED
  BY <1>3, <1>4 DEF Shared

(* A path the rest does not name is last what it was in the first part.         *)
LEMMA RestSame ==
  ASSUME NEW m \in Seq(Entry), NEW n \in 0..Len(m), NEW p, p \notin Named(After(m, n))
  PROVE  Latest(m, p) = Latest(Before(m, n), p)
<1> USE ManifestIs
<1> DEFINE b == Before(m, n)
           a == After(m, n)
<1>1. b \in Seq(Entry) /\ Len(b) = n /\ \A i \in 1..n : b[i] = m[i]
  BY BeforeIs
<1>2. a \in Seq(Entry) /\ Len(a) = Len(m) - n /\ \A i \in 1..(Len(m) - n) : a[i] = m[n + i]
  BY AfterIs
<1>3. Len(m) \in Nat /\ n \in Nat
  OBVIOUS
<1>0. p \notin Named(a)
  OBVIOUS
<1> HIDE DEF a, b
<1>4. Latest(m, p) = Latest(b, p)
  <2>1. \A i \in (n + 1)..Len(m) : m[i].path # p
    <3> TAKE i \in (n + 1)..Len(m)
    <3>1. i - n \in 1..(Len(m) - n) /\ n + (i - n) = i
      BY <1>3
    <3>2. a[i - n] = m[i] /\ i - n \in 1..Len(a)
      BY <1>2, <3>1
    <3> QED
      BY <1>0, <1>2, <3>2
  <2>2. CASE p \in Named(b)
    <3>1. PICK i \in 1..n : /\ b[i] = [path |-> p, sha |-> Latest(b, p)]
                            /\ \A j \in 1..n : b[j].path = p => j <= i
      BY <1>1, <2>2, LatestIs
    <3>2. i \in 1..Len(m) /\ m[i].path = p /\ m[i].sha = Latest(b, p)
      BY <1>1, <1>3, <3>1
    <3>3. \A j \in 1..Len(m) : m[j].path = p => j <= i
      BY <1>1, <1>3, <2>1, <3>1
    <3> QED
      BY <3>2, <3>3, LatestAt
  <2>3. CASE p \notin Named(b)
    <3>1. p \notin Named(m)
      <4> SUFFICES ASSUME NEW i \in 1..Len(m), m[i].path = p PROVE FALSE
        OBVIOUS
      <4>1. i \in 1..n /\ b[i] = m[i]
        BY <1>1, <1>3, <2>1
      <4> QED
        BY <1>1, <2>3, <4>1
    <3> QED
      BY <1>1, <2>3, <3>1, LatestIs
  <2> QED
    BY <2>2, <2>3
<1> QED
  BY <1>4 DEF b

LEMMA RestLatest ==
  ASSUME NEW m \in Seq(Entry), NEW n \in 0..Len(m), NEW p \in Named(After(m, n))
  PROVE  /\ p \in Named(m) /\ Latest(m, p) = Latest(After(m, n), p)
         /\ \E i \in (n + 1)..Len(m) : m[i] = [path |-> p, sha |-> Latest(m, p)]
<1> USE ManifestIs
<1> DEFINE b == Before(m, n)
           a == After(m, n)
<1>1. b \in Seq(Entry) /\ Len(b) = n /\ \A i \in 1..n : b[i] = m[i]
  BY BeforeIs
<1>2. a \in Seq(Entry) /\ Len(a) = Len(m) - n /\ \A i \in 1..(Len(m) - n) : a[i] = m[n + i]
  BY AfterIs
<1>3. Len(m) \in Nat /\ n \in Nat
  OBVIOUS
<1>0. p \in Named(a)
  OBVIOUS
<1> HIDE DEF a, b
<1>5. /\ p \in Named(m) /\ Latest(m, p) = Latest(a, p)
      /\ \E i \in (n + 1)..Len(m) : m[i] = [path |-> p, sha |-> Latest(m, p)]
  <2>1. PICK k \in 1..(Len(m) - n) : /\ a[k] = [path |-> p, sha |-> Latest(a, p)]
                                     /\ \A j \in 1..(Len(m) - n) : a[j].path = p => j <= k
    BY <1>0, <1>2, LatestIs
  <2>2. n + k \in (n + 1)..Len(m) /\ m[n + k] = [path |-> p, sha |-> Latest(a, p)]
    BY <1>2, <1>3, <2>1
  <2>3. \A j \in 1..Len(m) : m[j].path = p => j <= n + k
    <3> TAKE j \in 1..Len(m)
    <3>1. CASE j <= n
      BY <1>3, <3>1
    <3>2. CASE j > n
      <4>1. j - n \in 1..(Len(m) - n) /\ n + (j - n) = j
        BY <1>3, <3>2
      <4>2. a[j - n] = m[j]
        BY <1>2, <4>1
      <4> QED
        BY <1>3, <2>1, <4>1, <4>2
    <3> QED
      BY <1>3, <3>1, <3>2
  <2>4. n + k \in 1..Len(m) /\ m[n + k].path = p
    BY <1>3, <2>2
  <2>5. Latest(m, p) = Latest(a, p)
    <3>1. Latest(m, m[n + k].path) = m[n + k].sha
      BY <2>3, <2>4, LatestAt
    <3> QED
      BY <2>2, <2>4, <3>1
  <2>6. p \in Named(m)
    BY <2>4
  <2> QED
    BY <2>2, <2>5, <2>6
<1> QED
  BY <1>5 DEF a

------------------------------------------------------------------------------
(* The invariant. *)

Working == {"replace", "delete", "cut", "tail"}
UploadStates == {Idle} \cup [pc : {"put"}, host : Hosts, todo : SUBSET Paths]
ResyncStates ==
    {Idle} \cup [pc : {"planned"} \cup Working, host : Hosts, lake : Seq(Entry), bucket : Seq(Entry),
                 keep : Nat, downloads : SUBSET Paths, deletions : SUBSET Paths]

Typed ==
    /\ manifest \in [Hosts -> Seq(Entry)] /\ disk \in [Hosts -> [Paths -> Content \cup {None}]]
    /\ copy \in Seq(Entry) /\ objects \in [Paths -> Seq(Content)] /\ primary \in Hosts
    /\ written \in Nat /\ written <= MaxWrites
    /\ upload \in UploadStates /\ resync \in ResyncStates
    /\ upload # Idle /\ resync.pc \in Working => upload.host # resync.host

(* No entry is recorded twice in one manifest, every content was written, and the  *)
(* manifests agree on what came before an entry of a path.                          *)
Manifests == {manifest[h] : h \in Hosts} \cup {copy}
             \cup (IF resync = Idle THEN {} ELSE {resync.bucket})
Histories ==
    /\ \A m \in Manifests : Distinct(m) /\ \A e \in Pairs(m) : e.sha \in 1..written
    /\ \A m, w \in Manifests : Follows(m, w)

(* Hosts learn of each other's entries by the bucket alone.                         *)
Published ==
    \A h, o \in Hosts : h # o => Pairs(manifest[h]) \cap Pairs(manifest[o]) \subseteq Pairs(copy)

(* A file that is not its host's last entry is a resync's unfinished work: the      *)
(* bucket has entries the host lacks, and another last entry for that file.         *)
Lacks(h) == ~(Pairs(copy) \subseteq Pairs(manifest[h]))
Clash(h, p) == Latest(copy, p) # Latest(manifest[h], p)
Clean ==
    \A h \in Hosts, p \in Paths :
        disk[h][p] # Latest(manifest[h], p) => Lacks(h) /\ Clash(h, p)

(* An upload keeps all the bucket recorded, and has put what it is done with.       *)
UploadSure ==
    upload # Idle =>
        /\ Pairs(copy) \subseteq Pairs(manifest[upload.host])
        /\ upload.todo \subseteq Named(manifest[upload.host])
        /\ \A p \in Named(manifest[upload.host]) \ upload.todo :
               HasVersion(p, Latest(manifest[upload.host], p))

(* A resync knows what is left to do, and what a death would leave undone.          *)
Arrived(p) == \/ disk[resync.host][p] = Latest(resync.bucket, p)
              \/ p \in resync.downloads \/ p \in resync.deletions
Plan ==
    /\ ~(Pairs(resync.bucket) \subseteq Pairs(resync.lake))
    /\ Pairs(resync.bucket) \subseteq Pairs(copy)
    /\ resync.keep <= Len(resync.lake) /\ resync.keep <= Len(resync.bucket)
    /\ Before(resync.lake, resync.keep) = Before(resync.bucket, resync.keep)
    /\ resync.downloads \subseteq Named(resync.bucket)
    /\ resync.deletions \cap (Captured \cup Named(resync.bucket)) = {}
    /\ resync.pc \in {"cut", "delete"} => resync.downloads = {}
    /\ resync.pc = "cut" => resync.deletions = {}
Planned ==
    /\ Len(manifest[resync.host]) >= Len(resync.lake)
    /\ Len(manifest[resync.host]) = Len(resync.lake) => \A p \in Paths : Arrived(p)
Moving ==
    /\ manifest[resync.host] = resync.lake /\ Lacks(resync.host)
    /\ \A p \in Paths : Arrived(p)
    /\ \A p \in Paths : Latest(resync.bucket, p) # Latest(resync.lake, p) => Clash(resync.host, p)
Rewriting ==
    /\ \A p \in Paths : disk[resync.host][p] = Latest(resync.bucket, p)
    /\ \E n \in 0..Len(resync.bucket) : manifest[resync.host] = Before(resync.bucket, n)
ResyncSure ==
    resync # Idle =>
        /\ Plan
        /\ resync.pc = "planned" => Planned
        /\ resync.pc \in {"replace", "delete", "cut"} => Moving
        /\ resync.pc = "tail" => Rewriting

Inv == Typed /\ Histories /\ Published /\ Clean /\ UploadSure /\ ResyncSure /\ CopyServed

LEMMA StatesAre ==
  ASSUME Typed
  PROVE  /\ upload = Idle <=> upload.pc # "put"
         /\ upload # Idle => upload.host \in Hosts /\ upload.todo \subseteq Paths
         /\ resync = Idle <=> resync.pc \notin {"planned"} \cup Working
         /\ resync # Idle => /\ resync.host \in Hosts /\ resync.lake \in Seq(Entry)
                             /\ resync.bucket \in Seq(Entry) /\ resync.keep \in Nat
                             /\ resync.downloads \subseteq Paths /\ resync.deletions \subseteq Paths
         /\ \A h \in Hosts : manifest[h] \in Seq(Entry)
         /\ copy \in Seq(Entry)
         /\ \A m \in Manifests : m \in Seq(Entry)
<1>1. upload = Idle <=> upload.pc # "put"
  BY DEF Typed, UploadStates, Idle
<1>2. upload # Idle => upload.host \in Hosts /\ upload.todo \subseteq Paths
  BY DEF Typed, UploadStates
<1>3. resync = Idle <=> resync.pc \notin {"planned"} \cup Working
  BY DEF Typed, ResyncStates, Idle, Working
<1>4. resync # Idle => /\ resync.host \in Hosts /\ resync.lake \in Seq(Entry)
                       /\ resync.bucket \in Seq(Entry) /\ resync.keep \in Nat
                       /\ resync.downloads \subseteq Paths /\ resync.deletions \subseteq Paths
  BY DEF Typed, ResyncStates
<1>5. (\A h \in Hosts : manifest[h] \in Seq(Entry)) /\ copy \in Seq(Entry)
  BY DEF Typed
<1> QED
  BY <1>1, <1>2, <1>3, <1>4, <1>5 DEF Manifests

(* The bucket's last entry of a path stays apart from a host's when the bucket gets  *)
(* another host's manifest.                                                          *)
LEMMA ClashKept ==
  ASSUME Typed, Histories, Published, NEW o \in Hosts, NEW h \in Hosts, NEW p,
         Pairs(copy) \subseteq Pairs(manifest[o]), Lacks(h), Clash(h, p)
  PROVE  ~(Pairs(manifest[o]) \subseteq Pairs(manifest[h])) /\ Latest(manifest[o], p) # Latest(manifest[h], p)
<1> DEFINE m == manifest[h]
           w == manifest[o]
<1>1. h # o /\ ~(Pairs(w) \subseteq Pairs(m))
  BY DEF Lacks
<1>2. m \in Seq(Entry) /\ w \in Seq(Entry) /\ copy \in Seq(Entry)
  BY StatesAre
<1>3. Distinct(w) /\ Distinct(copy) /\ Follows(copy, w)
  BY DEF Histories, Manifests
<1> HIDE DEF m, w
<1>4. Pairs(copy) \subseteq Pairs(w) /\ Latest(copy, p) # Latest(m, p)
      /\ Pairs(m) \cap Pairs(w) \subseteq Pairs(copy)
  BY <1>1 DEF Published, Clash, m, w
<1>5. ASSUME Latest(w, p) = Latest(m, p) PROVE FALSE
  <2>1. CASE p \in Named(m)
    <3> DEFINE e == [path |-> p, sha |-> Latest(m, p)]
               f == [path |-> p, sha |-> Latest(copy, p)]
    <3>1. Latest(m, p) # None
      BY <1>2, <2>1, LatestIs
    <3>2. p \in Named(w)
      BY <1>2, <1>5, <3>1, LatestIs
    <3>3. e \in Pairs(m) /\ e \in Pairs(w) /\ e \in Entry
      BY <1>2, <1>5, <2>1, <3>2, LatestLast, ManifestIs
    <3>4. e \in Pairs(copy) /\ e.path = p
      BY <1>4, <3>3
    <3>5. p \in Named(copy)
      BY <1>2, <3>4, ManifestIs
    <3>6. f \in Pairs(copy) /\ f \in Entry /\ Prec(copy, e, f)
      BY <1>2, <1>4, <3>4, <3>5, LatestLast, ManifestIs
    <3>7. Prec(w, e, f)
      BY <1>3, <1>4, <3>3, <3>6 DEF Follows
    <3> QED
      BY <1>2, <1>3, <1>5, <3>3, <3>6, <3>7, NotLatest
  <2>2. CASE p \notin Named(m)
    <3>1. Latest(m, p) = None /\ p \in Named(copy)
      BY <1>2, <1>4, <2>2, LatestIs
    <3>2. p \in Named(w)
      BY <1>2, <1>4, <3>1, ManifestIs
    <3> QED
      BY <1>2, <1>5, <3>1, <3>2, LatestIs
  <2> QED
    BY <2>1, <2>2
<1> QED
  BY <1>1, <1>5 DEF m, w

(* And apart from a first part of what the bucket had.                                *)
LEMMA PrefixClash ==
  ASSUME NEW b \in Seq(Entry), NEW c \in Seq(Entry), Distinct(b), Distinct(c), Follows(b, c),
         Pairs(b) \subseteq Pairs(c), NEW n \in 0..Len(b), NEW p,
         Latest(b, p) # Latest(Before(b, n), p)
  PROVE  Latest(c, p) # Latest(Before(b, n), p)
<1> DEFINE a == Before(b, n)
           f == [path |-> p, sha |-> Latest(b, p)]
           e == [path |-> p, sha |-> Latest(a, p)]
<1>1. a \in Seq(Entry) /\ Len(a) = n /\ \A i \in 1..n : a[i] = b[i]
  BY BeforeIs
<1>0. p \in Named(After(b, n))
  BY RestSame
<1>2. PICK i \in (n + 1)..Len(b) : b[i] = f
  BY <1>0, RestLatest
<1>3. Len(b) \in Nat /\ f \in Pairs(b) /\ f \in Pairs(c) /\ f \in Entry /\ p \in Named(c)
  <2>1. Len(b) \in Nat /\ i \in 1..Len(b)
    BY ManifestIs
  <2>2. f \in Pairs(b) /\ f \in Pairs(c)
    BY <1>2, <2>1, ManifestIs
  <2> QED
    BY <2>1, <2>2, ManifestIs
<1> HIDE DEF a
<1>4. CASE p \notin Named(a)
  BY <1>1, <1>3, <1>4, LatestIs DEF a
<1>5. CASE p \in Named(a)
  <2>1. PICK k \in 1..n : a[k] = e
    BY <1>1, <1>5, LatestIs
  <2>2. k \in 1..Len(b) /\ i \in 1..Len(b) /\ k < i /\ b[k] = e
    BY <1>1, <1>3, <2>1
  <2>3. e \in Entry
    BY <2>2, ManifestIs
  <2>4. Prec(b, e, f)
    BY <1>2, <2>2 DEF Prec
  <2>5. Prec(c, e, f)
    BY <1>3, <2>3, <2>4 DEF Follows
  <2> QED
    BY <1>3, <2>3, <2>5, NotLatest DEF a
<1> QED
  BY <1>4, <1>5

------------------------------------------------------------------------------
(* What the copy's shape says of what a host has. *)

LEMMA PrefixSub ==
  ASSUME NEW m \in Seq(Entry), NEW w \in Seq(Entry), IsPrefixOf(m, w)
  PROVE  Pairs(m) \subseteq Pairs(w) /\ Len(m) \in 0..Len(w)
<1>1. Len(m) \in 0..Len(w) /\ Before(w, Len(m)) = m
  BY ManifestIs DEF IsPrefixOf
<1>2. \A i \in 1..Len(m) : m[i] = w[i]
  <2>1. \A i \in 1..Len(m) : Before(w, Len(m))[i] = w[i]
    BY <1>1, BeforeIs
  <2> QED
    BY <1>1, <2>1
<1>3. \A i \in 1..Len(m) : i \in 1..Len(w)
  BY <1>1, ManifestIs
<1> QED
  BY <1>1, <1>2, <1>3, ManifestIs

LEMMA SharedSame ==
  ASSUME NEW m \in Seq(Entry), NEW w \in Seq(Entry), NEW i \in 1..Shared(m, w)
  PROVE  i \in 1..Len(m) /\ i \in 1..Len(w) /\ m[i] = w[i]
<1> DEFINE n == Shared(m, w)
<1>1. n \in 0..Len(m) /\ n <= Len(w) /\ Before(m, n) = Before(w, n)
  BY SharedIs
<1> HIDE DEF n
<1>2. Len(m) \in Nat /\ Len(w) \in Nat /\ n \in 0..Len(w) /\ i \in 1..n
  BY <1>1, ManifestIs DEF n
<1>3. Before(m, n)[i] = m[i] /\ Before(w, n)[i] = w[i]
  BY <1>1, <1>2, BeforeIs
<1> QED
  BY <1>1, <1>2, <1>3

(* A copy with nothing foreign to a lake has nothing the lake did not record.     *)
LEMMA ForeignSub ==
  ASSUME NEW m \in Seq(Entry), NEW w \in Seq(Entry), Follows(w, m), Foreign(w, m) = {}
  PROVE  Pairs(w) \subseteq Pairs(m)
<1> DEFINE n == Shared(m, w)
           tail == After(w, n)
<1>1. n \in 0..Len(w) /\ Len(w) \in Nat
  BY SharedIs, ManifestIs
<1>2. tail \in Seq(Entry) /\ Len(tail) = Len(w) - n /\ \A i \in 1..(Len(w) - n) : tail[i] = w[n + i]
  BY <1>1, AfterIs
<1>3. \A p \in Named(tail) : [path |-> p, sha |-> Latest(tail, p)] \in Pairs(m)
  BY DEF Foreign
<1> HIDE DEF tail
<1> SUFFICES ASSUME NEW i \in 1..Len(w) PROVE w[i] \in Pairs(m)
  BY ManifestIs
<1>4. CASE i <= n
  <2>1. i \in 1..Shared(m, w)
    BY <1>1, <1>4
  <2> QED
    BY <2>1, SharedSame, ManifestIs
<1>5. CASE i > n
  <2> DEFINE p == w[i].path
             f == [path |-> p, sha |-> Latest(w, p)]
  <2>1. i - n \in 1..(Len(w) - n) /\ n + (i - n) = i
    BY <1>1, <1>5
  <2>2. w[i] \in Pairs(w) /\ w[i] \in Entry /\ w[i] \in Pairs(tail)
    BY <1>2, <2>1, ManifestIs
  <2>3. p \in Named(tail) /\ p \in Named(w)
    BY <1>2, <2>2, ManifestIs
  <2>4. Latest(w, p) = Latest(tail, p)
    BY <1>1, <2>3, RestLatest DEF tail
  <2>5. f \in Pairs(m) /\ f \in Entry /\ f.path = p
    BY <1>3, <2>3, <2>4, ManifestIs
  <2>6. w[i] = f \/ Prec(w, w[i], f)
    BY <2>2, <2>3, LatestLast
  <2>7. ASSUME Prec(w, w[i], f) PROVE w[i] \in Pairs(m)
    <3>1. Prec(m, w[i], f)
      BY <2>2, <2>5, <2>7 DEF Follows
    <3> QED
      BY <3>1, ManifestIs DEF Prec
  <2> QED
    BY <2>5, <2>6, <2>7
<1> QED
  BY <1>1, <1>4, <1>5

(* A host a resync may plan for lacks an entry of the bucket.                      *)
LEMMA PlanLacks ==
  ASSUME Typed, Histories, NEW h \in Hosts, ~Level(h), ~HandRepaired(h)
  PROVE  Lacks(h)
<1> DEFINE m == manifest[h]
           n == Shared(m, copy)
           tail == After(copy, n)
<1>1. m \in Seq(Entry) /\ copy \in Seq(Entry) /\ Distinct(copy) /\ Len(m) \in Nat /\ Len(copy) \in Nat
  BY StatesAre, ManifestIs DEF Histories, Manifests
<1> SUFFICES ASSUME Pairs(copy) \subseteq Pairs(m) PROVE FALSE
  BY DEF Lacks
<1>2. n \in 0..Len(copy)
  BY <1>1, SharedIs
<1>3. Foreign(copy, m) = {}
  <2>1. tail \in Seq(Entry)
    BY <1>1, <1>2, AfterIs
  <2>2. ASSUME NEW p \in Named(tail) PROVE [path |-> p, sha |-> Latest(tail, p)] \in Pairs(m)
    <3>1. Latest(copy, p) = Latest(tail, p) /\ p \in Named(copy)
      BY <1>1, <1>2, RestLatest
    <3>2. [path |-> p, sha |-> Latest(copy, p)] \in Pairs(copy)
      BY <1>1, <3>1, LatestLast
    <3> QED
      BY <3>1, <3>2
  <2> QED
    BY <2>2 DEF Foreign
<1>4. IsPrefixOf(m, copy)
  BY <1>3 DEF HandRepaired
<1>5. Len(m) \in 0..Len(copy) /\ m = Before(copy, Len(m))
  BY <1>1, <1>4, PrefixSub DEF IsPrefixOf
<1>6. Len(m) # Len(copy)
  <2> SUFFICES ASSUME Len(m) = Len(copy) PROVE FALSE
    OBVIOUS
  <2>1. Len(Before(copy, Len(copy))) = Len(copy) /\ Before(copy, Len(copy)) \in Seq(Entry)
        /\ \A i \in 1..Len(copy) : Before(copy, Len(copy))[i] = copy[i]
    BY <1>1, <1>5, BeforeIs
  <2>2. Before(copy, Len(copy)) = copy
    BY <1>1, <2>1, SeqEqual
  <2>3. copy = m
    BY <1>5, <2>2
  <2>4. IsPrefixOf(copy, m)
    BY <1>1, <2>2, <2>3 DEF IsPrefixOf
  <2> QED
    BY <2>4 DEF Level
<1>7. Len(m) + 1 \in 1..Len(copy) /\ Len(m) + 1 \in (Len(m) + 1)..Len(copy)
  BY <1>1, <1>5, <1>6
<1>8. copy[Len(m) + 1] \notin Pairs(m) /\ copy[Len(m) + 1] \in Pairs(copy)
  BY <1>1, <1>5, <1>7, PrefixDerived, ManifestIs
<1> QED
  BY <1>8

LEMMA LevelSure ==
  ASSUME Typed, Clean
  PROVE  LevelIsWhole
<1> SUFFICES ASSUME NEW h \in Hosts, Level(h), NEW p \in Paths
             PROVE  disk[h][p] = Latest(manifest[h], p)
  BY DEF LevelIsWhole
<1>1. ~Lacks(h)
  BY StatesAre, PrefixSub DEF Level, Lacks
<1> QED
  BY <1>1 DEF Clean

------------------------------------------------------------------------------
(* The histories agree as long as nothing is written. *)

LEMMA HistoriesKept ==
  ASSUME Typed, Histories, written' = written,
         \A m \in Manifests' : /\ m \in Seq(Entry) /\ Distinct(m)
                               /\ \E w \in Manifests : Derived(m, w)
  PROVE  Histories'
<1>1. ASSUME NEW m \in Manifests' PROVE Distinct(m) /\ \A e \in Pairs(m) : e.sha \in 1..written'
  BY <1>1 DEF Histories, Derived
<1>2. ASSUME NEW m \in Manifests', NEW w \in Manifests' PROVE Follows(m, w)
  <2>1. PICK m0 \in Manifests : Derived(m, m0)
    OBVIOUS
  <2>2. PICK w0 \in Manifests : Derived(w, w0)
    OBVIOUS
  <2>3. m0 \in Seq(Entry) /\ w0 \in Seq(Entry) /\ Follows(m0, w0)
    BY StatesAre DEF Histories
  <2> QED
    BY <2>1, <2>2, <2>3, DerivedFollows
<1> QED
  BY <1>1, <1>2 DEF Histories

LEMMA HistoriesSame ==
  ASSUME Typed, Histories, written' = written, Manifests' \subseteq Manifests
  PROVE  Histories'
<1>1. ASSUME NEW m \in Manifests'
      PROVE  m \in Seq(Entry) /\ Distinct(m) /\ \E w \in Manifests : Derived(m, w)
  BY StatesAre, DerivedSelf DEF Histories
<1> QED
  BY <1>1, HistoriesKept

LEMMA InitInv ==
  ASSUME Init
  PROVE  Inv
<1> USE ConstantsAssumption
<1>1. Base \in Seq(Entry) /\ Len(Base) \in Nat /\ \A i \in 1..Len(Base) : Base[i] \in Entry /\ Base[i].sha = i
  BY ManifestIs
<1>2. Distinct(Base) /\ \A e \in Pairs(Base) : e.sha \in Content /\ e.sha \in 1..Len(Base)
  <2>1. \A i, j \in 1..Len(Base) : Base[i] = Base[j] => i = j
    BY <1>1
  <2>2. \A e \in Pairs(Base) : e.sha \in 1..Len(Base)
    BY <1>1, ManifestIs
  <2> QED
    BY <1>1, <2>1, <2>2 DEF Distinct, Content
<1>3. \A p \in Named(Base) : Latest(Base, p) \in Content
  <2> TAKE p \in Named(Base)
  <2>1. [path |-> p, sha |-> Latest(Base, p)] \in Pairs(Base)
    BY <1>1, LatestLast
  <2>2. [path |-> p, sha |-> Latest(Base, p)].sha \in Content
    BY <1>2, <2>1
  <2> QED
    BY <2>2
<1>4. \A p : Latest(Base, p) \in Content \cup {None}
  BY <1>1, <1>3, LatestIs
<1>5. Typed
  BY <1>1, <1>3, <1>4 DEF Init, Typed, UploadStates, ResyncStates, Idle, Working
<1>6. Histories
  <2>1. Manifests \subseteq {Base}
    BY DEF Init, Manifests
  <2>2. Follows(Base, Base)
    BY DEF Follows
  <2> QED
    BY <1>2, <2>1, <2>2 DEF Histories, Init
<1>7. Published /\ Clean /\ UploadSure /\ ResyncSure
  BY DEF Init, Published, Clean, UploadSure, ResyncSure
<1>8. CopyServed
  <2> SUFFICES ASSUME NEW p \in Named(copy) PROVE HasVersion(p, Latest(copy, p))
    BY DEF CopyServed
  <2>1. p \in Paths /\ objects[p] = <<Latest(copy, p)>>
    BY <1>1, ManifestIs DEF Init
  <2>2. 1 \in DOMAIN objects[p] /\ objects[p][1] = Latest(copy, p)
    BY <2>1
  <2> QED
    BY <2>2 DEF HasVersion
<1> QED
  BY <1>5, <1>6, <1>7, <1>8 DEF Inv

------------------------------------------------------------------------------
(* One step per action. *)

LEMMA ServedGrows ==
  ASSUME Typed, objects' = objects
  PROVE  \A p : (\A sha : HasVersion(p, sha)' <=> HasVersion(p, sha))
  BY DEF HasVersion

(* A host that is not locked is neither the upload's nor a working resync's.       *)
LEMMA Unlocked ==
  ASSUME Typed, NEW h \in Hosts, ~Locked(h)
  PROVE  /\ upload # Idle => upload.host # h
         /\ resync # Idle /\ resync.pc # "planned" => resync.pc \in Working /\ resync.host # h
<1>1. upload # Idle => upload.pc # "idle"
  BY StatesAre
<1>2. resync # Idle => resync.pc \in {"planned"} \cup Working
  BY StatesAre
<1> QED
  BY <1>1, <1>2 DEF Locked, Working

LEMMA WriteInv ==
  ASSUME Inv, NEW h \in Hosts, NEW p \in Paths, Write(h, p)
  PROVE  Inv'
<1> DEFINE m == manifest[h]
           x == [path |-> p, sha |-> written + 1]
<1>1. /\ Typed /\ Histories /\ Published /\ Clean /\ UploadSure /\ ResyncSure /\ CopyServed
      /\ manifest \in [Hosts -> Seq(Entry)] /\ copy \in Seq(Entry) /\ m \in Seq(Entry)
      /\ written \in Nat
  BY DEF Inv, Typed
<1>2. /\ manifest' = [manifest EXCEPT ![h] = Append(m, x)]
      /\ disk' = [disk EXCEPT ![h][p] = written + 1]
      /\ written' = written + 1 /\ written + 1 <= MaxWrites
      /\ UNCHANGED <<copy, objects, primary, upload, resync, events>>
  BY <1>1, ConstantsAssumption DEF Write
<1>3. x \in Entry /\ x.path = p /\ x.sha = written + 1
  BY <1>1 DEF Entry
<1>4. \A w \in Manifests : x \notin Pairs(w)
  <2>1. \A w \in Manifests : \A e \in Pairs(w) : e.sha \in 1..written
    BY <1>1 DEF Histories
  <2> QED
    BY <1>1, <1>3, <2>1
<1>5. m \in Manifests /\ copy \in Manifests /\ Distinct(m)
  BY <1>1 DEF Histories, Manifests
<1> DEFINE a == Append(m, x)
<1>6. /\ a \in Seq(Entry) /\ Distinct(a) /\ Pairs(a) = Pairs(m) \cup {x}
      /\ \A e, f \in Entry : Prec(a, e, f) <=> Prec(m, e, f) \/ (e \in Pairs(m) /\ f = x)
      /\ \A q : Latest(a, q) = IF q = p THEN written + 1 ELSE Latest(m, q)
  BY <1>1, <1>3, <1>4, <1>5, AppendFresh
<1>7. manifest'[h] = a /\ \A o \in Hosts : o # h => manifest'[o] = manifest[o]
  BY <1>1, <1>2
<1>8. /\ upload # Idle => upload.host # h
      /\ resync # Idle /\ resync.pc # "planned" => resync.pc \in Working /\ resync.host # h
  BY <1>1, Unlocked DEF Write
<1> HIDE DEF a, m, x
<1>9. Typed'
  <2>1. manifest' \in [Hosts -> Seq(Entry)] /\ disk' \in [Hosts -> [Paths -> Content \cup {None}]]
    <3>1. written + 1 \in Content
      BY <1>1, <1>2, ConstantsAssumption DEF Content
    <3> QED
      BY <1>1, <1>2, <1>6, <3>1 DEF Typed, a
  <2> QED
    BY <1>1, <1>2, <2>1 DEF Typed
<1>10. Histories'
  <2>1. ASSUME NEW w \in Manifests' PROVE w = a \/ w \in Manifests
    BY <1>2, <1>7 DEF Manifests
  <2>2. ASSUME NEW w \in Manifests' PROVE Distinct(w) /\ \A e \in Pairs(w) : e.sha \in 1..written'
    <3>1. CASE w \in Manifests
      <4>1. \A e \in Pairs(w) : e.sha \in 1..written /\ e \in Entry
        BY <1>1, <3>1, StatesAre, ManifestIs DEF Histories
      <4> QED
        BY <1>1, <1>2, <3>1, <4>1 DEF Histories, Entry
    <3>2. CASE w = a
      <4>1. \A e \in Pairs(m) : e.sha \in 1..written /\ e \in Entry
        BY <1>1, <1>5, ManifestIs DEF Histories
      <4>2. \A e \in Pairs(m) : e.sha \in 1..(written + 1)
        BY <1>1, <4>1 DEF Entry
      <4> QED
        BY <1>1, <1>2, <1>3, <1>6, <3>2, <4>2
    <3> QED
      BY <2>1, <3>1, <3>2
  <2>3. ASSUME NEW u \in Manifests', NEW w \in Manifests' PROVE Follows(u, w)
    <3> SUFFICES ASSUME NEW e \in Entry, NEW f \in Entry, e.path = f.path, Prec(u, e, f), f \in Pairs(w)
                 PROVE  Prec(w, e, f)
      BY DEF Follows
    <3>1. \A v, z \in Manifests : Prec(v, e, f) /\ f \in Pairs(z) => Prec(z, e, f)
      BY <1>1 DEF Histories, Follows
    <3>2. \A v \in Manifests : f \in Pairs(v) => f # x
      BY <1>4
    <3>3. \A v \in Manifests : Prec(v, e, f) => f \in Pairs(v)
      BY <1>1, StatesAre, ManifestIs DEF Prec
    <3>4. CASE u \in Manifests /\ w \in Manifests
      BY <3>1, <3>4
    <3>5. CASE u \in Manifests /\ w = a
      <4>1. f # x /\ f \in Pairs(m)
        BY <1>6, <3>2, <3>3, <3>5
      <4> QED
        BY <1>5, <1>6, <3>1, <3>5, <4>1
    <3>6. CASE u = a /\ w \in Manifests
      BY <1>5, <1>6, <3>1, <3>2, <3>6
    <3> QED
      BY <2>1, <3>4, <3>5, <3>6
  <2> QED
    BY <2>2, <2>3 DEF Histories
<1>11. Published'
  <2> SUFFICES ASSUME NEW o \in Hosts, NEW o1 \in Hosts, o # o1
               PROVE  Pairs(manifest'[o]) \cap Pairs(manifest'[o1]) \subseteq Pairs(copy)
    BY <1>2 DEF Published
  <2>1. /\ Pairs(manifest'[o]) \subseteq Pairs(manifest[o]) \cup (IF o = h THEN {x} ELSE {})
        /\ Pairs(manifest'[o1]) \subseteq Pairs(manifest[o1]) \cup (IF o1 = h THEN {x} ELSE {})
    BY <1>6, <1>7 DEF m
  <2>2. x \notin Pairs(manifest[o]) /\ x \notin Pairs(manifest[o1])
    BY <1>4 DEF Manifests
  <2>3. Pairs(manifest[o]) \cap Pairs(manifest[o1]) \subseteq Pairs(copy)
    BY <1>1 DEF Published
  <2> QED
    BY <2>1, <2>2, <2>3
<1>12. Clean'
  <2> SUFFICES ASSUME NEW o \in Hosts, NEW q \in Paths, disk'[o][q] # Latest(manifest'[o], q)
               PROVE  Lacks(o)' /\ Clash(o, q)'
    BY DEF Clean
  <2>1. CASE o # h
    <3>1. disk'[o] = disk[o] /\ manifest'[o] = manifest[o]
      BY <1>1, <1>2, <1>7, <2>1 DEF Typed
    <3> QED
      BY <1>1, <1>2, <3>1 DEF Clean, Lacks, Clash
  <2>2. CASE o = h
    <3>1. disk'[h][q] = IF q = p THEN written + 1 ELSE disk[h][q]
      BY <1>1, <1>2 DEF Typed
    <3>2. q # p /\ Latest(manifest'[h], q) = Latest(m, q) /\ disk[h][q] # Latest(m, q)
      BY <1>6, <1>7, <2>2, <3>1
    <3>3. Lacks(h) /\ Clash(h, q)
      BY <1>1, <3>2 DEF Clean, m
    <3>4. ~(Pairs(copy) \subseteq Pairs(m) \cup {x})
      BY <1>4, <1>5, <3>3 DEF Lacks, m
    <3> QED
      BY <1>2, <1>6, <1>7, <2>2, <3>2, <3>3, <3>4 DEF Lacks, Clash, m
  <2> QED
    BY <2>1, <2>2
<1>13. UploadSure'
  <2> SUFFICES ASSUME upload # Idle PROVE UploadSure'
    BY <1>2 DEF UploadSure
  <2>1. upload' = upload /\ upload.host \in Hosts /\ manifest'[upload.host] = manifest[upload.host]
    BY <1>1, <1>2, <1>7, <1>8, StatesAre
  <2> QED
    BY <1>1, <1>2, <2>1 DEF UploadSure, HasVersion
<1>14. ResyncSure'
  <2> SUFFICES ASSUME resync # Idle PROVE ResyncSure'
    BY <1>2 DEF ResyncSure
  <2> DEFINE r == resync.host
  <2>1. resync' = resync /\ copy' = copy /\ r \in Hosts /\ resync.lake \in Seq(Entry)
    BY <1>1, <1>2, StatesAre
  <2>2. Plan'
    BY <1>1, <2>1 DEF ResyncSure, Plan
  <2>3. CASE r # h
    <3>1. disk'[r] = disk[r] /\ manifest'[r] = manifest[r]
      BY <1>1, <1>2, <1>7, <2>1, <2>3 DEF Typed
    <3> QED
      BY <1>1, <2>1, <2>2, <3>1 DEF ResyncSure, Planned, Arrived, Moving, Rewriting, Lacks, Clash
  <2>4. CASE r = h
    <3>1. resync.pc = "planned"
      BY <1>8, <2>4
    <3>2. Len(m) >= Len(resync.lake) /\ Len(m) \in Nat /\ Len(resync.lake) \in Nat
      BY <1>1, <2>1, <2>4, <3>1, ManifestIs DEF ResyncSure, Planned, m
    <3>3. Len(a) = Len(m) + 1
      BY <1>1, <1>3, AppendIs DEF a
    <3>4. Len(manifest'[h]) >= Len(resync.lake) /\ Len(manifest'[h]) # Len(resync.lake)
      BY <1>7, <3>2, <3>3
    <3>5. Planned'
      BY <2>1, <2>4, <3>4 DEF Planned
    <3> QED
      BY <2>1, <2>2, <3>1, <3>5 DEF ResyncSure
  <2> QED
    BY <2>3, <2>4
<1>15. CopyServed'
  BY <1>1, <1>2 DEF CopyServed, HasVersion
<1> QED
  BY <1>9, <1>10, <1>11, <1>12, <1>13, <1>14, <1>15 DEF Inv

LEMMA HandRepairInv ==
  ASSUME Inv, NEW h \in Hosts, HandRepair(h)
  PROVE  Inv'
<1> DEFINE m == manifest[h]
<1>1. /\ Typed /\ Histories /\ Published /\ Clean /\ UploadSure /\ ResyncSure /\ CopyServed
      /\ manifest \in [Hosts -> Seq(Entry)] /\ copy \in Seq(Entry) /\ m \in Seq(Entry)
  BY DEF Inv, Typed
<1>2. PICK i \in 2..(Len(m) - 1) :
          /\ m[i].sha = Latest(m, m[i].path)
          /\ manifest' = [manifest EXCEPT ![h] = Repaired(m, i)]
  BY DEF HandRepair, Repaired
<1>3. UNCHANGED <<disk, copy, objects, primary, upload, resync, written>>
  BY DEF HandRepair
<1>4. m \in Manifests /\ Distinct(m)
  BY <1>1 DEF Histories, Manifests
<1> DEFINE r == Repaired(m, i)
<1>5. r \in Seq(Entry) /\ Distinct(r) /\ Pairs(r) = Pairs(m) /\ Derived(r, m)
  BY <1>1, <1>2, <1>4, RepairDerived
<1>6. Len(r) = Len(m)
  BY <1>1, RepairIs
<1> HIDE DEF r
<1>7. \A q : Latest(r, q) = Latest(m, q)
  BY <1>1, <1>4, <1>5, SameLatest
<1>8. manifest'[h] = r /\ \A o \in Hosts : o # h => manifest'[o] = manifest[o]
  BY <1>1, <1>2 DEF r
<1>9. /\ upload # Idle => upload.host # h
      /\ resync # Idle /\ resync.pc # "planned" => resync.pc \in Working /\ resync.host # h
  BY <1>1, Unlocked DEF HandRepair
<1> HIDE DEF m
<1>10. \A o \in Hosts : /\ Pairs(manifest'[o]) = Pairs(manifest[o])
                        /\ Len(manifest'[o]) = Len(manifest[o])
                        /\ \A q : Latest(manifest'[o], q) = Latest(manifest[o], q)
  BY <1>5, <1>6, <1>7, <1>8 DEF m
<1>11. Typed'
  BY <1>1, <1>2, <1>3, <1>5 DEF Typed, r
<1>12. Histories'
  <2> SUFFICES ASSUME NEW w \in Manifests'
               PROVE  w \in Seq(Entry) /\ Distinct(w) /\ \E w0 \in Manifests : Derived(w, w0)
    BY <1>1, <1>3, HistoriesKept
  <2>1. w = r \/ w \in Manifests
    BY <1>3, <1>8 DEF Manifests
  <2> QED
    BY <1>1, <1>4, <1>5, <2>1, StatesAre, DerivedSelf DEF Histories
<1>13. Published' /\ Clean'
  BY <1>1, <1>3, <1>10 DEF Published, Clean, Lacks, Clash
<1>14. UploadSure'
  <2> SUFFICES ASSUME upload # Idle PROVE UploadSure'
    BY <1>3 DEF UploadSure
  <2>1. upload' = upload /\ upload.host \in Hosts /\ manifest'[upload.host] = manifest[upload.host]
    BY <1>1, <1>3, <1>8, <1>9, StatesAre
  <2> QED
    BY <1>1, <1>3, <2>1 DEF UploadSure, HasVersion
<1>15. ResyncSure'
  <2> SUFFICES ASSUME resync # Idle PROVE ResyncSure'
    BY <1>3 DEF ResyncSure
  <2>1. resync' = resync /\ copy' = copy /\ disk' = disk /\ resync.host \in Hosts
    BY <1>1, <1>3, StatesAre
  <2>2. Plan'
    BY <1>1, <2>1 DEF ResyncSure, Plan
  <2>3. CASE resync.host # h
    <3>1. manifest'[resync.host] = manifest[resync.host]
      BY <1>8, <2>1, <2>3
    <3> QED
      BY <1>1, <2>1, <2>2, <3>1 DEF ResyncSure, Planned, Arrived, Moving, Rewriting, Lacks, Clash
  <2>4. CASE resync.pc = "planned"
    <3>1. Len(manifest'[resync.host]) = Len(manifest[resync.host])
      BY <1>10, <2>1
    <3>2. Planned'
      BY <1>1, <2>1, <2>4, <3>1 DEF ResyncSure, Planned, Arrived
    <3> QED
      BY <2>1, <2>2, <2>4, <3>2 DEF ResyncSure
  <2> QED
    BY <1>9, <2>3, <2>4
<1>16. CopyServed'
  BY <1>1, <1>3 DEF CopyServed, HasVersion
<1> QED
  BY <1>11, <1>12, <1>13, <1>14, <1>15, <1>16 DEF Inv

(* What stays of the invariant while the records, the files and the bucket do.     *)
LEMMA RecordsStay ==
  ASSUME Inv, UNCHANGED <<manifest, disk, copy, objects, written>>,
         resync' = Idle \/ resync'.bucket \in Manifests
  PROVE  Histories' /\ Published' /\ Clean' /\ CopyServed'
<1>1. Manifests' \subseteq Manifests
  BY DEF Manifests
<1>2. Histories'
  BY <1>1, HistoriesSame DEF Inv
<1> QED
  BY <1>2 DEF Inv, Published, Clean, Lacks, Clash, CopyServed, HasVersion

LEMMA BucketIsOne ==
  ASSUME resync' = resync
  PROVE  resync' = Idle \/ resync'.bucket \in Manifests
  BY DEF Manifests

LEMMA HandoffInv ==
  ASSUME Inv, NEW h \in Hosts, Handoff(h)
  PROVE  Inv'
<1>1. /\ UNCHANGED <<manifest, disk, copy, objects, upload, resync, written>> /\ primary' = h
      /\ Typed /\ UploadSure /\ ResyncSure
  BY DEF Handoff, Inv
<1>2. Histories' /\ Published' /\ Clean' /\ CopyServed'
  BY <1>1, RecordsStay, BucketIsOne
<1>3. Typed'
  BY <1>1 DEF Typed
<1>4. UploadSure' /\ ResyncSure'
  BY <1>1 DEF UploadSure, ResyncSure, Plan, Planned, Arrived, Moving, Rewriting, Lacks, Clash, HasVersion
<1> QED
  BY <1>2, <1>3, <1>4 DEF Inv

(* A resync stays sure while an upload only begins, puts or ends.                   *)
LEMMA ResyncStays ==
  ASSUME ResyncSure, UNCHANGED <<manifest, disk, copy, resync>>
  PROVE  ResyncSure'
  BY DEF ResyncSure, Plan, Planned, Arrived, Moving, Rewriting, Lacks, Clash

LEMMA BeginTyped ==
  ASSUME Typed, NEW rest \in SUBSET Paths, upload' = [pc |-> "put", host |-> primary, todo |-> rest],
         ~Locked(primary), UNCHANGED <<manifest, disk, copy, objects, primary, resync, written>>
  PROVE  Typed' /\ upload'.host = primary /\ upload'.todo = rest /\ upload' # Idle
<1>1. upload' \in UploadStates /\ upload'.host = primary /\ upload'.todo = rest /\ upload' # Idle
  BY DEF Typed, UploadStates, Idle
<1>2. resync.pc \in Working => resync.host # primary
  BY DEF Locked, Working
<1> QED
  BY <1>1, <1>2 DEF Typed

LEMMA NightlyBeginInv ==
  ASSUME Inv, NightlyBegin
  PROVE  Inv'
<1> DEFINE m == manifest[primary]
           rest == Pending(primary) \cup Healed(primary)
<1>1. /\ UNCHANGED <<manifest, disk, copy, objects, primary, resync, written>>
      /\ ~Locked(primary) /\ IsPrefixOf(copy, m)
      /\ upload' = [pc |-> "put", host |-> primary, todo |-> rest]
      /\ Typed /\ UploadSure /\ ResyncSure /\ CopyServed
  BY DEF NightlyBegin, Inv
<1>2. m \in Seq(Entry) /\ copy \in Seq(Entry) /\ primary \in Hosts
  BY <1>1, StatesAre DEF Typed
<1>3. Pairs(copy) \subseteq Pairs(m) /\ Len(copy) \in 0..Len(m) /\ Before(m, Len(copy)) = copy
  BY <1>1, <1>2, PrefixSub DEF IsPrefixOf
<1>4. rest \subseteq Named(m)
  <2>1. Pending(primary) \subseteq Named(m)
    BY <1>2, <1>3, RestLatest DEF Pending
  <2>2. ASSUME NEW p \in Healed(primary) PROVE p \in Named(m)
    <3>1. p \in Named(copy)
      BY <1>2, LatestIs DEF Healed
    <3> QED
      BY <1>2, <1>3, <3>1, ManifestIs
  <2> QED
    BY <2>1, <2>2
<1>5. rest \subseteq Paths
  BY <1>2, <1>4, ManifestIs
<1>6. ASSUME NEW p \in Named(m) \ rest PROVE HasVersion(p, Latest(m, p))
  <2>1. Latest(m, p) = Latest(copy, p)
    <3>1. PICK n \in 0..Len(m) : n = Len(copy)
      BY <1>3
    <3>2. p \notin Named(After(m, n)) /\ Before(m, n) = copy
      BY <1>3, <3>1 DEF Pending
    <3> HIDE DEF m
    <3>3. Latest(m, p) = Latest(Before(m, n), p)
      BY <1>2, <3>2, RestSame
    <3> QED
      BY <3>2, <3>3
  <2>2. p \in Named(copy)
    BY <1>2, <2>1, LatestIs
  <2> QED
    BY <1>1, <2>1, <2>2 DEF CopyServed
<1> HIDE DEF rest
<1>7. Typed' /\ upload'.host = primary /\ upload'.todo = rest
  BY <1>1, <1>5, BeginTyped
<1>8. UploadSure'
  BY <1>1, <1>3, <1>4, <1>6, <1>7 DEF UploadSure, HasVersion
<1> QED
  BY <1>1, <1>7, <1>8, RecordsStay, BucketIsOne, ResyncStays DEF Inv

LEMMA FirstBeginInv ==
  ASSUME Inv, FirstBegin
  PROVE  Inv'
<1> DEFINE m == manifest[primary]
<1>1. /\ UNCHANGED <<manifest, disk, copy, objects, primary, resync, written>>
      /\ ~Locked(primary) /\ Foreign(copy, m) = {}
      /\ upload' = [pc |-> "put", host |-> primary, todo |-> Named(m)]
      /\ Typed /\ Histories /\ UploadSure /\ ResyncSure
  BY DEF FirstBegin, Inv
<1>2. m \in Seq(Entry) /\ copy \in Seq(Entry) /\ primary \in Hosts
  BY <1>1, StatesAre DEF Typed
<1>3. Follows(copy, m)
  BY <1>1, <1>2 DEF Histories, Manifests
<1>4. Pairs(copy) \subseteq Pairs(m)
  BY <1>1, <1>2, <1>3, ForeignSub
<1>5. Named(m) \subseteq Paths
  BY <1>2, ManifestIs
<1>6. Typed' /\ upload'.host = primary /\ upload'.todo = Named(m)
  BY <1>1, <1>5, BeginTyped
<1>7. UploadSure'
  BY <1>1, <1>4, <1>6 DEF UploadSure
<1> QED
  BY <1>1, <1>6, <1>7, RecordsStay, BucketIsOne, ResyncStays DEF Inv

(* A version of a path among the bucket's.                                          *)
Held(versions, p, sha) == \E i \in DOMAIN versions[p] : versions[p][i] = sha

LEMMA UploadPutInv ==
  ASSUME Inv, UploadPut
  PROVE  Inv' /\ \A p \in Paths : objects[p] # <<>> => objects'[p] # <<>>
<1> DEFINE p == CHOOSE x \in upload.todo : TRUE
           sha == Latest(manifest[upload.host], p)
<1>1. /\ UNCHANGED <<manifest, disk, copy, primary, resync, written>>
      /\ upload.pc = "put" /\ upload.todo # {}
      /\ Typed /\ Published /\ Clean /\ UploadSure /\ ResyncSure /\ CopyServed
  BY DEF UploadPut, Inv
<1>2. /\ upload # Idle /\ upload.host \in Hosts /\ upload.todo \subseteq Paths
      /\ manifest[upload.host] \in Seq(Entry) /\ copy \in Seq(Entry)
      /\ objects \in [Paths -> Seq(Content)]
  BY <1>1, StatesAre DEF Typed
<1>3. p \in upload.todo /\ p \in Paths /\ p \in Named(manifest[upload.host])
  <2>1. p \in upload.todo
    BY <1>1
  <2> QED
    BY <1>1, <1>2, <2>1 DEF UploadSure
<1>4. sha # None /\ sha \in Nat
  BY <1>2, <1>3, LatestIs
<1>5. \/ /\ Current(p) = sha \/ disk[upload.host][p] = sha
         /\ objects' = IF Current(p) = sha THEN objects ELSE [objects EXCEPT ![p] = Append(@, sha)]
         /\ upload' = [upload EXCEPT !.todo = @ \ {p}]
      \/ upload' = Idle /\ UNCHANGED objects
  BY DEF UploadPut
<1> HIDE DEF p
<1> HIDE DEF sha
<1>6. /\ objects' \in [Paths -> Seq(Content)]
      /\ \A s : \A q \in Paths : HasVersion(q, s) => Held(objects', q, s)
      /\ \A q \in Paths : objects[q] # <<>> => objects'[q] # <<>>
      /\ upload' # Idle => Held(objects', p, sha)
  <2>1. CASE objects' = objects
    <3>1. ASSUME Current(p) = sha PROVE HasVersion(p, sha)
      <4>1. objects[p] # <<>> /\ objects[p][Len(objects[p])] = sha /\ objects[p] \in Seq(Content)
        BY <1>2, <1>3, <1>4, <3>1 DEF Current
      <4>2. Len(objects[p]) \in DOMAIN objects[p]
        BY <4>1
      <4> QED
        BY <4>1, <4>2 DEF HasVersion, Held
    <3>2. upload' # Idle => Current(p) = sha
      <4> SUFFICES ASSUME upload' # Idle, Current(p) # sha PROVE FALSE
        OBVIOUS
      <4>1. objects[p] = Append(objects[p], sha) /\ objects[p] \in Seq(Content)
        BY <1>2, <1>3, <1>5, <2>1
      <4>2. sha \in Content
        <5>1. disk[upload.host][p] = sha
          BY <1>5
        <5> QED
          BY <1>1, <1>2, <1>3, <1>4, <5>1 DEF Typed
      <4>3. Len(Append(objects[p], sha)) = Len(objects[p]) + 1 /\ Len(objects[p]) \in Nat
        BY <4>1, <4>2, AppendProperties
      <4> QED
        BY <4>1, <4>3
    <3> QED
      BY <1>2, <2>1, <3>1, <3>2 DEF HasVersion, Held
  <2>2. CASE /\ Current(p) # sha /\ disk[upload.host][p] = sha
             /\ objects' = [objects EXCEPT ![p] = Append(@, sha)]
    <3>1. sha \in Content
      BY <1>1, <1>2, <1>3, <1>4, <2>2 DEF Typed
    <3> DEFINE old == objects[p]
               new == Append(old, sha)
    <3>2. /\ old \in Seq(Content) /\ new \in Seq(Content) /\ Len(new) = Len(old) + 1
          /\ Len(old) \in Nat /\ \A i \in 1..Len(old) : new[i] = old[i]
          /\ new[Len(old) + 1] = sha
      BY <1>2, <1>3, <3>1, AppendProperties
    <3>3. objects'[p] = new /\ \A q \in Paths : q # p => objects'[q] = objects[q]
      BY <1>2, <1>3, <2>2
    <3> HIDE DEF new
    <3>4. DOMAIN old = 1..Len(old) /\ DOMAIN new = 1..(Len(old) + 1) /\ new # <<>>
      BY <3>2
    <3>5. \A s : HasVersion(p, s) => Held(objects', p, s)
      BY <3>2, <3>3, <3>4 DEF HasVersion, Held
    <3>6. Held(objects', p, sha)
      <4>1. Len(old) + 1 \in DOMAIN new
        BY <3>2, <3>4
      <4> QED
        BY <3>2, <3>3, <4>1 DEF HasVersion, Held
    <3>7. objects' \in [Paths -> Seq(Content)]
      BY <1>2, <1>3, <2>2, <3>2 DEF new
    <3> QED
      BY <3>3, <3>4, <3>5, <3>6, <3>7 DEF HasVersion, Held
  <2> QED
    BY <1>5, <2>1, <2>2
<1>7. /\ upload' \in UploadStates
      /\ upload' # Idle => upload'.host = upload.host /\ upload'.todo = upload.todo \ {p}
  BY <1>1, <1>2, <1>5 DEF Typed, UploadStates
<1>8. Typed'
  BY <1>1, <1>2, <1>6, <1>7 DEF Typed
<1>9. Histories' /\ Published' /\ Clean'
  <2>1. Manifests' = Manifests
    BY <1>1 DEF Manifests
  <2>2. Histories'
    BY <1>1, <2>1 DEF Inv, Histories
  <2> QED
    BY <1>1, <2>2 DEF Published, Clean, Lacks, Clash
<1>10. UploadSure'
  <2> SUFFICES ASSUME upload' # Idle PROVE UploadSure'
    BY DEF UploadSure
  <2>1. upload'.host = upload.host /\ upload'.todo = upload.todo \ {p}
    BY <1>7
  <2>2. ASSUME NEW q \in Named(manifest[upload.host]) \ (upload.todo \ {p})
        PROVE  Held(objects', q, Latest(manifest[upload.host], q))
    <3>1. q \in Paths
      BY <1>2, ManifestIs
    <3>2. CASE q = p
      BY <1>1, <1>6, <3>2 DEF sha
    <3>3. CASE q # p
      <4>1. HasVersion(q, Latest(manifest[upload.host], q))
        BY <1>1, <1>2, <3>3 DEF UploadSure
      <4> QED
        BY <1>1, <1>6, <3>1, <4>1
    <3> QED
      BY <3>2, <3>3
  <2>3. /\ Pairs(copy) \subseteq Pairs(manifest[upload.host])
        /\ upload.todo \ {p} \subseteq Named(manifest[upload.host])
    BY <1>1, <1>2 DEF UploadSure
  <2> QED
    BY <1>1, <2>1, <2>2, <2>3 DEF UploadSure, HasVersion, Held
<1>11. CopyServed'
  <2> SUFFICES ASSUME NEW q \in Named(copy) PROVE HasVersion(q, Latest(copy, q))'
    BY <1>1 DEF CopyServed
  <2>1. q \in Paths /\ HasVersion(q, Latest(copy, q))
    BY <1>1, <1>2, ManifestIs DEF CopyServed
  <2>2. Held(objects', q, Latest(copy, q))
    BY <1>6, <2>1
  <2> QED
    BY <1>1, <2>2 DEF HasVersion, Held
<1> QED
  BY <1>1, <1>6, <1>8, <1>9, <1>10, <1>11, ResyncStays DEF Inv

LEMMA UploadManifestInv ==
  ASSUME Inv, UploadManifest
  PROVE  Inv' /\ Pairs(copy) \subseteq Pairs(copy')
<1> DEFINE o == upload.host
<1>1. /\ UNCHANGED <<manifest, disk, objects, primary, resync, written>>
      /\ upload.pc = "put" /\ upload.todo = {} /\ copy' = manifest[o] /\ upload' = Idle
      /\ Typed /\ Histories /\ Published /\ Clean /\ UploadSure /\ ResyncSure
  BY DEF UploadManifest, Inv
<1>2. /\ upload # Idle /\ o \in Hosts /\ manifest[o] \in Seq(Entry) /\ copy \in Seq(Entry)
      /\ \A h \in Hosts : manifest[h] \in Seq(Entry)
  BY <1>1, StatesAre
<1>3. Pairs(copy) \subseteq Pairs(manifest[o]) /\ Pairs(copy) \subseteq Pairs(copy')
  BY <1>1, <1>2 DEF UploadSure
<1>4. ASSUME NEW h \in Hosts, NEW p, Lacks(h), Clash(h, p)
      PROVE  Lacks(h)' /\ Clash(h, p)'
  BY <1>1, <1>2, <1>3, <1>4, ClashKept DEF Lacks, Clash
<1>5. Typed'
  BY <1>1, <1>2 DEF Typed, UploadStates
<1>6. Histories'
  <2>1. Manifests' \subseteq Manifests
    BY <1>1, <1>2 DEF Manifests
  <2> QED
    BY <1>1, <2>1, HistoriesSame
<1>7. Published'
  BY <1>1, <1>3 DEF Published
<1>8. Clean'
  <2> SUFFICES ASSUME NEW h \in Hosts, NEW p \in Paths, disk[h][p] # Latest(manifest[h], p)
               PROVE  Lacks(h)' /\ Clash(h, p)'
    BY <1>1 DEF Clean
  <2> QED
    BY <1>1, <1>4 DEF Clean
<1>9. UploadSure'
  BY <1>1 DEF UploadSure
<1>10. ResyncSure'
  <2> SUFFICES ASSUME resync # Idle PROVE ResyncSure'
    BY <1>1 DEF ResyncSure
  <2>1. resync.host \in Hosts /\ resync' = resync
    BY <1>1, StatesAre
  <2>2. Plan'
    BY <1>1, <1>3 DEF ResyncSure, Plan
  <2>3. resync.pc = "planned" => Planned'
    BY <1>1 DEF ResyncSure, Planned, Arrived
  <2>4. ASSUME resync.pc \in {"replace", "delete", "cut"} PROVE Moving'
    <3>1. Moving
      BY <1>1, <2>4 DEF ResyncSure
    <3>2. PICK e \in Pairs(copy) : e \notin Pairs(manifest[resync.host])
      BY <3>1 DEF Moving, Lacks
    <3>3. Lacks(resync.host)'
      BY <1>1, <1>3, <3>2 DEF Lacks
    <3>4. ASSUME NEW p \in Paths, Latest(resync.bucket, p) # Latest(resync.lake, p)
          PROVE  Clash(resync.host, p)'
      BY <1>4, <2>1, <3>1, <3>4 DEF Moving
    <3>5. \A p \in Paths : Arrived(p)'
      BY <1>1, <3>1 DEF Moving, Arrived
    <3> QED
      BY <1>1, <3>1, <3>3, <3>4, <3>5 DEF Moving
  <2>5. resync.pc = "tail" => Rewriting'
    BY <1>1 DEF ResyncSure, Rewriting
  <2> QED
    BY <2>1, <2>2, <2>3, <2>4, <2>5 DEF ResyncSure
<1>11. CopyServed'
  <2> SUFFICES ASSUME NEW p \in Named(manifest[o]) PROVE HasVersion(p, Latest(manifest[o], p))
    BY <1>1 DEF CopyServed, HasVersion
  <2> QED
    BY <1>1, <1>2 DEF UploadSure
<1> QED
  BY <1>3, <1>5, <1>6, <1>7, <1>8, <1>9, <1>10, <1>11 DEF Inv

(* A file the plan leaves alone is what the bucket says, for its host's manifest    *)
(* and the bucket's end the same for it and its host is clean there.                *)
LEMMA PlanArrives ==
  ASSUME Typed, Clean, NEW h \in Hosts, NEW p \in Paths,
         p \notin Downloads(h), p \notin LakeOnly(h)
  PROVE  disk[h][p] = Latest(copy, p)
<1> DEFINE m == manifest[h]
           n == Shared(m, copy)
<1>1. m \in Seq(Entry) /\ copy \in Seq(Entry)
  BY StatesAre
<1>2. n \in 0..Len(m) /\ n \in 0..Len(copy) /\ Before(m, n) = Before(copy, n)
  BY <1>1, SharedIs, ManifestIs
<1>3. BucketTail(h) = After(copy, n) /\ LakeTail(h) = After(m, n)
  BY DEF BucketTail, LakeTail
<1> HIDE DEF n
<1>4. CASE p \in Named(After(copy, n)) \cup Named(After(m, n))
  <2>1. CASE Latest(copy, p) # None
    BY <1>3, <1>4, <2>1 DEF Downloads
  <2>2. CASE Latest(copy, p) = None
    <3>1. p \notin Named(After(copy, n))
      <4> SUFFICES ASSUME p \in Named(After(copy, n)) PROVE FALSE
        OBVIOUS
      <4>1. p \in Named(copy)
        BY <1>1, <1>2, RestLatest
      <4> QED
        BY <1>1, <2>2, <4>1, LatestIs
    <3>2. disk[h][p] = None
      BY <1>3, <1>4, <2>2, <3>1 DEF LakeOnly
    <3> QED
      BY <2>2, <3>2
  <2> QED
    BY <2>1, <2>2
<1>5. CASE p \notin Named(After(copy, n)) /\ p \notin Named(After(m, n))
  <2>1. Latest(copy, p) = Latest(Before(copy, n), p) /\ Latest(m, p) = Latest(Before(m, n), p)
    BY <1>1, <1>2, <1>5, RestSame
  <2>2. ~Clash(h, p)
    BY <1>2, <2>1 DEF Clash
  <2> QED
    BY <2>2 DEF Clean, Clash
<1> QED
  BY <1>4, <1>5

LEMMA ResyncPlanInv ==
  ASSUME Inv, NEW h \in Hosts, ResyncPlan(h)
  PROVE  Inv'
<1> DEFINE m == manifest[h]
           n == Shared(m, copy)
           plan == [pc |-> "planned", host |-> h, lake |-> m, bucket |-> copy, keep |-> n,
                    downloads |-> Downloads(h), deletions |-> LakeOnly(h)]
<1>1. /\ UNCHANGED <<manifest, disk, copy, objects, primary, upload, written>>
      /\ ~Level(h) /\ ~HandRepaired(h) /\ ~OnlyCopy(h) /\ resync' = plan
      /\ Typed /\ Histories /\ Clean /\ UploadSure
  BY DEF ResyncPlan, Inv
<1>2. m \in Seq(Entry) /\ copy \in Seq(Entry) /\ Len(m) \in Nat /\ Len(copy) \in Nat
  BY <1>1, StatesAre, ManifestIs
<1>3. n \in 0..Len(m) /\ n <= Len(copy) /\ n \in Nat /\ Before(m, n) = Before(copy, n)
  BY <1>2, SharedIs
<1>4. ~(Pairs(copy) \subseteq Pairs(m))
  BY <1>1, PlanLacks DEF Lacks
<1>5. Downloads(h) \subseteq Named(copy) /\ Downloads(h) \subseteq Paths
  BY <1>2, LatestIs, ManifestIs DEF Downloads
<1>6. LakeOnly(h) \subseteq Paths /\ LakeOnly(h) \cap (Captured \cup Named(copy)) = {}
  <2>1. LakeTail(h) \in Seq(Entry)
    BY <1>2, <1>3, AfterIs DEF LakeTail
  <2>2. LakeOnly(h) \subseteq Paths
    BY <2>1, ManifestIs DEF LakeOnly
  <2>3. \A p \in LakeOnly(h) : p \notin Named(copy)
    BY <1>2, LatestIs DEF LakeOnly
  <2> QED
    BY <1>1, <2>2, <2>3 DEF OnlyCopy
<1>7. \A p \in Paths : p \notin Downloads(h) /\ p \notin LakeOnly(h) => disk[h][p] = Latest(copy, p)
  BY <1>1, PlanArrives
<1>8. /\ plan.pc = "planned" /\ plan.host = h /\ plan.lake = m /\ plan.bucket = copy /\ plan.keep = n
      /\ plan.downloads = Downloads(h) /\ plan.deletions = LakeOnly(h)
  OBVIOUS
<1>9. plan \in ResyncStates
  <2>1. \A pc, host, lake, bucket, keep, downloads, deletions :
            /\ pc = "planned" /\ host \in Hosts /\ lake \in Seq(Entry) /\ bucket \in Seq(Entry)
            /\ keep \in Nat /\ downloads \in SUBSET Paths /\ deletions \in SUBSET Paths
            => [pc |-> pc, host |-> host, lake |-> lake, bucket |-> bucket, keep |-> keep,
                downloads |-> downloads, deletions |-> deletions] \in ResyncStates
    BY DEF ResyncStates
  <2> QED
    BY <1>2, <1>3, <1>5, <1>6, <2>1
<1> HIDE DEF plan
<1>10. Typed'
  BY <1>1, <1>8, <1>9 DEF Typed, Working
<1>11. UploadSure'
  BY <1>1 DEF UploadSure, HasVersion
<1>12. Plan'
  BY <1>1, <1>3, <1>4, <1>5, <1>6, <1>8 DEF Plan
<1>13. Planned'
  <2>1. Len(m) >= Len(m)
    BY <1>2
  <2>2. \A p \in Paths : Arrived(p)'
    BY <1>1, <1>7, <1>8 DEF Arrived
  <2> QED
    BY <1>1, <1>8, <2>1, <2>2 DEF Planned
<1>14. ResyncSure'
  BY <1>1, <1>8, <1>12, <1>13 DEF ResyncSure
<1>15. resync'.bucket \in Manifests
  BY <1>1, <1>8 DEF Manifests
<1> QED
  BY <1>1, <1>10, <1>11, <1>14, <1>15, RecordsStay DEF Inv

(* The step of a resync that keeps its plan.                                          *)
LEMMA StepKeeps ==
  ASSUME Typed, resync # Idle, NEW pc \in Working, resync' = [resync EXCEPT !.pc = pc]
  PROVE  /\ resync' \in ResyncStates /\ resync' # Idle /\ resync'.pc = pc
         /\ resync'.host = resync.host /\ resync'.lake = resync.lake /\ resync'.bucket = resync.bucket
         /\ resync'.keep = resync.keep /\ resync'.downloads = resync.downloads
         /\ resync'.deletions = resync.deletions
<1>1. resync \in [pc : {"planned"} \cup Working, host : Hosts, lake : Seq(Entry), bucket : Seq(Entry),
                  keep : Nat, downloads : SUBSET Paths, deletions : SUBSET Paths]
  BY DEF Typed, ResyncStates
<1>2. resync' \in [pc : {"planned"} \cup Working, host : Hosts, lake : Seq(Entry), bucket : Seq(Entry),
                   keep : Nat, downloads : SUBSET Paths, deletions : SUBSET Paths]
  BY <1>1
<1>3. resync' # Idle
  BY <1>1 DEF Idle, Working
<1> QED
  BY <1>1, <1>2, <1>3 DEF ResyncStates

(* A resync that stops leaves the rest as it is.                                      *)
LEMMA ResyncEnds ==
  ASSUME Inv, UNCHANGED <<manifest, disk, copy, objects, primary, upload, written>>, resync' = Idle
  PROVE  Inv'
<1>1. Typed'
  BY DEF Inv, Typed, ResyncStates, Idle, Working
<1>2. UploadSure' /\ ResyncSure'
  BY DEF Inv, UploadSure, ResyncSure, HasVersion
<1> QED
  BY <1>1, <1>2, RecordsStay DEF Inv

LEMMA ResyncLockInv ==
  ASSUME Inv, ResyncLock
  PROVE  Inv'
<1> DEFINE h == resync.host
<1>1. /\ UNCHANGED <<manifest, disk, copy, objects, primary, upload, written>>
      /\ resync.pc = "planned" /\ ~Locked(h)
      /\ Typed /\ UploadSure /\ ResyncSure
  BY DEF ResyncLock, Inv
<1>2. CASE resync' = Idle
  BY <1>1, <1>2, ResyncEnds
<1>3. CASE /\ manifest[h] = resync.lake /\ copy = resync.bucket
           /\ resync' = [resync EXCEPT !.pc = "replace"]
  <2>1. resync # Idle
    BY <1>1 DEF Idle
  <2>2. /\ resync' \in ResyncStates /\ resync' # Idle /\ resync'.pc = "replace"
        /\ resync'.host = resync.host /\ resync'.lake = resync.lake /\ resync'.bucket = resync.bucket
        /\ resync'.keep = resync.keep /\ resync'.downloads = resync.downloads
        /\ resync'.deletions = resync.deletions
    BY <1>1, <1>3, <2>1, StepKeeps DEF Working
  <2>3. upload # Idle => upload.host # h
    BY <1>1, <2>1, StatesAre, Unlocked
  <2>4. Typed'
    BY <1>1, <2>2, <2>3 DEF Typed
  <2>5. UploadSure'
    BY <1>1 DEF UploadSure, HasVersion
  <2>6. Plan /\ Planned
    BY <1>1, <2>1 DEF ResyncSure
  <2>7. Plan'
    BY <1>1, <2>2, <2>6 DEF Plan
  <2>8. Moving'
    <3>1. \A p \in Paths : Arrived(p)
      BY <1>3, <2>6 DEF Planned
    <3>2. ~(Pairs(copy) \subseteq Pairs(manifest[h]))
      BY <1>3, <2>6 DEF Plan
    <3> QED
      BY <1>1, <1>3, <2>2, <3>1, <3>2 DEF Moving, Lacks, Clash, Arrived
  <2>9. ResyncSure'
    BY <2>2, <2>7, <2>8 DEF ResyncSure
  <2>10. resync'.bucket \in Manifests
    BY <2>1, <2>2 DEF Manifests
  <2> QED
    BY <1>1, <2>4, <2>5, <2>9, <2>10, RecordsStay DEF Inv
<1> QED
  BY <1>2, <1>3 DEF ResyncLock, ResyncStep

(* What a manifest says last of a path was written.                                  *)
LEMMA LatestWritten ==
  ASSUME Typed, Histories, NEW m \in Manifests, NEW p
  PROVE  Latest(m, p) \in Content \cup {None}
<1>1. m \in Seq(Entry) /\ (\A e \in Pairs(m) : e.sha \in 1..written) /\ 1..written \subseteq Content
  BY StatesAre, ConstantsAssumption DEF Histories, Typed, Content
<1>2. CASE p \in Named(m)
  <2>1. [path |-> p, sha |-> Latest(m, p)] \in Pairs(m)
    BY <1>1, <1>2, LatestLast
  <2>2. [path |-> p, sha |-> Latest(m, p)].sha \in 1..written
    BY <1>1, <2>1
  <2> QED
    BY <1>1, <2>2
<1>3. CASE p \notin Named(m)
  BY <1>1, <1>3, LatestIs
<1> QED
  BY <1>2, <1>3

(* A resync that puts one of its files as the bucket has it, or takes it away where  *)
(* the bucket has none.                                                              *)
LEMMA FileStep ==
  ASSUME Inv, resync.pc \in {"replace", "delete"}, NEW p \in Paths,
         disk' = [disk EXCEPT ![resync.host][p] = Latest(resync.bucket, p)],
         UNCHANGED <<manifest, copy, objects, primary, upload, written>>,
         resync' \in ResyncStates, resync'.pc = resync.pc, resync'.host = resync.host,
         resync'.lake = resync.lake, resync'.bucket = resync.bucket, resync'.keep = resync.keep,
         resync'.downloads \subseteq resync.downloads, resync'.deletions \subseteq resync.deletions,
         (resync.downloads \cup resync.deletions) \ {p} \subseteq resync'.downloads \cup resync'.deletions
  PROVE  Inv'
<1> DEFINE h == resync.host
           b == resync.bucket
<1>1. /\ Typed /\ Histories /\ Published /\ Clean /\ UploadSure /\ ResyncSure /\ CopyServed
      /\ disk \in [Hosts -> [Paths -> Content \cup {None}]]
  BY DEF Inv, Typed
<1>2. /\ resync # Idle /\ resync' # Idle /\ h \in Hosts /\ resync.pc \in Working
      /\ resync.pc \notin {"planned", "tail", "cut"}
  BY <1>1, StatesAre DEF Idle, Working
<1>3. Plan /\ Moving
  BY <1>1, <1>2 DEF ResyncSure
<1>4. /\ disk'[h][p] = Latest(b, p)
      /\ \A o \in Hosts, q \in Paths : o # h \/ q # p => disk'[o][q] = disk[o][q]
  BY <1>1, <1>2
<1>5. Typed'
  <2>1. b \in Manifests
    BY <1>2 DEF Manifests
  <2>2. Latest(b, p) \in Content \cup {None}
    BY <1>1, <2>1, LatestWritten
  <2>3. disk' \in [Hosts -> [Paths -> Content \cup {None}]]
    BY <1>1, <1>2, <2>2
  <2> QED
    BY <1>1, <2>3 DEF Typed
<1>6. Histories'
  <2>1. Manifests' \subseteq Manifests
    BY <1>2 DEF Manifests
  <2> QED
    BY <1>1, <2>1, HistoriesSame
<1>7. Published' /\ UploadSure' /\ CopyServed'
  BY <1>1 DEF Published, UploadSure, CopyServed, HasVersion
<1>8. Clean'
  <2> SUFFICES ASSUME NEW o \in Hosts, NEW q \in Paths, disk'[o][q] # Latest(manifest[o], q)
               PROVE  Lacks(o) /\ Clash(o, q)
    BY DEF Clean, Lacks, Clash
  <2>1. CASE o # h \/ q # p
    BY <1>1, <1>4, <2>1 DEF Clean
  <2>2. CASE o = h /\ q = p
    BY <1>3, <1>4, <2>2 DEF Moving
  <2> QED
    BY <2>1, <2>2
<1>9. Plan'
  <2>1. resync.pc = "delete" => resync'.downloads = {}
    BY <1>3 DEF Plan
  <2> QED
    BY <1>2, <1>3, <2>1 DEF Plan
<1>10. Moving'
  <2>1. ASSUME NEW q \in Paths PROVE Arrived(q)'
    <3>1. Arrived(q)
      BY <1>3 DEF Moving
    <3>2. CASE q = p
      BY <1>4, <3>2 DEF Arrived
    <3>3. CASE q # p
      BY <1>2, <1>4, <3>1, <3>3 DEF Arrived
    <3> QED
      BY <3>2, <3>3
  <2> QED
    BY <1>3, <2>1 DEF Moving, Lacks, Clash
<1>11. ResyncSure'
  BY <1>2, <1>9, <1>10 DEF ResyncSure
<1> QED
  BY <1>5, <1>6, <1>7, <1>8, <1>11 DEF Inv

(* A resync that has done what a step asks goes on to the next.                      *)
LEMMA NextStep ==
  ASSUME Inv, UNCHANGED <<manifest, disk, copy, objects, primary, upload, written>>,
         \/ resync.pc = "replace" /\ resync.downloads = {} /\ ResyncStep("delete")
         \/ resync.pc = "delete" /\ resync.deletions = {} /\ ResyncStep("cut")
  PROVE  Inv'
<1>1. PICK pc \in {"delete", "cut"} : resync' = [resync EXCEPT !.pc = pc]
                                      /\ (pc = "cut" => resync.pc = "delete" /\ resync.deletions = {})
                                      /\ resync.pc \in {"replace", "delete"}
                                      /\ (resync.pc = "replace" => resync.downloads = {})
  BY DEF ResyncStep
<1>2. Typed /\ UploadSure /\ ResyncSure /\ resync # Idle /\ resync.pc \in Working
  BY <1>1 DEF Inv, Idle, Working
<1>3. /\ resync' \in ResyncStates /\ resync' # Idle /\ resync'.pc = pc
      /\ resync'.host = resync.host /\ resync'.lake = resync.lake /\ resync'.bucket = resync.bucket
      /\ resync'.keep = resync.keep /\ resync'.downloads = resync.downloads
      /\ resync'.deletions = resync.deletions
  BY <1>1, <1>2, StepKeeps DEF Working
<1>4. Plan /\ Moving
  BY <1>1, <1>2 DEF ResyncSure
<1>5. Typed'
  BY <1>2, <1>3 DEF Typed
<1>6. UploadSure'
  BY <1>2 DEF UploadSure, HasVersion
<1>7. Plan'
  <2>1. resync.downloads = {}
    BY <1>1, <1>4 DEF Plan
  <2> QED
    BY <1>1, <1>3, <1>4, <2>1 DEF Plan
<1>8. Moving'
  BY <1>3, <1>4 DEF Moving, Arrived, Lacks, Clash
<1>9. ResyncSure'
  BY <1>1, <1>3, <1>7, <1>8 DEF ResyncSure
<1>10. resync'.bucket \in Manifests
  BY <1>2, <1>3 DEF Manifests
<1> QED
  BY <1>5, <1>6, <1>9, <1>10, RecordsStay DEF Inv

LEMMA ResyncReplaceInv ==
  ASSUME Inv, ResyncReplace
  PROVE  /\ Inv'
         /\ \/ UNCHANGED disk
            \/ \E sha : \E h \in Hosts, p \in Paths : sha # None /\ disk' = [disk EXCEPT ![h][p] = sha]
<1>1. /\ UNCHANGED <<manifest, copy, objects, primary, upload, written>>
      /\ resync.pc = "replace" /\ Typed /\ ResyncSure
  BY DEF ResyncReplace, Inv
<1>2. CASE resync.downloads = {} /\ ResyncStep("delete") /\ UNCHANGED disk
  BY <1>1, <1>2, NextStep
<1>3. ASSUME NEW p \in resync.downloads,
             disk' = [disk EXCEPT ![resync.host][p] = Latest(resync.bucket, p)],
             resync' = [resync EXCEPT !.downloads = @ \ {p}]
      PROVE  /\ Inv' /\ resync.host \in Hosts /\ p \in Paths /\ Latest(resync.bucket, p) # None
  <2>1. /\ resync # Idle /\ resync.host \in Hosts /\ resync.bucket \in Seq(Entry)
        /\ resync.downloads \subseteq Paths /\ resync.deletions \subseteq Paths
    BY <1>1, StatesAre DEF Working
  <2>2. Plan
    BY <1>1, <2>1 DEF ResyncSure
  <2>3. p \in Paths /\ p \in Named(resync.bucket)
    BY <2>1, <2>2 DEF Plan
  <2>4. Latest(resync.bucket, p) # None
    BY <2>1, <2>3, LatestIs
  <2> DEFINE next == [resync EXCEPT !.downloads = @ \ {p}]
  <2>5. /\ next \in ResyncStates /\ next.pc = resync.pc /\ next.host = resync.host
        /\ next.lake = resync.lake /\ next.bucket = resync.bucket /\ next.keep = resync.keep
        /\ next.downloads = resync.downloads \ {p} /\ next.deletions = resync.deletions
    BY <1>1, <2>1 DEF Typed, ResyncStates
  <2> HIDE DEF next
  <2>6. resync' = next
    BY <1>3 DEF next
  <2>7. Inv'
    BY <1>1, <1>3, <2>3, <2>5, <2>6, FileStep
  <2> QED
    BY <2>1, <2>3, <2>4, <2>7
<1> QED
  BY <1>1, <1>2, <1>3 DEF ResyncReplace

LEMMA ResyncDeleteInv ==
  ASSUME Inv, ResyncDelete
  PROVE  /\ Inv'
         /\ \/ UNCHANGED disk
            \/ \E h \in Hosts, p \in Paths \ Captured : disk' = [disk EXCEPT ![h][p] = None]
<1>1. /\ UNCHANGED <<manifest, copy, objects, primary, upload, written>>
      /\ resync.pc = "delete" /\ Typed /\ ResyncSure
  BY DEF ResyncDelete, Inv
<1>2. CASE resync.deletions = {} /\ ResyncStep("cut") /\ UNCHANGED disk
  BY <1>1, <1>2, NextStep
<1>3. ASSUME NEW p \in resync.deletions,
             disk' = [disk EXCEPT ![resync.host][p] = None],
             resync' = [resync EXCEPT !.deletions = @ \ {p}]
      PROVE  /\ Inv' /\ resync.host \in Hosts /\ p \in Paths \ Captured
  <2>1. /\ resync # Idle /\ resync.host \in Hosts /\ resync.bucket \in Seq(Entry)
        /\ resync.downloads \subseteq Paths /\ resync.deletions \subseteq Paths
    BY <1>1, StatesAre DEF Working
  <2>2. Plan
    BY <1>1, <2>1 DEF ResyncSure
  <2>3. p \in Paths \ Captured /\ p \notin Named(resync.bucket)
    BY <2>1, <2>2 DEF Plan
  <2>4. Latest(resync.bucket, p) = None
    BY <2>1, <2>3, LatestIs
  <2> DEFINE next == [resync EXCEPT !.deletions = @ \ {p}]
  <2>5. /\ next \in ResyncStates /\ next.pc = resync.pc /\ next.host = resync.host
        /\ next.lake = resync.lake /\ next.bucket = resync.bucket /\ next.keep = resync.keep
        /\ next.downloads = resync.downloads /\ next.deletions = resync.deletions \ {p}
    BY <1>1, <2>1 DEF Typed, ResyncStates
  <2> HIDE DEF next
  <2>6. resync' = next /\ disk' = [disk EXCEPT ![resync.host][p] = Latest(resync.bucket, p)]
    BY <1>3, <2>4 DEF next
  <2>7. Inv'
    <3>1. (resync.downloads \cup resync.deletions) \ {p} \subseteq resync'.downloads \cup resync'.deletions
      BY <2>5, <2>6
    <3> QED
      BY <1>1, <2>3, <2>5, <2>6, <3>1, FileStep
  <2> QED
    BY <2>1, <2>3, <2>7
<1> QED
  BY <1>1, <1>2, <1>3 DEF ResyncDelete

(* A first part of the bucket's manifest, on a host whose files are the bucket's,    *)
(* is unfinished exactly where the bucket's last entry is missing.                   *)
LEMMA PartClean ==
  ASSUME NEW b \in Seq(Entry), NEW c \in Seq(Entry), Distinct(b), Distinct(c), Follows(b, c),
         Pairs(b) \subseteq Pairs(c), NEW n \in 0..Len(b), NEW p,
         Latest(b, p) # Latest(Before(b, n), p)
  PROVE  ~(Pairs(c) \subseteq Pairs(Before(b, n))) /\ Latest(c, p) # Latest(Before(b, n), p)
<1>1. Latest(c, p) # Latest(Before(b, n), p)
  BY PrefixClash
<1>2. p \in Named(After(b, n))
  BY RestSame
<1>3. PICK i \in (n + 1)..Len(b) : TRUE
  BY <1>2, RestLatest
<1>4. b[i] \notin Pairs(Before(b, n))
  BY PrefixDerived
<1>5. i \in 1..Len(b)
  BY ManifestIs
<1>6. b[i] \in Pairs(c)
  BY <1>5, ManifestIs
<1> QED
  BY <1>1, <1>4, <1>6

(* A resync that leaves its host with a first part of the bucket's manifest.         *)
LEMMA PartStep ==
  ASSUME Inv, resync.pc \in {"cut", "tail"}, NEW n \in 0..Len(resync.bucket),
         manifest' = [manifest EXCEPT ![resync.host] = Before(resync.bucket, n)],
         UNCHANGED <<disk, copy, objects, primary, upload, written>>,
         resync' \in ResyncStates, resync'.pc = "tail", resync'.host = resync.host,
         resync'.lake = resync.lake, resync'.bucket = resync.bucket, resync'.keep = resync.keep,
         resync'.downloads = resync.downloads, resync'.deletions = resync.deletions
  PROVE  Inv'
<1> DEFINE h == resync.host
           b == resync.bucket
           a == Before(b, n)
<1>1. /\ Typed /\ Histories /\ Published /\ Clean /\ UploadSure /\ ResyncSure /\ CopyServed
      /\ manifest \in [Hosts -> Seq(Entry)]
  BY DEF Inv, Typed
<1>2. /\ resync # Idle /\ resync' # Idle /\ h \in Hosts /\ resync.pc \in Working
      /\ b \in Seq(Entry) /\ copy \in Seq(Entry)
  BY <1>1, StatesAre DEF Idle, Working
<1>3. Plan
  BY <1>1, <1>2 DEF ResyncSure
<1>4. \A p \in Paths : disk[h][p] = Latest(b, p)
  <2>1. CASE resync.pc = "cut"
    <3>1. Moving /\ resync.downloads = {} /\ resync.deletions = {}
      BY <1>1, <1>2, <1>3, <2>1 DEF ResyncSure, Plan
    <3> QED
      BY <3>1 DEF Moving, Arrived
  <2>2. CASE resync.pc = "tail"
    BY <1>1, <1>2, <2>2 DEF ResyncSure, Rewriting
  <2> QED
    BY <2>1, <2>2
<1>5. b \in Manifests /\ copy \in Manifests
  BY <1>2 DEF Manifests
<1>6. Distinct(b) /\ Distinct(copy) /\ Follows(b, copy) /\ Pairs(b) \subseteq Pairs(copy)
  BY <1>1, <1>3, <1>5 DEF Histories, Plan
<1>7. a \in Seq(Entry) /\ Distinct(a) /\ Derived(a, b) /\ Pairs(a) \subseteq Pairs(copy)
  BY <1>2, <1>6, BeforeIs, PrefixDerived DEF Derived
<1>8. manifest'[h] = a /\ \A o \in Hosts : o # h => manifest'[o] = manifest[o]
  BY <1>1, <1>2
<1>9. Typed'
  BY <1>1, <1>2, <1>7 DEF Typed, Working
<1>10. Histories'
  <2> SUFFICES ASSUME NEW w \in Manifests'
               PROVE  w \in Seq(Entry) /\ Distinct(w) /\ \E w0 \in Manifests : Derived(w, w0)
    BY <1>1, HistoriesKept
  <2>1. w = a \/ w \in Manifests
    BY <1>2, <1>8 DEF Manifests
  <2> QED
    BY <1>1, <1>5, <1>7, <2>1, StatesAre, DerivedSelf DEF Histories
<1>11. Published'
  <2> SUFFICES ASSUME NEW o \in Hosts, NEW o1 \in Hosts, o # o1
               PROVE  Pairs(manifest'[o]) \cap Pairs(manifest'[o1]) \subseteq Pairs(copy)
    BY DEF Published
  <2>1. CASE o = h \/ o1 = h
    BY <1>7, <1>8, <2>1
  <2>2. CASE o # h /\ o1 # h
    BY <1>1, <1>8, <2>2 DEF Published
  <2> QED
    BY <2>1, <2>2
<1>12. Clean'
  <2> SUFFICES ASSUME NEW o \in Hosts, NEW p \in Paths, disk[o][p] # Latest(manifest'[o], p)
               PROVE  Lacks(o)' /\ Clash(o, p)'
    BY DEF Clean
  <2>1. CASE o # h
    BY <1>1, <1>8, <2>1 DEF Clean, Lacks, Clash
  <2>2. CASE o = h
    <3>1. Latest(b, p) # Latest(a, p)
      BY <1>4, <1>8, <2>2
    <3>2. ~(Pairs(copy) \subseteq Pairs(a)) /\ Latest(copy, p) # Latest(a, p)
      BY <1>2, <1>6, <3>1, PartClean
    <3> QED
      BY <1>8, <2>2, <3>2 DEF Lacks, Clash
  <2> QED
    BY <2>1, <2>2
<1>13. UploadSure'
  <2> SUFFICES ASSUME upload # Idle PROVE UploadSure'
    BY DEF UploadSure
  <2>1. upload.host \in Hosts /\ upload.host # h
    BY <1>1, <1>2, StatesAre DEF Typed
  <2>2. manifest'[upload.host] = manifest[upload.host]
    BY <1>8, <2>1
  <2> QED
    BY <1>1, <2>2 DEF UploadSure, HasVersion
<1>14. Plan'
  BY <1>3 DEF Plan
<1>15. Rewriting'
  BY <1>4, <1>8 DEF Rewriting
<1>16. ResyncSure'
  BY <1>14, <1>15 DEF ResyncSure
<1>17. CopyServed'
  BY <1>1 DEF CopyServed, HasVersion
<1> QED
  BY <1>9, <1>10, <1>11, <1>12, <1>13, <1>16, <1>17 DEF Inv

LEMMA ResyncCutInv ==
  ASSUME Inv, ResyncCut
  PROVE  Inv'
<1>1. /\ UNCHANGED <<disk, copy, objects, primary, upload, written>>
      /\ resync.pc = "cut" /\ resync' = [resync EXCEPT !.pc = "tail"]
      /\ manifest' = [manifest EXCEPT ![resync.host] = Before(@, resync.keep)]
      /\ Typed /\ ResyncSure /\ manifest \in [Hosts -> Seq(Entry)]
  BY DEF ResyncCut, ResyncStep, Inv, Typed
<1>2. /\ resync # Idle /\ resync.host \in Hosts /\ resync.bucket \in Seq(Entry) /\ resync.keep \in Nat
  BY <1>1, StatesAre DEF Working
<1>3. Plan /\ manifest[resync.host] = resync.lake
  BY <1>1, <1>2 DEF ResyncSure, Moving
<1>4. resync.keep \in 0..Len(resync.bucket) /\ Before(resync.lake, resync.keep) = Before(resync.bucket, resync.keep)
  BY <1>2, <1>3, ManifestIs DEF Plan
<1>5. manifest' = [manifest EXCEPT ![resync.host] = Before(resync.bucket, resync.keep)]
  BY <1>1, <1>2, <1>3, <1>4
<1>6. /\ resync' \in ResyncStates /\ resync'.pc = "tail"
      /\ resync'.host = resync.host /\ resync'.lake = resync.lake /\ resync'.bucket = resync.bucket
      /\ resync'.keep = resync.keep /\ resync'.downloads = resync.downloads
      /\ resync'.deletions = resync.deletions
  BY <1>1, <1>2, StepKeeps DEF Working
<1> QED
  BY <1>1, <1>4, <1>5, <1>6, PartStep

LEMMA ResyncTailInv ==
  ASSUME Inv, ResyncTail
  PROVE  Inv'
<1> DEFINE h == resync.host
           b == resync.bucket
           k == Len(manifest[h])
<1>1. /\ UNCHANGED <<disk, copy, objects, primary, upload, written>>
      /\ resync.pc = "tail" /\ Typed /\ ResyncSure /\ manifest \in [Hosts -> Seq(Entry)]
  BY DEF ResyncTail, Inv, Typed
<1>2. resync # Idle /\ resync \in ResyncStates /\ h \in Hosts /\ b \in Seq(Entry) /\ Len(b) \in Nat
  BY <1>1, StatesAre, ManifestIs DEF Typed, Working
<1>3. PICK n \in 0..Len(b) : manifest[h] = Before(b, n)
  BY <1>1, <1>2 DEF ResyncSure, Rewriting
<1>4. k = n
  BY <1>2, <1>3, BeforeIs
<1>5. CASE n < Len(b)
  <2>1. manifest' = [manifest EXCEPT ![h] = Append(@, b[n + 1])] /\ resync' = resync
    BY <1>4, <1>5 DEF ResyncTail
  <2>2. n + 1 \in 0..Len(b) /\ n + 1 \in 1..Len(b)
    BY <1>2, <1>5
  <2>3. b[n + 1] \in Entry
    BY <1>2, <2>2, ManifestIs
  <2>4. Append(Before(b, n), b[n + 1]) = Before(b, n + 1)
    <3> DEFINE old == Before(b, n)
               new == Before(b, n + 1)
               app == Append(old, b[n + 1])
    <3>1. old \in Seq(Entry) /\ Len(old) = n /\ \A i \in 1..n : old[i] = b[i]
      BY <1>2, BeforeIs
    <3>2. new \in Seq(Entry) /\ Len(new) = n + 1 /\ \A i \in 1..(n + 1) : new[i] = b[i]
      BY <1>2, <2>2, BeforeIs
    <3> HIDE DEF old, new
    <3>3. app \in Seq(Entry) /\ Len(app) = n + 1 /\ (\A i \in 1..n : app[i] = old[i]) /\ app[n + 1] = b[n + 1]
      BY <2>3, <3>1, AppendIs
    <3> HIDE DEF app
    <3>4. \A i \in 1..(n + 1) : app[i] = new[i]
      BY <1>2, <3>1, <3>2, <3>3
    <3>5. app = new
      BY <3>2, <3>3, <3>4, SeqEqual
    <3> QED
      BY <3>5 DEF app, old, new
  <2>5. manifest' = [manifest EXCEPT ![h] = Before(b, n + 1)]
    BY <1>1, <1>2, <1>3, <2>1, <2>4
  <2> QED
    BY <1>1, <1>2, <2>1, <2>2, <2>5, PartStep
<1>6. CASE ~(n < Len(b))
  <2>1. manifest' = manifest /\ resync' = Idle
    BY <1>4, <1>6 DEF ResyncTail
  <2> QED
    BY <1>1, <2>1, ResyncEnds
<1> QED
  BY <1>5, <1>6

LEMMA UploadDiesInv ==
  ASSUME Inv, UploadDies
  PROVE  Inv'
<1>1. UNCHANGED <<manifest, disk, copy, objects, primary, resync, written>> /\ upload' = Idle
  BY DEF UploadDies
<1>2. Typed' /\ UploadSure'
  BY <1>1 DEF Inv, Typed, UploadStates, UploadSure
<1> QED
  BY <1>1, <1>2, RecordsStay, BucketIsOne, ResyncStays DEF Inv

LEMMA ResyncDiesInv ==
  ASSUME Inv, ResyncDies
  PROVE  Inv'
  BY ResyncEnds DEF ResyncDies

LEMMA StutterInv ==
  ASSUME Inv, UNCHANGED vars
  PROVE  Inv'
<1>1. UNCHANGED <<manifest, disk, copy, objects, primary, upload, resync, written>>
  BY DEF vars
<1>2. Typed' /\ UploadSure'
  BY <1>1 DEF Inv, Typed, UploadSure, HasVersion
<1> QED
  BY <1>1, <1>2, RecordsStay, BucketIsOne, ResyncStays DEF Inv

LEMMA NextInv ==
  ASSUME Inv, [Next]_vars
  PROVE  Inv'
<1>1. ASSUME NEW h \in Hosts, NEW p \in Paths, Write(h, p) PROVE Inv'
  BY <1>1, WriteInv
<1>2. ASSUME NEW h \in Hosts, HandRepair(h) PROVE Inv'
  BY <1>2, HandRepairInv
<1>3. ASSUME NEW h \in Hosts, Handoff(h) PROVE Inv'
  BY <1>3, HandoffInv
<1>4. ASSUME NEW h \in Hosts, ResyncPlan(h) PROVE Inv'
  BY <1>4, ResyncPlanInv
<1>5. CASE NightlyBegin \/ FirstBegin
  BY <1>5, NightlyBeginInv, FirstBeginInv
<1>6. CASE UploadPut \/ UploadManifest
  BY <1>6, UploadPutInv, UploadManifestInv
<1>7. CASE ResyncRun
  BY <1>7, ResyncLockInv, ResyncReplaceInv, ResyncDeleteInv, ResyncCutInv, ResyncTailInv DEF ResyncRun
<1>8. CASE UploadDies \/ ResyncDies
  BY <1>8, UploadDiesInv, ResyncDiesInv
<1> QED
  BY <1>1, <1>2, <1>3, <1>4, <1>5, <1>6, <1>7, <1>8, StutterInv DEF Next

------------------------------------------------------------------------------
(* The promises. *)

LEMMA PromisesHold ==
  ASSUME Inv
  PROVE  RecordsServed
<1>1. TypeOK
  BY DEF Inv, Typed, TypeOK, Working
<1>2. LevelIsWhole
  BY LevelSure DEF Inv
<1> QED
  BY <1>1, <1>2 DEF Inv, RecordsServed

LEMMA CaptureStep ==
  ASSUME Inv, [Next]_vars
  PROVE  [\A p \in Captured : Somewhere(p) => Somewhere(p)']_vars
<1> SUFFICES ASSUME Next, NEW p \in Captured, Somewhere(p) PROVE Somewhere(p)'
  OBVIOUS
<1>1. p \in Paths /\ disk \in [Hosts -> [Paths -> Content \cup {None}]]
  BY DEF Paths, Inv, Typed
<1>2. CASE UNCHANGED <<disk, objects>>
  BY <1>2 DEF Somewhere
<1>3. ASSUME NEW h \in Hosts, NEW q \in Paths, NEW sha, objects' = objects,
             disk' = [disk EXCEPT ![h][q] = sha], sha # None \/ q # p
      PROVE  Somewhere(p)'
  <2>1. CASE objects[p] # <<>>
    BY <1>3, <2>1 DEF Somewhere
  <2>2. ASSUME NEW o \in Hosts, disk[o][p] # None PROVE disk'[o][p] # None
    BY <1>1, <1>3, <2>2
  <2> QED
    BY <2>1, <2>2 DEF Somewhere
<1>4. ASSUME NEW h \in Hosts, NEW q \in Paths, Write(h, q) PROVE Somewhere(p)'
  <2>1. written' # None /\ objects' = objects /\ disk' = [disk EXCEPT ![h][q] = written']
    BY <1>4, ConstantsAssumption DEF Write, Inv, Typed
  <2> QED
    BY <1>3, <2>1
<1>5. CASE ResyncReplace
  <2>1. objects' = objects
    BY <1>5 DEF ResyncReplace
  <2> QED
    BY <1>2, <1>3, <1>5, <2>1, ResyncReplaceInv
<1>6. CASE ResyncDelete
  <2>1. objects' = objects
    BY <1>6 DEF ResyncDelete
  <2>2. ASSUME NEW h \in Hosts, NEW q \in Paths \ Captured, disk' = [disk EXCEPT ![h][q] = None]
        PROVE  Somewhere(p)'
    BY <1>3, <2>1, <2>2
  <2> QED
    BY <1>2, <1>6, <2>1, <2>2, ResyncDeleteInv
<1>7. CASE UploadPut
  <2>1. disk' = disk /\ (objects[p] # <<>> => objects'[p] # <<>>)
    BY <1>1, <1>7, UploadPutInv DEF UploadPut
  <2> QED
    BY <2>1 DEF Somewhere
<1>8. CASE \/ \E h \in Hosts : HandRepair(h) \/ Handoff(h) \/ ResyncPlan(h)
           \/ NightlyBegin \/ FirstBegin \/ UploadManifest
           \/ ResyncLock \/ ResyncCut \/ ResyncTail \/ UploadDies \/ ResyncDies
  BY <1>2, <1>8 DEF HandRepair, Handoff, ResyncPlan, NightlyBegin, FirstBegin, UploadManifest,
                    ResyncLock, ResyncCut, ResyncTail, UploadDies, ResyncDies
<1> QED
  BY <1>4, <1>5, <1>6, <1>7, <1>8 DEF Next, ResyncRun

LEMMA NothingDroppedStep ==
  ASSUME Inv, [Next]_vars
  PROVE  [\A p \in Named(copy) : [path |-> p, sha |-> Latest(copy, p)] \in Pairs(copy')]_vars
<1> SUFFICES ASSUME Next, NEW p \in Named(copy)
             PROVE  [path |-> p, sha |-> Latest(copy, p)] \in Pairs(copy')
  OBVIOUS
<1>1. copy \in Seq(Entry)
  BY DEF Inv, Typed
<1>2. [path |-> p, sha |-> Latest(copy, p)] \in Pairs(copy)
  BY <1>1, LatestLast
<1>3. CASE UploadManifest
  BY <1>2, <1>3, UploadManifestInv
<1>4. CASE copy' = copy
  BY <1>2, <1>4
<1>5. copy' = copy \/ UploadManifest
  BY DEF Next, ResyncRun, Write, HandRepair, Handoff, ResyncPlan, NightlyBegin, FirstBegin, UploadPut,
         ResyncLock, ResyncReplace, ResyncDelete, ResyncCut, ResyncTail, UploadDies, ResyncDies
<1> QED
  BY <1>3, <1>4, <1>5

(* The inductive invariant: manifests that agree on what came before an entry,       *)
(* entries hosts share being published, and what an upload and a resync know at      *)
(* each step and would leave if they died there.                                     *)
THEOREM ResyncInvariant == Spec => []Inv
<1>1. Init => Inv
  BY InitInv
<1>2. Inv /\ [Next]_vars => Inv'
  BY NextInv
<1> QED
  BY <1>1, <1>2, PTL DEF Spec

(* A level host has on disk what its manifest says, and the bucket a version of      *)
(* every entry its manifest names last, for any hosts, deaths, repairs and handoffs. *)
THEOREM RecordsServedAlways == Spec => []RecordsServed
<1>1. Inv => RecordsServed
  BY PromisesHold
<1> QED
  BY <1>1, ResyncInvariant, PTL

(* No resync takes the last of a capture: what one host or the bucket has, one of    *)
(* them has after every step.                                                        *)
THEOREM CaptureStaysAlways == Spec => CaptureStays
<1>1. Inv /\ [Next]_vars => [\A p \in Captured : Somewhere(p) => Somewhere(p)']_vars
  BY CaptureStep
<1> QED
  BY <1>1, ResyncInvariant, PTL DEF Spec, CaptureStays

(* No upload, nightly or first, by whichever host, drops an entry the bucket's       *)
(* manifest had last of a path.                                                      *)
THEOREM NothingDroppedAlways == Spec => NothingDropped
<1>1. Inv /\ [Next]_vars =>
        [\A p \in Named(copy) : [path |-> p, sha |-> Latest(copy, p)] \in Pairs(copy')]_vars
  BY NothingDroppedStep
<1> QED
  BY <1>1, ResyncInvariant, PTL DEF Spec, NothingDropped

------------------------------------------------------------------------------
(* The live upload (LiveUpload). *)

OwedRecords == [rel : LiveSegments, since : Nat]
Rels(entries) == {o.rel : o \in entries}
Vanished == {v.rel : v \in vanished}

LiveTyped ==
    /\ lines \in Seq(Lines) /\ offset \in Nat /\ upsets \in 0..MaxUpsets /\ liveNow \in Nat
    /\ onDisk \in [LiveSegments -> {"none", "good", "rotten", "gone"}]
    /\ live \in [LiveSegments -> {"none", "good"}]
    /\ sealedRead \subseteq Partitions

(* Each owed segment is owed once, and is neither settled nor refused.     *)
OwedOnce ==
    /\ owed \subseteq OwedRecords
    /\ \A o \in owed : o.since <= liveNow
    /\ \A o, w \in owed : o.rel = w.rel => o = w
    /\ Owing \cap (done \cup refused) = {}

(* A line the manifest ever had is of a file that came, so capture and     *)
(* compaction do not write it again, and neither the line the read ended   *)
(* on.                                                                     *)
Came(line, files, days) ==
    /\ line \in LiveSegments => files[line] # "none"
    /\ line \in Partitions => line \in days
Landed(line) == Came(line, onDisk, sealedDays)
LandedOnce ==
    /\ \A i \in 1..Len(lines) : Landed(lines[i])
    /\ offset > 0 => anchor \in Lines /\ Landed(anchor)

(* While the manifest still has the line the read ended on, every line     *)
(* before it is accounted for.                                             *)
Known(line) ==
    /\ line \in LiveSegments =>
          line \in Owing \cup done \cup refused \cup Vanished \/ Partition[line] \in sealedRead
    /\ line \in Partitions => line \in sealedRead
Accounted == Anchored => \A i \in 1..offset : Known(lines[i])
Trusting == trusted => Anchored

(* What the thread has at hand it owes.                                    *)
AtHand == thread \in {"put", "head", "gone"} => sending.rel \in Owing

LiveInv ==
    /\ LiveTyped /\ OwedOnce /\ LandedOnce /\ Accounted /\ Trusting /\ AtHand /\ BehindHeard

LEMMA LiveInitInv == LiveInit => LiveInv
<1> SUFFICES ASSUME LiveInit PROVE LiveInv
  OBVIOUS
<1> USE LiveAssumption DEF LiveInit
<1>1. LiveTyped
  <2>1. lines \in Seq(Lines)
    OBVIOUS
  <2> QED
    BY <2>1 DEF LiveTyped
<1>2. OwedOnce
  BY DEF OwedOnce, Owing
<1>3. LandedOnce
  BY DEF LandedOnce
<1>4. Accounted /\ Trusting
  BY DEF Accounted, Trusting, Anchored
<1>5. AtHand /\ BehindHeard
  BY DEF AtHand, BehindHeard
<1> QED
  BY <1>1, <1>2, <1>3, <1>4, <1>5 DEF LiveInv

------------------------------------------------------------------------------
(* Reading the manifest. *)

LEMMA LinesAre ==
  ASSUME LiveTyped
  PROVE  Len(lines) \in Nat /\ \A i \in 1..Len(lines) : lines[i] \in Lines
BY DEF LiveTyped

(* A read leaves each owed segment owed once, and accounts for every line  *)
(* of the manifest.                                                        *)
Reads(m) ==
    /\ m.owed \subseteq OwedRecords
    /\ \A o \in m.owed : o.since <= liveNow
    /\ \A o, w \in m.owed : o.rel = w.rel => o = w
    /\ Rels(m.owed) \cap (done \cup refused) = {}
    /\ m.sealedRead \subseteq Partitions
    /\ \A i \in 1..Len(lines) :
          /\ lines[i] \in LiveSegments =>
                \/ lines[i] \in Rels(m.owed) \cup done \cup refused \cup Vanished
                \/ Partition[lines[i]] \in m.sealedRead
          /\ lines[i] \in Partitions => lines[i] \in m.sealedRead

LEMMA StartIs ==
  ASSUME LiveInv
  PROVE  /\ Start.from \in 0..Len(lines) /\ Start.sealedRead \subseteq Partitions
         /\ Start.owed \subseteq owed
         /\ \A i \in 1..Start.from :
              /\ lines[i] \in LiveSegments =>
                    \/ lines[i] \in Rels(Start.owed) \cup done \cup refused \cup Vanished
                    \/ Partition[lines[i]] \in Start.sealedRead
              /\ lines[i] \in Partitions => lines[i] \in Start.sealedRead
<1>0. Len(lines) \in Nat /\ offset \in Nat /\ sealedRead \subseteq Partitions
  BY LinesAre DEF LiveInv, LiveTyped
<1>1. CASE Anchored
  <2>1. Start = [from |-> offset, owed |-> owed, sealedRead |-> sealedRead]
    BY <1>1 DEF Start
  <2>2. offset \in 0..Len(lines)
    BY <1>0, <1>1 DEF Anchored
  <2>3. \A i \in 1..offset : Known(lines[i])
    BY <1>1 DEF LiveInv, Accounted
  <2> QED
    BY <1>0, <2>1, <2>2, <2>3 DEF Known, Rels, Owing
<1>2. CASE ~Anchored
  <2>1. Start = [from |-> 0, owed |-> {}, sealedRead |-> {}]
    BY <1>2 DEF Start
  <2> QED
    BY <1>0, <2>1
<1> QED
  BY <1>1, <1>2

LEMMA RereadIs ==
  ASSUME LiveInv
  PROVE  Reads(Reread)
<1> DEFINE read == {lines[i] : i \in (Start.from + 1)..Len(lines)}
           sealed == Start.sealedRead \cup (read \cap Partitions)
           new == {k \in read \cap LiveSegments : /\ k \notin refused \cup done
                                                  /\ Partition[k] \notin sealed
                                                  /\ \A o \in Start.owed : o.rel # k}
           kept == {o \in Start.owed : Partition[o.rel] \notin read}
           fresh == {[rel |-> k, since |-> liveNow] : k \in new}
<1>1. Reread = [owed |-> kept \cup fresh, sealedRead |-> sealed]
  BY DEF Reread, Considered
<1>2. /\ Len(lines) \in Nat /\ liveNow \in Nat
      /\ \A i \in 1..Len(lines) : lines[i] \in Lines
  BY LinesAre DEF LiveInv, LiveTyped
<1>3. /\ Start.from \in 0..Len(lines) /\ Start.sealedRead \subseteq Partitions
      /\ Start.owed \subseteq owed
      /\ \A i \in 1..Start.from :
              /\ lines[i] \in LiveSegments =>
                    \/ lines[i] \in Rels(Start.owed) \cup done \cup refused \cup Vanished
                    \/ Partition[lines[i]] \in Start.sealedRead
              /\ lines[i] \in Partitions => lines[i] \in Start.sealedRead
  BY StartIs
<1>4. /\ owed \subseteq OwedRecords /\ \A o \in owed : o.since <= liveNow
      /\ \A o, w \in owed : o.rel = w.rel => o = w
      /\ Owing \cap (done \cup refused) = {}
  BY DEF LiveInv, OwedOnce
<1>5. \A f \in fresh : f \in OwedRecords /\ f.since = liveNow /\ f.rel \in new
  BY <1>2 DEF OwedRecords
<1>6. kept \subseteq owed
  BY <1>3
<1>7. kept \cup fresh \subseteq OwedRecords /\ \A o \in kept \cup fresh : o.since <= liveNow
  BY <1>2, <1>4, <1>5, <1>6
<1>8. \A o, w \in kept \cup fresh : o.rel = w.rel => o = w
  <2>1. \A o, w \in kept : o.rel = w.rel => o = w
    BY <1>4, <1>6
  <2>2. \A o \in kept, f \in fresh : o.rel # f.rel
    BY <1>5
  <2>3. \A f, g \in fresh : f.rel = g.rel => f = g
    OBVIOUS
  <2> QED
    BY <2>1, <2>2, <2>3
<1>9. Rels(kept \cup fresh) \cap (done \cup refused) = {}
  BY <1>4, <1>5, <1>6 DEF Rels, Owing
<1>10. sealed \subseteq Partitions
  BY <1>3
<1>11. ASSUME NEW i \in 1..Len(lines), lines[i] \in Partitions
       PROVE  lines[i] \in sealed
  <2>1. CASE i <= Start.from
    BY <1>3, <1>11, <2>1
  <2>2. CASE ~(i <= Start.from)
    BY <1>2, <1>3, <1>11, <2>2
  <2> QED
    BY <2>1, <2>2
<1>12. \A o \in Start.owed : o.rel \in Rels(kept) \/ Partition[o.rel] \in sealed
  <2>1. \A o \in Start.owed : o.rel \in LiveSegments
    BY <1>3, <1>4 DEF OwedRecords
  <2>2. \A o \in Start.owed : Partition[o.rel] \in Partitions
    BY <2>1 DEF Partitions
  <2> QED
    BY <2>2 DEF Rels
<1>13. ASSUME NEW i \in 1..Len(lines), lines[i] \in LiveSegments
       PROVE  \/ lines[i] \in Rels(kept \cup fresh) \cup done \cup refused \cup Vanished
              \/ Partition[lines[i]] \in sealed
  <2>1. CASE i <= Start.from
    <3>1. \/ lines[i] \in Rels(Start.owed) \/ lines[i] \in done \cup refused \cup Vanished
          \/ Partition[lines[i]] \in Start.sealedRead
      BY <1>2, <1>3, <1>13, <2>1
    <3> QED
      BY <1>12, <3>1 DEF Rels
  <2>2. CASE ~(i <= Start.from)
    <3>1. lines[i] \in read \cap LiveSegments
      BY <1>2, <1>3, <1>13, <2>2
    <3>2. CASE lines[i] \in new
      <4>1. [rel |-> lines[i], since |-> liveNow] \in fresh
        BY Zenon, <3>2
      <4>2. [rel |-> lines[i], since |-> liveNow].rel = lines[i]
        OBVIOUS
      <4> QED
        BY <4>1, <4>2 DEF Rels
    <3>3. CASE \E o \in Start.owed : o.rel = lines[i]
      BY <1>12, <3>3 DEF Rels
    <3> QED
      BY <3>1, <3>2, <3>3
  <2> QED
    BY <2>1, <2>2
<1> QED
  BY <1>1, <1>7, <1>8, <1>9, <1>10, <1>11, <1>13 DEF Reads

------------------------------------------------------------------------------
(* What a step leaves alone. *)

ReadState == <<lines, offset, anchor, owed, sealedRead, done, refused, vanished, trusted>>

(* The thread's steps that neither read nor settle.                        *)
LEMMA ReadStateKept ==
  ASSUME LiveInv, UNCHANGED <<ReadState, onDisk, sealedDays>>, liveNow' \in Nat, liveNow <= liveNow'
  PROVE  OwedOnce' /\ LandedOnce' /\ Accounted' /\ Trusting'
<1> USE DEF LiveInv, ReadState
<1>1. OwedOnce'
  <2>1. \A o \in owed : o.since \in Nat
    BY DEF OwedOnce, OwedRecords
  <2>2. liveNow \in Nat
    BY DEF LiveTyped
  <2>3. \A o \in owed : o.since <= liveNow'
    BY <2>1, <2>2 DEF OwedOnce
  <2> QED
    BY <2>3 DEF OwedOnce, OwedRecords, Owing
<1>2. LandedOnce'
  BY DEF LandedOnce, Landed, Came
<1>3. Accounted' /\ Trusting'
  BY DEF Accounted, Trusting, Anchored, Known, Owing, Vanished
<1> QED
  BY <1>1, <1>2, <1>3

(* A read to the end of the manifest, with what it leaves owed or less.    *)
LEMMA ReadsToEnd ==
  ASSUME LiveInv, NEW m, Reads(m), NEW gone,
         UNCHANGED <<lines, onDisk, sealedDays, liveNow, done, refused>>,
         owed' = {o \in m.owed : o.rel # gone}, sealedRead' = m.sealedRead,
         offset' = Len(lines), anchor' = LastLine, trusted' = TRUE,
         Vanished \subseteq Vanished',
         gone \in Rels(m.owed) => gone \in Vanished' \/ Partition[gone] \in m.sealedRead
  PROVE  /\ OwedOnce' /\ LandedOnce' /\ Accounted' /\ Trusting'
         /\ offset' \in Nat /\ sealedRead' \subseteq Partitions
<1>0. Len(lines) \in Nat /\ \A i \in 1..Len(lines) : lines[i] \in Lines
  BY LinesAre DEF LiveInv
<1>1. OwedOnce'
  BY DEF OwedOnce, OwedRecords, Owing, Reads, Rels
<1>2. LandedOnce'
  <2>1. \A i \in 1..Len(lines) : Landed(lines[i])
    BY DEF LiveInv, LandedOnce
  <2>2. ASSUME Len(lines) > 0 PROVE LastLine \in Lines /\ Landed(LastLine)
    <3>1. lines # <<>> /\ Len(lines) \in 1..Len(lines)
      BY <1>0, <2>2
    <3> QED
      BY <1>0, <2>1, <3>1 DEF LastLine
  <2> QED
    BY <2>1, <2>2 DEF LandedOnce, Landed, Came
<1>3. Anchored'
  <2>1. CASE lines = <<>>
    BY <2>1 DEF Anchored
  <2>2. CASE lines # <<>>
    BY <1>0, <2>2 DEF Anchored, LastLine
  <2> QED
    BY <2>1, <2>2
<1>4. ASSUME NEW i \in 1..Len(lines) PROVE Known(lines[i])'
  <2>1. ASSUME lines[i] \in Rels(m.owed), lines[i] # gone PROVE lines[i] \in Owing'
    BY <2>1 DEF Rels, Owing
  <2>2. /\ lines[i] \in LiveSegments =>
              \/ lines[i] \in Rels(m.owed) \cup done \cup refused \cup Vanished
              \/ Partition[lines[i]] \in m.sealedRead
        /\ lines[i] \in Partitions => lines[i] \in m.sealedRead
    BY DEF Reads
  <2> QED
    BY <2>1, <2>2 DEF Known
<1>5. Accounted'
  BY <1>4 DEF Accounted
<1> QED
  BY <1>0, <1>1, <1>2, <1>3, <1>5 DEF Trusting, Reads

(* A segment that leaves what is owed for what is settled, refused or      *)
(* vanished, with no read.                                                 *)
LEMMA OwesLess ==
  ASSUME LiveInv, NEW gone,
         UNCHANGED <<lines, onDisk, sealedDays, liveNow, offset, anchor, trusted, sealedRead>>,
         owed' = {o \in owed : o.rel # gone},
         done \subseteq done', done' \subseteq done \cup {gone},
         refused \subseteq refused', refused' \subseteq refused \cup {gone},
         Vanished \subseteq Vanished',
         gone \in Owing => \/ gone \in done' \cup refused' \cup Vanished'
                           \/ Partition[gone] \in sealedRead
  PROVE  OwedOnce' /\ LandedOnce' /\ Accounted' /\ Trusting'
<1> USE DEF LiveInv
<1>1. OwedOnce'
  BY DEF OwedOnce, OwedRecords, Owing
<1>2. LandedOnce'
  BY DEF LandedOnce, Landed, Came
<1>3. Trusting' /\ Anchored' = Anchored
  BY DEF Trusting, Anchored
<1>4. ASSUME NEW line, Known(line) PROVE Known(line)'
  <2>1. line \in Owing /\ line # gone => line \in Owing'
    BY DEF Owing
  <2> QED
    BY <1>4, <2>1 DEF Known
<1>5. Accounted'
  BY <1>3, <1>4 DEF Accounted
<1> QED
  BY <1>1, <1>2, <1>3, <1>5

------------------------------------------------------------------------------
(* The thread's steps. *)

LEMMA UpsetIs == LiveTyped /\ Upset => upsets' \in 0..MaxUpsets
  BY LiveAssumption DEF LiveTyped, Upset

LEMMA PassBeginsInv == LiveInv /\ PassBegins => LiveInv'
<1> SUFFICES ASSUME LiveInv, PassBegins PROVE LiveInv'
  OBVIOUS
<1>0. LiveTyped /\ BehindHeard /\ AtHand
  BY DEF LiveInv
<1>1. /\ UNCHANGED <<lines, onDisk, sealedDays, live, liveNow, done, refused, vanished>>
      /\ UNCHANGED <<behind, pagedOn, began>>
      /\ thread = "waiting" /\ thread' \in {"waiting", "next"}
      /\ upsets' \in 0..MaxUpsets
  BY <1>0, LiveAssumption DEF PassBegins, worldVars, alarmVars, Upset, LiveTyped
<1>2. AtHand' /\ BehindHeard'
  BY <1>0, <1>1 DEF AtHand, BehindHeard
<1>3. CASE ReadTail
  <2>1. owed' = Reread.owed /\ sealedRead' = Reread.sealedRead /\ offset' = Len(lines)
        /\ anchor' = LastLine /\ trusted' = TRUE
    BY <1>3 DEF ReadTail
  <2>2. Reads(Reread)
    BY RereadIs
  <2>3. PICK gone : gone \notin LiveSegments
    BY LiveAssumption DEF Lines
  <2>4. gone \notin Rels(Reread.owed) /\ \A o \in Reread.owed : o.rel # gone
    BY <2>2, <2>3 DEF Reads, OwedRecords, Rels
  <2>5. owed' = {o \in Reread.owed : o.rel # gone}
    BY <2>1, <2>4
  <2>6. Vanished' = Vanished
    BY <1>1 DEF Vanished
  <2>7. /\ OwedOnce' /\ LandedOnce' /\ Accounted' /\ Trusting'
        /\ offset' \in Nat /\ sealedRead' \subseteq Partitions
    <3> DEFINE m == Reread
    <3>1. Reads(m) /\ sealedRead' = m.sealedRead /\ owed' = {o \in m.owed : o.rel # gone}
          /\ gone \notin Rels(m.owed)
      BY <2>1, <2>2, <2>4, <2>5
    <3> HIDE DEF m
    <3> QED
      BY <1>1, <2>1, <2>6, <3>1, ReadsToEnd
  <2> QED
    BY <1>0, <1>1, <1>2, <2>7 DEF LiveInv, LiveTyped
<1>4. CASE UNCHANGED <<owed, sealedRead, offset, anchor, trusted>>
  <2>1. OwedOnce' /\ LandedOnce' /\ Accounted' /\ Trusting'
    BY <1>0, <1>1, <1>4, ReadStateKept DEF ReadState, LiveTyped
  <2> QED
    BY <1>0, <1>1, <1>2, <1>4, <2>1 DEF LiveInv, LiveTyped
<1> QED
  BY <1>3, <1>4 DEF PassBegins

(* A step that changes neither what was read nor what is owed.             *)
LEMMA Idles ==
  ASSUME LiveInv, UNCHANGED <<ReadState, onDisk, sealedDays, live, liveNow, alarmVars>>,
         upsets' \in 0..MaxUpsets, AtHand'
  PROVE  LiveInv'
<1>1. LiveTyped /\ BehindHeard
  BY DEF LiveInv
<1>2. LiveTyped' /\ BehindHeard'
  BY <1>1 DEF LiveTyped, BehindHeard, ReadState, alarmVars
<1>3. OwedOnce' /\ LandedOnce' /\ Accounted' /\ Trusting'
  BY <1>1, ReadStateKept DEF LiveTyped
<1> QED
  BY <1>2, <1>3 DEF LiveInv

LEMMA PassEndsInv == LiveInv /\ PassEnds => LiveInv'
<1> SUFFICES ASSUME LiveInv, PassEnds PROVE LiveInv'
  OBVIOUS
<1>1. UNCHANGED <<ReadState, onDisk, sealedDays, live, liveNow, alarmVars, upsets>>
  BY DEF PassEnds, ReadState, worldVars
<1>2. upsets' \in 0..MaxUpsets /\ AtHand'
  BY <1>1 DEF LiveInv, LiveTyped, PassEnds, AtHand
<1> QED
  BY <1>1, <1>2, Idles

LEMMA SendNextInv == LiveInv /\ SendNext => LiveInv'
<1> SUFFICES ASSUME LiveInv, SendNext PROVE LiveInv'
  OBVIOUS
<1>1. /\ UNCHANGED <<ReadState, onDisk, sealedDays, live, liveNow, alarmVars>>
      /\ thread = "next"
  BY DEF SendNext, ReadState, worldVars
<1>2. upsets' \in 0..MaxUpsets
  BY LiveAssumption DEF SendNext, Upset, LiveInv, LiveTyped
<1>3. AtHand'
  <2>1. \/ thread' = "next"
        \/ \E k \in Owing, bytes \in {"none", "good", "rotten"} :
              sending' = [rel |-> k, bytes |-> bytes]
    BY <1>1 DEF SendNext
  <2>2. Owing' = Owing
    BY <1>1 DEF ReadState, Owing
  <2> QED
    BY <2>1, <2>2 DEF AtHand
<1> QED
  BY <1>1, <1>2, <1>3, Idles

LEMMA ThreadStopsInv == LiveInv /\ ThreadStops => LiveInv'
<1> SUFFICES ASSUME LiveInv, ThreadStops PROVE LiveInv'
  OBVIOUS
<1>1. UNCHANGED <<ReadState, onDisk, sealedDays, live, liveNow, alarmVars>>
  BY DEF ThreadStops, ReadState, worldVars
<1>2. upsets' \in 0..MaxUpsets
  BY UpsetIs DEF ThreadStops, LiveInv
<1>3. AtHand'
  <2>1. thread' = "stopped"
    BY DEF ThreadStops
  <2> QED
    BY <2>1 DEF AtHand
<1> QED
  BY <1>1, <1>2, <1>3, Idles

LEMMA SegmentGoneInv == LiveInv /\ SegmentGone => LiveInv'
<1> SUFFICES ASSUME LiveInv, SegmentGone PROVE LiveInv'
  OBVIOUS
<1>0. LiveTyped /\ AtHand /\ BehindHeard
  BY DEF LiveInv
<1>1. /\ UNCHANGED <<lines, onDisk, sealedDays, live, liveNow, done, refused>>
      /\ UNCHANGED <<behind, pagedOn, began>>
      /\ thread = "gone" /\ thread' = "next"
  BY DEF SegmentGone, worldVars, alarmVars
<1> DEFINE gone == sending.rel
<1>2. PICK read \in BOOLEAN :
        LET m == AfterGone(read) IN
        /\ IF read
           THEN offset' = Len(lines) /\ anchor' = LastLine /\ trusted' = TRUE /\ UNCHANGED upsets
           ELSE Upset /\ UNCHANGED <<offset, anchor, trusted>>
        /\ sealedRead' = m.sealedRead
        /\ owed' = {o \in m.owed : o.rel # gone}
        /\ vanished' = IF Partition[gone] \notin m.sealedRead /\ owed' # m.owed
                       THEN vanished \cup {[rel |-> gone, read |-> read]} ELSE vanished
  BY DEF SegmentGone
<1> DEFINE m == AfterGone(read)
<1>3. /\ sealedRead' = m.sealedRead
      /\ owed' = {o \in m.owed : o.rel # gone}
      /\ vanished' = IF Partition[gone] \notin m.sealedRead /\ owed' # m.owed
                     THEN vanished \cup {[rel |-> gone, read |-> read]} ELSE vanished
  BY <1>2
<1>4. AtHand' /\ BehindHeard'
  BY <1>0, <1>1 DEF AtHand, BehindHeard
<1>5. CASE read
  <2>1. m = Reread
    BY <1>5 DEF AfterGone
  <2>2. Reads(m)
    BY <2>1, RereadIs
  <2>3. offset' = Len(lines) /\ anchor' = LastLine /\ trusted' = TRUE /\ upsets' = upsets
    BY <1>2, <1>5
  <2> HIDE DEF m, gone
  <2>4. Vanished \subseteq Vanished'
    BY <1>3 DEF Vanished
  <2>5. gone \in Rels(m.owed) => gone \in Vanished' \/ Partition[gone] \in m.sealedRead
    <3> SUFFICES ASSUME gone \in Rels(m.owed), Partition[gone] \notin m.sealedRead
                 PROVE  gone \in Vanished'
      OBVIOUS
    <3>1. owed' # m.owed
      BY <1>3 DEF Rels
    <3>2. [rel |-> gone, read |-> read] \in vanished'
      BY <1>3, <3>1
    <3> QED
      BY <3>2 DEF Vanished
  <2>6. /\ OwedOnce' /\ LandedOnce' /\ Accounted' /\ Trusting'
        /\ offset' \in Nat /\ sealedRead' \subseteq Partitions
    BY <1>1, <1>3, <2>2, <2>3, <2>4, <2>5, ReadsToEnd
  <2> QED
    BY <1>0, <1>1, <1>4, <2>3, <2>6 DEF LiveInv, LiveTyped
<1>6. CASE ~read
  <2>1. m = [owed |-> owed, sealedRead |-> sealedRead]
    BY <1>6 DEF AfterGone
  <2>2. m.owed = owed /\ m.sealedRead = sealedRead
    BY <2>1
  <2>3. UNCHANGED <<offset, anchor, trusted>> /\ Upset
    BY <1>2, <1>6
  <2> HIDE DEF m, gone
  <2>4. Vanished \subseteq Vanished'
    BY <1>3 DEF Vanished
  <2>5. gone \in Owing => gone \in Vanished' \/ Partition[gone] \in sealedRead
    <3> SUFFICES ASSUME gone \in Owing, Partition[gone] \notin sealedRead
                 PROVE  gone \in Vanished'
      OBVIOUS
    <3>1. owed' # owed
      BY <1>3, <2>2 DEF Owing
    <3>2. [rel |-> gone, read |-> read] \in vanished'
      BY <1>3, <2>2, <3>1
    <3> QED
      BY <3>2 DEF Vanished
  <2>6. OwedOnce' /\ LandedOnce' /\ Accounted' /\ Trusting'
    BY <1>1, <1>3, <2>2, <2>3, <2>4, <2>5, OwesLess
  <2>7. upsets' \in 0..MaxUpsets
    BY <1>0, <2>3, LiveAssumption DEF Upset, LiveTyped
  <2> QED
    BY <1>0, <1>1, <1>3, <1>4, <2>2, <2>3, <2>6, <2>7 DEF LiveInv, LiveTyped
<1> QED
  BY <1>5, <1>6

(* What a request's answer does to what is owed.                           *)
LEMMA AnswerInv ==
  ASSUME LiveInv, thread \in {"put", "head"}, Settle \/ Refuse \/ Retry,
         UNCHANGED <<lines, onDisk, sealedDays, liveNow, offset, anchor, trusted, sealedRead,
                     vanished>>
  PROVE  OwedOnce' /\ LandedOnce' /\ Accounted' /\ Trusting' /\ AtHand'
<1>1. AtHand'
  BY DEF Settle, Refuse, Retry, AtHand
<1>2. Vanished' = Vanished
  BY DEF Vanished
<1>3. sending.rel \in Owing
  BY DEF LiveInv, AtHand
<1>4. CASE Settle
  <2>1. done' = done \cup {sending.rel} /\ refused' = refused
        /\ owed' = {o \in owed : o.rel # sending.rel}
    BY <1>3, <1>4 DEF Settle, Without
  <2> QED
    BY <1>1, <1>2, <2>1, OwesLess
<1>5. CASE Refuse
  <2>1. refused' = refused \cup {sending.rel} /\ done' = done
        /\ owed' = {o \in owed : o.rel # sending.rel}
    BY <1>5 DEF Refuse, Without
  <2> QED
    BY <1>1, <1>2, <2>1, OwesLess
<1>6. CASE Retry
  <2>1. UNCHANGED ReadState /\ liveNow' = liveNow /\ liveNow \in Nat
    BY <1>6 DEF Retry, ReadState, LiveInv, LiveTyped
  <2> QED
    BY <1>1, <2>1, ReadStateKept
<1> QED
  BY <1>4, <1>5, <1>6

LEMMA PutSegmentInv == LiveInv /\ PutSegment => LiveInv'
<1> SUFFICES ASSUME LiveInv, PutSegment PROVE LiveInv'
  OBVIOUS
<1>0. LiveTyped /\ AtHand /\ BehindHeard
  BY DEF LiveInv
<1>1. /\ UNCHANGED <<lines, onDisk, sealedDays, liveNow, offset, anchor, trusted, sealedRead,
                     vanished>>
      /\ UNCHANGED <<behind, pagedOn, began>>
      /\ thread = "put"
  BY DEF PutSegment, alarmVars
<1>2. upsets' \in 0..MaxUpsets
  BY <1>0, LiveAssumption DEF PutSegment, Upset, LiveTyped
<1>3. live' \in [LiveSegments -> {"none", "good"}]
  <2>1. live' = live \/ (Stores(sending.rel, sending.bytes)
                         /\ live' = [live EXCEPT ![sending.rel] = sending.bytes])
    BY DEF PutSegment
  <2> QED
    BY <1>0, <2>1 DEF Stores, LiveTyped
<1>4. LiveTyped' /\ BehindHeard'
  BY <1>0, <1>1, <1>2, <1>3 DEF LiveTyped, BehindHeard
<1>5. CASE Settle \/ Refuse \/ Retry
  BY <1>1, <1>4, <1>5, AnswerInv DEF LiveInv
<1>6. CASE thread' = "head" /\ UNCHANGED <<sending, owed, done, refused>>
  <2>1. UNCHANGED ReadState /\ liveNow \in Nat
    BY <1>0, <1>1, <1>6 DEF ReadState, LiveTyped
  <2>2. OwedOnce' /\ LandedOnce' /\ Accounted' /\ Trusting'
    BY <1>1, <2>1, ReadStateKept
  <2>3. AtHand'
    BY <1>0, <1>1, <1>6 DEF AtHand, Owing
  <2> QED
    BY <1>4, <2>2, <2>3 DEF LiveInv
<1> QED
  BY <1>5, <1>6 DEF PutSegment

LEMMA HeadSegmentInv == LiveInv /\ HeadSegment => LiveInv'
<1> SUFFICES ASSUME LiveInv, HeadSegment PROVE LiveInv'
  OBVIOUS
<1>0. LiveTyped /\ BehindHeard
  BY DEF LiveInv
<1>1. /\ UNCHANGED <<lines, onDisk, sealedDays, liveNow, offset, anchor, trusted, sealedRead,
                     vanished>>
      /\ UNCHANGED <<live, behind, pagedOn, began>>
      /\ thread = "head" /\ (Settle \/ Refuse \/ Retry)
  BY DEF HeadSegment, alarmVars, worldVars
<1>2. upsets' \in 0..MaxUpsets
  BY <1>0, LiveAssumption DEF HeadSegment, Upset, LiveTyped
<1>3. LiveTyped' /\ BehindHeard'
  BY <1>0, <1>1, <1>2 DEF LiveTyped, BehindHeard
<1> QED
  BY <1>1, <1>3, AnswerInv DEF LiveInv

------------------------------------------------------------------------------
(* The alarm, the world beside the thread, and a restart. *)

LEMMA LiveTickInv == LiveInv /\ LiveTick => LiveInv'
<1> SUFFICES ASSUME LiveInv, LiveTick PROVE LiveInv'
  OBVIOUS
<1>0. LiveTyped /\ AtHand /\ BehindHeard
  BY DEF LiveInv
<1>1. /\ UNCHANGED <<ReadState, onDisk, sealedDays, live, thread, sending, upsets>>
      /\ liveNow' = liveNow + 1
  BY DEF LiveTick, worldVars, threadVars, ReadState
<1>2. liveNow' \in Nat /\ liveNow <= liveNow'
  BY <1>0, <1>1 DEF LiveTyped
<1>3. OwedOnce' /\ LandedOnce' /\ Accounted' /\ Trusting'
  BY <1>1, <1>2, ReadStateKept
<1>4. LiveTyped'
  BY <1>0, <1>1, <1>2 DEF LiveTyped, ReadState
<1>5. AtHand'
  BY <1>0, <1>1 DEF AtHand, ReadState, Owing
<1>6. BehindHeard'
  <2> DEFINE day == liveNow' \div DateTicks
             falls == thread # "not started" /\ FallenBehind(liveNow')
  <2>1. /\ behind' = falls
        /\ pagedOn' = IF PagesBehind(falls, day) THEN day ELSE pagedOn
        /\ began' = IF falls /\ ~behind THEN day ELSE began
    BY DEF LiveTick
  <2> HIDE DEF day, falls
  <2> QED
    BY <1>0, <2>1 DEF PagesBehind, BehindHeard
<1> QED
  BY <1>3, <1>4, <1>5, <1>6 DEF LiveInv

CameNow(line) == Came(line, onDisk', sealedDays')

(* Lines that keep each line the read looked at, or lose the one it ended  *)
(* on for good.                                                            *)
LEMMA WorldInv ==
  ASSUME LiveInv,
         UNCHANGED <<alarmVars, liveNow, thread, sending, offset, anchor, owed, sealedRead, done,
                     refused, vanished>>,
         LiveTyped',
         \A i \in 1..Len(lines') : CameNow(lines'[i]),
         \A line : Landed(line) => CameNow(line),
         Anchored' => Anchored /\ \A i \in 1..offset : lines'[i] = lines[i],
         trusted' => trusted, trusted' /\ Anchored => Anchored'
  PROVE  LiveInv'
<1> USE DEF LiveInv
<1>1. OwedOnce'
  BY DEF OwedOnce, OwedRecords, Owing
<1>2. LandedOnce'
  BY DEF LandedOnce, Landed, CameNow
<1>3. \A line : Known(line)' <=> Known(line)
  BY DEF Known, Owing, Vanished
<1>4. Accounted'
  BY <1>3 DEF Accounted
<1>5. Trusting' /\ AtHand' /\ BehindHeard'
  BY DEF Trusting, AtHand, BehindHeard, Owing, alarmVars
<1> QED
  BY <1>1, <1>2, <1>4, <1>5

LEMMA AppendInv ==
  ASSUME LiveInv, NEW line \in Lines, ~Landed(line), lines' = Append(lines, line),
         UNCHANGED <<alarmVars, liveNow, thread, sending, offset, anchor, owed, sealedRead, done,
                     refused, vanished, live, upsets, trusted>>,
         onDisk' \in [LiveSegments -> {"none", "good", "rotten", "gone"}],
         \A x : Landed(x) => CameNow(x), CameNow(line)
  PROVE  LiveInv'
<1>0. Len(lines) \in Nat /\ lines \in Seq(Lines) /\ offset \in Nat
  BY LinesAre DEF LiveInv, LiveTyped
<1>1. /\ lines' \in Seq(Lines) /\ Len(lines') = Len(lines) + 1
      /\ \A i \in 1..Len(lines) : lines'[i] = lines[i]
      /\ lines'[Len(lines) + 1] = line
  BY <1>0, AppendProperties
<1>2. LiveTyped'
  BY <1>1 DEF LiveInv, LiveTyped
<1>3. \A i \in 1..Len(lines') : CameNow(lines'[i])
  <2>1. \A i \in 1..Len(lines) : Landed(lines[i])
    BY DEF LiveInv, LandedOnce
  <2>2. \A i \in 1..Len(lines') : i \in 1..Len(lines) \/ i = Len(lines) + 1
    BY <1>0, <1>1
  <2>3. ASSUME NEW i \in 1..Len(lines') PROVE CameNow(lines'[i])
    <3>1. CASE i \in 1..Len(lines)
      BY <1>1, <2>1, <3>1
    <3>2. CASE i = Len(lines) + 1
      BY <1>1, <3>2
    <3> QED
      BY <2>2, <3>1, <3>2
  <2> QED
    BY <2>3
<1>4. offset > 0 => anchor # line
  BY DEF LiveInv, LandedOnce
<1>5. Anchored' => Anchored /\ \A i \in 1..offset : lines'[i] = lines[i]
  <2> SUFFICES ASSUME Anchored' PROVE Anchored /\ \A i \in 1..offset : lines'[i] = lines[i]
    OBVIOUS
  <2>1. CASE offset = 0
    <3>1. 1..offset = {}
      BY <2>1
    <3> QED
      BY <2>1, <3>1 DEF Anchored
  <2>2. CASE offset > 0
    <3>0. offset # 0 /\ offset' = offset /\ anchor' = anchor
      BY <1>0, <2>2
    <3>1. offset <= Len(lines) + 1 /\ lines'[offset] = anchor
      BY <1>1, <3>0 DEF Anchored
    <3>2. offset # Len(lines) + 1
      BY <1>1, <1>4, <2>2, <3>1
    <3>3. offset \in 1..Len(lines)
      BY <1>0, <2>2, <3>1, <3>2
    <3> QED
      BY <1>0, <1>1, <3>1, <3>3 DEF Anchored
  <2>3. offset = 0 \/ offset > 0
    BY <1>0
  <2> QED
    BY <2>1, <2>2, <2>3
<1>6. Anchored => Anchored'
  BY <1>0, <1>1 DEF Anchored
<1> QED
  BY <1>2, <1>3, <1>5, <1>6, WorldInv

LEMMA SegmentLandsInv ==
  ASSUME LiveInv, NEW k \in LiveSegments, SegmentLands(k),
         UNCHANGED <<alarmVars, liveNow, thread, sending, offset, anchor, owed, sealedRead, done,
                     refused, vanished>>
  PROVE  LiveInv'
<1>1. onDisk \in [LiveSegments -> {"none", "good", "rotten", "gone"}] /\ k \in Lines
  BY DEF LiveInv, LiveTyped, Lines
<1>2. /\ onDisk[k] = "none" /\ onDisk' = [onDisk EXCEPT ![k] = "good"]
      /\ lines' = Append(lines, k) /\ UNCHANGED <<sealedDays, live, upsets, trusted>>
  BY DEF SegmentLands
<1>3. ~Landed(k)
  BY <1>2 DEF Landed, Came
<1>4. onDisk' \in [LiveSegments -> {"none", "good", "rotten", "gone"}]
      /\ \A x \in LiveSegments : onDisk'[x] = IF x = k THEN "good" ELSE onDisk[x]
  BY <1>1, <1>2
<1>5. \A x : Landed(x) => CameNow(x)
  BY <1>2, <1>4 DEF Landed, CameNow, Came
<1>6. CameNow(k)
  BY <1>4, LiveAssumption DEF CameNow, Came
<1> QED
  BY <1>1, <1>2, <1>3, <1>4, <1>5, <1>6, AppendInv

LEMMA SealPartitionInv ==
  ASSUME LiveInv, NEW p \in Partitions, SealPartition(p),
         UNCHANGED <<alarmVars, liveNow, thread, sending, offset, anchor, owed, sealedRead, done,
                     refused, vanished>>
  PROVE  LiveInv'
<1>1. onDisk \in [LiveSegments -> {"none", "good", "rotten", "gone"}] /\ p \in Lines
  BY DEF LiveInv, LiveTyped, Lines
<1>2. /\ p \notin sealedDays /\ sealedDays' = sealedDays \cup {p}
      /\ lines' = Append(lines, p) /\ UNCHANGED <<onDisk, live, upsets, trusted>>
  BY DEF SealPartition
<1>3. ~Landed(p)
  BY <1>2 DEF Landed, Came
<1>4. \A x : Landed(x) => CameNow(x)
  BY <1>2 DEF Landed, CameNow, Came
<1>5. CameNow(p)
  BY <1>2, LiveAssumption DEF CameNow, Came
<1> QED
  BY <1>1, <1>2, <1>3, <1>4, <1>5, AppendInv

(* A file that comes to no harm the lines could tell, or an object that    *)
(* expires.                                                                *)
LEMMA StillInv ==
  ASSUME LiveInv,
         UNCHANGED <<alarmVars, liveNow, thread, sending, offset, anchor, owed, sealedRead, done,
                     refused, vanished, lines, sealedDays, trusted>>,
         onDisk' \in [LiveSegments -> {"none", "good", "rotten", "gone"}],
         \A x \in LiveSegments : onDisk[x] # "none" => onDisk'[x] # "none",
         live' \in [LiveSegments -> {"none", "good"}], upsets' \in 0..MaxUpsets
  PROVE  LiveInv'
<1>1. LiveTyped'
  BY DEF LiveInv, LiveTyped
<1>2. \A x : Landed(x) => CameNow(x)
  BY DEF Landed, CameNow, Came
<1>3. \A i \in 1..Len(lines') : CameNow(lines'[i])
  BY <1>2 DEF LiveInv, LandedOnce
<1>4. Anchored' = Anchored
  BY DEF Anchored
<1> QED
  BY <1>1, <1>2, <1>3, <1>4, WorldInv

LEMMA CutBackInv ==
  ASSUME LiveInv, CutBack,
         UNCHANGED <<alarmVars, liveNow, thread, sending, offset, anchor, owed, sealedRead, done,
                     refused, vanished>>
  PROVE  LiveInv'
<1>0. Len(lines) \in Nat /\ lines \in Seq(Lines) /\ offset \in Nat
  BY LinesAre DEF LiveInv, LiveTyped
<1>1. PICK n \in 0..(Len(lines) - 1) : lines' = SubSeq(lines, 1, n)
  BY DEF CutBack
<1>2. ~trusted' /\ UNCHANGED <<onDisk, sealedDays, live>> /\ upsets' \in 0..MaxUpsets
  BY UpsetIs DEF CutBack, LiveInv
<1>3. \A i \in 1..n : lines[i] \in Lines /\ i \in 1..Len(lines)
  BY <1>0
<1>4. n \in Nat /\ n <= Len(lines)
  BY <1>0
<1>5. lines' \in Seq(Lines) /\ Len(lines') = n
  BY <1>0, <1>1, <1>3, <1>4, SubSeqProperties
<1>6. \A i \in 1..n : lines'[i] = lines[i]
  BY <1>0, <1>1, <1>3, <1>4, SubSeqProperties
<1>7. LiveTyped'
  BY <1>2, <1>5 DEF LiveInv, LiveTyped
<1>8. \A x : Landed(x) => CameNow(x)
  BY <1>2 DEF Landed, CameNow
<1>9. \A i \in 1..Len(lines') : CameNow(lines'[i])
  BY <1>3, <1>5, <1>6, <1>8 DEF LiveInv, LandedOnce
<1>10. Anchored' => Anchored /\ \A i \in 1..offset : lines'[i] = lines[i]
  <2> SUFFICES ASSUME Anchored' PROVE Anchored /\ \A i \in 1..offset : lines'[i] = lines[i]
    OBVIOUS
  <2>1. CASE offset = 0
    <3>1. 1..offset = {}
      BY <2>1
    <3> QED
      BY <2>1, <3>1 DEF Anchored
  <2>2. CASE offset # 0
    <3>1. offset <= n /\ lines'[offset] = anchor
      BY <1>5, <2>2 DEF Anchored
    <3>2. offset \in 1..n
      BY <1>0, <2>2, <3>1
    <3> QED
      BY <1>0, <1>4, <1>6, <3>1, <3>2 DEF Anchored
  <2> QED
    BY <2>1, <2>2
<1> QED
  BY <1>2, <1>7, <1>8, <1>9, <1>10, WorldInv

LEMMA LiveWorldInv == LiveInv /\ LiveWorld => LiveInv'
<1> SUFFICES ASSUME LiveInv, LiveWorld PROVE LiveInv'
  OBVIOUS
<1>0. /\ onDisk \in [LiveSegments -> {"none", "good", "rotten", "gone"}]
      /\ live \in [LiveSegments -> {"none", "good"}] /\ upsets \in 0..MaxUpsets
  BY DEF LiveInv, LiveTyped
<1>1. UNCHANGED <<alarmVars, liveNow, thread, sending, offset, anchor, owed, sealedRead, done,
                  refused, vanished>>
  BY DEF LiveWorld
<1>2. CASE CutBack
  BY <1>1, <1>2, CutBackInv
<1>3. CASE \E p \in Partitions : SealPartition(p)
  BY <1>1, <1>3, SealPartitionInv
<1>4. CASE \E k \in LiveSegments : SegmentLands(k)
  BY <1>1, <1>4, SegmentLandsInv
<1>5. ASSUME NEW k \in LiveSegments, SegmentUnlinked(k) PROVE LiveInv'
  BY <1>0, <1>1, <1>5, StillInv DEF SegmentUnlinked
<1>6. ASSUME NEW k \in LiveSegments, DiskFault(k) PROVE LiveInv'
  <2>1. UNCHANGED <<lines, sealedDays, live, trusted>> /\ upsets' \in 0..MaxUpsets
    BY <1>6, UpsetIs DEF DiskFault, LiveInv
  <2>2. PICK bytes \in {"rotten", "gone"} : onDisk' = [onDisk EXCEPT ![k] = bytes]
    BY <1>6 DEF DiskFault
  <2> QED
    BY <1>0, <1>1, <2>1, <2>2, StillInv
<1>7. ASSUME NEW k \in LiveSegments, ObjectExpires(k) PROVE LiveInv'
  <2>1. UNCHANGED <<lines, onDisk, sealedDays, trusted>> /\ upsets' \in 0..MaxUpsets
        /\ live' = [live EXCEPT ![k] = "none"]
    BY <1>7, UpsetIs DEF ObjectExpires, LiveInv
  <2> QED
    BY <1>0, <1>1, <2>1, StillInv
<1> QED
  BY <1>2, <1>3, <1>4, <1>5, <1>6, <1>7 DEF LiveWorld

LEMMA DaemonRestartsInv == LiveInv /\ DaemonRestarts => LiveInv'
<1> SUFFICES ASSUME LiveInv, DaemonRestarts PROVE LiveInv'
  OBVIOUS
<1>1. /\ UNCHANGED <<lines, onDisk, sealedDays, live, liveNow>>
      /\ thread' \in {"waiting", "not started"}
      /\ offset' = 0 /\ owed' = {} /\ sealedRead' = {} /\ done' = {} /\ refused' = {}
      /\ behind' = FALSE
  BY DEF DaemonRestarts, Fresh, worldVars
<1>2. upsets' \in 0..MaxUpsets
  BY UpsetIs DEF DaemonRestarts, LiveInv
<1>3. LiveTyped'
  BY <1>1, <1>2 DEF LiveInv, LiveTyped
<1>4. OwedOnce'
  BY <1>1 DEF OwedOnce, Owing
<1>5. LandedOnce'
  <2>0. offset' = 0
    BY <1>1
  <2>1. ~(offset' > 0)
    BY <2>0
  <2>2. lines' = lines /\ \A i \in 1..Len(lines) : Came(lines[i], onDisk, sealedDays)
    BY <1>1 DEF LiveInv, LandedOnce, Landed
  <2>3. \A i \in 1..Len(lines') : Came(lines'[i], onDisk', sealedDays')
    BY <1>1, <2>2
  <2> QED
    BY <2>1, <2>3 DEF LandedOnce, Landed
<1>6. Accounted' /\ Trusting'
  <2>1. Anchored'
    BY <1>1 DEF Anchored
  <2>2. \A i \in 1..0 : FALSE
    OBVIOUS
  <2>3. Accounted'
    BY <1>1, <2>2 DEF Accounted
  <2> QED
    BY <2>1, <2>3 DEF Trusting
<1>7. AtHand' /\ BehindHeard'
  BY <1>1 DEF AtHand, BehindHeard
<1> QED
  BY <1>3, <1>4, <1>5, <1>6, <1>7 DEF LiveInv

LEMMA LiveUnchangedInv == LiveInv /\ UNCHANGED liveVars => LiveInv'
<1> SUFFICES ASSUME LiveInv, UNCHANGED liveVars PROVE LiveInv'
  OBVIOUS
<1>1. UNCHANGED <<ReadState, onDisk, sealedDays, live, liveNow, alarmVars, upsets, thread,
                  sending>>
  BY DEF liveVars, worldVars, threadVars, ReadState
<1>2. upsets' \in 0..MaxUpsets /\ AtHand'
  BY <1>1 DEF LiveInv, LiveTyped, AtHand, ReadState, Owing
<1> QED
  BY <1>1, <1>2, Idles

------------------------------------------------------------------------------
(* The theorems. *)

(* Whatever the thread reads, whatever is cut, sealed or lost while it     *)
(* works, its account of the manifest stays true (_read, _send and         *)
(* UploadAlarm of live_upload.py).                                         *)
THEOREM LiveInvariant == LiveSpec => []LiveInv
<1>1. LiveInv /\ [LiveNext]_liveVars => LiveInv'
  BY PassBeginsInv, PassEndsInv, SendNextInv, SegmentGoneInv, PutSegmentInv, HeadSegmentInv,
     ThreadStopsInv, LiveTickInv, LiveWorldInv, DaemonRestartsInv, LiveUnchangedInv
     DEF LiveNext, ThreadStep
<1> QED
  BY <1>1, LiveInitInv, PTL DEF LiveSpec

(* The live prefix holds only recorded bytes, and a segment whose line was *)
(* read is owed, settled, refused, missing or sealed (_read, _settle,      *)
(* _refuse, _gone).                                                        *)
THEOREM LiveSoundAlways == LiveSpec => []LiveSound
<1>1. LiveInv => LiveSound
  <2> SUFFICES ASSUME LiveInv PROVE LiveSound
    OBVIOUS
  <2>1. LiveTypeOK
    <3>1. \A o \in owed : o.rel \in LiveSegments /\ o.since <= liveNow
      BY DEF LiveInv, OwedOnce, OwedRecords
    <3>2. live \in [LiveSegments -> {"none", "good", "rotten"}]
      BY DEF LiveInv, LiveTyped
    <3> QED
      BY <3>1, <3>2 DEF LiveInv, LiveTyped, OwedOnce, LiveTypeOK
  <2>2. LiveHonest
    BY DEF LiveInv, LiveTyped, LiveHonest
  <2>3. NothingForgotten
    BY DEF LiveInv, Accounted, Trusting, Known, Vanished, NothingForgotten
  <2> QED
    BY <2>1, <2>2, <2>3 DEF LiveSound
<1> QED
  BY <1>1, LiveInvariant, PTL

(* A lag is paged on the date it began, and once (UploadAlarm.check).      *)
THEOREM BehindHeardAlways == LiveSpec => []BehindHeard
<1>1. LiveInv => BehindHeard
  BY DEF LiveInv
<1> QED
  BY <1>1, LiveInvariant, PTL

LEMMA MissingStep == LiveInv /\ [LiveNext]_liveVars => MissingIsMissing
<1> SUFFICES ASSUME LiveInv, [LiveNext]_liveVars, NEW v \in vanished' \ vanished, v.read
             PROVE  ~ \E i \in 1..Len(lines) : lines[i] = Partition[v.rel]
  BY DEF MissingIsMissing
<1>1. CASE SegmentGone
  <2>1. PICK read \in BOOLEAN :
          vanished' = IF /\ Partition[sending.rel] \notin AfterGone(read).sealedRead
                         /\ owed' # AfterGone(read).owed
                      THEN vanished \cup {[rel |-> sending.rel, read |-> read]} ELSE vanished
    BY <1>1 DEF SegmentGone
  <2>2. /\ v = [rel |-> sending.rel, read |-> read]
        /\ Partition[sending.rel] \notin AfterGone(read).sealedRead
    BY <2>1
  <2>3. AfterGone(read) = Reread
    BY <2>2 DEF AfterGone
  <2>4. Partition[v.rel] \notin Reread.sealedRead
    BY <2>2, <2>3
  <2>5. Partition[v.rel] \in Partitions
    <3>1. sending.rel \in LiveSegments
      BY <1>1 DEF LiveInv, AtHand, SegmentGone, OwedOnce, OwedRecords, Owing
    <3> QED
      BY <2>2, <3>1 DEF Partitions
  <2> QED
    BY <2>4, <2>5, RereadIs DEF Reads
<1>2. CASE ~SegmentGone
  <2>1. vanished' \subseteq vanished
    BY <1>2 DEF LiveNext, ThreadStep, PassBegins, PassEnds, SendNext, PutSegment, HeadSegment,
                ThreadStops, LiveTick, LiveWorld, DaemonRestarts, Fresh, liveVars, threadVars
  <2> QED
    BY <2>1
<1> QED
  BY <1>1, <1>2

LEMMA SentStep == LiveInv /\ LiveInv' /\ [LiveNext]_liveVars => SentOnce
<1> SUFFICES ASSUME LiveInv, LiveInv', NEW k \in done \cup refused, k \in done' \cup refused',
                    thread' = "put", sending'.rel = k
             PROVE  FALSE
  BY DEF SentOnce
<1>1. k \in Owing'
  BY DEF LiveInv, AtHand
<1> QED
  BY <1>1 DEF LiveInv, OwedOnce

(* A segment is counted missing only when the manifest does not say it was *)
(* sealed, and is not sent again once settled or refused (_gone, _consider,*)
(* _send).                                                                 *)
THEOREM CountedOnceAlways == LiveSpec => CountedOnce
<1>1. LiveInv /\ LiveInv' /\ [LiveNext]_liveVars => [MissingIsMissing /\ SentOnce]_liveVars
  BY MissingStep, SentStep
<1> QED
  BY <1>1, LiveInvariant, PTL DEF LiveSpec, CountedOnce
=============================================================================
