---------------------------- MODULE DBImplProofs ----------------------------
(***************************************************************************)
(* The proofs about the write path of leveldb: its types, that no table    *)
(* the manifest names is deleted, that nothing a read could see is taken   *)
(* back, that sequence numbers are unique and that no acknowledged write   *)
(* is lost, for any number of calls, crashes and I/O errors.  DBImplInv    *)
(* defines the inductive invariant.                                        *)
(***************************************************************************)
EXTENDS DBImplInv, FiniteSetTheorems, SequenceTheorems, WellFoundedInduction, TLAPS

-----------------------------------------------------------------------------
(* Numbers, and what a manifest replays to.                                *)

\* The order of the naturals is well founded.
LEMMA NatWellFounded ==
  \E R : IsWellFoundedOn(R, Nat) /\ \A x, y \in Nat : <<y, x>> \in R <=> y < x
<1>1. IsWellFoundedOn(OpToRel(<, Nat), Nat) BY NatLessThanWellFounded
<1>2. \A x, y \in Nat : <<y, x>> \in OpToRel(<, Nat) <=> y < x BY DEF OpToRel
<1> QED BY <1>1, <1>2, Zenon

\* Every nonempty set of naturals has a least element.
LEMMA LeastElement ==
  ASSUME NEW T \in SUBSET Nat, T # {} PROVE \E x \in T : \A y \in T : x <= y
<1>1. PICK R : IsWellFoundedOn(R, Nat) /\ \A x, y \in Nat : <<y, x>> \in R <=> y < x
 BY NatWellFounded
<1>2. PICK x \in T : \A y \in T : ~(<<y, x>> \in R) BY <1>1, WFMin
<1>3. ASSUME NEW y \in T PROVE x <= y
 <2>1. x \in Nat /\ y \in Nat OBVIOUS
 <2>2. ~(<<y, x>> \in R) BY <1>2
 <2>3. <<y, x>> \in R <=> y < x BY <1>1, <2>1, Zenon
 <2>4. ~(y < x) BY <2>2, <2>3, Zenon
 <2> QED BY <2>1, <2>4
<1> QED BY <1>3

\* Every nonempty bounded set of naturals has a greatest element.
LEMMA GreatestElement ==
  ASSUME NEW T \in SUBSET Nat, T # {}, NEW b \in Nat, \A x \in T : x <= b
  PROVE \E x \in T : \A y \in T : x >= y
<1> DEFINE D == {b - x : x \in T}
<1>1. D \in SUBSET Nat /\ D # {}
 <2>1. \A x \in T : b - x \in Nat OBVIOUS
 <2>2. D \in SUBSET Nat BY <2>1
 <2> QED BY <2>2
<1>2. PICK d \in D : \A e \in D : d <= e BY <1>1, LeastElement
<1>3. PICK x \in T : d = b - x OBVIOUS
<1>4. ASSUME NEW y \in T PROVE x >= y
 <2>1. d <= b - y BY <1>2
 <2> QED BY <1>3, <2>1
<1> QED BY <1>4

\* Max and Min are what their names say.
LEMMA MaxOf ==
  ASSUME NEW T \in SUBSET Nat, T # {}, NEW b \in Nat, \A x \in T : x <= b
  PROVE Max(T) \in T /\ \A y \in T : y <= Max(T)
<1>1. \E x \in T : \A y \in T : x >= y BY GreatestElement
<1>2. Max(T) \in T /\ \A y \in T : Max(T) >= y BY <1>1 DEF Max
<1> QED BY <1>2

\* Min is the least member.
LEMMA MinOf ==
  ASSUME NEW T \in SUBSET Nat, T # {} PROVE Min(T) \in T /\ \A y \in T : Min(T) <= y
<1>1. \E x \in T : \A y \in T : x <= y BY LeastElement
<1> QED BY <1>1 DEF Min

\* Max of two numbers.
LEMMA MaxOfTwo ==
  ASSUME NEW a \in Nat, NEW b \in Nat
  PROVE  Max({a, b}) \in Nat /\ a <= Max({a, b}) /\ b <= Max({a, b})
         /\ Max({a, b}) \in {a, b}
<1>1. PICK c \in Nat : c >= a /\ c >= b
 <2>1. a + b \in Nat /\ a + b >= a /\ a + b >= b OBVIOUS
 <2> QED BY <2>1
<1>2. {a, b} \in SUBSET Nat /\ {a, b} # {} /\ \A x \in {a, b} : x <= c BY <1>1
<1>3. Max({a, b}) \in {a, b} /\ \A y \in {a, b} : y <= Max({a, b}) BY <1>2, MaxOf
<1> QED BY <1>3

\* The callers are numbered from 1.
LEMMA WritersFinite == \E N \in Nat : Writers = 1 .. N
<1> DEFINE C == {b.calls : b \in Budgets}
<1>1. PICK b \in Budgets : \A c \in Budgets : c.calls <= b.calls BY DBImplAssumption
<1>2. C \in SUBSET Nat /\ C # {} /\ b.calls \in Nat /\ \A x \in C : x <= b.calls
 BY <1>1, DBImplAssumption
<1> HIDE DEF C
<1>3. Max(C) \in Nat BY <1>2, MaxOf
<1> QED BY <1>3 DEF Writers, C

-----------------------------------------------------------------------------

\* A replay of k records exists: by the least k for which there is none.
LEMMA ReplayExists ==
  ASSUME NEW recs, NEW k \in Nat PROVE \E h : IsReplay(h, recs, k)
<1> DEFINE T == {n \in Nat : ~ \E h : IsReplay(h, recs, n)}
<1>1. SUFFICES ASSUME T # {} PROVE FALSE OBVIOUS
<1>2. PICK m \in T : \A n \in T : m <= n BY <1>1, LeastElement
<1>3. m # 0
 <2> DEFINE h == [n \in 0 .. 0 |-> EmptyVersion]
 <2>1. IsReplay(h, recs, 0) BY DEF IsReplay
 <2> QED BY <2>1
<1>4. m - 1 \in Nat /\ m - 1 \notin T BY <1>2, <1>3
<1>5. PICK h : IsReplay(h, recs, m - 1) BY <1>4
<1> DEFINE g == [n \in 0 .. m |-> IF n = m THEN Step(h[m - 1], recs[m]) ELSE h[n]]
<1>6. IsReplay(g, recs, m)
 <2>1. \A n \in 0 .. m : g[n] = IF n = 0 THEN EmptyVersion ELSE Step(g[n - 1], recs[n])
  <3> SUFFICES ASSUME NEW n \in 0 .. m
               PROVE g[n] = IF n = 0 THEN EmptyVersion ELSE Step(g[n - 1], recs[n])
   OBVIOUS
  <3>1. CASE n = m BY <3>1, <1>3, <1>4
  <3>2. CASE n # m
   <4>1. n \in 0 .. m - 1 /\ (n # 0 => n - 1 \in 0 .. m - 1 /\ n - 1 # m /\ n - 1 \in 0 .. m)
    BY <3>2, <1>4
   <4>2. g[n] = h[n] /\ (n # 0 => g[n - 1] = h[n - 1]) BY <4>1, <3>2
   <4>3. h[n] = IF n = 0 THEN EmptyVersion ELSE Step(h[n - 1], recs[n]) BY <1>5, <4>1 DEF IsReplay
   <4> QED BY <4>2, <4>3
  <3> QED BY <3>1, <3>2
 <2> HIDE DEF g
 <2>2. g = [n \in 0 .. m |-> g[n]] BY DEF g
 <2> QED BY <2>1, <2>2 DEF IsReplay
<1> QED BY <1>6, <1>2

\* Replayed is one.
LEMMA ReplayedDef ==
  ASSUME NEW recs, Len(recs) \in Nat PROVE IsReplay(Replayed(recs), recs, Len(recs))
<1>1. PICK h : IsReplay(h, recs, Len(recs)) BY ReplayExists
<1>2. h = [n \in 0 .. Len(recs) |-> IF n = 0 THEN EmptyVersion
            ELSE IF recs[n] = Torn THEN h[n - 1] ELSE Apply(h[n - 1], recs[n])]
 BY <1>1 DEF IsReplay, Step
<1>3. Replayed(recs) = [n \in 0 .. Len(recs) |-> IF n = 0 THEN EmptyVersion
            ELSE IF recs[n] = Torn THEN Replayed(recs)[n - 1]
                 ELSE Apply(Replayed(recs)[n - 1], recs[n])]
 BY <1>2 DEF Replayed
<1> QED BY <1>3 DEF IsReplay, Step

\* What Replayed does at each record.
LEMMA ReplayedStep ==
  ASSUME NEW recs, Len(recs) \in Nat
  PROVE  /\ Replayed(recs)[0] = EmptyVersion
         /\ \A n \in 1 .. Len(recs) :
               Replayed(recs)[n] = Step(Replayed(recs)[n - 1], recs[n])
<1> DEFINE h == Replayed(recs)
<1>1. h = [n \in 0 .. Len(recs) |-> IF n = 0 THEN EmptyVersion ELSE Step(h[n - 1], recs[n])]
 BY ReplayedDef DEF IsReplay
<1> HIDE DEF h
<1>2. h[0] = EmptyVersion BY <1>1
<1>3. ASSUME NEW n \in 1 .. Len(recs) PROVE h[n] = Step(h[n - 1], recs[n]) BY <1>1
<1> QED BY <1>2, <1>3 DEF h

\* Two manifests that agree on their first k records recover the same versions there.
LEMMA ReplayedPrefix ==
  ASSUME NEW p, NEW q, Len(p) \in Nat, Len(q) \in Nat, NEW k \in Nat,
         k <= Len(p), k <= Len(q), \A i \in 1 .. k : p[i] = q[i]
  PROVE \A n \in 0 .. k : Replayed(p)[n] = Replayed(q)[n]
<1> DEFINE T == {n \in 0 .. k : Replayed(p)[n] # Replayed(q)[n]}
<1>1. SUFFICES ASSUME T # {} PROVE FALSE OBVIOUS
<1>a. T \in SUBSET Nat OBVIOUS
<1>2. PICK n \in T : \A j \in T : n <= j
 <2> HIDE DEF T
 <2> QED BY <1>a, <1>1, LeastElement
<1>3. n # 0 BY ReplayedStep
<1>4. n - 1 \in 0 .. k /\ n \in 1 .. Len(p) /\ n \in 1 .. Len(q) /\ n \in 1 .. k BY <1>3
<1>5. n - 1 \notin T BY <1>2
<1>6. Replayed(p)[n - 1] = Replayed(q)[n - 1] BY <1>4, <1>5
<1>7. Replayed(p)[n] = Step(Replayed(p)[n - 1], p[n]) BY <1>4, ReplayedStep
<1>8. Replayed(q)[n] = Step(Replayed(q)[n - 1], q[n]) BY <1>4, ReplayedStep
<1>9. p[n] = q[n] BY <1>4
<1> QED BY <1>6, <1>7, <1>8, <1>9, <1>2

\* An edit is no torn record.
LEMMA EditNotTorn == ASSUME NEW e \in EditType PROVE e # Torn
<1>1. DOMAIN e = {"add0", "add1", "del", "log", "next", "seq"} BY DEF EditType
<1>2. DOMAIN Torn = {} BY DEF Torn
<1> QED BY <1>1, <1>2

\* Apply makes a version.
LEMMA ApplyType ==
  ASSUME NEW v \in VersionType, NEW e \in EditType PROVE Apply(v, e) \in VersionType
BY DEF VersionType, EditType, Apply

\* The empty version is one.
LEMMA EmptyVersionType == EmptyVersion \in VersionType
BY DEF EmptyVersion, VersionType

\* Whatever the manifest holds, what is recovered from it is a version.
LEMMA ReplayedType ==
  ASSUME NEW recs \in Seq(EditType \cup {Torn})
  PROVE \A n \in 0 .. Len(recs) : Replayed(recs)[n] \in VersionType
<1> DEFINE T == {n \in 0 .. Len(recs) : Replayed(recs)[n] \notin VersionType}
<1>0. Len(recs) \in Nat /\ \A i \in 1 .. Len(recs) : recs[i] \in EditType \cup {Torn} OBVIOUS
<1>1. SUFFICES ASSUME T # {} PROVE FALSE OBVIOUS
<1>a. T \in SUBSET Nat BY <1>0
<1>2. PICK n \in T : \A j \in T : n <= j
 <2> HIDE DEF T
 <2> QED BY <1>a, <1>1, LeastElement
<1>3. n # 0 BY <1>0, ReplayedStep, EmptyVersionType
<1>4. n - 1 \in 0 .. Len(recs) /\ n \in 1 .. Len(recs) BY <1>0, <1>3
<1>5. n - 1 \notin T BY <1>2, <1>4
<1>6. Replayed(recs)[n - 1] \in VersionType BY <1>4, <1>5
<1>7. Replayed(recs)[n] = Step(Replayed(recs)[n - 1], recs[n]) BY <1>0, <1>4, ReplayedStep
<1>8. recs[n] \in EditType \cup {Torn} BY <1>0, <1>4
<1>9. Step(Replayed(recs)[n - 1], recs[n]) \in VersionType BY <1>6, <1>8, ApplyType DEF Step
<1> QED BY <1>7, <1>9

\* So is the newest,
LEMMA NewestType == ASSUME NEW m \in ManifestType PROVE Newest(m) \in VersionType
<1>1. m.recs \in Seq(EditType \cup {Torn}) /\ Len(m.recs) \in 0 .. Len(m.recs) BY DEF ManifestType
<1> QED BY <1>1, ReplayedType DEF Newest

\* and every one that a crash may leave.
LEMMA DiskType == ASSUME NEW m \in ManifestType PROVE Disk(m) \subseteq VersionType
<1>1. m.recs \in Seq(EditType \cup {Torn}) /\ m.synced \in Nat /\ Len(m.recs) \in Nat
 BY DEF ManifestType
<1>2. m.synced .. Len(m.recs) \subseteq 0 .. Len(m.recs) BY <1>1
<1> QED BY <1>1, <1>2, ReplayedType DEF Disk

\* The members of Disk, by their position.
LEMMA DiskMember ==
  ASSUME NEW m, NEW v
  PROVE  v \in Disk(m) <=> \E n \in m.synced .. Len(m.recs) :
                              Unbroken(m.recs, n) /\ v = Replayed(m.recs)[n]
BY DEF Disk, Unbroken

\* A record is added to the manifest: one more version may be found by a recovery, and
\* only if no torn record precedes it.
LEMMA ManifestAppend ==
  ASSUME NEW m \in ManifestType, m.synced <= Len(m.recs),
         NEW e \in EditType \cup {Torn}, NEW s \in {m.synced, Len(m.recs) + 1},
         NEW m2, m2 = [recs |-> Append(m.recs, e), synced |-> s]
  PROVE  /\ m2 \in ManifestType /\ m2.synced <= Len(m2.recs)
         /\ Newest(m2) = Step(Newest(m), e)
         /\ OneMore(m, m2) /\ (s # m.synced => OnlyNewest(m2))
<1> DEFINE r == m.recs
           r2 == Append(m.recs, e)
<1>1. r \in Seq(EditType \cup {Torn}) /\ Len(r) \in Nat /\ m.synced \in Nat BY DEF ManifestType
<1>2. /\ r2 \in Seq(EditType \cup {Torn}) /\ Len(r2) = Len(r) + 1
      /\ r2[Len(r) + 1] = e /\ \A i \in 1 .. Len(r) : r2[i] = r[i]
 BY <1>1
<1>3. m2.recs = r2 /\ m2.synced = s OBVIOUS
<1> HIDE DEF r, r2
<1>4. m2 \in ManifestType /\ m2.synced <= Len(m2.recs)
 <2>1. s \in Nat /\ s <= Len(r) + 1 BY <1>1 DEF r
 <2>2. m2 \in ManifestType BY <1>2, <2>1 DEF ManifestType, r2
 <2> QED BY <1>2, <1>3, <2>1, <2>2
<1>5. \A n \in 0 .. Len(r) : Replayed(r2)[n] = Replayed(r)[n]
 <2>1. Len(r2) \in Nat /\ Len(r) <= Len(r2) BY <1>1, <1>2
 <2> QED BY <1>1, <1>2, <2>1, ReplayedPrefix
<1>6. Newest(m2) = Step(Newest(m), e)
 <2>1. Len(r2) \in Nat /\ Len(r2) \in 1 .. Len(r2) /\ Len(r2) - 1 = Len(r) BY <1>1, <1>2
 <2>2. Replayed(r2)[Len(r2)] = Step(Replayed(r2)[Len(r2) - 1], r2[Len(r2)]) BY <2>1, ReplayedStep
 <2>3. Replayed(r2)[Len(r2) - 1] = Replayed(r)[Len(r)] BY <1>1, <1>5, <2>1
 <2> QED BY <1>2, <1>3, <2>2, <2>3 DEF Newest, r
<1>7. ASSUME NEW v \in Disk(m2)
      PROVE  \/ v \in Disk(m) /\ s = m.synced
             \/ v = Newest(m2) /\ Newest(m) \in Disk(m)
 <2>1. PICK n \in s .. Len(r2) : Unbroken(r2, n) /\ v = Replayed(r2)[n] BY <1>3, DiskMember
 <2>2. CASE n = Len(r2)
  <3>1. Unbroken(r, Len(r)) BY <1>1, <1>2, <2>1, <2>2 DEF Unbroken
  <3>2. Len(r) \in m.synced .. Len(r) BY <1>1 DEF r
  <3>3. Newest(m) \in Disk(m) BY <3>1, <3>2, DiskMember DEF Newest, r
  <3> QED BY <2>1, <2>2, <1>3, <3>3 DEF Newest
 <2>3. CASE n # Len(r2)
  <3>0. s \in Nat /\ n \in Nat BY <1>1 DEF r
  <3>1. n \in s .. Len(r) /\ s <= Len(r) BY <1>1, <1>2, <2>3, <3>0
  <3>2. s = m.synced BY <1>1, <3>1 DEF r
  <3>3. Unbroken(r, n)
   <4>1. ASSUME NEW i \in 1 .. n - 1 PROVE r[i] # Torn
    <5>1. i \in 1 .. Len(r) BY <1>1, <3>0, <3>1
    <5>2. r2[i] # Torn BY <2>1 DEF Unbroken
    <5> QED BY <1>2, <5>1, <5>2
   <4> QED BY <4>1 DEF Unbroken
  <3>4. v = Replayed(r)[n] BY <2>1, <1>5, <3>0, <3>1
  <3> QED BY <3>1, <3>2, <3>3, <3>4, DiskMember DEF r
 <2> QED BY <2>2, <2>3
<1> QED BY <1>4, <1>6, <1>7 DEF OneMore, OnlyNewest

\* A crash of the machine cuts the manifest: nothing new can be recovered.
LEMMA ManifestCut ==
  ASSUME NEW m \in ManifestType, m.synced <= Len(m.recs),
         NEW c \in m.synced .. Len(m.recs)
  PROVE  /\ Cut(m, c) \in ManifestType /\ Cut(m, c).synced <= Len(Cut(m, c).recs)
         /\ Len(Cut(m, c).recs) = c
         /\ \A n \in 0 .. c : Replayed(Cut(m, c).recs)[n] = Replayed(m.recs)[n]
         /\ Disk(Cut(m, c)) \subseteq Disk(m)
<1> DEFINE r == m.recs
           r2 == SubSeq(m.recs, 1, c)
           m2 == Cut(m, c)
<1>1. r \in Seq(EditType \cup {Torn}) /\ Len(r) \in Nat /\ m.synced \in Nat BY DEF ManifestType
<1>0. c \in Nat /\ m.synced <= c /\ c <= Len(r) BY <1>1
<1>2. /\ r2 \in Seq(EditType \cup {Torn}) /\ Len(r2) = c
      /\ \A i \in 1 .. c : r2[i] = r[i]
 BY <1>1, <1>0, SubSeqProperties
<1>3. m2 = [recs |-> r2, synced |-> m.synced] /\ m2.recs = r2 /\ m2.synced = m.synced BY DEF Cut
<1> HIDE DEF r, r2, m2
<1>4. m2 \in ManifestType /\ m2.synced <= Len(m2.recs) BY <1>0, <1>1, <1>2, <1>3 DEF ManifestType
<1>5. \A n \in 0 .. c : Replayed(r2)[n] = Replayed(r)[n]
 <2>1. Len(r2) \in Nat /\ c <= Len(r2) /\ c <= Len(r) BY <1>0, <1>2
 <2> QED BY <1>0, <1>1, <1>2, <2>1, ReplayedPrefix, SMTT(30)
<1>6. ASSUME NEW v \in Disk(m2) PROVE v \in Disk(m)
 <2>1. PICK n \in m.synced .. c : Unbroken(r2, n) /\ v = Replayed(r2)[n] BY <1>2, <1>3, DiskMember
 <2>2. n \in m.synced .. Len(r) /\ n \in 0 .. c BY <1>0, <1>1
 <2>3. Unbroken(r, n) BY <1>0, <1>1, <1>2, <2>1, <2>2 DEF Unbroken
 <2>4. v = Replayed(r)[n] BY <2>1, <1>5, <2>2
 <2> QED BY <2>2, <2>3, <2>4, DiskMember DEF r
<1> QED BY <1>2, <1>3, <1>4, <1>5, <1>6 DEF r, m2

\* A new manifest holds one edit, the snapshot.
LEMMA ManifestNew ==
  ASSUME NEW e \in EditType, NEW m, m = [recs |-> <<e>>, synced |-> 1]
  PROVE  /\ m \in ManifestType /\ m.synced <= Len(m.recs) /\ Len(m.recs) = 1
         /\ Newest(m) = Apply(EmptyVersion, e)
         /\ Replayed(m.recs)[0] = EmptyVersion
         /\ Disk(m) = {Newest(m)}
<1>1. m.recs = <<e>> /\ m.synced = 1 /\ Len(m.recs) = 1 /\ m.recs[1] = e OBVIOUS
<1>2. m \in ManifestType BY DEF ManifestType
<1>3. Replayed(m.recs)[0] = EmptyVersion /\ Replayed(m.recs)[1] = Step(EmptyVersion, e)
 <2>1. 1 \in 1 .. Len(m.recs) /\ 1 - 1 = 0 /\ Len(m.recs) \in Nat BY <1>1
 <2>2. Replayed(m.recs)[0] = EmptyVersion BY <2>1, ReplayedStep
 <2>3. Replayed(m.recs)[1] = Step(Replayed(m.recs)[1 - 1], m.recs[1]) BY <2>1, ReplayedStep
 <2> QED BY <1>1, <2>1, <2>2, <2>3
<1>4. Newest(m) = Apply(EmptyVersion, e) BY <1>1, <1>3, EditNotTorn DEF Newest, Step
<1>5. ASSUME NEW v PROVE v \in Disk(m) <=> v = Newest(m)
 <2>1. 1 .. 1 = {1} OBVIOUS
 <2>2. Unbroken(m.recs, 1) BY DEF Unbroken
 <2>a. m.synced .. Len(m.recs) = {1} BY <1>1, <2>1
 <2>b. v \in Disk(m) <=> \E n \in m.synced .. Len(m.recs) :
                             Unbroken(m.recs, n) /\ v = Replayed(m.recs)[n]
  BY DEF Disk, Unbroken
 <2>3. v \in Disk(m) <=> \E n \in {1} : Unbroken(m.recs, n) /\ v = Replayed(m.recs)[n] BY <2>a, <2>b
 <2> QED BY <2>1, <2>2, <2>3, <1>1 DEF Newest
<1> QED BY <1>1, <1>2, <1>3, <1>4, <1>5

-----------------------------------------------------------------------------
(* Shape and Quiet: the types, and which locals are in use when.           *)

\* The group is never empty, and a sync write joins only a sync leader.
LEMMA BuildBatchGroupRange ==
  ASSUME writers \in Seq(Writers), writers # <<>>
  PROVE  /\ BuildBatchGroup \in 1 .. Len(writers)
         /\ \A i \in 2 .. BuildBatchGroup :
               req[writers[i]].kind # "sync" \/ req[Head(writers)].kind = "sync"
<1> DEFINE J(i) == /\ \/ req[writers[i]].kind # "sync"
                      \/ req[Head(writers)].kind = "sync"
                   /\ \/ req[writers[i]].kind = "flush"
                      \/ Cardinality(Batches(SubSeq(writers, 1, i))) <= MaxGroup
           T == {n \in 1 .. Len(writers) : n = Len(writers) \/ ~J(n + 1)}
<1> HIDE DEF J
<1>1. Len(writers) \in Nat \ {0} OBVIOUS
<1>2. T \in SUBSET Nat /\ Len(writers) \in T BY <1>1
<1>3. PICK n \in T : \A j \in T : n <= j
 <2> HIDE DEF T
 <2> QED BY <1>2, LeastElement
<1>4. n \in 1 .. Len(writers) /\ (n = Len(writers) \/ ~J(n + 1)) OBVIOUS
<1>5. ASSUME NEW i \in 2 .. n PROVE J(i)
 <2>1. i - 1 \in 1 .. Len(writers) /\ i - 1 # Len(writers) /\ i - 1 < n /\ (i - 1) + 1 = i
  BY <1>1, <1>4
 <2>2. i - 1 \notin T
  <3> SUFFICES ASSUME i - 1 \in T PROVE FALSE OBVIOUS
  <3> HIDE DEF T
  <3>1. n <= i - 1 BY <1>3
  <3> QED BY <3>1, <2>1, <1>4
 <2> QED BY <2>1, <2>2
<1>6. \E k \in 1 .. Len(writers) : (\A i \in 2 .. k : J(i)) /\ (k = Len(writers) \/ ~J(k + 1))
 BY <1>4, <1>5
<1>7. BuildBatchGroup = CHOOSE k \in 1 .. Len(writers) :
                           (\A i \in 2 .. k : J(i)) /\ (k = Len(writers) \/ ~J(k + 1))
 BY DEF BuildBatchGroup, J
<1>8. BuildBatchGroup \in 1 .. Len(writers) /\ \A i \in 2 .. BuildBatchGroup : J(i) BY <1>6, <1>7
<1> QED BY <1>8 DEF J

\* The next leader enters MakeRoomForWrite.
LEMMA ForemostType ==
  ASSUME NEW q
  PROVE  /\ Foremost(q) \in LeadType
         /\ Foremost(q).pc \in {"none", "room"} /\ Foremost(q).group = <<>>
         /\ (Foremost(q).pc = "none") <=> (q = <<>>)
<1>1. <<>> \in Seq(Writers) OBVIOUS
<1>2. NoLead \in LeadType /\ NoLead.pc = "none" /\ NoLead.group = <<>> BY <1>1 DEF NoLead, LeadType
<1>3. CASE q = <<>> BY <1>2, <1>3 DEF Foremost
<1>4. CASE q # <<>>
 <2> DEFINE null == req[Head(q)].kind = "flush"
            l == [pc |-> "room", force |-> null, delay |-> ~null, group |-> <<>>]
 <2>1. Foremost(q) = l BY <1>4 DEF Foremost
 <2>2. null \in BOOLEAN OBVIOUS
 <2> HIDE DEF null
 <2>3. l \in LeadType /\ l.pc = "room" /\ l.group = <<>> BY <1>1, <2>2 DEF LeadType
 <2> HIDE DEF l
 <2> QED BY <2>1, <2>3, <1>4
<1> QED BY <1>3, <1>4

\* What the end of Write does to the queue and to the callers.
LEMMA FinishType ==
  ASSUME writers \in Seq(Writers), req \in [Writers -> ReqType],
         NEW n \in 1 .. Len(writers), NEW status \in {"ok", "error"},
         Finish(n, status)
  PROVE  /\ writers' \in Seq(Writers) /\ req' \in [Writers -> ReqType]
         /\ lead' \in LeadType /\ lead'.pc \in {"none", "room"} /\ lead'.group = <<>>
         /\ (lead'.pc = "none") <=> (writers' = <<>>)
         /\ writers' = SubSeq(writers, n + 1, Len(writers))
         /\ \A w \in Writers :
               /\ req'[w].kind = req[w].kind
               /\ IF w \in {writers[i] : i \in 1 .. n}
                  THEN req'[w].st \in {"check", status}
                       /\ (req'[w].st = "check" => req[w].kind = "flush")
                  ELSE req'[w].st = req[w].st
<1>1. writers' = SubSeq(writers, n + 1, Len(writers)) /\ lead' = Foremost(writers') BY DEF Finish
<1>2. writers' \in Seq(Writers) BY <1>1
<1>3. /\ lead' \in LeadType /\ lead'.pc \in {"none", "room"} /\ lead'.group = <<>>
      /\ (lead'.pc = "none") <=> (writers' = <<>>)
 <2> DEFINE q == writers'
 <2>1. lead' = Foremost(q) BY <1>1
 <2> HIDE DEF q
 <2>2. /\ lead' \in LeadType /\ lead'.pc \in {"none", "room"} /\ lead'.group = <<>>
       /\ (lead'.pc = "none") <=> (q = <<>>)
  BY <2>1, ForemostType
 <2> QED BY <2>2 DEF q
<1> DEFINE done == {writers[i] : i \in 1 .. n}
           st(w) == IF status = "ok" /\ req[w].kind = "flush" THEN "check" ELSE status
<1>4. req' = [w \in Writers |-> IF w \in done THEN [req[w] EXCEPT !.st = st(w)] ELSE req[w]]
 BY DEF Finish
<1>5. ASSUME NEW w \in Writers
      PROVE  /\ req'[w] \in ReqType /\ req'[w].kind = req[w].kind
             /\ IF w \in done
                THEN req'[w].st \in {"check", status}
                     /\ (req'[w].st = "check" => req[w].kind = "flush")
                ELSE req'[w].st = req[w].st
 <2> DEFINE r == req[w]
 <2>1. r \in ReqType OBVIOUS
 <2>2. st(w) \in {"check", status} /\ (st(w) = "check" => r.kind = "flush") OBVIOUS
 <2>3. req'[w] = IF w \in done THEN [r EXCEPT !.st = st(w)] ELSE r BY <1>4
 <2> HIDE DEF r, done, st
 <2> QED BY <2>1, <2>2, <2>3 DEF ReqType, r
<1>6. req' \in [Writers -> ReqType]
 <2> HIDE DEF done, st
 <2> QED BY <1>4, <1>5
<1> QED BY <1>1, <1>2, <1>3, <1>5, <1>6

\* What SignalAll does to them.
LEMMA SignalType ==
  ASSUME req \in [Writers -> ReqType], lead \in LeadType, SignalAll
  PROVE  /\ req' \in [Writers -> ReqType] /\ lead' \in LeadType
         /\ lead'.group = lead.group
         /\ lead'.pc = IF lead.pc = "waiting" THEN "room" ELSE lead.pc
         /\ \A w \in Writers :
               /\ req'[w].kind = req[w].kind
               /\ req'[w].st = IF req[w].st = "wait" THEN "check" ELSE req[w].st
<1>1. lead' = [lead EXCEPT !.pc = IF lead.pc = "waiting" THEN "room" ELSE lead.pc] BY DEF SignalAll
<1>2. /\ lead' \in LeadType /\ lead'.group = lead.group
      /\ lead'.pc = IF lead.pc = "waiting" THEN "room" ELSE lead.pc
 BY <1>1 DEF LeadType
<1>3. req' = [w \in Writers |->
                 IF req[w].st = "wait" THEN [req[w] EXCEPT !.st = "check"] ELSE req[w]]
 BY DEF SignalAll
<1>4. ASSUME NEW w \in Writers
      PROVE  /\ req'[w] \in ReqType /\ req'[w].kind = req[w].kind
             /\ req'[w].st = IF req[w].st = "wait" THEN "check" ELSE req[w].st
 <2> DEFINE r == req[w]
 <2>1. r \in ReqType OBVIOUS
 <2>2. req'[w] = IF r.st = "wait" THEN [r EXCEPT !.st = "check"] ELSE r BY <1>3
 <2> HIDE DEF r
 <2> QED BY <2>1, <2>2 DEF ReqType, r
<1>5. req' \in [Writers -> ReqType] BY <1>3, <1>4
<1> QED BY <1>2, <1>4, <1>5

\* The shape of the state implies its type.
LEMMA ShapeTypeOK == Shape => TypeOK
<1> SUFFICES ASSUME Shape PROVE TypeOK OBVIOUS
<1>1. /\ DOMAIN logs \subseteq Nat
      /\ logs \in [DOMAIN logs -> [recs : Seq(SUBSET Writers), synced : Nat]]
      /\ \A n \in DOMAIN logs : logs[n].synced <= Len(logs[n].recs)
 BY DEF Shape, LogsOK, LogFileType
<1>2. DOMAIN tables \subseteq Nat /\ tables \in [DOMAIN tables -> SUBSET Writers]
 BY DEF Shape, TablesOK
<1>3. /\ manifest \in [recs : Seq(EditType \cup {Torn}), synced : Nat]
      /\ manifest.synced <= Len(manifest.recs)
 BY DEF Shape, ManifestOK, ManifestType
<1>4. writers \in Seq(Writers) /\ lead \in LeadType BY DEF Shape, QueueOK
<1>5. /\ flush \in FlushType /\ comp \in CompType /\ (imm = Nil \/ imm \in SUBSET Writers)
      /\ rec \in RecType /\ seqOf \in [Writers -> Nat]
 BY DEF Shape, WorkOK, ImmOK, RecOK, SeqBounded
<1>6. /\ up \in UpStates /\ version \in VersionType /\ mem \in SUBSET Writers /\ logfile \in Nat
      /\ pending \in SUBSET Nat /\ scheduled \in BOOLEAN /\ bgError \in BOOLEAN
      /\ req \in [Writers -> ReqType] /\ excused \in SUBSET Writers /\ budget \in BudgetType
 BY DEF Shape
<1> QED BY <1>1, <1>2, <1>3, <1>4, <1>5, <1>6, Zenon
        DEF TypeOK, LeadType, FlushType, CompType, RecType, UpStates, ReqType, BudgetType

\* NULL is no memtable.
LEMMA NilIsNoSet == ASSUME NEW s \in SUBSET Writers PROVE s # Nil
BY DBImplAssumption

\* The idle values.
LEMMA NoFlushType == NoFlush \in FlushType /\ NoFlush.pc = "none" /\ NoFlush.out = 0
BY DEF NoFlush, FlushType

LEMMA NoCompType == NoComp \in CompType /\ NoComp.pc = "none" /\ NoComp.out = 0
                  /\ NoComp.inputs = {}
BY DEF NoComp, CompType

LEMMA NoRecType == NoRec \in RecType /\ NoRec.logs = {} /\ NoRec.mem = {} /\ NoRec.added = {}
BY DEF NoRec, RecType

LEMMA NoLeadType == NoLead \in LeadType /\ NoLead.pc = "none" /\ NoLead.group = <<>>
<1>1. <<>> \in Seq(Writers) OBVIOUS
<1> QED BY <1>1 DEF NoLead, LeadType

\* A process that is not running has the shape of one.
LEMMA QuietShape ==
  /\ QueueOK(<<>>, NoLead) /\ ImmOK(Nil) /\ WorkOK(NoFlush, NoComp, Nil)
  /\ EmptyVersion \in VersionType /\ \A l : RecOK(NoRec, l)
<1>1. QueueOK(<<>>, NoLead)
 <2>1. <<>> \in Seq(Writers) OBVIOUS
 <2> QED BY <2>1, NoLeadType DEF QueueOK, Logging
<1>2. WorkOK(NoFlush, NoComp, Nil) BY NoFlushType, NoCompType DEF WorkOK, Edited
<1> QED BY <1>1, <1>2, EmptyVersionType, NoRecType DEF ImmOK, RecOK

\* The budget stays a budget.
LEMMA FaultType ==
  ASSUME budget \in BudgetType, Fault \/ NoFault \/ Restart PROVE budget' \in BudgetType
<1>1. CASE Fault BY <1>1 DEF Fault, BudgetType
<1>2. CASE NoFault BY <1>2 DEF NoFault
<1>3. CASE Restart BY <1>3 DEF Restart, BudgetType
<1> QED BY <1>1, <1>2, <1>3

\* bg_compaction_scheduled_ is a Boolean.
LEMMA ScheduleType ==
  ASSUME NEW s \in BOOLEAN, NEW i, NEW v, NEW e
  PROVE MaybeScheduleCompaction(s, i, v, e) \in BOOLEAN
BY DEF MaybeScheduleCompaction

\* The fields of an edit.
LEMMA EditOf ==
  ASSUME NEW a0 \in SUBSET Nat, NEW a1 \in SUBSET Nat, NEW d \in SUBSET Nat,
         NEW l \in Nat, NEW v \in VersionType
  PROVE  /\ Edit(a0, a1, d, l, v) \in EditType
         /\ Edit(a0, a1, d, l, v).add0 = a0 /\ Edit(a0, a1, d, l, v).add1 = a1
         /\ Edit(a0, a1, d, l, v).del = d /\ Edit(a0, a1, d, l, v).log = l
         /\ Edit(a0, a1, d, l, v).next = v.next /\ Edit(a0, a1, d, l, v).seq = v.seq
BY DEF Edit, EditType, VersionType

\* Version updates of the counters.
LEMMA BumpNext ==
  ASSUME NEW v \in VersionType, NEW n \in Nat, NEW v2, v2 = [v EXCEPT !.next = n]
  PROVE  /\ v2 \in VersionType /\ v2.next = n /\ v2.l0 = v.l0 /\ v2.l1 = v.l1
         /\ v2.log = v.log /\ v2.seq = v.seq
BY DEF VersionType

\* The last sequence moves on.
LEMMA BumpSeq ==
  ASSUME NEW v \in VersionType, NEW n \in Nat, NEW v2, v2 = [v EXCEPT !.seq = n]
  PROVE  /\ v2 \in VersionType /\ v2.next = v.next /\ v2.l0 = v.l0 /\ v2.l1 = v.l1
         /\ v2.log = v.log /\ v2.seq = n
BY DEF VersionType

\* The fields of a version.
LEMMA VersionIs ==
  ASSUME NEW v \in VersionType
  PROVE  /\ v.l0 \in SUBSET Nat /\ v.l1 \in SUBSET Nat /\ v.log \in Nat /\ v.next \in Nat
         /\ v.seq \in Nat
BY DEF VersionType

\* Initially.
LEMMA InitShape == Init => Shape /\ Quiet
<1> SUFFICES ASSUME Init PROVE Shape /\ Quiet OBVIOUS
<1>0. <<>> \in Seq(SUBSET Writers) /\ DOMAIN <<>> = {} OBVIOUS
<1>1. LogsOK(logs) /\ TablesOK(tables) BY <1>0 DEF Init, LogsOK, TablesOK
<1> DEFINE e == Edit({}, {}, {}, 0, EmptyVersion)
<1>2. ManifestOK(manifest)
 <2>1. e \in EditType BY EditOf, EmptyVersionType
 <2>2. manifest = [recs |-> <<e>>, synced |-> 1] BY DEF Init
 <2> HIDE DEF e
 <2> QED BY <2>1, <2>2, ManifestNew DEF ManifestOK
<1>3. QueueOK(writers, lead) /\ ImmOK(imm) /\ WorkOK(flush, comp, imm) /\ RecOK(rec, logs)
 BY QuietShape DEF Init
<1>4. /\ up \in UpStates /\ version \in VersionType /\ mem \in SUBSET Writers /\ logfile \in Nat
      /\ pending \in SUBSET Nat /\ scheduled \in BOOLEAN /\ bgError \in BOOLEAN
      /\ excused \in SUBSET Writers /\ budget \in BudgetType
 BY DBImplAssumption, QuietShape DEF Init, UpStates, BudgetType
<1>5. req \in [Writers -> ReqType] BY DEF Init, ReqType, Kinds
<1>6. SeqBounded(seqOf)
 <2>1. 0 \in Nat /\ \A w \in Writers : seqOf[w] <= 0 BY DEF Init
 <2> QED BY <2>1 DEF Init, SeqBounded
<1>7. Shape BY <1>1, <1>2, <1>3, <1>4, <1>5, <1>6, Zenon DEF Shape
<1>8. Quiet BY DEF Init, Quiet
<1> QED BY <1>7, <1>8

\* The parts of the shape.
LEMMA ShapeIs ==
  ASSUME Shape
  PROVE  /\ LogsOK(logs) /\ TablesOK(tables) /\ ManifestOK(manifest)
         /\ up \in UpStates /\ RecOK(rec, logs)
         /\ version \in VersionType
         /\ QueueOK(writers, lead)
         /\ mem \in SUBSET Writers /\ ImmOK(imm) /\ logfile \in Nat
         /\ pending \in SUBSET Nat /\ scheduled \in BOOLEAN /\ bgError \in BOOLEAN
         /\ WorkOK(flush, comp, imm)
         /\ req \in [Writers -> ReqType] /\ SeqBounded(seqOf)
         /\ excused \in SUBSET Writers /\ budget \in BudgetType
BY DEF Shape

\* The queue and its leader.
LEMMA QueueIs ==
  ASSUME Shape
  PROVE  /\ writers \in Seq(Writers) /\ lead \in LeadType
         /\ (lead.pc = "none") <=> (writers = <<>>)
         /\ lead.pc \in Logging => /\ Len(lead.group) \in 1 .. Len(writers)
                                   /\ \A i \in 1 .. Len(lead.group) : lead.group[i] = writers[i]
         /\ lead.pc \notin Logging => lead.group = <<>>
BY DEF Shape, QueueOK

\* A nonempty queue has a first.
LEMMA NonEmptyLen ==
  ASSUME NEW S, NEW q \in Seq(S), q # <<>> PROVE Len(q) \in Nat /\ 1 \in 1 .. Len(q)
OBVIOUS

\* From here on, one lemma per step: it keeps the shape of the state.
LEMMA ShapeUnchanged == ASSUME Shape, UNCHANGED vars PROVE Shape'
<1>1. UNCHANGED <<logs, tables, manifest, up, rec, version, mem, imm, logfile, pending,
                  scheduled, bgError, flush, comp, writers, lead, req, seqOf, excused, budget>>
 BY DEF vars, diskVars, openVars, memVars, bgVars, callVars
<1> QED BY <1>1 DEF Shape

LEMMA ShapeEnqueue ==
  ASSUME Shape, NEW w \in Writers, NEW kind \in Kinds, Enqueue(w, kind) PROVE Shape'
<1>1. UNCHANGED <<logs, tables, manifest, up, rec, version, mem, imm, logfile, pending,
                  scheduled, bgError, flush, comp, seqOf, excused>>
 BY DEF Enqueue, diskVars, openVars, memVars, bgVars
<1>2. budget' \in BudgetType BY ShapeIs DEF Enqueue, BudgetType
<1>3. req' \in [Writers -> ReqType]
 <2>1. [kind |-> kind, st |-> "queued"] \in ReqType BY DEF ReqType
 <2> QED BY <2>1, ShapeIs DEF Enqueue
<1>4. QueueOK(writers', lead')
 <2> DEFINE q == Append(writers, w)
            l == [pc |-> "room", force |-> kind = "flush", delay |-> kind # "flush",
                  group |-> <<>>]
 <2>1. writers' = q BY DEF Enqueue
 <2>2. /\ q \in Seq(Writers) /\ q # <<>> /\ Len(q) = Len(writers) + 1 /\ Len(writers) \in Nat
       /\ \A i \in 1 .. Len(writers) : q[i] = writers[i]
  BY QueueIs
 <2> HIDE DEF q
 <2>3. CASE writers = <<>>
  <3>1. lead' = l BY <2>3 DEF Enqueue
  <3>2. <<>> \in Seq(Writers) /\ (kind = "flush") \in BOOLEAN /\ (kind # "flush") \in BOOLEAN
   OBVIOUS
  <3>3. l \in LeadType /\ l.pc = "room" /\ l.group = <<>> BY <3>2 DEF LeadType
  <3> HIDE DEF l
  <3>4. QueueOK(q, l) BY <2>2, <3>3 DEF QueueOK, Logging
  <3> QED BY <2>1, <3>1, <3>4
 <2>4. CASE writers # <<>>
  <3>1. lead' = lead BY <2>4 DEF Enqueue
  <3>2. lead.pc # "none" BY <2>4, QueueIs
  <3>3. lead.pc \in Logging =>
           /\ Len(lead.group) \in 1 .. Len(q)
           /\ \A i \in 1 .. Len(lead.group) : lead.group[i] = q[i]
   <4> SUFFICES ASSUME lead.pc \in Logging
                PROVE  /\ Len(lead.group) \in 1 .. Len(q)
                       /\ \A i \in 1 .. Len(lead.group) : lead.group[i] = q[i]
    OBVIOUS
   <4>1. Len(lead.group) \in 1 .. Len(writers) BY QueueIs
   <4>2. Len(lead.group) \in 1 .. Len(q) BY <4>1, <2>2
   <4>3. ASSUME NEW i \in 1 .. Len(lead.group) PROVE lead.group[i] = q[i]
    <5>1. lead.group[i] = writers[i] BY QueueIs
    <5>2. i \in 1 .. Len(writers) BY <4>1, <2>2
    <5> QED BY <5>1, <5>2, <2>2
   <4> QED BY <4>2, <4>3
  <3>4. QueueOK(q, lead) BY <2>2, <3>2, <3>3, QueueIs DEF QueueOK
  <3> QED BY <2>1, <3>1, <3>4
 <2> QED BY <2>3, <2>4
<1> QED BY <1>1, <1>2, <1>3, <1>4, ShapeIs DEF Shape

LEMMA ShapeAwaitImm ==
  ASSUME Shape, NEW w \in Writers, AwaitImm(w) PROVE Shape'
<1>1. UNCHANGED <<logs, tables, manifest, up, rec, version, mem, imm, logfile, pending,
                  scheduled, bgError, flush, comp, writers, lead, seqOf, excused, budget>>
 BY DEF AwaitImm, diskVars, openVars, memVars, bgVars
<1>3. req' \in [Writers -> ReqType]
 <2> DEFINE s == CASE imm = Nil -> "ok" [] imm # Nil /\ bgError  -> "error" [] OTHER -> "wait"
 <2>1. s \in {"ok", "error", "wait"} BY ShapeIs
 <2>2. req' = [req EXCEPT ![w].st = s] BY DEF AwaitImm
 <2> HIDE DEF s
 <2>3. [req[w] EXCEPT !.st = s] \in ReqType BY <2>1, ShapeIs DEF ReqType
 <2> QED BY <2>2, <2>3, ShapeIs
<1> QED BY <1>1, <1>3, ShapeIs DEF Shape

\* What MakeRoomForWrite does to the queue: the first writer leaves it.
LEMMA FinishQueue ==
  ASSUME Shape, NEW n \in 1 .. Len(writers), NEW s \in {"ok", "error"}, Finish(n, s)
  PROVE QueueOK(writers', lead') /\ req' \in [Writers -> ReqType]
<1>1. /\ writers' \in Seq(Writers) /\ req' \in [Writers -> ReqType]
      /\ lead' \in LeadType /\ lead'.pc \in {"none", "room"} /\ lead'.group = <<>>
      /\ (lead'.pc = "none") <=> (writers' = <<>>)
 BY FinishType, ShapeIs, QueueIs
<1> QED BY <1>1 DEF QueueOK, Logging

\* A writer in MakeRoomForWrite is in the queue.
LEMMA InLoopQueue ==
  ASSUME Shape, InLoop PROVE writers # <<>> /\ 1 \in 1 .. Len(writers) /\ lead.group = <<>>
<1>1. lead.pc # "none" /\ lead.pc \notin Logging BY DEF InLoop, Logging
<1>2. writers # <<>> /\ lead.group = <<>> /\ writers \in Seq(Writers) BY <1>1, QueueIs
<1> QED BY <1>2, NonEmptyLen

LEMMA ShapeMakeRoomError == ASSUME Shape, MakeRoomError PROVE Shape'
<1>1. UNCHANGED <<logs, tables, manifest, up, rec, version, mem, imm, logfile, pending,
                  scheduled, bgError, flush, comp, seqOf, excused, budget>>
 BY DEF MakeRoomError, diskVars, openVars, memVars, bgVars
<1>2. QueueOK(writers', lead') /\ req' \in [Writers -> ReqType]
 BY InLoopQueue, FinishQueue DEF MakeRoomError
<1> QED BY <1>1, <1>2, ShapeIs DEF Shape

LEMMA ShapeMakeRoomLoop == ASSUME Shape, MakeRoomDelay \/ MakeRoomWait PROVE Shape'
<1>1. UNCHANGED <<logs, tables, manifest, up, rec, version, mem, imm, logfile, pending,
                  scheduled, bgError, flush, comp, writers, req, seqOf, excused, budget>>
 BY DEF MakeRoomDelay, MakeRoomWait, diskVars, openVars, memVars, bgVars
<1>2. writers # <<>> /\ lead.group = <<>> BY InLoopQueue DEF MakeRoomDelay, MakeRoomWait
<1>3. \/ lead' = [lead EXCEPT !.pc = "room", !.delay = FALSE]
      \/ lead' = [lead EXCEPT !.pc = "waiting"]
 BY DEF MakeRoomDelay, MakeRoomWait
<1>4. lead' \in LeadType /\ lead'.pc \in {"room", "waiting"} /\ lead'.group = lead.group
 BY <1>3, QueueIs DEF LeadType
<1>5. QueueOK(writers, lead') BY <1>2, <1>4, QueueIs DEF QueueOK, Logging
<1> QED BY <1>1, <1>5, ShapeIs DEF Shape

\* A log that is created is empty.
LEMMA NewLogOK ==
  ASSUME NEW l, LogsOK(l), NEW n \in Nat, NEW l2,
         l2 = [k \in DOMAIN l \cup {n} |-> IF k = n THEN [recs |-> <<>>, synced |-> 0] ELSE l[k]]
  PROVE  /\ LogsOK(l2) /\ DOMAIN l2 = DOMAIN l \cup {n} /\ l2[n].recs = <<>>
         /\ \A k \in DOMAIN l : k # n => l2[k] = l[k]
<1> DEFINE f == [recs |-> <<>>, synced |-> 0]
<1>1. <<>> \in Seq(SUBSET Writers) /\ Len(<<>>) = 0 OBVIOUS
<1>2. f \in LogFileType /\ f.synced <= Len(f.recs) /\ f.recs = <<>> BY <1>1 DEF LogFileType
<1>3. l2 = [k \in DOMAIN l \cup {n} |-> IF k = n THEN f ELSE l[k]] OBVIOUS
<1> HIDE DEF f
<1>4. DOMAIN l2 = DOMAIN l \cup {n} /\ l2[n] = f /\ \A k \in DOMAIN l : k # n => l2[k] = l[k]
 BY <1>3
<1>5. DOMAIN l2 \subseteq Nat BY <1>4 DEF LogsOK
<1>6. l2 \in [DOMAIN l2 -> LogFileType] BY <1>2, <1>3, <1>4 DEF LogsOK
<1>7. \A k \in DOMAIN l2 : l2[k].synced <= Len(l2[k].recs) BY <1>2, <1>4 DEF LogsOK
<1> QED BY <1>2, <1>4, <1>5, <1>6, <1>7 DEF LogsOK

LEMMA ShapeSwitchMemTable == ASSUME Shape, SwitchMemTable PROVE Shape'
<1>1. UNCHANGED <<tables, manifest, up, rec, pending, bgError, flush, comp, seqOf, excused>>
 BY DEF SwitchMemTable, openVars
<1>2. InLoop /\ imm = Nil BY DEF SwitchMemTable, MustWait
<1>3. ASSUME NoFault, logfile' = version.next,
             version' = [version EXCEPT !.next = version.next + 1],
             logs' = [n \in DOMAIN logs \cup {logfile'} |->
                        IF n = logfile' THEN [recs |-> <<>>, synced |-> 0] ELSE logs[n]],
             imm' = mem, mem' = {},
             lead' = [lead EXCEPT !.pc = "switched", !.force = FALSE],
             scheduled' = MaybeScheduleCompaction(scheduled, mem, version, bgError),
             UNCHANGED <<writers, req>>
      PROVE Shape'
 <2>1. logfile' \in Nat /\ version' \in VersionType
  <3>1. version.next \in Nat /\ version.next + 1 \in Nat BY ShapeIs, VersionIs
  <3> QED BY <1>3, <3>1, ShapeIs, BumpNext
 <2>2. LogsOK(logs') /\ DOMAIN logs \subseteq DOMAIN logs' BY <1>3, <2>1, ShapeIs, NewLogOK
 <2>3. RecOK(rec', logs') BY <1>1, <2>2, ShapeIs DEF RecOK
 <2>4. QueueOK(writers', lead')
  <3>1. lead' \in LeadType /\ lead'.pc = "switched" /\ lead'.group = lead.group
   BY <1>3, QueueIs DEF LeadType
  <3> QED BY <1>3, <3>1, <1>2, InLoopQueue, QueueIs DEF QueueOK, Logging
 <2>5. scheduled' \in BOOLEAN BY <1>3, ScheduleType, ShapeIs
 <2>6. ImmOK(imm') /\ mem' \in SUBSET Writers BY <1>3, ShapeIs DEF ImmOK
 <2>7. WorkOK(flush', comp', imm')
  <3>1. flush.pc = "none" BY <1>2, ShapeIs DEF WorkOK
  <3> QED BY <1>1, <3>1, ShapeIs DEF WorkOK
 <2>8. budget' \in BudgetType BY <1>3, FaultType, ShapeIs
 <2> QED BY <1>1, <1>3, <2>1, <2>2, <2>3, <2>4, <2>5, <2>6, <2>7, <2>8, ShapeIs DEF Shape
<1>4. ASSUME Fault, Finish(1, "error"),
             UNCHANGED <<logs, version, mem, imm, logfile, scheduled>>
      PROVE Shape'
 <2>1. budget' \in BudgetType BY <1>4, FaultType, ShapeIs
 <2>2. QueueOK(writers', lead') /\ req' \in [Writers -> ReqType]
  BY <1>4, <1>2, InLoopQueue, FinishQueue
 <2> QED BY <1>1, <1>4, <2>1, <2>2, ShapeIs DEF Shape
<1> QED BY <1>3, <1>4 DEF SwitchMemTable

\* There are finitely many callers,
LEMMA WritersAreFinite == IsFiniteSet(Writers) /\ Cardinality(Writers) \in Nat /\ Writers \subseteq Nat
<1>1. PICK N \in Nat : Writers = 1 .. N BY WritersFinite
<1>2. IsFiniteSet(1 .. N) /\ Cardinality(1 .. N) \in Nat BY FS_Interval, FS_CardinalityType
<1> QED BY <1>1, <1>2

\* and batches in a memtable.
LEMMA SubsetOfWriters ==
  ASSUME NEW s \in SUBSET Writers
  PROVE IsFiniteSet(s) /\ Cardinality(s) \in Nat /\ Cardinality(s) <= Cardinality(Writers)
BY WritersAreFinite, FS_Subset, FS_CardinalityType

\* The batches of a group.
LEMMA BatchesOf ==
  ASSUME NEW q \in Seq(Writers)
  PROVE  /\ ToSet(q) = {q[i] : i \in 1 .. Len(q)} /\ ToSet(q) \subseteq Writers
         /\ Batches(q) = {w \in ToSet(q) : req[w].kind # "flush"}
         /\ Batches(q) \in SUBSET Writers /\ Cardinality(Batches(q)) \in Nat
<1>1. ToSet(q) = {q[i] : i \in 1 .. Len(q)} /\ ToSet(q) \subseteq Writers BY DEF ToSet
<1>2. Batches(q) = {w \in ToSet(q) : req[w].kind # "flush"} BY DEF Batches
<1>3. Batches(q) \in SUBSET Writers BY <1>1, <1>2
<1> QED BY <1>1, <1>2, <1>3, SubsetOfWriters

LEMMA ShapeMakeRoomDone == ASSUME Shape, MakeRoomDone PROVE Shape'
<1>1. UNCHANGED <<logs, tables, manifest, up, rec, version, mem, imm, logfile, pending,
                  scheduled, bgError, flush, comp, excused, budget>>
 BY DEF MakeRoomDone, diskVars, openVars, memVars, bgVars
<1>2. InLoop BY DEF MakeRoomDone
<1>3. writers # <<>> /\ 1 \in 1 .. Len(writers) /\ writers \in Seq(Writers) /\ lead \in LeadType
 BY <1>2, InLoopQueue, QueueIs
<1>4. ASSUME Finish(1, "ok"), UNCHANGED seqOf PROVE Shape'
 <2>1. QueueOK(writers', lead') /\ req' \in [Writers -> ReqType] BY <1>3, <1>4, FinishQueue
 <2> QED BY <1>1, <1>4, <2>1, ShapeIs DEF Shape
<1> DEFINE n == BuildBatchGroup
           group == SubSeq(writers, 1, n)
           batch == Batches(group)
           s == [w \in Writers |-> IF w \in batch
                                   THEN version.seq + Cardinality({v \in batch : v <= w})
                                   ELSE seqOf[w]]
<1>5. ASSUME lead' = [lead EXCEPT !.pc = "logging", !.group = group], seqOf' = s,
             UNCHANGED <<writers, req>>
      PROVE Shape'
 <2>1. n \in 1 .. Len(writers) BY <1>3, BuildBatchGroupRange
 <2> HIDE DEF n
 <2>2. /\ group \in Seq(Writers) /\ Len(group) = n /\ \A i \in 1 .. n : group[i] = writers[i]
  BY <1>3, <2>1, SubSeqProperties
 <2> HIDE DEF group
 <2>3. QueueOK(writers, lead')
  <3>1. lead' \in LeadType /\ lead'.pc = "logging" /\ lead'.group = group
   BY <1>5, <1>3, <2>2 DEF LeadType
  <3> QED BY <3>1, <1>3, <2>1, <2>2 DEF QueueOK, Logging
 <2>4. batch \in SUBSET Writers BY <2>2, BatchesOf
 <2> HIDE DEF batch
 <2>5. PICK B \in Nat : \A w \in Writers : seqOf[w] <= B BY ShapeIs DEF SeqBounded
 <2>6. version.seq \in Nat /\ seqOf \in [Writers -> Nat] /\ Cardinality(Writers) \in Nat
  BY ShapeIs, VersionIs, WritersAreFinite DEF SeqBounded
 <2>7. ASSUME NEW w \in Writers
       PROVE s[w] \in Nat /\ s[w] <= B + version.seq + Cardinality(Writers)
  <3> DEFINE c == Cardinality({v \in batch : v <= w})
  <3>1. c \in Nat /\ c <= Cardinality(Writers)
   <4>1. {v \in batch : v <= w} \in SUBSET Writers BY <2>4
   <4> QED BY <4>1, SubsetOfWriters
  <3>2. s[w] = IF w \in batch THEN version.seq + c ELSE seqOf[w] OBVIOUS
  <3>3. seqOf[w] \in Nat /\ seqOf[w] <= B BY <2>5, <2>6
  <3> HIDE DEF c, s
  <3> QED BY <2>6, <3>1, <3>2, <3>3
 <2>8. SeqBounded(s)
  <3>1. B + version.seq + Cardinality(Writers) \in Nat BY <2>6
  <3>2. s \in [Writers -> Nat] BY <2>7
  <3> HIDE DEF s
  <3> QED BY <3>1, <3>2, <2>7 DEF SeqBounded
 <2> HIDE DEF s
 <2> QED BY <1>1, <1>5, <2>3, <2>8, ShapeIs DEF Shape
<1> QED BY <1>4, <1>5 DEF MakeRoomDone

\* A record is appended to the current log.
LEMMA LogWithOK ==
  ASSUME LogsOK(logs), NEW r \in SUBSET Writers
  PROVE  /\ LogsOK(LogWith(r)) /\ DOMAIN LogWith(r) = DOMAIN logs
         /\ \A n \in DOMAIN logs : n # logfile => LogWith(r)[n] = logs[n]
         /\ logfile \in DOMAIN logs =>
               /\ LogWith(r)[logfile].recs = Append(logs[logfile].recs, r)
               /\ LogWith(r)[logfile].synced = logs[logfile].synced
<1> DEFINE l2 == LogWith(r)
<1>1. l2 = [logs EXCEPT ![logfile] = [logs[logfile] EXCEPT !.recs = Append(logs[logfile].recs, r)]]
 BY DEF LogWith
<1>2. DOMAIN l2 = DOMAIN logs /\ \A n \in DOMAIN logs : n # logfile => l2[n] = logs[n]
 BY <1>1 DEF LogsOK
<1>3. ASSUME logfile \in DOMAIN logs
      PROVE  /\ l2[logfile].recs = Append(logs[logfile].recs, r)
             /\ l2[logfile].synced = logs[logfile].synced
             /\ l2[logfile] \in LogFileType
             /\ l2[logfile].synced <= Len(l2[logfile].recs)
 <2> DEFINE f == logs[logfile]
 <2>1. f \in LogFileType /\ f.synced <= Len(f.recs) BY <1>3 DEF LogsOK
 <2>2. l2[logfile] = [f EXCEPT !.recs = Append(f.recs, r)] BY <1>1, <1>3 DEF LogsOK
 <2> HIDE DEF f, l2
 <2>3. Append(f.recs, r) \in Seq(SUBSET Writers) /\ Len(Append(f.recs, r)) = Len(f.recs) + 1
       /\ f.synced \in Nat /\ Len(f.recs) \in Nat
  BY <2>1 DEF LogFileType
 <2>4. l2[logfile].recs = Append(f.recs, r) /\ l2[logfile].synced = f.synced
       /\ l2[logfile] \in LogFileType
  BY <2>1, <2>2, <2>3 DEF LogFileType
 <2>5. l2[logfile].synced <= Len(l2[logfile].recs) BY <2>1, <2>3, <2>4
 <2> QED BY <2>4, <2>5 DEF f
<1> HIDE DEF l2
<1>4. l2 \in [DOMAIN l2 -> LogFileType]
 <2>1. l2 = [n \in DOMAIN l2 |-> l2[n]] BY <1>1, <1>2 DEF LogsOK
 <2>2. \A n \in DOMAIN l2 : l2[n] \in LogFileType BY <1>2, <1>3 DEF LogsOK
 <2> QED BY <2>1, <2>2
<1>5. \A n \in DOMAIN l2 : l2[n].synced <= Len(l2[n].recs) BY <1>2, <1>3 DEF LogsOK
<1>6. LogsOK(l2) BY <1>2, <1>4, <1>5 DEF LogsOK
<1> QED BY <1>2, <1>3, <1>6 DEF l2

\* Its last sequence number is not below the one before.
LEMMA GroupBatches ==
  ASSUME Shape
  PROVE  /\ Batches(lead.group) \in SUBSET Writers /\ LastSequence \in Nat
         /\ version.seq <= LastSequence
<1>1. lead.group \in Seq(Writers) BY QueueIs DEF LeadType
<1>2. Batches(lead.group) \in SUBSET Writers /\ Cardinality(Batches(lead.group)) \in Nat
 BY <1>1, BatchesOf
<1>3. version.seq \in Nat BY ShapeIs, VersionIs
<1> QED BY <1>2, <1>3 DEF LastSequence

LEMMA ShapeAddRecord == ASSUME Shape, AddRecord PROVE Shape'
<1>1. UNCHANGED <<tables, manifest, up, rec, version, mem, imm, logfile, pending,
                  scheduled, bgError, flush, comp, writers, req, seqOf, excused, budget>>
 BY DEF AddRecord, openVars, memVars, bgVars
<1>2. LogsOK(logs') /\ DOMAIN logs' = DOMAIN logs
 <2> DEFINE b == Batches(lead.group)
 <2>1. logs' = LogWith(b) BY DEF AddRecord
 <2>2. b \in SUBSET Writers BY GroupBatches
 <2> HIDE DEF b
 <2> QED BY <2>1, <2>2, LogWithOK, ShapeIs
<1>3. RecOK(rec, logs') BY <1>2, ShapeIs DEF RecOK
<1>4. QueueOK(writers, lead')
 <2> DEFINE p == IF req[Head(writers)].kind = "sync" THEN "syncing" ELSE "applying"
 <2>1. lead' = [lead EXCEPT !.pc = p] /\ lead.pc = "logging" BY DEF AddRecord
 <2>2. p \in {"syncing", "applying"} OBVIOUS
 <2> HIDE DEF p
 <2>3. lead' \in LeadType /\ lead'.pc = p /\ lead'.group = lead.group
  BY <2>1, <2>2, QueueIs DEF LeadType
 <2> QED BY <2>1, <2>2, <2>3, QueueIs DEF QueueOK, Logging
<1> QED BY <1>1, <1>2, <1>3, <1>4, ShapeIs DEF Shape

LEMMA ShapeAddRecordFails == ASSUME Shape, AddRecordFails PROVE Shape'
<1>1. UNCHANGED <<tables, manifest, up, rec, mem, imm, logfile, pending,
                  scheduled, bgError, flush, comp, seqOf, excused>>
 BY DEF AddRecordFails, openVars, bgVars
<1>2. LogsOK(logs') /\ DOMAIN logs' = DOMAIN logs
 <2>1. TornLog \in SUBSET Writers /\ Batches(lead.group) \in SUBSET Writers
  BY GroupBatches DEF TornLog
 <2>2. logs' = logs \/ \E r \in SUBSET Writers : logs' = LogWith(r) BY <2>1 DEF AddRecordFails
 <2> QED BY <2>2, LogWithOK, ShapeIs
<1>3. RecOK(rec, logs') BY <1>2, ShapeIs DEF RecOK
<1>4. version' \in VersionType BY GroupBatches, BumpSeq, ShapeIs DEF AddRecordFails
<1>5. QueueOK(writers', lead') /\ req' \in [Writers -> ReqType]
 BY FinishQueue, QueueIs DEF AddRecordFails, Logging
<1>6. budget' \in BudgetType BY FaultType, ShapeIs DEF AddRecordFails
<1> QED BY <1>1, <1>2, <1>3, <1>4, <1>5, <1>6, ShapeIs DEF Shape

LEMMA ShapeSyncLog == ASSUME Shape, SyncLog PROVE Shape'
<1>1. UNCHANGED <<tables, manifest, up, rec, version, mem, imm, logfile, pending,
                  scheduled, bgError, flush, comp, writers, req, seqOf, excused, budget>>
 BY DEF SyncLog, openVars, memVars, bgVars
<1>2. LogsOK(logs') /\ DOMAIN logs' = DOMAIN logs
 <2> DEFINE f == logs[logfile]
            g == [f EXCEPT !.synced = Len(f.recs)]
 <2>1. logs' = [logs EXCEPT ![logfile] = g] BY DEF SyncLog
 <2>2. logfile \in DOMAIN logs => g \in LogFileType /\ g.synced <= Len(g.recs)
  <3> SUFFICES ASSUME logfile \in DOMAIN logs PROVE g \in LogFileType /\ g.synced <= Len(g.recs)
   OBVIOUS
  <3>1. f \in LogFileType BY ShapeIs DEF LogsOK
  <3> HIDE DEF f
  <3>2. g.recs = f.recs /\ g.synced = Len(f.recs) /\ Len(f.recs) \in Nat BY <3>1 DEF LogFileType
  <3>3. g \in LogFileType BY <3>1, <3>2 DEF LogFileType
  <3> QED BY <3>2, <3>3
 <2> HIDE DEF g
 <2>3. DOMAIN logs' = DOMAIN logs BY <2>1, ShapeIs DEF LogsOK
 <2>4. logs' \in [DOMAIN logs' -> LogFileType] BY <2>1, <2>2, ShapeIs DEF LogsOK
 <2>5. \A n \in DOMAIN logs' : logs'[n].synced <= Len(logs'[n].recs)
  BY <2>1, <2>2, <2>3, ShapeIs DEF LogsOK
 <2> QED BY <2>3, <2>4, <2>5, ShapeIs DEF LogsOK
<1>3. RecOK(rec, logs') BY <1>2, ShapeIs DEF RecOK
<1>4. QueueOK(writers, lead')
 <2>1. lead' = [lead EXCEPT !.pc = "applying"] /\ lead.pc = "syncing" BY DEF SyncLog
 <2>3. lead' \in LeadType /\ lead'.pc = "applying" /\ lead'.group = lead.group
  BY <2>1, QueueIs DEF LeadType
 <2> QED BY <2>1, <2>3, QueueIs DEF QueueOK, Logging
<1> QED BY <1>1, <1>2, <1>3, <1>4, ShapeIs DEF Shape

\* A failing Sync ends the group as Finish does, and wakes everybody.
LEMMA SyncFailsQueue ==
  ASSUME Shape, SyncLogFails
  PROVE  /\ QueueOK(writers', lead') /\ req' \in [Writers -> ReqType]
         /\ writers' = SubSeq(writers, Len(lead.group) + 1, Len(writers))
         /\ lead'.pc \in {"none", "room"} /\ lead'.group = <<>>
         /\ \A w \in Writers :
               /\ req'[w].kind = req[w].kind
               /\ IF w \in {writers[i] : i \in 1 .. Len(lead.group)}
                  THEN req'[w].st = "error"
                  ELSE req'[w].st = IF req[w].st = "wait" THEN "check" ELSE req[w].st
<1> DEFINE n == Len(lead.group)
           done == {writers[i] : i \in 1 .. n}
           q == SubSeq(writers, n + 1, Len(writers))
<1>0. n \in 1 .. Len(writers) BY QueueIs DEF SyncLogFails, Logging
<1>1. writers' = q /\ lead' = Foremost(q) BY DEF SyncLogFails
<1>2. q \in Seq(Writers) BY <1>0, QueueIs
<1> HIDE DEF q
<1>3. /\ lead' \in LeadType /\ lead'.pc \in {"none", "room"} /\ lead'.group = <<>>
      /\ (lead'.pc = "none") <=> (q = <<>>)
 BY <1>1, ForemostType
<1>4. QueueOK(writers', lead') BY <1>1, <1>2, <1>3 DEF QueueOK, Logging
<1>5. req' = [w \in Writers |->
                IF w \in done THEN [req[w] EXCEPT !.st = "error"]
                ELSE IF req[w].st = "wait" THEN [req[w] EXCEPT !.st = "check"]
                ELSE req[w]]
 BY DEF SyncLogFails
<1> HIDE DEF done
<1>6. ASSUME NEW w \in Writers
      PROVE  /\ req'[w] \in ReqType /\ req'[w].kind = req[w].kind
             /\ IF w \in done THEN req'[w].st = "error"
                ELSE req'[w].st = IF req[w].st = "wait" THEN "check" ELSE req[w].st
 <2> DEFINE r == req[w]
 <2>1. r \in ReqType BY ShapeIs
 <2>2. req'[w] = IF w \in done THEN [r EXCEPT !.st = "error"]
                 ELSE IF r.st = "wait" THEN [r EXCEPT !.st = "check"] ELSE r
  BY <1>5
 <2> HIDE DEF r
 <2> QED BY <2>1, <2>2 DEF ReqType, r
<1>7. req' \in [Writers -> ReqType] BY <1>5, <1>6
<1> QED BY <1>1, <1>3, <1>4, <1>6, <1>7 DEF done, q

LEMMA ShapeSyncLogFails == ASSUME Shape, SyncLogFails PROVE Shape'
<1>1. UNCHANGED <<logs, tables, manifest, up, rec, mem, imm, logfile, pending,
                  scheduled, flush, comp, seqOf, excused>>
 BY DEF SyncLogFails, openVars, diskVars
<1>4. version' \in VersionType /\ bgError' \in BOOLEAN
 BY GroupBatches, BumpSeq, ShapeIs DEF SyncLogFails
<1>5. QueueOK(writers', lead') /\ req' \in [Writers -> ReqType] BY SyncFailsQueue
<1>6. budget' \in BudgetType BY FaultType, ShapeIs DEF SyncLogFails
<1> QED BY <1>1, <1>4, <1>5, <1>6, ShapeIs DEF Shape

LEMMA ShapeApplyGroup == ASSUME Shape, ApplyGroup PROVE Shape'
<1>1. UNCHANGED <<logs, tables, manifest, up, rec, imm, logfile, pending,
                  scheduled, bgError, flush, comp, seqOf, budget>>
 BY DEF ApplyGroup, openVars, bgVars, diskVars
<1>2. mem' \in SUBSET Writers /\ excused' \in SUBSET Writers
 BY GroupBatches, ShapeIs DEF ApplyGroup
<1>4. version' \in VersionType BY GroupBatches, BumpSeq, ShapeIs DEF ApplyGroup
<1>5. QueueOK(writers', lead') /\ req' \in [Writers -> ReqType]
 BY FinishQueue, QueueIs DEF ApplyGroup, Logging
<1> QED BY <1>1, <1>2, <1>4, <1>5, ShapeIs DEF Shape

\* A wakeup keeps the queue a queue.
LEMMA SignalQueue ==
  ASSUME Shape, SignalAll, UNCHANGED writers
  PROVE QueueOK(writers', lead') /\ req' \in [Writers -> ReqType]
<1>1. /\ req' \in [Writers -> ReqType] /\ lead' \in LeadType
      /\ lead'.group = lead.group
      /\ lead'.pc = IF lead.pc = "waiting" THEN "room" ELSE lead.pc
 BY SignalType, ShapeIs, QueueIs
<1> QED BY <1>1, QueueIs DEF QueueOK, Logging

LEMMA ShapeBackgroundCallSkips == ASSUME Shape, BackgroundCallSkips PROVE Shape'
<1>1. UNCHANGED <<logs, tables, manifest, up, rec, version, mem, imm, logfile, pending,
                  bgError, flush, comp, writers, seqOf, excused, budget>>
 BY DEF BackgroundCallSkips, diskVars, openVars, memVars
<1>2. SignalAll /\ scheduled' \in BOOLEAN
 BY DEF BackgroundCallSkips, EndCall, MaybeScheduleCompaction
<1>3. QueueOK(writers', lead') /\ req' \in [Writers -> ReqType] BY <1>1, <1>2, SignalQueue
<1> QED BY <1>1, <1>2, <1>3, ShapeIs DEF Shape

LEMMA ShapeFlushBegin == ASSUME Shape, FlushBegin PROVE Shape'
<1>1. UNCHANGED <<logs, tables, manifest, up, rec, mem, imm, logfile,
                  scheduled, bgError, comp, writers, lead, req, seqOf, excused, budget>>
 BY DEF FlushBegin, diskVars, openVars, callVars
<1>2. version.next \in Nat /\ version.next + 1 \in Nat BY ShapeIs, VersionIs
<1>3. version' \in VersionType /\ pending' \in SUBSET Nat
 BY <1>2, BumpNext, ShapeIs DEF FlushBegin
<1>4. WorkOK(flush', comp, imm)
 <2>1. flush' = [pc |-> "build", out |-> version.next, edit |-> Nil] BY DEF FlushBegin, NoFlush
 <2>2. flush' \in FlushType /\ flush'.pc = "build" BY <1>2, <2>1 DEF FlushType
 <2>3. comp.pc \in {"none", "work"} /\ imm # Nil BY DEF FlushBegin, Idle
 <2> QED BY <2>2, <2>3, ShapeIs DEF WorkOK, Edited
<1> QED BY <1>1, <1>3, <1>4, ShapeIs DEF Shape

\* A table is written.
LEMMA NewTableOK ==
  ASSUME NEW t, TablesOK(t), NEW n \in Nat, NEW s \in SUBSET Writers, NEW t2,
         t2 = [k \in DOMAIN t \cup {n} |-> IF k = n THEN s ELSE t[k]]
  PROVE  /\ TablesOK(t2) /\ DOMAIN t2 = DOMAIN t \cup {n} /\ t2[n] = s
         /\ \A k \in DOMAIN t : k # n => t2[k] = t[k]
<1>1. DOMAIN t2 = DOMAIN t \cup {n} OBVIOUS
<1>2. t2 \in [DOMAIN t2 -> SUBSET Writers] BY DEF TablesOK
<1> QED BY <1>1, <1>2 DEF TablesOK

\* A flush waits for no compaction but the one it interrupts.
LEMMA FlushIdle ==
  ASSUME Shape, flush.pc # "none"
  PROVE  /\ comp.pc \in {"none", "work"} /\ imm # Nil /\ imm \in SUBSET Writers
         /\ flush.out \in Nat /\ flush \in FlushType
BY ShapeIs DEF WorkOK, ImmOK, FlushType

\* No flush is under way.
LEMMA WorkNoFlush == ASSUME Shape, NEW i PROVE WorkOK(NoFlush, comp, i)
BY ShapeIs, NoFlushType DEF WorkOK, Edited

LEMMA ShapeFlushBuild == ASSUME Shape, FlushBuild PROVE Shape'
<1>1. UNCHANGED <<logs, manifest, up, rec, version, mem, imm, logfile, comp, writers, seqOf,
                  excused>>
 BY DEF FlushBuild, openVars, memVars
<1>2. pending' \in SUBSET Nat /\ flush.pc = "build" BY ShapeIs DEF FlushBuild
<1>3. TablesOK(tables')
 <2>1. imm \in SUBSET Writers /\ flush.out \in Nat BY <1>2, FlushIdle
 <2>2. \/ tables' = tables
       \/ tables' = [n \in DOMAIN tables \cup {flush.out} |->
                              IF n = flush.out THEN imm ELSE tables[n]]
  BY DEF FlushBuild
 <2> QED BY <2>1, <2>2, NewTableOK, ShapeIs, SMTT(30)
<1>4. budget' \in BudgetType BY FaultType, ShapeIs DEF FlushBuild
<1>5. ASSUME bgError' = TRUE, FlushReturn(imm, version, TRUE) PROVE Shape'
 <2>1. flush' = NoFlush /\ SignalAll /\ scheduled' \in BOOLEAN
  BY <1>5, ShapeIs DEF FlushReturn, EndCall, MaybeScheduleCompaction
 <2>2. QueueOK(writers', lead') /\ req' \in [Writers -> ReqType] BY <1>1, <2>1, SignalQueue
 <2>3. WorkOK(flush', comp', imm') BY <1>1, <2>1, WorkNoFlush
 <2> QED BY <1>1, <1>2, <1>3, <1>4, <1>5, <2>1, <2>2, <2>3, ShapeIs DEF Shape
<1>6. ASSUME NEW zero \in BOOLEAN,
             flush' = [flush EXCEPT !.pc = "manifest",
                         !.edit = Edit(IF zero THEN (IF imm = {} THEN {} ELSE {flush.out}) ELSE {},
                                       IF zero THEN {} ELSE (IF imm = {} THEN {} ELSE {flush.out}),
                                       {}, logfile, version)],
             UNCHANGED <<bgError, scheduled, req, lead>>
      PROVE Shape'
 <2> DEFINE a0 == IF zero THEN (IF imm = {} THEN {} ELSE {flush.out}) ELSE {}
            a1 == IF zero THEN {} ELSE (IF imm = {} THEN {} ELSE {flush.out})
            e == Edit(a0, a1, {}, logfile, version)
 <2>1. a0 \in SUBSET Nat /\ a1 \in SUBSET Nat BY <1>2, FlushIdle
 <2>2. flush' = [flush EXCEPT !.pc = "manifest", !.edit = e] BY <1>6
 <2> HIDE DEF a0, a1
 <2>3. e \in EditType BY <2>1, EditOf, ShapeIs
 <2> HIDE DEF e
 <2>4. flush' \in FlushType /\ flush'.edit = e /\ flush'.pc = "manifest"
  BY <1>2, <2>2, <2>3, FlushIdle DEF FlushType
 <2>5. WorkOK(flush', comp', imm') BY <1>1, <1>2, <2>3, <2>4, FlushIdle, ShapeIs DEF WorkOK
 <2> QED BY <1>1, <1>2, <1>3, <1>4, <1>6, <2>5, ShapeIs DEF Shape
<1> QED BY <1>5, <1>6 DEF FlushBuild

\* The manifest stays a manifest.
LEMMA WriteManifestOK ==
  ASSUME Shape, NEW e \in EditType, NEW ok \in BOOLEAN, WriteManifest(e, ok)
  PROVE ManifestOK(manifest') /\ budget' \in BudgetType
<1>0. manifest \in ManifestType /\ manifest.synced <= Len(manifest.recs)
 BY ShapeIs DEF ManifestOK
<1>1. budget' \in BudgetType BY FaultType, ShapeIs DEF WriteManifest
<1>2. \/ manifest' = manifest
      \/ \E r \in EditType \cup {Torn}, s \in {manifest.synced, Len(manifest.recs) + 1} :
            manifest' = [recs |-> Append(manifest.recs, r), synced |-> s]
 <2>1. \A r : [manifest EXCEPT !.recs = Append(manifest.recs, r)]
                 = [recs |-> Append(manifest.recs, r), synced |-> manifest.synced]
  BY <1>0 DEF ManifestType
 <2>2. CASE /\ NoFault /\ ok
            /\ manifest' = [recs |-> Append(manifest.recs, e),
                            synced |-> Len(manifest.recs) + 1]
  BY <2>2
 <2>3. CASE UNCHANGED manifest BY <2>3
 <2>4. CASE \E r \in {e, Torn} :
               manifest' = [manifest EXCEPT !.recs = Append(manifest.recs, r)]
  <3>1. PICK r \in {e, Torn} : manifest' = [manifest EXCEPT !.recs = Append(manifest.recs, r)]
   BY <2>4
  <3>2. manifest' = [recs |-> Append(manifest.recs, r), synced |-> manifest.synced] BY <2>1, <3>1
  <3>3. r \in EditType \cup {Torn} OBVIOUS
  <3> QED BY <3>2, <3>3
 <2> QED BY <2>2, <2>3, <2>4 DEF WriteManifest
<1>3. CASE manifest' = manifest BY <1>1, <1>3, <1>0 DEF ManifestOK
<1>4. CASE \E r \in EditType \cup {Torn}, s \in {manifest.synced, Len(manifest.recs) + 1} :
              manifest' = [recs |-> Append(manifest.recs, r), synced |-> s]
 <2>1. PICK r \in EditType \cup {Torn}, s \in {manifest.synced, Len(manifest.recs) + 1} :
             manifest' = [recs |-> Append(manifest.recs, r), synced |-> s]
  BY <1>4
 <2> DEFINE m2 == [recs |-> Append(manifest.recs, r), synced |-> s]
 <2>2. m2 \in ManifestType /\ m2.synced <= Len(m2.recs) BY <1>0, ManifestAppend
 <2> QED BY <1>1, <2>1, <2>2 DEF ManifestOK
<1> QED BY <1>2, <1>3, <1>4

LEMMA ShapeFlushManifest == ASSUME Shape, FlushManifest PROVE Shape'
<1>1. UNCHANGED <<logs, tables, up, rec, version, mem, imm, logfile, pending, scheduled, bgError,
                  comp, writers, lead, req, seqOf, excused>>
 BY DEF FlushManifest, openVars, memVars, callVars
<1>2. PICK ok \in BOOLEAN : /\ WriteManifest(flush.edit, ok)
                            /\ flush' = [flush EXCEPT !.pc = IF ok THEN "done" ELSE "failed"]
 BY DEF FlushManifest
<1>3. flush.pc = "manifest" /\ flush.edit \in EditType
 BY ShapeIs DEF FlushManifest, WorkOK, Edited
<1>4. ManifestOK(manifest') /\ budget' \in BudgetType BY <1>2, <1>3, WriteManifestOK
<1>5. WorkOK(flush', comp, imm)
 <2> DEFINE p == IF ok THEN "done" ELSE "failed"
 <2>1. p \in {"done", "failed"} /\ flush' = [flush EXCEPT !.pc = p] BY <1>2
 <2> HIDE DEF p
 <2>2. flush' \in FlushType /\ flush'.edit = flush.edit /\ flush'.pc \in {"done", "failed"}
  BY <2>1, <1>3, FlushIdle DEF FlushType
 <2> QED BY <1>3, <2>2, FlushIdle, ShapeIs DEF WorkOK
<1> QED BY <1>1, <1>4, <1>5, ShapeIs DEF Shape

\* Deleting files keeps the shape of the directory.
LEMMA DeleteOK ==
  ASSUME LogsOK(logs), TablesOK(tables), NEW L, NEW T,
         logs' = [n \in DOMAIN logs \cap L |-> logs[n]],
         tables' = [n \in DOMAIN tables \cap T |-> tables[n]]
  PROVE /\ LogsOK(logs') /\ TablesOK(tables')
<1> DEFINE l == [n \in DOMAIN logs \cap L |-> logs[n]]
           t == [n \in DOMAIN tables \cap T |-> tables[n]]
<1>1. LogsOK(l)
 <2>1. DOMAIN l = DOMAIN logs \cap L /\ \A n \in DOMAIN l : l[n] = logs[n] OBVIOUS
 <2>2. l \in [DOMAIN l -> LogFileType] BY DEF LogsOK
 <2> HIDE DEF l
 <2> QED BY <2>1, <2>2 DEF LogsOK
<1>2. TablesOK(t)
 <2>1. DOMAIN t = DOMAIN tables \cap T /\ \A n \in DOMAIN t : t[n] = tables[n] OBVIOUS
 <2>2. t \in [DOMAIN t -> SUBSET Writers] BY DEF TablesOK
 <2> HIDE DEF t
 <2> QED BY <2>1, <2>2 DEF TablesOK
<1> QED BY <1>1, <1>2

\* DeleteObsoleteFiles either does nothing or keeps the logs from v.log on and the
\* tables of v and p.
LEMMA DeleteShape ==
  ASSUME Shape, NEW v, NEW p, DeleteObsoleteFiles(v, p)
  PROVE  /\ LogsOK(logs') /\ TablesOK(tables')
         /\ DOMAIN logs' \subseteq DOMAIN logs /\ DOMAIN tables' \subseteq DOMAIN tables
         /\ \A n \in DOMAIN logs' : logs'[n] = logs[n]
         /\ \A n \in DOMAIN tables' : tables'[n] = tables[n]
         /\ \A n \in DOMAIN logs : n >= v.log => n \in DOMAIN logs'
         /\ DOMAIN tables \cap (p \cup Live(v)) \subseteq DOMAIN tables'
         /\ bgError => UNCHANGED <<logs, tables>>
<1>1. CASE bgError
 <2>1. logs' = logs /\ tables' = tables BY <1>1 DEF DeleteObsoleteFiles
 <2> QED BY <2>1, <1>1, ShapeIs
<1>2. CASE ~bgError
 <2> DEFINE L == {n \in DOMAIN logs : n >= v.log}
            T == p \cup Live(v)
            D == DOMAIN tables \cap T
 <2>1. logs' = [n \in L |-> logs[n]] /\ tables' = [n \in D |-> tables[n]]
  BY <1>2 DEF DeleteObsoleteFiles
 <2>2. L = DOMAIN logs \cap L OBVIOUS
 <2>3. \A n \in DOMAIN logs : n >= v.log => n \in L OBVIOUS
 <2> HIDE DEF L, T
 <2>4. LogsOK(logs') /\ TablesOK(tables') BY <2>1, <2>2, DeleteOK, ShapeIs
 <2>5. DOMAIN logs' = L /\ DOMAIN tables' = D BY <2>1
 <2>6. \A n \in DOMAIN logs' : logs'[n] = logs[n] BY <2>1, <2>5
 <2>7. \A n \in DOMAIN tables' : tables'[n] = tables[n] BY <2>1, <2>5
 <2> QED BY <1>2, <2>2, <2>3, <2>4, <2>5, <2>6, <2>7 DEF T
<1> QED BY <1>1, <1>2

\* The version that LogAndApply installs.
LEMMA InstalledIs ==
  ASSUME version \in VersionType, NEW e \in EditType
  PROVE  /\ Installed(e) \in VersionType
         /\ Installed(e).l0 = (version.l0 \ e.del) \cup e.add0
         /\ Installed(e).l1 = (version.l1 \ e.del) \cup e.add1
         /\ Installed(e).log = e.log
         /\ Installed(e).next = version.next /\ Installed(e).seq = version.seq
<1> DEFINE a == Apply(version, e)
<1>1. /\ a \in VersionType /\ a.l0 = (version.l0 \ e.del) \cup e.add0
      /\ a.l1 = (version.l1 \ e.del) \cup e.add1 /\ a.log = e.log
 BY ApplyType DEF Apply
<1>2. version.next \in Nat /\ version.seq \in Nat BY VersionIs
<1>a. Installed(e) = [a EXCEPT !.next = version.next, !.seq = version.seq] BY DEF Installed
<1> HIDE DEF a
<1>3. Installed(e) = [l0 |-> a.l0, l1 |-> a.l1, log |-> a.log, next |-> version.next,
                      seq |-> version.seq]
 BY <1>1, <1>a DEF VersionType
<1>4. a.l0 \in SUBSET Nat /\ a.l1 \in SUBSET Nat /\ a.log \in Nat BY <1>1, VersionIs
<1>5. Installed(e) \in VersionType BY <1>2, <1>3, <1>4 DEF VersionType
<1> QED BY <1>1, <1>3, <1>5

\* Only a running process has work under way.
LEMMA AtWork ==
  ASSUME Quiet, flush.pc # "none" \/ comp.pc # "none" \/ imm # Nil \/ scheduled
                \/ lead.pc # "none" \/ writers # <<>>
  PROVE up \in {"open", "closing"} /\ rec = NoRec
BY NoFlushType, NoCompType, NoLeadType DEF Quiet

LEMMA ShapeFlushInstall == ASSUME Shape, Quiet, FlushInstall PROVE Shape'
<1>1. UNCHANGED <<manifest, up, rec, mem, logfile, pending, comp, writers, seqOf, excused, budget>>
 BY DEF FlushInstall, openVars
<1>2. flush.pc \in {"done", "failed"} /\ rec = NoRec BY AtWork DEF FlushInstall
<1>3. flush' = NoFlush /\ SignalAll /\ scheduled' \in BOOLEAN
 BY ShapeIs DEF FlushInstall, FlushReturn, EndCall, MaybeScheduleCompaction
<1>4. QueueOK(writers', lead') /\ req' \in [Writers -> ReqType] BY <1>1, <1>3, SignalQueue
<1>5. WorkOK(flush', comp', imm') BY <1>1, <1>3, WorkNoFlush
<1>6. RecOK(rec', logs') BY <1>1, <1>2, QuietShape
<1>7. CASE flush.pc = "done"
 <2>1. /\ version' = Installed(flush.edit) /\ imm' = Nil /\ bgError' = bgError
       /\ DeleteObsoleteFiles(version', pending)
  BY <1>7 DEF FlushInstall
 <2>2. flush.edit \in EditType BY <1>7, ShapeIs DEF WorkOK, Edited
 <2>3. version' \in VersionType BY <2>1, <2>2, InstalledIs, ShapeIs
 <2>4. LogsOK(logs') /\ TablesOK(tables') BY <2>1, DeleteShape
 <2> QED BY <1>1, <1>3, <1>4, <1>5, <1>6, <2>1, <2>3, <2>4, ShapeIs DEF Shape, ImmOK
<1>8. CASE flush.pc = "failed"
 <2>1. bgError' = TRUE /\ UNCHANGED <<version, imm, logs, tables>> BY <1>8 DEF FlushInstall
 <2> QED BY <1>1, <1>3, <1>4, <1>5, <1>6, <2>1, ShapeIs DEF Shape
<1> QED BY <1>2, <1>7, <1>8

LEMMA ShapeCompactBegin ==
  ASSUME Shape, NEW over \in SUBSET version.l1, CompactBegin(over) PROVE Shape'
<1>1. UNCHANGED <<logs, tables, manifest, up, rec, version, mem, imm, logfile, pending,
                  scheduled, bgError, flush, writers, lead, req, seqOf, excused, budget>>
 BY DEF CompactBegin, diskVars, openVars, memVars, callVars
<1> DEFINE e == Edit({}, version.l0, version.l0, version.log, version)
<1>2. \/ comp' = [pc |-> "manifest", inputs |-> {}, out |-> 0, edit |-> e]
      \/ comp' = [pc |-> "work", inputs |-> version.l0 \cup over, out |-> 0, edit |-> Nil]
 BY DEF CompactBegin, NoComp
<1>3. e \in EditType /\ version.l0 \in SUBSET Nat /\ version.l1 \in SUBSET Nat
 BY EditOf, ShapeIs, VersionIs
<1> HIDE DEF e
<1>4. comp' \in CompType /\ (comp'.pc \in Edited => comp'.edit \in EditType)
 BY <1>2, <1>3 DEF CompType, Edited
<1>5. WorkOK(flush, comp', imm) BY <1>4, ShapeIs DEF WorkOK, Edited, CompactBegin, Idle
<1> QED BY <1>1, <1>5, ShapeIs DEF Shape

\* The locals of a compaction.
LEMMA CompIs ==
  ASSUME Shape PROVE comp \in CompType /\ comp.out \in Nat /\ comp.inputs \in SUBSET Nat
BY ShapeIs DEF WorkOK, CompType

LEMMA ShapeCompactOpen == ASSUME Shape, CompactOpen PROVE Shape'
<1>1. UNCHANGED <<logs, manifest, up, rec, mem, imm, logfile, scheduled, bgError, flush,
                  writers, lead, req, seqOf, excused, budget>>
 BY DEF CompactOpen, openVars, callVars
<1>2. version.next \in Nat /\ version.next + 1 \in Nat BY ShapeIs, VersionIs
<1>3. version' \in VersionType /\ pending' \in SUBSET Nat
 BY <1>2, BumpNext, ShapeIs DEF CompactOpen
<1>4. TablesOK(tables')
 <2> DEFINE s == {}
            n == version.next
 <2>1. s \in SUBSET Writers OBVIOUS
 <2>2. tables' = [k \in DOMAIN tables \cup {n} |-> IF k = n THEN s ELSE tables[k]]
  BY DEF CompactOpen
 <2>3. n \in Nat BY <1>2
 <2> HIDE DEF s, n
 <2> QED BY <2>1, <2>2, <2>3, NewTableOK, ShapeIs
<1>5. WorkOK(flush, comp', imm)
 <2>1. comp' = [comp EXCEPT !.out = version.next] /\ comp.pc = "work" BY DEF CompactOpen
 <2>2. comp' \in CompType /\ comp'.pc = "work" BY <1>2, <2>1, CompIs DEF CompType
 <2> QED BY <2>1, <2>2, ShapeIs DEF WorkOK, Edited
<1> QED BY <1>1, <1>3, <1>4, <1>5, ShapeIs DEF Shape

\* No compaction is under way.
LEMMA WorkNoComp == ASSUME Shape, flush.pc = "none" PROVE WorkOK(flush, NoComp, imm)
BY ShapeIs, NoCompType DEF WorkOK, Edited

LEMMA ShapeCompactWork == ASSUME Shape, CompactWork PROVE Shape'
<1>1. UNCHANGED <<logs, manifest, up, rec, version, mem, imm, logfile, flush, writers, seqOf,
                  excused>>
 BY DEF CompactWork, openVars, memVars
<1>2. budget' \in BudgetType /\ flush.pc = "none" /\ comp.pc = "work"
 BY FaultType, ShapeIs DEF CompactWork
<1> DEFINE u == UNION {tables[i] : i \in comp.inputs \cap DOMAIN tables}
           e == Edit({}, {comp.out}, comp.inputs, version.log, version)
<1>3. ASSUME tables' = [n \in DOMAIN tables |-> IF n = comp.out THEN u ELSE tables[n]],
             comp' = [comp EXCEPT !.pc = "manifest", !.edit = e],
             UNCHANGED <<pending, bgError, scheduled, req, lead>>
      PROVE Shape'
 <2>1. u \in SUBSET Writers BY ShapeIs DEF TablesOK
 <2> HIDE DEF u
 <2>2. TablesOK(tables') BY <1>3, <2>1, ShapeIs DEF TablesOK
 <2>3. e \in EditType BY EditOf, ShapeIs, VersionIs, CompIs
 <2> HIDE DEF e
 <2>4. comp' \in CompType /\ comp'.edit = e BY <1>3, <2>3, CompIs DEF CompType
 <2>5. WorkOK(flush, comp', imm) BY <1>2, <2>3, <2>4, ShapeIs DEF WorkOK, Edited
 <2> QED BY <1>1, <1>2, <1>3, <2>2, <2>5, ShapeIs DEF Shape
<1>4. ASSUME bgError' = TRUE, pending' = pending \ {comp.out}, comp' = NoComp,
             EndCall(imm, version, TRUE), UNCHANGED tables
      PROVE Shape'
 <2>1. SignalAll /\ scheduled' \in BOOLEAN BY <1>4 DEF EndCall, MaybeScheduleCompaction
 <2>2. QueueOK(writers', lead') /\ req' \in [Writers -> ReqType] BY <1>1, <2>1, SignalQueue
 <2>3. WorkOK(flush, comp', imm) BY <1>2, <1>4, WorkNoComp
 <2>4. pending' \in SUBSET Nat BY <1>4, ShapeIs
 <2> QED BY <1>1, <1>2, <1>4, <2>1, <2>2, <2>3, <2>4, ShapeIs DEF Shape
<1> QED BY <1>3, <1>4 DEF CompactWork

LEMMA ShapeCompactManifest == ASSUME Shape, CompactManifest PROVE Shape'
<1>1. UNCHANGED <<logs, tables, up, rec, version, mem, imm, logfile, pending, scheduled, bgError,
                  flush, writers, lead, req, seqOf, excused>>
 BY DEF CompactManifest, openVars, memVars, callVars
<1>2. PICK ok \in BOOLEAN : /\ WriteManifest(comp.edit, ok)
                            /\ comp' = [comp EXCEPT !.pc = IF ok THEN "done" ELSE "failed"]
 BY DEF CompactManifest
<1>3. comp.pc = "manifest" /\ comp.edit \in EditType /\ flush.pc = "none"
 BY ShapeIs DEF CompactManifest, WorkOK, Edited
<1>4. ManifestOK(manifest') /\ budget' \in BudgetType BY <1>2, <1>3, WriteManifestOK
<1>5. WorkOK(flush, comp', imm)
 <2> DEFINE p == IF ok THEN "done" ELSE "failed"
 <2>1. p \in {"done", "failed"} /\ comp' = [comp EXCEPT !.pc = p] BY <1>2
 <2> HIDE DEF p
 <2>2. comp' \in CompType /\ comp'.edit = comp.edit /\ comp'.pc \in {"done", "failed"}
  BY <2>1, <1>3, CompIs DEF CompType
 <2> QED BY <1>3, <2>2, ShapeIs DEF WorkOK, Edited
<1> QED BY <1>1, <1>4, <1>5, ShapeIs DEF Shape

LEMMA ShapeCompactInstall == ASSUME Shape, Quiet, CompactInstall PROVE Shape'
<1>1. UNCHANGED <<manifest, up, rec, mem, imm, logfile, flush, writers, seqOf, excused, budget>>
 BY DEF CompactInstall, openVars
<1>2. comp.pc \in {"done", "failed"} /\ rec = NoRec /\ flush.pc = "none"
 BY AtWork, ShapeIs DEF CompactInstall, WorkOK
<1>3. comp' = NoComp /\ SignalAll /\ scheduled' \in BOOLEAN /\ pending' = pending \ {comp.out}
 BY ShapeIs DEF CompactInstall, EndCall, MaybeScheduleCompaction
<1>4. QueueOK(writers', lead') /\ req' \in [Writers -> ReqType] BY <1>1, <1>3, SignalQueue
<1>5. WorkOK(flush', comp', imm') BY <1>1, <1>2, <1>3, WorkNoComp
<1>6. RecOK(rec', logs') BY <1>1, <1>2, QuietShape
<1>7. CASE comp.pc = "done"
 <2>1. /\ version' = Installed(comp.edit) /\ bgError' = bgError
       /\ \/ UNCHANGED <<logs, tables>>
          \/ DeleteObsoleteFiles(version', pending')
  BY <1>7 DEF CompactInstall
 <2>2. comp.edit \in EditType BY <1>7, ShapeIs DEF WorkOK, Edited
 <2>3. version' \in VersionType BY <2>1, <2>2, InstalledIs, ShapeIs
 <2>4. LogsOK(logs') /\ TablesOK(tables') BY <2>1, DeleteShape, ShapeIs
 <2>5. pending' \in SUBSET Nat BY <1>3, ShapeIs
 <2> QED BY <1>1, <1>3, <1>4, <1>5, <1>6, <2>1, <2>3, <2>4, <2>5, ShapeIs DEF Shape
<1>8. CASE comp.pc = "failed"
 <2>1. bgError' = TRUE /\ UNCHANGED <<version, logs, tables>> BY <1>8 DEF CompactInstall
 <2>5. pending' \in SUBSET Nat BY <1>3, ShapeIs
 <2> QED BY <1>1, <1>3, <1>4, <1>5, <1>6, <2>1, <2>5, ShapeIs DEF Shape
<1> QED BY <1>2, <1>7, <1>8

\* What is gone with the process.
LEMMA ForgetDoes ==
  ASSUME Forget
  PROVE  /\ rec' = NoRec /\ version' = EmptyVersion
         /\ writers' = <<>> /\ lead' = NoLead
         /\ mem' = {} /\ imm' = Nil /\ logfile' = 0
         /\ pending' = {} /\ scheduled' = FALSE /\ bgError' = FALSE
         /\ flush' = NoFlush /\ comp' = NoComp
BY DEF Forget

\* The process is gone: what is left are the files and the callers.
LEMMA ShapeDown ==
  ASSUME Shape, Forget, up' = "closed", LogsOK(logs'), TablesOK(tables'), ManifestOK(manifest'),
         req' \in [Writers -> ReqType], seqOf' = seqOf, excused' \in SUBSET Writers,
         budget' \in BudgetType
  PROVE Shape' /\ Quiet'
<1>1. QueueOK(writers', lead') /\ ImmOK(imm') /\ WorkOK(flush', comp', imm') /\ RecOK(rec', logs')
 BY ForgetDoes, QuietShape
<1>2. /\ up' \in UpStates /\ version' \in VersionType /\ mem' \in SUBSET Writers
      /\ logfile' \in Nat /\ pending' \in SUBSET Nat
 BY ForgetDoes, QuietShape DEF UpStates
<1>3. scheduled' \in BOOLEAN /\ bgError' \in BOOLEAN BY ForgetDoes
<1>4. Shape' BY <1>1, <1>2, <1>3, ShapeIs DEF Shape
<1>5. Quiet' BY ForgetDoes DEF Quiet
<1> QED BY <1>4, <1>5

\* The callers go with the process.
LEMMA CallersLostType ==
  ASSUME req \in [Writers -> ReqType], CallersLost
  PROVE  /\ req' \in [Writers -> ReqType]
         /\ \A w \in Writers :
               /\ req'[w].kind = req[w].kind
               /\ req'[w].st = IF req[w].st \in {"queued", "check", "wait"} THEN "lost"
                               ELSE req[w].st
<1>1. req' = [w \in Writers |-> IF req[w].st \in {"queued", "check", "wait"}
                                THEN [req[w] EXCEPT !.st = "lost"] ELSE req[w]]
 BY DEF CallersLost
<1>2. ASSUME NEW w \in Writers
      PROVE  /\ req'[w] \in ReqType /\ req'[w].kind = req[w].kind
             /\ req'[w].st = IF req[w].st \in {"queued", "check", "wait"} THEN "lost"
                             ELSE req[w].st
 <2> DEFINE r == req[w]
 <2>1. r \in ReqType OBVIOUS
 <2>2. req'[w] = IF r.st \in {"queued", "check", "wait"} THEN [r EXCEPT !.st = "lost"] ELSE r
  BY <1>1
 <2> HIDE DEF r
 <2> QED BY <2>1, <2>2 DEF ReqType, r
<1>3. req' \in [Writers -> ReqType] BY <1>1, <1>2
<1> QED BY <1>2, <1>3

\* A crash of the machine leaves of every log a prefix that holds what was synced.
LEMMA LogsCut ==
  ASSUME LogsOK(logs), MachineCrash
  PROVE  /\ LogsOK(logs') /\ DOMAIN logs' = DOMAIN logs
         /\ \A n \in DOMAIN logs :
               /\ logs'[n].synced = logs[n].synced
               /\ logs[n].synced <= Len(logs'[n].recs)
               /\ Len(logs'[n].recs) <= Len(logs[n].recs)
               /\ \A i \in 1 .. Len(logs'[n].recs) : logs'[n].recs[i] = logs[n].recs[i]
<1>1. PICK c : /\ \A n \in DOMAIN logs : c[n] \in logs[n].synced .. Len(logs[n].recs)
               /\ logs' = [n \in DOMAIN logs |-> Cut(logs[n], c[n])]
 BY DEF MachineCrash
<1>2. DOMAIN logs' = DOMAIN logs BY <1>1
<1>3. ASSUME NEW n \in DOMAIN logs
      PROVE  /\ logs'[n] \in LogFileType
             /\ logs'[n].synced = logs[n].synced
             /\ logs[n].synced <= Len(logs'[n].recs)
             /\ Len(logs'[n].recs) <= Len(logs[n].recs)
             /\ \A i \in 1 .. Len(logs'[n].recs) : logs'[n].recs[i] = logs[n].recs[i]
 <2> DEFINE f == logs[n]
            k == c[n]
            s == SubSeq(f.recs, 1, k)
 <2>1. f \in LogFileType /\ f.synced \in Nat /\ f.recs \in Seq(SUBSET Writers)
       /\ Len(f.recs) \in Nat
  BY DEF LogsOK, LogFileType
 <2>2. k \in f.synced .. Len(f.recs) BY <1>1
 <2>3. logs'[n] = [recs |-> s, synced |-> f.synced] BY <1>1 DEF Cut
 <2> HIDE DEF f, k
 <2>4. k \in Nat /\ f.synced <= k /\ k <= Len(f.recs) BY <2>1, <2>2
 <2>5. /\ s \in Seq(SUBSET Writers) /\ Len(s) = k /\ \A i \in 1 .. k : s[i] = f.recs[i]
  BY <2>1, <2>4, SubSeqProperties
 <2> HIDE DEF s
 <2>6. logs'[n] \in LogFileType /\ logs'[n].synced = f.synced /\ logs'[n].recs = s
  BY <2>1, <2>3, <2>5 DEF LogFileType
 <2> QED BY <2>4, <2>5, <2>6 DEF f
<1>4. logs' \in [DOMAIN logs' -> LogFileType] BY <1>1, <1>2, <1>3
<1>5. \A n \in DOMAIN logs' : logs'[n].synced <= Len(logs'[n].recs) BY <1>2, <1>3
<1>6. LogsOK(logs') BY <1>2, <1>4, <1>5 DEF LogsOK
<1> QED BY <1>2, <1>3, <1>6

LEMMA ShapeCrash ==
  ASSUME Shape, Closed \/ ProcessCrash \/ MachineCrash PROVE Shape' /\ Quiet'
<1>1. Forget /\ up' = "closed" /\ seqOf' = seqOf /\ tables' = tables
 BY DEF Closed, ProcessCrash, MachineCrash, diskVars
<1>2. budget' \in BudgetType
 <2>1. CASE Closed BY <2>1, ShapeIs DEF Closed
 <2>2. CASE ProcessCrash BY <2>2, FaultType, ShapeIs DEF ProcessCrash
 <2>3. CASE MachineCrash BY <2>3, FaultType, ShapeIs DEF MachineCrash
 <2> QED BY <2>1, <2>2, <2>3
<1>3. req' \in [Writers -> ReqType] /\ excused' \in SUBSET Writers
 <2>1. CASE Closed BY <2>1, ShapeIs DEF Closed
 <2>2. CASE ProcessCrash BY <2>2, CallersLostType, ShapeIs DEF ProcessCrash
 <2>3. CASE MachineCrash BY <2>3, CallersLostType, ShapeIs DEF MachineCrash
 <2> QED BY <2>1, <2>2, <2>3
<1>4. LogsOK(logs') /\ ManifestOK(manifest')
 <2>1. CASE UNCHANGED <<logs, manifest>> BY <2>1, ShapeIs
 <2>2. CASE MachineCrash
  <3>1. PICK c \in manifest.synced .. Len(manifest.recs) : manifest' = Cut(manifest, c)
   BY <2>2 DEF MachineCrash
  <3>2. ManifestOK(manifest') BY <3>1, ManifestCut, ShapeIs DEF ManifestOK
  <3> QED BY <2>2, <3>2, LogsCut, ShapeIs
 <2> QED BY <2>1, <2>2 DEF Closed, ProcessCrash, diskVars
<1> QED BY <1>1, <1>2, <1>3, <1>4, ShapeDown, ShapeIs

LEMMA ShapeClose == ASSUME Shape, Quiet, Close PROVE Shape' /\ Quiet'
<1>1. UNCHANGED <<logs, tables, manifest, rec, version, mem, imm, logfile, pending,
                  scheduled, bgError, flush, comp, writers, lead, req, seqOf, excused>>
 BY DEF Close, diskVars, memVars, bgVars, callVars
<1>2. up' \in UpStates /\ budget' \in BudgetType BY FaultType, ShapeIs DEF Close, UpStates
<1>3. Shape' BY <1>1, <1>2, ShapeIs DEF Shape
<1>4. Quiet' BY <1>1 DEF Quiet, Close
<1> QED BY <1>3, <1>4

LEMMA ShapeOpenRecover == ASSUME Shape, Quiet, OpenRecover PROVE Shape' /\ Quiet'
<1>1. UNCHANGED <<logs, tables, manifest, mem, imm, logfile, pending,
                  scheduled, bgError, flush, comp, writers, lead, req, seqOf, excused, budget>>
 BY DEF OpenRecover, diskVars, bgVars, callVars
<1> DEFINE v == Newest(manifest)
           L == {n \in DOMAIN logs : n >= v.log}
<1>2. v \in VersionType BY NewestType, ShapeIs DEF ManifestOK
<1>3. \/ /\ up' = "recovering" /\ version' = [v EXCEPT !.next = v.next + 1]
         /\ rec' = [NoRec EXCEPT !.logs = L]
      \/ up' = "corrupt" /\ UNCHANGED <<version, rec>>
 BY DEF OpenRecover, Newest, Replay
<1>4. CASE /\ up' = "recovering" /\ version' = [v EXCEPT !.next = v.next + 1]
           /\ rec' = [NoRec EXCEPT !.logs = L]
 <2>1. L \in SUBSET Nat /\ L \subseteq DOMAIN logs BY ShapeIs DEF LogsOK
 <2> HIDE DEF L, v
 <2>2. version' \in VersionType
  <3>1. v.next + 1 \in Nat BY <1>2, VersionIs
  <3> QED BY <1>2, <1>4, <3>1, BumpNext
 <2>3. rec' \in RecType /\ rec'.logs = L BY <1>4, <2>1, NoRecType DEF RecType
 <2>4. RecOK(rec', logs') BY <1>1, <2>1, <2>3 DEF RecOK
 <2>5. up' \in UpStates BY <1>4 DEF UpStates
 <2>6. Shape' BY <1>1, <2>2, <2>4, <2>5, ShapeIs DEF Shape
 <2>7. Quiet' BY <1>1, <1>4 DEF Quiet, OpenRecover
 <2> QED BY <2>6, <2>7
<1>5. CASE up' = "corrupt" /\ UNCHANGED <<version, rec>>
 <2>5. up' \in UpStates BY <1>5 DEF UpStates
 <2>6. Shape' BY <1>1, <1>5, <2>5, ShapeIs DEF Shape
 <2>7. Quiet' BY <1>1, <1>5 DEF Quiet, OpenRecover
 <2> QED BY <2>6, <2>7
<1> QED BY <1>3, <1>4, <1>5

\* OpenFails with the files as they are.
LEMMA ShapeOpenFails ==
  ASSUME Shape, OpenFails, UNCHANGED <<logs, tables, manifest, req, seqOf, excused>>, Fault
  PROVE Shape' /\ Quiet'
<1>1. budget' \in BudgetType BY FaultType, ShapeIs
<1> QED BY <1>1, ShapeDown, ShapeIs DEF OpenFails

\* The locals of a recovery.
LEMMA RecIs ==
  ASSUME Shape
  PROVE  /\ rec \in RecType /\ rec.logs \subseteq DOMAIN logs /\ rec.logs \in SUBSET Nat
         /\ rec.pos \in Nat \ {0} /\ rec.mem \in SUBSET Writers /\ rec.added \in SUBSET Nat
         /\ rec.maxseq \in Nat
BY ShapeIs DEF RecOK, RecType

\* A table is written during recovery.
LEMMA RecoverTableDoes ==
  ASSUME Shape, NEW m \in SUBSET Writers, NEW next \in Nat, RecoverTable(m, next)
  PROVE  /\ TablesOK(tables') /\ DOMAIN tables' = DOMAIN tables \cup {version.next}
         /\ tables'[version.next] = m
         /\ \A k \in DOMAIN tables : k # version.next => tables'[k] = tables[k]
         /\ version' \in VersionType /\ version'.l0 = version.l0 /\ version'.l1 = version.l1
         /\ version'.log = version.log /\ version'.seq = version.seq
         /\ version.next + 1 <= version'.next /\ next <= version'.next
<1>0. version.next \in Nat /\ version.next + 1 \in Nat BY ShapeIs, VersionIs
<1> DEFINE n == version.next
           x == Max({version.next + 1, next})
<1>1. tables' = [k \in DOMAIN tables \cup {n} |-> IF k = n THEN m ELSE tables[k]]
 BY DEF RecoverTable
<1>2. version' = [version EXCEPT !.next = x] BY DEF RecoverTable
<1>3. x \in Nat /\ version.next + 1 <= x /\ next <= x BY <1>0, MaxOfTwo
<1>a. n \in Nat BY <1>0
<1> HIDE DEF n, x
<1>4. /\ TablesOK(tables') /\ DOMAIN tables' = DOMAIN tables \cup {n}
      /\ tables'[n] = m /\ \A k \in DOMAIN tables : k # n => tables'[k] = tables[k]
 <2>1. TablesOK(tables) BY ShapeIs
 <2> DEFINE t == tables
            t2 == tables'
 <2>2. TablesOK(t) /\ t2 = [k \in DOMAIN t \cup {n} |-> IF k = n THEN m ELSE t[k]] BY <1>1, <2>1
 <2> HIDE DEF t, t2
 <2>3. /\ TablesOK(t2) /\ DOMAIN t2 = DOMAIN t \cup {n}
       /\ t2[n] = m /\ \A k \in DOMAIN t : k # n => t2[k] = t[k]
  BY <1>a, <2>2, NewTableOK
 <2> QED BY <2>3 DEF t, t2
<1>5. /\ version' \in VersionType /\ version'.l0 = version.l0 /\ version'.l1 = version.l1
      /\ version'.log = version.log /\ version'.seq = version.seq /\ version'.next = x
 BY <1>2, <1>3, BumpNext, ShapeIs
<1> QED BY <1>3, <1>4, <1>5 DEF n

\* The log that is being read.
LEMMA OldestLog ==
  ASSUME Shape, rec.logs # {}
  PROVE  /\ Min(rec.logs) \in rec.logs /\ Min(rec.logs) \in DOMAIN logs /\ Min(rec.logs) \in Nat
         /\ \A n \in rec.logs : Min(rec.logs) <= n
         /\ logs[Min(rec.logs)].recs \in Seq(SUBSET Writers)
         /\ Len(logs[Min(rec.logs)].recs) \in Nat
<1>1. Min(rec.logs) \in rec.logs /\ \A n \in rec.logs : Min(rec.logs) <= n BY RecIs, MinOf
<1>2. Min(rec.logs) \in DOMAIN logs /\ Min(rec.logs) \in Nat BY <1>1, RecIs
<1>3. logs[Min(rec.logs)] \in LogFileType BY <1>2, ShapeIs DEF LogsOK
<1>4. logs[Min(rec.logs)].recs \in Seq(SUBSET Writers) BY <1>3 DEF LogFileType
<1> QED BY <1>1, <1>2, <1>4

\* The greatest sequence number read so far.
LEMMA MaxSequence ==
  ASSUME Shape, NEW r \in SUBSET Writers, NEW x, x = Max({rec.maxseq} \cup {seqOf[w] : w \in r})
  PROVE x \in Nat /\ rec.maxseq <= x /\ \A w \in r : seqOf[w] <= x
<1> DEFINE S == {rec.maxseq} \cup {seqOf[w] : w \in r}
<1>1. seqOf \in [Writers -> Nat] /\ rec.maxseq \in Nat BY ShapeIs, RecIs DEF SeqBounded
<1>2. PICK B \in Nat : \A w \in Writers : seqOf[w] <= B BY ShapeIs DEF SeqBounded
<1>3. S \in SUBSET Nat /\ S # {} BY <1>1
<1>4. ASSUME NEW y \in S PROVE y <= B + rec.maxseq
 <2>1. CASE y = rec.maxseq BY <1>1, <2>1
 <2>2. CASE y # rec.maxseq
  <3>1. PICK w \in r : y = seqOf[w] BY <2>2
  <3>2. seqOf[w] \in Nat /\ seqOf[w] <= B BY <1>1, <1>2
  <3> QED BY <1>1, <3>1, <3>2
 <2> QED BY <2>1, <2>2
<1>5. B + rec.maxseq \in Nat BY <1>1
<1>6. rec.maxseq \in S /\ \A w \in r : seqOf[w] \in S OBVIOUS
<1>7. x = Max(S) OBVIOUS
<1> HIDE DEF S
<1>8. Max(S) \in S /\ \A y \in S : y <= Max(S) BY <1>3, <1>4, <1>5, MaxOf
<1>9. x \in Nat BY <1>3, <1>7, <1>8
<1> QED BY <1>6, <1>7, <1>8, <1>9

\* The record of a replay after a record of the log,
LEMMA RecExceptRead ==
  ASSUME NEW r \in RecType, NEW a, NEW b, NEW c, NEW s,
         s = [r EXCEPT !.pos = a, !.mem = b, !.maxseq = c]
  PROVE s = [logs |-> r.logs, pos |-> a, mem |-> b, added |-> r.added, maxseq |-> c]
<1> DEFINE p1 == [r EXCEPT !.pos = a]
           p2 == [p1 EXCEPT !.mem = b]
           p3 == [p2 EXCEPT !.maxseq = c]
<1>1. r = [logs |-> r.logs, pos |-> r.pos, mem |-> r.mem, added |-> r.added, maxseq |-> r.maxseq]
 BY DEF RecType
<1>2. s = p3 OBVIOUS
<1>3. p1 = [logs |-> r.logs, pos |-> a, mem |-> r.mem, added |-> r.added, maxseq |-> r.maxseq]
 BY <1>1
<1>4. p2 = [logs |-> r.logs, pos |-> a, mem |-> b, added |-> r.added, maxseq |-> r.maxseq]
 <2> HIDE DEF p1
 <2> QED BY <1>3
<1>5. p3 = [logs |-> r.logs, pos |-> a, mem |-> b, added |-> r.added, maxseq |-> c]
 <2> HIDE DEF p2
 <2> QED BY <1>4
<1> HIDE DEF p3
<1> QED BY <1>2, <1>5

\* and after a log.
LEMMA RecExceptNext ==
  ASSUME NEW r \in RecType, NEW a, NEW b, NEW c, NEW s,
         s = [r EXCEPT !.logs = a, !.pos = b, !.mem = c]
  PROVE s = [logs |-> a, pos |-> b, mem |-> c, added |-> r.added, maxseq |-> r.maxseq]
<1> DEFINE p1 == [r EXCEPT !.logs = a]
           p2 == [p1 EXCEPT !.pos = b]
           p3 == [p2 EXCEPT !.mem = c]
<1>1. r = [logs |-> r.logs, pos |-> r.pos, mem |-> r.mem, added |-> r.added, maxseq |-> r.maxseq]
 BY DEF RecType
<1>2. s = p3 OBVIOUS
<1>3. p1 = [logs |-> a, pos |-> r.pos, mem |-> r.mem, added |-> r.added, maxseq |-> r.maxseq]
 BY <1>1
<1>4. p2 = [logs |-> a, pos |-> b, mem |-> r.mem, added |-> r.added, maxseq |-> r.maxseq]
 <2> HIDE DEF p1
 <2> QED BY <1>3
<1>5. p3 = [logs |-> a, pos |-> b, mem |-> c, added |-> r.added, maxseq |-> r.maxseq]
 <2> HIDE DEF p2
 <2> QED BY <1>4
<1> HIDE DEF p3
<1> QED BY <1>2, <1>5

\* What RecoverRecord does, by cases.
LEMMA RecoverRecordDoes ==
  ASSUME Shape, RecoverRecord
  PROVE  LET f == logs[Min(rec.logs)].recs
             r == f[rec.pos]
             rest == UNCHANGED <<up, mem, imm, logfile, pending, scheduled, bgError, flush, comp,
                                 writers, lead, budget>>
         IN  /\ up = "recovering" /\ rec.logs # {} /\ rec.pos \in 1 .. Len(f)
             /\ r \in SUBSET Writers
             /\ UNCHANGED <<logs, manifest, req, seqOf, excused>>
             /\ \/ /\ rest /\ UNCHANGED <<tables, version>> /\ r = TornLog
                   /\ rec' \in RecType /\ rec'.pos \in rec.pos + 1 .. Len(f) + 1
                   /\ rec'.logs = rec.logs /\ rec'.mem = rec.mem
                   /\ rec'.added = rec.added /\ rec'.maxseq = rec.maxseq
                \/ /\ rest /\ UNCHANGED <<tables, version>> /\ Reads(r, rec')
                   /\ rec'.mem = rec.mem \cup r /\ rec'.added = rec.added
                \/ /\ rest /\ RecoverTable(rec.mem \cup r, 0) /\ Reads(r, rec')
                   /\ rec'.mem = {} /\ rec'.added = rec.added \cup {version.next}
                \/ Fault /\ OpenFails /\ UNCHANGED tables
<1> DEFINE f == logs[Min(rec.logs)].recs
           r == f[rec.pos]
           m == rec.mem \cup r
           x == Max({rec.maxseq} \cup {seqOf[w] : w \in r})
           read == [rec EXCEPT !.pos = rec.pos + 1, !.mem = m, !.maxseq = x]
           full == Cardinality(m) > WriteBufferSize
           rest == UNCHANGED <<up, mem, imm, logfile, pending, scheduled, bgError, flush, comp,
                               writers, lead, budget>>
<1>1. /\ up = "recovering" /\ rec.logs # {} /\ rec.pos <= Len(f)
      /\ UNCHANGED <<logs, manifest, req, seqOf, excused>>
 BY DEF RecoverRecord
<1>2. f \in Seq(SUBSET Writers) /\ Len(f) \in Nat BY <1>1, OldestLog
<1>3. \/ /\ r = TornLog /\ rest /\ UNCHANGED <<tables, version>>
         /\ \E k \in rec.pos + 1 .. Len(f) + 1 : rec' = [rec EXCEPT !.pos = k]
      \/ rest /\ UNCHANGED <<tables, version>> /\ rec' = read
      \/ /\ rest /\ RecoverTable(m, 0)
         /\ rec' = [read EXCEPT !.mem = {}, !.added = read.added \cup {version.next}]
      \/ Fault /\ OpenFails /\ UNCHANGED tables
 BY DEF RecoverRecord, NoFault, memVars, bgVars
<1> HIDE DEF f, rest
<1>4. rec.pos \in 1 .. Len(f) BY <1>1, <1>2, RecIs
<1>5. r \in SUBSET Writers BY <1>2, <1>4
<1> HIDE DEF r
<1>6. m \in SUBSET Writers BY <1>5, RecIs
<1>7. x \in Nat /\ rec.maxseq <= x /\ \A w \in r : seqOf[w] <= x BY <1>5, MaxSequence
<1> HIDE DEF x
<1>8. /\ read \in RecType /\ read.logs = rec.logs /\ read.pos = rec.pos + 1
      /\ read.mem = m /\ read.added = rec.added /\ read.maxseq = x
 <2> HIDE DEF m
 <2>1. read = [logs |-> rec.logs, pos |-> rec.pos + 1, mem |-> m, added |-> rec.added, maxseq |-> x]
  <3> DEFINE p == rec.pos + 1
  <3>1. rec \in RecType BY RecIs
  <3>2. read = [rec EXCEPT !.pos = p, !.mem = m, !.maxseq = x] OBVIOUS
  <3> HIDE DEF p, read
  <3>3. read = [logs |-> rec.logs, pos |-> p, mem |-> m, added |-> rec.added, maxseq |-> x]
   <4>1. \A a, b, c, s : s = [rec EXCEPT !.pos = a, !.mem = b, !.maxseq = c]
            => s = [logs |-> rec.logs, pos |-> a, mem |-> b, added |-> rec.added, maxseq |-> c]
    BY <3>1, RecExceptRead
   <4> QED BY <3>2, <4>1
  <3> QED BY <3>3 DEF p
 <2>2. rec.pos + 1 \in Nat \ {0} BY RecIs
 <2> QED BY <1>6, <1>7, <2>1, <2>2, RecIs DEF RecType
<1> HIDE DEF read
<1>9. CASE /\ r = TornLog /\ rest /\ UNCHANGED <<tables, version>>
           /\ \E k \in rec.pos + 1 .. Len(f) + 1 : rec' = [rec EXCEPT !.pos = k]
 <2>1. PICK k \in rec.pos + 1 .. Len(f) + 1 : rec' = [rec EXCEPT !.pos = k] BY <1>9
 <2>2. k \in Nat \ {0} BY <1>2, RecIs
 <2>3. /\ rec' \in RecType /\ rec'.pos = k
       /\ rec'.logs = rec.logs /\ rec'.mem = rec.mem
       /\ rec'.added = rec.added /\ rec'.maxseq = rec.maxseq
  BY <2>1, <2>2, RecIs DEF RecType
 <2> QED BY <1>1, <1>4, <1>5, <1>9, <2>3 DEF f, r, rest
<1>10. CASE rest /\ UNCHANGED <<tables, version>> /\ rec' = read
 <2>1. Reads(r, rec') /\ rec'.mem = rec.mem \cup r /\ rec'.added = rec.added
  BY <1>7, <1>8, <1>10 DEF Reads
 <2> QED BY <1>1, <1>4, <1>5, <1>10, <2>1 DEF f, r, rest
<1>11. CASE /\ rest /\ RecoverTable(m, 0)
            /\ rec' = [read EXCEPT !.mem = {}, !.added = read.added \cup {version.next}]
 <2>0. version.next \in Nat BY ShapeIs, VersionIs
 <2>1. /\ rec' \in RecType /\ rec'.logs = read.logs /\ rec'.pos = read.pos
       /\ rec'.mem = {} /\ rec'.added = read.added \cup {version.next}
       /\ rec'.maxseq = read.maxseq
  <3> DEFINE a == read.added \cup {version.next}
  <3>1. a \in SUBSET Nat BY <1>8, <2>0, RecIs
  <3>2. rec' = [read EXCEPT !.mem = {}, !.added = a] BY <1>11
  <3> HIDE DEF a
  <3>3. rec' = [logs |-> read.logs, pos |-> read.pos, mem |-> {}, added |-> a,
                maxseq |-> read.maxseq]
   BY <3>2, <1>8 DEF RecType
  <3>4. read.logs \in SUBSET Nat /\ read.pos \in Nat \ {0} /\ read.maxseq \in Nat
   BY <1>8 DEF RecType
  <3> QED BY <3>1, <3>3, <3>4 DEF RecType, a
 <2>2. Reads(r, rec') /\ rec'.mem = {} /\ rec'.added = rec.added \cup {version.next}
  BY <1>7, <1>8, <2>1 DEF Reads
 <2>3. rest /\ RecoverTable(rec.mem \cup r, 0) BY <1>11
 <2> QED BY <1>1, <1>4, <1>5, <2>2, <2>3 DEF f, r, rest
<1>12. CASE Fault /\ OpenFails /\ UNCHANGED tables BY <1>1, <1>4, <1>5, <1>12 DEF f, r
<1> QED BY <1>3, <1>9, <1>10, <1>11, <1>12

\* What RecoverLogDone does, by cases.
LEMMA RecoverLogDoneDoes ==
  ASSUME Shape, RecoverLogDone
  PROVE  LET n == Min(rec.logs)
             rest == /\ UNCHANGED <<up, mem, imm, logfile, pending, scheduled, bgError, flush,
                                    comp, writers, lead, budget>>
                     /\ rec' \in RecType /\ rec'.logs = rec.logs \ {n} /\ rec'.pos = 1
                     /\ rec'.mem = {} /\ rec'.maxseq = rec.maxseq
         IN  /\ up = "recovering" /\ rec.logs # {} /\ rec.pos > Len(logs[n].recs)
             /\ UNCHANGED <<logs, manifest, req, seqOf, excused>>
             /\ \/ /\ rest /\ rec.mem = {} /\ UNCHANGED tables /\ rec'.added = rec.added
                   /\ version' \in VersionType /\ version'.l0 = version.l0
                   /\ version'.l1 = version.l1 /\ version'.log = version.log
                   /\ version'.seq = version.seq
                   /\ version.next <= version'.next /\ n + 1 <= version'.next
                \/ /\ rest /\ RecoverTable(rec.mem, n + 1)
                   /\ rec'.added = rec.added \cup {version.next}
                \/ Fault /\ OpenFails /\ UNCHANGED tables
<1> DEFINE n == Min(rec.logs)
           l == rec.logs \ {n}
           next == [rec EXCEPT !.logs = l, !.pos = 1, !.mem = {}]
           same == UNCHANGED <<up, mem, imm, logfile, pending, scheduled, bgError, flush,
                               comp, writers, lead, budget>>
<1>1. /\ up = "recovering" /\ rec.logs # {} /\ rec.pos > Len(logs[n].recs)
      /\ UNCHANGED <<logs, manifest, req, seqOf, excused>>
 BY DEF RecoverLogDone
<1>2. n \in Nat /\ n + 1 \in Nat BY <1>1, OldestLog
<1>3. \/ /\ same /\ rec.mem = {} /\ UNCHANGED tables /\ rec' = next
         /\ version' = [version EXCEPT !.next = Max({version.next, n + 1})]
      \/ /\ same /\ RecoverTable(rec.mem, n + 1)
         /\ rec' = [next EXCEPT !.added = next.added \cup {version.next}]
      \/ Fault /\ OpenFails /\ UNCHANGED tables
 BY DEF RecoverLogDone, NoFault, bgVars
<1> HIDE DEF n, same
<1>4. l \in SUBSET Nat BY RecIs
<1> HIDE DEF l
<1>5. /\ next \in RecType /\ next.logs = l /\ next.pos = 1 /\ next.mem = {}
      /\ next.added = rec.added /\ next.maxseq = rec.maxseq
 <2>1. next = [logs |-> l, pos |-> 1, mem |-> {}, added |-> rec.added, maxseq |-> rec.maxseq]
  <3> DEFINE p == 1
             m == {}
  <3>1. rec \in RecType BY RecIs
  <3>2. next = [rec EXCEPT !.logs = l, !.pos = p, !.mem = m] OBVIOUS
  <3> HIDE DEF p, m, next
  <3>3. next = [logs |-> l, pos |-> p, mem |-> m, added |-> rec.added, maxseq |-> rec.maxseq]
   BY <3>1, <3>2, RecExceptNext
  <3> QED BY <3>3 DEF p, m
 <2> QED BY <1>4, <2>1, RecIs DEF RecType
<1> HIDE DEF next
<1>6. version.next \in Nat BY ShapeIs, VersionIs
<1>7. CASE /\ same /\ rec.mem = {} /\ UNCHANGED tables /\ rec' = next
           /\ version' = [version EXCEPT !.next = Max({version.next, n + 1})]
 <2> DEFINE x == Max({version.next, n + 1})
 <2>1. x \in Nat /\ version.next <= x /\ n + 1 <= x BY <1>2, <1>6, MaxOfTwo
 <2>2. version' = [version EXCEPT !.next = x] BY <1>7
 <2> HIDE DEF x
 <2>3. /\ version' \in VersionType /\ version'.l0 = version.l0
       /\ version'.l1 = version.l1 /\ version'.log = version.log
       /\ version'.seq = version.seq /\ version'.next = x
  BY <2>1, <2>2, BumpNext, ShapeIs
 <2> QED BY <1>1, <1>5, <1>7, <2>1, <2>3 DEF n, l, same
<1>8. CASE /\ same /\ RecoverTable(rec.mem, n + 1)
           /\ rec' = [next EXCEPT !.added = next.added \cup {version.next}]
 <2> DEFINE a == next.added \cup {version.next}
 <2>1. a \in SUBSET Nat BY <1>5, <1>6, RecIs
 <2>2. rec' = [next EXCEPT !.added = a] BY <1>8
 <2> HIDE DEF a
 <2>3. rec' = [logs |-> next.logs, pos |-> next.pos, mem |-> next.mem, added |-> a,
               maxseq |-> next.maxseq]
  BY <2>2, <1>5 DEF RecType
 <2>4. /\ rec' \in RecType /\ rec'.logs = l /\ rec'.pos = 1 /\ rec'.mem = {} /\ rec'.added = a
       /\ rec'.maxseq = rec.maxseq
  BY <1>4, <1>5, <2>1, <2>3, RecIs DEF RecType
 <2> QED BY <1>1, <1>5, <1>8, <2>4 DEF n, l, same, a
<1>9. CASE Fault /\ OpenFails /\ UNCHANGED tables BY <1>1, <1>9 DEF n
<1> QED BY <1>3, <1>7, <1>8, <1>9

LEMMA ShapeRecoverRecord == ASSUME Shape, Quiet, RecoverRecord PROVE Shape' /\ Quiet'
<1> DEFINE f == logs[Min(rec.logs)].recs
           r == f[rec.pos]
           rest == UNCHANGED <<up, mem, imm, logfile, pending, scheduled, bgError, flush, comp,
                               writers, lead, budget>>
<1>1. /\ up = "recovering" /\ rec.logs # {} /\ r \in SUBSET Writers
      /\ UNCHANGED <<logs, manifest, req, seqOf, excused>>
      /\ \/ /\ rest /\ UNCHANGED <<tables, version>>
            /\ rec' \in RecType /\ rec'.logs = rec.logs
         \/ /\ rest /\ UNCHANGED <<tables, version>> /\ Reads(r, rec')
         \/ /\ rest /\ RecoverTable(rec.mem \cup r, 0) /\ Reads(r, rec')
         \/ Fault /\ OpenFails /\ UNCHANGED tables
 BY RecoverRecordDoes
<1> HIDE DEF f, r
<1>2. ASSUME rest, TablesOK(tables'), version' \in VersionType, rec' \in RecType,
             rec'.logs = rec.logs
      PROVE Shape' /\ Quiet'
 <2>1. RecOK(rec', logs') BY <1>1, <1>2, ShapeIs DEF RecOK
 <2>2. Shape' BY <1>1, <1>2, <2>1, ShapeIs DEF Shape
 <2>3. Quiet' BY <1>1, <1>2 DEF Quiet
 <2> QED BY <2>2, <2>3
<1>3. CASE rest /\ UNCHANGED <<tables, version>> /\ rec' \in RecType /\ rec'.logs = rec.logs
 BY <1>2, <1>3, ShapeIs
<1>4. CASE rest /\ UNCHANGED <<tables, version>> /\ Reads(r, rec')
 BY <1>2, <1>4, ShapeIs DEF Reads
<1>5. CASE rest /\ RecoverTable(rec.mem \cup r, 0) /\ Reads(r, rec')
 <2>1. rec.mem \cup r \in SUBSET Writers BY <1>1, RecIs
 <2>2. TablesOK(tables') /\ version' \in VersionType BY <1>5, <2>1, RecoverTableDoes
 <2> QED BY <1>2, <1>5, <2>2 DEF Reads
<1>6. CASE Fault /\ OpenFails /\ UNCHANGED tables BY <1>1, <1>6, ShapeOpenFails
<1> QED BY <1>1, <1>3, <1>4, <1>5, <1>6

LEMMA ShapeRecoverLogDone == ASSUME Shape, Quiet, RecoverLogDone PROVE Shape' /\ Quiet'
<1> DEFINE n == Min(rec.logs)
           rest == /\ UNCHANGED <<up, mem, imm, logfile, pending, scheduled, bgError, flush,
                                  comp, writers, lead, budget>>
                   /\ rec' \in RecType /\ rec'.logs = rec.logs \ {n}
<1>1. /\ up = "recovering" /\ rec.logs # {}
      /\ UNCHANGED <<logs, manifest, req, seqOf, excused>>
      /\ \/ /\ rest /\ UNCHANGED tables /\ version' \in VersionType
         \/ /\ rest /\ RecoverTable(rec.mem, n + 1)
         \/ Fault /\ OpenFails /\ UNCHANGED tables
 BY RecoverLogDoneDoes
<1>a. n + 1 \in Nat BY <1>1, OldestLog
<1> HIDE DEF n
<1>2. ASSUME rest, TablesOK(tables'), version' \in VersionType PROVE Shape' /\ Quiet'
 <2>1. RecOK(rec', logs') BY <1>1, <1>2, ShapeIs DEF RecOK
 <2>2. Shape' BY <1>1, <1>2, <2>1, ShapeIs DEF Shape
 <2>3. Quiet' BY <1>1, <1>2 DEF Quiet
 <2> QED BY <2>2, <2>3
<1>3. CASE rest /\ UNCHANGED tables /\ version' \in VersionType BY <1>2, <1>3, ShapeIs
<1>5. CASE rest /\ RecoverTable(rec.mem, n + 1)
 <2>2. TablesOK(tables') /\ version' \in VersionType BY <1>5, <1>a, RecoverTableDoes, RecIs
 <2> QED BY <1>2, <1>5, <2>2
<1>6. CASE Fault /\ OpenFails /\ UNCHANGED tables BY <1>1, <1>6, ShapeOpenFails
<1> QED BY <1>1, <1>3, <1>5, <1>6

\* What OpenNewLog does, by cases.
LEMMA OpenNewLogDoes ==
  ASSUME Shape, OpenNewLog
  PROVE  /\ up = "recovering" /\ rec.logs = {}
         /\ UNCHANGED <<tables, manifest, req, seqOf, excused>>
         /\ \/ /\ up' = "new_manifest" /\ logfile' = version.next /\ logfile' \in Nat
               /\ LogsOK(logs') /\ DOMAIN logs' = DOMAIN logs \cup {logfile'}
               /\ logs'[logfile'].recs = <<>>
               /\ \A k \in DOMAIN logs : k # logfile' => logs'[k] = logs[k]
               /\ version' \in VersionType /\ version'.l0 = version.l0 /\ version'.l1 = version.l1
               /\ version'.log = version.log /\ version'.next = version.next + 1
               /\ version'.seq = RecoveredSequence
               /\ version.seq <= version'.seq /\ rec.maxseq <= version'.seq
               /\ UNCHANGED <<rec, mem, imm, pending, scheduled, bgError, flush, comp, writers,
                              lead, budget>>
            \/ Fault /\ OpenFails /\ UNCHANGED logs
<1>1. /\ up = "recovering" /\ rec.logs = {}
      /\ UNCHANGED <<tables, manifest, req, seqOf, excused>>
 BY DEF OpenNewLog
<1> DEFINE n == version.next
           x == version.next + 1
           y == RecoveredSequence
<1>2. \/ /\ up' = "new_manifest" /\ logfile' = n
         /\ logs' = [k \in DOMAIN logs \cup {n} |->
                       IF k = n THEN [recs |-> <<>>, synced |-> 0] ELSE logs[k]]
         /\ version' = [version EXCEPT !.next = x, !.seq = y]
         /\ UNCHANGED <<rec, mem, imm, pending, scheduled, bgError, flush, comp, writers,
                        lead, budget>>
      \/ Fault /\ OpenFails /\ UNCHANGED logs
 BY DEF OpenNewLog, NoFault, bgVars
<1>3. n \in Nat /\ x \in Nat /\ version.seq \in Nat /\ rec.maxseq \in Nat
 BY ShapeIs, VersionIs, RecIs
<1>4. y \in Nat /\ version.seq <= y /\ rec.maxseq <= y BY <1>3, MaxOfTwo DEF RecoveredSequence
<1> HIDE DEF n, x, y
<1>5. CASE /\ up' = "new_manifest" /\ logfile' = n
           /\ logs' = [k \in DOMAIN logs \cup {n} |->
                         IF k = n THEN [recs |-> <<>>, synced |-> 0] ELSE logs[k]]
           /\ version' = [version EXCEPT !.next = x, !.seq = y]
           /\ UNCHANGED <<rec, mem, imm, pending, scheduled, bgError, flush, comp, writers,
                          lead, budget>>
 <2>1. /\ LogsOK(logs') /\ DOMAIN logs' = DOMAIN logs \cup {n} /\ logs'[n].recs = <<>>
       /\ \A k \in DOMAIN logs : k # n => logs'[k] = logs[k]
  <3> DEFINE l == logs
             l2 == logs'
  <3>1. LogsOK(l) BY ShapeIs
  <3>2. l2 = [k \in DOMAIN l \cup {n} |->
                       IF k = n THEN [recs |-> <<>>, synced |-> 0] ELSE l[k]]
   BY <1>5
  <3> HIDE DEF l, l2
  <3>3. /\ LogsOK(l2) /\ DOMAIN l2 = DOMAIN l \cup {n} /\ l2[n].recs = <<>>
        /\ \A k \in DOMAIN l : k # n => l2[k] = l[k]
   BY <1>3, <3>1, <3>2, NewLogOK
  <3> QED BY <3>3 DEF l, l2
 <2>2. version' = [[version EXCEPT !.next = x] EXCEPT !.seq = y] BY <1>5
 <2> DEFINE v1 == [version EXCEPT !.next = x]
 <2>3. /\ v1 \in VersionType /\ v1.next = x /\ v1.l0 = version.l0 /\ v1.l1 = version.l1
       /\ v1.log = version.log /\ v1.seq = version.seq
  BY <1>3, BumpNext, ShapeIs
 <2>4. version' = [v1 EXCEPT !.seq = y] BY <2>2
 <2> HIDE DEF v1
 <2>5. /\ version' \in VersionType /\ version'.next = v1.next /\ version'.l0 = v1.l0
       /\ version'.l1 = v1.l1 /\ version'.log = v1.log /\ version'.seq = y
  BY <1>4, <2>3, <2>4, BumpSeq
 <2> QED BY <1>1, <1>3, <1>4, <1>5, <2>1, <2>3, <2>5 DEF n, x, y
<1> QED BY <1>1, <1>2, <1>5

LEMMA ShapeOpenNewLog == ASSUME Shape, Quiet, OpenNewLog PROVE Shape' /\ Quiet'
<1>1. up = "recovering" /\ UNCHANGED <<tables, manifest, req, seqOf, excused>> BY OpenNewLogDoes
<1>2. CASE /\ up' = "new_manifest" /\ logfile' \in Nat
           /\ LogsOK(logs') /\ DOMAIN logs' = DOMAIN logs \cup {logfile'}
           /\ version' \in VersionType
           /\ UNCHANGED <<rec, mem, imm, pending, scheduled, bgError, flush, comp, writers,
                          lead, budget>>
 <2>1. RecOK(rec', logs') BY <1>2, ShapeIs DEF RecOK
 <2>2. up' \in UpStates BY <1>2 DEF UpStates
 <2>3. Shape' BY <1>1, <1>2, <2>1, <2>2, ShapeIs DEF Shape
 <2>4. Quiet' BY <1>1, <1>2 DEF Quiet
 <2> QED BY <2>3, <2>4
<1>3. CASE Fault /\ OpenFails /\ UNCHANGED logs BY <1>1, <1>3, ShapeOpenFails
<1> QED BY <1>2, <1>3, OpenNewLogDoes

\* What OpenManifest does, by cases.
LEMMA OpenManifestDoes ==
  ASSUME Shape, OpenManifest
  PROVE  /\ up = "new_manifest" /\ UNCHANGED <<logs, tables, req, seqOf, excused>>
         /\ \/ /\ up' = "cleanup" /\ version' \in VersionType
               /\ version'.l0 = version.l0 \cup rec.added /\ version'.l1 = version.l1
               /\ version'.log = logfile /\ version'.next = version.next
               /\ version'.seq = version.seq
               /\ manifest' = [recs |-> <<Edit(version'.l0, version'.l1, {}, logfile, version')>>,
                               synced |-> 1]
               /\ UNCHANGED <<rec, mem, imm, logfile, pending, scheduled, bgError, flush, comp,
                              writers, lead, budget>>
            \/ Fault /\ OpenFails /\ UNCHANGED manifest
<1>1. up = "new_manifest" /\ UNCHANGED <<logs, tables, req, seqOf, excused>> BY DEF OpenManifest
<1> DEFINE a == version.l0 \cup rec.added
           v == [version EXCEPT !.l0 = a, !.log = logfile]
<1>2. \/ /\ up' = "cleanup" /\ version' = v
         /\ manifest' = [recs |-> <<Edit(v.l0, v.l1, {}, v.log, v)>>, synced |-> 1]
         /\ UNCHANGED <<rec, mem, imm, logfile, pending, scheduled, bgError, flush, comp,
                        writers, lead, budget>>
      \/ Fault /\ OpenFails /\ UNCHANGED manifest
 BY DEF OpenManifest, NoFault, bgVars
<1>3. a \in SUBSET Nat BY ShapeIs, VersionIs, RecIs
<1> HIDE DEF a
<1>4. /\ v \in VersionType /\ v.l0 = a /\ v.l1 = version.l1 /\ v.log = logfile
      /\ v.next = version.next /\ v.seq = version.seq
 <2> DEFINE v1 == [version EXCEPT !.l0 = a]
 <2>1. /\ v1 \in VersionType /\ v1.l0 = a /\ v1.l1 = version.l1 /\ v1.log = version.log
       /\ v1.next = version.next /\ v1.seq = version.seq
  BY <1>3, ShapeIs DEF VersionType
 <2>2. v = [v1 EXCEPT !.log = logfile] OBVIOUS
 <2> HIDE DEF v1
 <2> QED BY <2>1, <2>2, ShapeIs DEF VersionType
<1> HIDE DEF v
<1> QED BY <1>1, <1>2, <1>4 DEF a

LEMMA ShapeOpenManifest == ASSUME Shape, Quiet, OpenManifest PROVE Shape' /\ Quiet'
<1>1. up = "new_manifest" /\ UNCHANGED <<logs, tables, req, seqOf, excused>> BY OpenManifestDoes
<1> DEFINE e == Edit(version'.l0, version'.l1, {}, logfile, version')
<1>2. ASSUME up' = "cleanup", version' \in VersionType,
             manifest' = [recs |-> <<e>>, synced |-> 1],
             UNCHANGED <<rec, mem, imm, logfile, pending, scheduled, bgError, flush, comp,
                         writers, lead, budget>>
      PROVE Shape' /\ Quiet'
 <2>1. e \in EditType
  <3> DEFINE v == version'
  <3>1. v \in VersionType BY <1>2
  <3> HIDE DEF v
  <3>2. Edit(v.l0, v.l1, {}, logfile, v) \in EditType BY <3>1, VersionIs, EditOf, ShapeIs
  <3> QED BY <3>2 DEF v
 <2> HIDE DEF e
 <2>2. ManifestOK(manifest') BY <1>2, <2>1, ManifestNew DEF ManifestOK
 <2>3. up' \in UpStates BY <1>2 DEF UpStates
 <2>4. Shape' BY <1>1, <1>2, <2>2, <2>3, ShapeIs DEF Shape
 <2>5. Quiet' BY <1>1, <1>2 DEF Quiet
 <2> QED BY <2>4, <2>5
<1>3. CASE Fault /\ OpenFails /\ UNCHANGED manifest BY <1>1, <1>3, ShapeOpenFails
<1> QED BY <1>2, <1>3, OpenManifestDoes

LEMMA ShapeOpenCleanup == ASSUME Shape, Quiet, OpenCleanup PROVE Shape' /\ Quiet'
<1>1. /\ up = "cleanup" /\ up' = "open" /\ rec' = NoRec /\ DeleteObsoleteFiles(version, {})
      /\ UNCHANGED <<manifest, version, mem, imm, logfile, pending, bgError, flush, comp, writers,
                     lead, req, seqOf, excused, budget>>
      /\ scheduled' \in BOOLEAN
 BY DEF OpenCleanup, memVars, callVars, MaybeScheduleCompaction
<1>2. LogsOK(logs') /\ TablesOK(tables') BY <1>1, DeleteShape
<1>3. RecOK(rec', logs') BY <1>1, QuietShape
<1>4. up' \in UpStates BY <1>1 DEF UpStates
<1>5. Shape' BY <1>1, <1>2, <1>3, <1>4, ShapeIs DEF Shape
<1>6. Quiet' BY <1>1 DEF Quiet
<1> QED BY <1>5, <1>6

\* A running process has nothing to keep quiet about.
LEMMA QuietRunning ==
  ASSUME Quiet, up \in {"open", "closing"}, UNCHANGED <<up, rec>> PROVE Quiet'
BY DEF Quiet

\* A leader and
LEMMA LeaderRunning ==
  ASSUME Shape, Quiet, LeaderStep PROVE up \in {"open", "closing"} /\ UNCHANGED <<up, rec>>
<1>1. lead.pc # "none"
 BY DEF LeaderStep, MakeRoomError, MakeRoomDelay, MakeRoomWait, SwitchMemTable, MakeRoomDone,
        AddRecord, AddRecordFails, SyncLog, SyncLogFails, ApplyGroup, InLoop
<1>2. UNCHANGED <<up, rec>>
 BY DEF LeaderStep, MakeRoomError, MakeRoomDelay, MakeRoomWait, SwitchMemTable, MakeRoomDone,
        AddRecord, AddRecordFails, SyncLog, SyncLogFails, ApplyGroup, openVars
<1> QED BY <1>1, <1>2, AtWork

\* the background thread find the database running.
LEMMA BackgroundRunning ==
  ASSUME Shape, Quiet, BackgroundStep PROVE up \in {"open", "closing"} /\ UNCHANGED <<up, rec>>
<1>1. scheduled \/ imm # Nil \/ flush.pc # "none" \/ comp.pc # "none"
 BY DEF BackgroundStep, BackgroundCallSkips, FlushBegin, FlushBuild, FlushManifest, FlushInstall,
        CompactBegin, CompactOpen, CompactWork, CompactManifest, CompactInstall, Idle
<1>2. UNCHANGED <<up, rec>>
 BY DEF BackgroundStep, BackgroundCallSkips, FlushBegin, FlushBuild, FlushManifest, FlushInstall,
        CompactBegin, CompactOpen, CompactWork, CompactManifest, CompactInstall, openVars
<1> QED BY <1>1, <1>2, AtWork

\* The steps together.
LEMMA ShapeLeader == ASSUME Shape, LeaderStep PROVE Shape'
BY ShapeMakeRoomError, ShapeMakeRoomLoop, ShapeSwitchMemTable, ShapeMakeRoomDone, ShapeAddRecord,
   ShapeAddRecordFails, ShapeSyncLog, ShapeSyncLogFails, ShapeApplyGroup, Zenon DEF LeaderStep

LEMMA ShapeBackground == ASSUME Shape, Quiet, BackgroundStep PROVE Shape'
BY ShapeBackgroundCallSkips, ShapeFlushBegin, ShapeFlushBuild, ShapeFlushManifest,
   ShapeFlushInstall, ShapeCompactBegin, ShapeCompactOpen, ShapeCompactWork, ShapeCompactManifest,
   ShapeCompactInstall, Zenon DEF BackgroundStep

LEMMA ShapeOpen == ASSUME Shape, Quiet, OpenStep PROVE Shape' /\ Quiet'
BY ShapeOpenRecover, ShapeRecoverRecord, ShapeRecoverLogDone, ShapeOpenNewLog, ShapeOpenManifest,
   ShapeOpenCleanup, Zenon DEF OpenStep

\* A caller that waits for imm_ changes nothing but itself.
LEMMA QuietAwaitImm ==
  ASSUME Quiet, NEW w \in Writers, AwaitImm(w) PROVE Quiet'
BY DEF Quiet, AwaitImm, openVars, memVars, bgVars

\* Every step keeps the shape of the state.
LEMMA ShapeStep == Shape /\ Quiet /\ [Next]_vars => Shape' /\ Quiet'
<1> SUFFICES ASSUME Shape, Quiet, [Next]_vars PROVE Shape' /\ Quiet' OBVIOUS
<1>1. CASE UNCHANGED vars
 <2>1. Quiet' BY <1>1 DEF Quiet, vars, openVars, memVars, bgVars, callVars
 <2> QED BY <1>1, <2>1, ShapeUnchanged
<1>2. ASSUME NEW w \in Writers, NEW kind \in Kinds, Enqueue(w, kind) PROVE Shape' /\ Quiet'
 <2>1. up \in {"open", "closing"} /\ UNCHANGED <<up, rec>> BY <1>2 DEF Enqueue, openVars
 <2> QED BY <1>2, <2>1, ShapeEnqueue, QuietRunning
<1>3. ASSUME NEW w \in Writers, AwaitImm(w) PROVE Shape' /\ Quiet'
 BY <1>3, ShapeAwaitImm, QuietAwaitImm
<1>4. CASE LeaderStep BY <1>4, ShapeLeader, LeaderRunning, QuietRunning
<1>5. CASE BackgroundStep BY <1>5, ShapeBackground, BackgroundRunning, QuietRunning
<1>6. CASE OpenStep BY <1>6, ShapeOpen
<1>7. CASE Close BY <1>7, ShapeClose
<1>8. CASE Closed \/ ProcessCrash \/ MachineCrash BY <1>8, ShapeCrash
<1> QED BY <1>1, <1>2, <1>3, <1>4, <1>5, <1>6, <1>7, <1>8 DEF Next

\* Every variable of the write path, the background thread, the crash and the recovery
\* keeps its type: what is read back from a torn or cut manifest is a version.
THEOREM TypeCorrect == Spec => []TypeOK
<1>1. Init => Shape /\ Quiet BY InitShape
<1>2. Shape /\ Quiet /\ [Next]_vars => Shape' /\ Quiet' BY ShapeStep
<1>3. Shape => TypeOK BY ShapeTypeOK
<1> QED BY <1>1, <1>2, <1>3, PTL DEF Spec

\* A step of a caller or of the leader leaves the tables and the manifest alone.
LEMMA CallDoes ==
  ASSUME Shape, CallStep
  PROVE  /\ UNCHANGED <<tables, manifest, rec, pending, flush, comp>>
         /\ version'.l0 = version.l0 /\ version'.l1 = version.l1 /\ version'.log = version.log
         /\ version.next <= version'.next /\ version.seq <= version'.seq
         /\ bgError => bgError'
         /\ up' = up \/ (up = "open" /\ up' = "closing")
<1> DEFINE Still == version' = version /\ bgError' = bgError
<1>0. version.next \in Nat /\ version.seq \in Nat BY ShapeIs, VersionIs
<1>1. UNCHANGED <<tables, manifest, rec, pending, flush, comp>>
 BY DEF CallStep, LeaderStep, MakeRoomError, MakeRoomDelay, MakeRoomWait, SwitchMemTable,
        MakeRoomDone, AddRecord, AddRecordFails, SyncLog, SyncLogFails, ApplyGroup, Enqueue,
        AwaitImm, BackgroundCallSkips, Close, vars, diskVars, openVars, memVars, bgVars, callVars
<1>2. up' = up \/ (up = "open" /\ up' = "closing")
 BY DEF CallStep, LeaderStep, MakeRoomError, MakeRoomDelay, MakeRoomWait, SwitchMemTable,
        MakeRoomDone, AddRecord, AddRecordFails, SyncLog, SyncLogFails, ApplyGroup, Enqueue,
        AwaitImm, BackgroundCallSkips, Close, vars, openVars
<1>3. bgError' = bgError \/ bgError' = TRUE
 BY DEF CallStep, LeaderStep, MakeRoomError, MakeRoomDelay, MakeRoomWait, SwitchMemTable,
        MakeRoomDone, AddRecord, AddRecordFails, SyncLog, SyncLogFails, ApplyGroup, Enqueue,
        AwaitImm, BackgroundCallSkips, Close, vars, bgVars
<1>4. \/ version' = version
      \/ version' = [version EXCEPT !.next = version.next + 1]
      \/ version' = [version EXCEPT !.seq = LastSequence]
 BY DEF CallStep, LeaderStep, MakeRoomError, MakeRoomDelay, MakeRoomWait, SwitchMemTable,
        MakeRoomDone, AddRecord, AddRecordFails, SyncLog, SyncLogFails, ApplyGroup, Enqueue,
        AwaitImm, BackgroundCallSkips, Close, vars, memVars
<1>5. /\ version'.l0 = version.l0 /\ version'.l1 = version.l1 /\ version'.log = version.log
      /\ version.next <= version'.next /\ version.seq <= version'.seq
 <2>1. CASE version' = version BY <1>0, <2>1
 <2>2. CASE version' = [version EXCEPT !.next = version.next + 1]
  <3>1. version.next + 1 \in Nat BY <1>0
  <3>2. /\ version'.l0 = version.l0 /\ version'.l1 = version.l1 /\ version'.log = version.log
        /\ version'.next = version.next + 1 /\ version'.seq = version.seq
   BY <2>2, <3>1, BumpNext, ShapeIs
  <3> QED BY <1>0, <3>2
 <2>3. CASE version' = [version EXCEPT !.seq = LastSequence]
  <3>2. /\ version'.l0 = version.l0 /\ version'.l1 = version.l1 /\ version'.log = version.log
        /\ version'.next = version.next /\ version'.seq = LastSequence
   BY <2>3, GroupBatches, BumpSeq, ShapeIs
  <3> QED BY <1>0, <3>2, GroupBatches
 <2> QED BY <1>4, <2>1, <2>2, <2>3
<1> QED BY <1>1, <1>2, <1>3, <1>5

-----------------------------------------------------------------------------
(* What the steps do, field by field.                                      *)

\* What the steps of the background thread do, field by field.
\* The flush takes a number for its table.
LEMMA FlushBeginDoes ==
  ASSUME Shape, Quiet, FlushBegin
  PROVE  /\ UNCHANGED <<logs, tables, manifest, up, rec, mem, imm, logfile, scheduled, bgError,
                        comp, writers, lead, req, seqOf, excused, budget>>
         /\ up \in {"open", "closing"} /\ imm # Nil /\ flush.pc = "none"
         /\ comp.pc \in {"none", "work"}
         /\ flush'.pc = "build" /\ flush'.out = version.next
         /\ pending' = pending \cup {version.next}
         /\ version'.l0 = version.l0 /\ version'.l1 = version.l1 /\ version'.log = version.log
         /\ version'.seq = version.seq /\ version'.next = version.next + 1
<1>1. UNCHANGED <<logs, tables, manifest, up, rec, mem, imm, logfile,
                  scheduled, bgError, comp, writers, lead, req, seqOf, excused, budget>>
 BY DEF FlushBegin, diskVars, openVars, callVars
<1>2. /\ imm # Nil /\ flush.pc = "none" /\ comp.pc \in {"none", "work"}
      /\ pending' = pending \cup {version.next}
 BY DEF FlushBegin, Idle
<1>3. up \in {"open", "closing"} BY <1>2, AtWork
<1>4. flush'.pc = "build" /\ flush'.out = version.next BY DEF FlushBegin, NoFlush
<1>5. version.next \in Nat /\ version.next + 1 \in Nat BY ShapeIs, VersionIs
<1>6. /\ version'.l0 = version.l0 /\ version'.l1 = version.l1 /\ version'.log = version.log
      /\ version'.seq = version.seq /\ version'.next = version.next + 1
 BY <1>5, BumpNext, ShapeIs DEF FlushBegin
<1> QED BY <1>1, <1>2, <1>3, <1>4, <1>6

\* What SignalAll changes.
LEMMA SignalWakes == ASSUME Shape, SignalAll PROVE Woken
<1>1. /\ req' \in [Writers -> ReqType] /\ lead' \in LeadType
      /\ lead'.group = lead.group
      /\ lead'.pc = IF lead.pc = "waiting" THEN "room" ELSE lead.pc
 BY SignalType, ShapeIs, QueueIs
<1>2. \A w \in Writers : req'[w] = IF req[w].st = "wait" THEN [req[w] EXCEPT !.st = "check"]
                                   ELSE req[w]
 BY DEF SignalAll
<1>3. ASSUME NEW w \in Writers
      PROVE  /\ req'[w].kind = req[w].kind
             /\ req'[w].st = req[w].st \/ (req[w].st = "wait" /\ req'[w].st = "check")
 <2>1. req[w] \in ReqType BY ShapeIs
 <2> QED BY <1>2, <2>1 DEF ReqType
<1> QED BY <1>1, <1>3 DEF Woken

\* Nothing at all is changed.
LEMMA NobodyWoken == ASSUME UNCHANGED <<req, lead>> PROVE Woken
BY DEF Woken

\* The level-0 table of a flush is written, or the flush ends with an error.
LEMMA FlushBuildDoes ==
  ASSUME Shape, Quiet, FlushBuild
  PROVE  /\ UNCHANGED <<logs, manifest, up, rec, version, mem, imm, logfile, comp, writers,
                        seqOf, excused>>
         /\ up \in {"open", "closing"} /\ flush.pc = "build" /\ comp.pc \in {"none", "work"}
         /\ imm \in SUBSET Writers /\ flush.out \in Nat
         /\ pending' = pending \ {flush.out} /\ (bgError => bgError') /\ Woken
         /\ DOMAIN tables \subseteq DOMAIN tables'
         /\ DOMAIN tables' \subseteq DOMAIN tables \cup {flush.out}
         /\ \A n \in DOMAIN tables : n # flush.out => tables'[n] = tables[n]
         /\ \/ flush' = NoFlush /\ bgError'
            \/ /\ flush'.pc = "manifest" /\ FlushEdit(flush'.edit) /\ flush'.edit \in EditType
               /\ imm # {} => flush.out \in DOMAIN tables' /\ tables'[flush.out] = imm
               /\ UNCHANGED bgError
<1>1. UNCHANGED <<logs, manifest, up, rec, version, mem, imm, logfile, comp, writers, seqOf,
                  excused>>
 BY DEF FlushBuild, openVars, memVars
<1>2. flush.pc = "build" /\ pending' = pending \ {flush.out} BY DEF FlushBuild
<1>3. /\ up \in {"open", "closing"} /\ comp.pc \in {"none", "work"} /\ imm \in SUBSET Writers
      /\ flush.out \in Nat
 BY <1>2, AtWork, FlushIdle
<1>4. \/ tables' = tables
      \/ tables' = [n \in DOMAIN tables \cup {flush.out} |->
                             IF n = flush.out THEN imm ELSE tables[n]]
 BY DEF FlushBuild
<1>5. /\ DOMAIN tables \subseteq DOMAIN tables'
      /\ DOMAIN tables' \subseteq DOMAIN tables \cup {flush.out}
      /\ \A n \in DOMAIN tables : n # flush.out => tables'[n] = tables[n]
 BY <1>3, <1>4, NewTableOK, ShapeIs
<1>6. ASSUME bgError' = TRUE, FlushReturn(imm, version, TRUE)
      PROVE flush' = NoFlush /\ bgError' /\ Woken
 BY <1>6, SignalWakes DEF FlushReturn, EndCall
<1>7. ASSUME NEW zero \in BOOLEAN,
             tables' = (IF imm = {} THEN tables
                       ELSE [n \in DOMAIN tables \cup {flush.out} |->
                               IF n = flush.out THEN imm ELSE tables[n]]),
             flush' = [flush EXCEPT !.pc = "manifest",
                         !.edit = Edit(IF zero THEN (IF imm = {} THEN {} ELSE {flush.out}) ELSE {},
                                       IF zero THEN {} ELSE (IF imm = {} THEN {} ELSE {flush.out}),
                                       {}, logfile, version)],
             UNCHANGED <<bgError, scheduled, req, lead>>
      PROVE  /\ flush'.pc = "manifest" /\ FlushEdit(flush'.edit) /\ flush'.edit \in EditType
             /\ imm # {} => flush.out \in DOMAIN tables' /\ tables'[flush.out] = imm
             /\ UNCHANGED bgError
             /\ Woken
 <2> DEFINE a0 == IF zero THEN (IF imm = {} THEN {} ELSE {flush.out}) ELSE {}
            a1 == IF zero THEN {} ELSE (IF imm = {} THEN {} ELSE {flush.out})
            e == Edit(a0, a1, {}, logfile, version)
 <2>1. a0 \in SUBSET Nat /\ a1 \in SUBSET Nat BY <1>3
 <2>2. flush' = [flush EXCEPT !.pc = "manifest", !.edit = e] BY <1>7
 <2>a. a0 \cup a1 = (IF imm = {} THEN {} ELSE {flush.out}) OBVIOUS
 <2> HIDE DEF a0, a1
 <2>3. /\ e \in EditType /\ e.add0 = a0 /\ e.add1 = a1 /\ e.del = {} /\ e.log = logfile
       /\ e.next = version.next /\ e.seq = version.seq
  BY <2>1, EditOf, ShapeIs
 <2> HIDE DEF e
 <2>4. flush'.edit = e /\ flush'.pc = "manifest" BY <1>2, <2>2, <2>3, FlushIdle DEF FlushType
 <2>5. FlushEdit(e) BY <2>a, <2>3 DEF FlushEdit, Adds
 <2>6. imm # {} => flush.out \in DOMAIN tables' /\ tables'[flush.out] = imm
  BY <1>7, <1>3, NewTableOK, ShapeIs
 <2> QED BY <1>7, <2>3, <2>4, <2>5, <2>6, NobodyWoken
<1>8. /\ (bgError => bgError') /\ Woken
      /\ \/ flush' = NoFlush /\ bgError'
         \/ /\ flush'.pc = "manifest" /\ FlushEdit(flush'.edit) /\ flush'.edit \in EditType
            /\ imm # {} => flush.out \in DOMAIN tables' /\ tables'[flush.out] = imm
            /\ UNCHANGED bgError
 BY <1>6, <1>7 DEF FlushBuild
<1> QED BY <1>1, <1>2, <1>3, <1>5, <1>8

\* LogAndApply adds its record whole, torn, unsynced or not at all.
LEMMA WriteManifestDoes ==
  ASSUME Shape, NEW e \in EditType, NEW ok \in BOOLEAN, WriteManifest(e, ok)
  PROVE Extended(e, ok)
<1>0. manifest \in ManifestType /\ manifest.synced <= Len(manifest.recs)
 BY ShapeIs DEF ManifestOK
<1>1. \A r : [manifest EXCEPT !.recs = Append(manifest.recs, r)]
                = [recs |-> Append(manifest.recs, r), synced |-> manifest.synced]
 BY <1>0 DEF ManifestType
<1>2. CASE /\ NoFault /\ ok
           /\ manifest' = [recs |-> Append(manifest.recs, e), synced |-> Len(manifest.recs) + 1]
 <2> DEFINE s == Len(manifest.recs) + 1
            m == manifest
            m2 == manifest'
 <2>1. m2 = [recs |-> Append(m.recs, e), synced |-> s] /\ s \in {m.synced, Len(m.recs) + 1} BY <1>2
 <2>2. s # m.synced BY <1>0 DEF ManifestType
 <2>3. e \in EditType \cup {Torn} OBVIOUS
 <2>4. m \in ManifestType /\ m.synced <= Len(m.recs) BY <1>0
 <2>5. m2.recs = Append(m.recs, e) BY <2>1
 <2> HIDE DEF s, m, m2
 <2>6. /\ Newest(m2) = Step(Newest(m), e)
       /\ OneMore(m, m2) /\ (s # m.synced => OnlyNewest(m2))
  BY <2>1, <2>3, <2>4, ManifestAppend
 <2>7. Newest(m2) = Apply(Newest(m), e) BY <2>6, EditNotTorn DEF Step
 <2> QED BY <2>2, <2>5, <2>6, <2>7 DEF m, m2, Extended, OneMore, OnlyNewest
<1>3. CASE Fault /\ ~ok /\ UNCHANGED manifest BY <1>3 DEF Extended
<1>4. ASSUME ~ok, NEW r \in {e, Torn},
             manifest' = [manifest EXCEPT !.recs = Append(manifest.recs, r)]
      PROVE Extended(e, ok)
 <2> DEFINE m == manifest
            m2 == manifest'
            s == manifest.synced
 <2>1. m2 = [recs |-> Append(m.recs, r), synced |-> s] /\ s \in {m.synced, Len(m.recs) + 1}
  BY <1>1, <1>4
 <2>3. r \in EditType \cup {Torn} OBVIOUS
 <2>4. m \in ManifestType /\ m.synced <= Len(m.recs) BY <1>0
 <2>5. m2.recs = Append(m.recs, r) BY <2>1
 <2> HIDE DEF s, m, m2
 <2>6. /\ Newest(m2) = Step(Newest(m), r)
       /\ OneMore(m, m2)
  BY <2>1, <2>3, <2>4, ManifestAppend
 <2>7. Newest(m2) \in {Newest(m), Apply(Newest(m), e)} BY <2>6 DEF Step
 <2>8. \A v \in Disk(m2) : v \in Disk(m) \/ (v = Apply(Newest(m), e) /\ Newest(m) \in Disk(m))
  BY <2>6, <2>7 DEF OneMore
 <2> QED BY <1>4, <2>5, <2>7, <2>8 DEF m, m2, Extended
<1> QED BY <1>2, <1>3, <1>4 DEF WriteManifest

\* LogAndApply of a flush,
LEMMA FlushManifestDoes ==
  ASSUME Shape, Quiet, FlushManifest
  PROVE  /\ UNCHANGED <<logs, tables, up, rec, version, mem, imm, logfile, pending, scheduled,
                        bgError, comp, writers, lead, req, seqOf, excused>>
         /\ up \in {"open", "closing"} /\ flush.pc = "manifest" /\ comp.pc \in {"none", "work"}
         /\ flush.edit \in EditType /\ flush'.edit = flush.edit
         /\ flush'.pc \in {"done", "failed"} /\ Extended(flush.edit, flush'.pc = "done")
<1>1. UNCHANGED <<logs, tables, up, rec, version, mem, imm, logfile, pending, scheduled, bgError,
                  comp, writers, lead, req, seqOf, excused>>
 BY DEF FlushManifest, openVars, memVars, callVars
<1>2. PICK ok \in BOOLEAN : /\ WriteManifest(flush.edit, ok)
                            /\ flush' = [flush EXCEPT !.pc = IF ok THEN "done" ELSE "failed"]
 BY DEF FlushManifest
<1>3. flush.pc = "manifest" /\ flush.edit \in EditType
 BY ShapeIs DEF FlushManifest, WorkOK, Edited
<1>4. Extended(flush.edit, ok) BY <1>2, <1>3, WriteManifestDoes
<1>5. up \in {"open", "closing"} /\ comp.pc \in {"none", "work"} BY <1>3, AtWork, FlushIdle
<1>6. flush'.edit = flush.edit /\ flush'.pc = IF ok THEN "done" ELSE "failed"
 <2> DEFINE p == IF ok THEN "done" ELSE "failed"
 <2>1. flush' = [flush EXCEPT !.pc = p] BY <1>2
 <2> HIDE DEF p
 <2>2. flush'.edit = flush.edit /\ flush'.pc = p BY <2>1, <1>3, FlushIdle DEF FlushType
 <2> QED BY <2>2 DEF p
<1>7. flush'.pc \in {"done", "failed"} /\ Extended(flush.edit, flush'.pc = "done")
 <2>1. CASE ok BY <2>1, <1>4, <1>6 DEF Extended
 <2>2. CASE ~ok BY <2>2, <1>4, <1>6 DEF Extended
 <2> QED BY <2>1, <2>2
<1> QED BY <1>1, <1>3, <1>5, <1>6, <1>7

\* and of a compaction.
LEMMA CompactManifestDoes ==
  ASSUME Shape, Quiet, CompactManifest
  PROVE  /\ UNCHANGED <<logs, tables, up, rec, version, mem, imm, logfile, pending, scheduled,
                        bgError, flush, writers, lead, req, seqOf, excused>>
         /\ up \in {"open", "closing"} /\ comp.pc = "manifest" /\ flush.pc = "none"
         /\ comp.edit \in EditType /\ comp'.edit = comp.edit
         /\ comp'.pc \in {"done", "failed"} /\ Extended(comp.edit, comp'.pc = "done")
<1>1. UNCHANGED <<logs, tables, up, rec, version, mem, imm, logfile, pending, scheduled, bgError,
                  flush, writers, lead, req, seqOf, excused>>
 BY DEF CompactManifest, openVars, memVars, callVars
<1>2. PICK ok \in BOOLEAN : /\ WriteManifest(comp.edit, ok)
                            /\ comp' = [comp EXCEPT !.pc = IF ok THEN "done" ELSE "failed"]
 BY DEF CompactManifest
<1>3. comp.pc = "manifest" /\ comp.edit \in EditType /\ flush.pc = "none"
 BY ShapeIs DEF CompactManifest, WorkOK, Edited
<1>4. Extended(comp.edit, ok) BY <1>2, <1>3, WriteManifestDoes
<1>5. up \in {"open", "closing"} BY <1>3, AtWork
<1>6. comp'.edit = comp.edit /\ comp'.pc = IF ok THEN "done" ELSE "failed"
 <2> DEFINE p == IF ok THEN "done" ELSE "failed"
 <2>1. comp' = [comp EXCEPT !.pc = p] BY <1>2
 <2> HIDE DEF p
 <2>2. comp'.edit = comp.edit /\ comp'.pc = p BY <2>1, <1>3, CompIs DEF CompType
 <2> QED BY <2>2 DEF p
<1>7. comp'.pc \in {"done", "failed"} /\ Extended(comp.edit, comp'.pc = "done")
 <2>1. CASE ok BY <2>1, <1>4, <1>6 DEF Extended
 <2>2. CASE ~ok BY <2>2, <1>4, <1>6 DEF Extended
 <2> QED BY <2>1, <2>2
<1> QED BY <1>1, <1>3, <1>5, <1>6, <1>7

\* The version a flush installs,
LEMMA FlushInstallDoes ==
  ASSUME Shape, Quiet, FlushInstall
  PROVE  /\ UNCHANGED <<manifest, up, rec, mem, logfile, pending, comp, writers, seqOf, excused,
                        budget>>
         /\ up \in {"open", "closing"} /\ rec = NoRec /\ comp.pc \in {"none", "work"}
         /\ flush.edit \in EditType /\ flush' = NoFlush /\ Woken
         /\ \/ /\ flush.pc = "done" /\ version' = Installed(flush.edit) /\ imm' = Nil
               /\ DeleteObsoleteFiles(version', pending) /\ UNCHANGED bgError
            \/ flush.pc = "failed" /\ bgError' /\ UNCHANGED <<version, imm, logs, tables>>
<1>1. UNCHANGED <<manifest, up, rec, mem, logfile, pending, comp, writers, seqOf, excused, budget>>
 BY DEF FlushInstall, openVars
<1>2. flush.pc \in {"done", "failed"} BY DEF FlushInstall
<1>3. /\ up \in {"open", "closing"} /\ rec = NoRec /\ comp.pc \in {"none", "work"}
 BY <1>2, AtWork, FlushIdle
<1>4. flush.edit \in EditType BY <1>2, ShapeIs DEF WorkOK, Edited
<1>5. flush' = NoFlush /\ Woken BY SignalWakes DEF FlushInstall, FlushReturn, EndCall
<1>6. \/ /\ flush.pc = "done" /\ version' = Installed(flush.edit) /\ imm' = Nil
         /\ DeleteObsoleteFiles(version', pending) /\ UNCHANGED bgError
      \/ flush.pc = "failed" /\ bgError' /\ UNCHANGED <<version, imm, logs, tables>>
 BY DEF FlushInstall
<1> QED BY <1>1, <1>3, <1>4, <1>5, <1>6

\* and a compaction.
LEMMA CompactInstallDoes ==
  ASSUME Shape, Quiet, CompactInstall
  PROVE  /\ UNCHANGED <<manifest, up, rec, mem, imm, logfile, flush, writers, seqOf, excused,
                        budget>>
         /\ up \in {"open", "closing"} /\ rec = NoRec /\ flush.pc = "none"
         /\ comp.edit \in EditType /\ comp' = NoComp /\ Woken
         /\ \/ /\ comp.pc = "done" /\ version' = Installed(comp.edit) /\ UNCHANGED bgError
               /\ UNCHANGED <<logs, tables>> \/ DeleteObsoleteFiles(version', pending')
            \/ comp.pc = "failed" /\ bgError' /\ UNCHANGED <<version, logs, tables>>
<1>1. UNCHANGED <<manifest, up, rec, mem, imm, logfile, flush, writers, seqOf, excused, budget>>
 BY DEF CompactInstall, openVars
<1>2. comp.pc \in {"done", "failed"} BY DEF CompactInstall
<1>3. up \in {"open", "closing"} /\ rec = NoRec /\ flush.pc = "none"
 BY <1>2, AtWork, ShapeIs DEF WorkOK
<1>4. comp.edit \in EditType BY <1>2, ShapeIs DEF WorkOK, Edited
<1>5. comp' = NoComp /\ Woken BY SignalWakes DEF CompactInstall, EndCall
<1>6. \/ /\ comp.pc = "done" /\ version' = Installed(comp.edit) /\ UNCHANGED bgError
         /\ UNCHANGED <<logs, tables>> \/ DeleteObsoleteFiles(version', pending')
      \/ comp.pc = "failed" /\ bgError' /\ UNCHANGED <<version, logs, tables>>
 BY DEF CompactInstall
<1> QED BY <1>1, <1>3, <1>4, <1>5, <1>6

\* A compaction begins, or is the move of a file.
LEMMA CompactBeginDoes ==
  ASSUME Shape, Quiet, NEW over \in SUBSET version.l1, CompactBegin(over)
  PROVE  /\ UNCHANGED <<logs, tables, manifest, up, rec, version, mem, imm, logfile, pending,
                        scheduled, bgError, flush, writers, lead, req, seqOf, excused, budget>>
         /\ up \in {"open", "closing"} /\ flush.pc = "none" /\ comp.pc = "none"
         /\ \/ /\ comp'.pc = "manifest" /\ comp'.edit.add0 = {} /\ comp'.edit.add1 = version.l0
               /\ comp'.edit.del = version.l0 /\ comp'.edit.log = version.log
               /\ comp'.edit.next = version.next /\ comp'.edit.seq = version.seq
               /\ comp'.edit \in EditType
            \/ comp'.pc = "work" /\ comp'.inputs \subseteq Live(version) /\ comp'.out = 0
<1>1. UNCHANGED <<logs, tables, manifest, up, rec, version, mem, imm, logfile, pending,
                  scheduled, bgError, flush, writers, lead, req, seqOf, excused, budget>>
 BY DEF CompactBegin, diskVars, openVars, memVars, callVars
<1>2. flush.pc = "none" /\ comp.pc = "none" /\ scheduled BY DEF CompactBegin, Idle
<1>3. up \in {"open", "closing"} BY <1>2, AtWork
<1> DEFINE e == Edit({}, version.l0, version.l0, version.log, version)
<1>4. \/ comp' = [pc |-> "manifest", inputs |-> {}, out |-> 0, edit |-> e]
      \/ comp' = [pc |-> "work", inputs |-> version.l0 \cup over, out |-> 0, edit |-> Nil]
 BY DEF CompactBegin, NoComp
<1>5. /\ e \in EditType /\ e.add0 = {} /\ e.add1 = version.l0 /\ e.del = version.l0
      /\ e.log = version.log /\ e.next = version.next /\ e.seq = version.seq
 BY EditOf, ShapeIs, VersionIs
<1> HIDE DEF e
<1>6. CASE comp' = [pc |-> "manifest", inputs |-> {}, out |-> 0, edit |-> e]
 <2>1. comp'.pc = "manifest" /\ comp'.edit = e BY <1>6
 <2> QED BY <1>1, <1>2, <1>3, <1>5, <2>1
<1>7. CASE comp' = [pc |-> "work", inputs |-> version.l0 \cup over, out |-> 0, edit |-> Nil]
 <2>1. comp'.pc = "work" /\ comp'.inputs = version.l0 \cup over /\ comp'.out = 0 BY <1>7
 <2>2. comp'.inputs \subseteq Live(version) BY <2>1 DEF Live
 <2> QED BY <1>1, <1>2, <1>3, <2>1, <2>2
<1> QED BY <1>4, <1>6, <1>7

\* Its output is created.
LEMMA CompactOpenDoes ==
  ASSUME Shape, Quiet, CompactOpen
  PROVE  /\ UNCHANGED <<logs, manifest, up, rec, mem, imm, logfile, scheduled, bgError, flush,
                        writers, lead, req, seqOf, excused, budget>>
         /\ up \in {"open", "closing"} /\ comp.pc = "work" /\ comp.out = 0 /\ flush.pc = "none"
         /\ comp'.pc = "work" /\ comp'.out = version.next /\ comp'.inputs = comp.inputs
         /\ pending' = pending \cup {version.next}
         /\ version'.l0 = version.l0 /\ version'.l1 = version.l1 /\ version'.log = version.log
         /\ version'.seq = version.seq /\ version'.next = version.next + 1
         /\ DOMAIN tables' = DOMAIN tables \cup {version.next} /\ tables'[version.next] = {}
         /\ \A n \in DOMAIN tables : n # version.next => tables'[n] = tables[n]
<1>1. UNCHANGED <<logs, manifest, up, rec, mem, imm, logfile, scheduled, bgError, flush,
                  writers, lead, req, seqOf, excused, budget>>
 BY DEF CompactOpen, openVars, callVars
<1>2. version.next \in Nat /\ version.next + 1 \in Nat BY ShapeIs, VersionIs
<1>3. /\ version'.l0 = version.l0 /\ version'.l1 = version.l1 /\ version'.log = version.log
      /\ version'.seq = version.seq /\ version'.next = version.next + 1
 BY <1>2, BumpNext, ShapeIs DEF CompactOpen
<1>4. /\ DOMAIN tables' = DOMAIN tables \cup {version.next} /\ tables'[version.next] = {}
      /\ \A n \in DOMAIN tables : n # version.next => tables'[n] = tables[n]
 <2> DEFINE s == {}
            n == version.next
 <2>1. s \in SUBSET Writers OBVIOUS
 <2>2. tables' = [k \in DOMAIN tables \cup {n} |-> IF k = n THEN s ELSE tables[k]]
  BY DEF CompactOpen
 <2>3. n \in Nat BY <1>2
 <2> HIDE DEF s, n
 <2>4. /\ DOMAIN tables' = DOMAIN tables \cup {n} /\ tables'[n] = s
       /\ \A k \in DOMAIN tables : k # n => tables'[k] = tables[k]
  BY <2>1, <2>2, <2>3, NewTableOK, ShapeIs
 <2> QED BY <2>4 DEF s, n
<1>5. /\ comp.pc = "work" /\ comp.out = 0 /\ flush.pc = "none"
      /\ comp' = [comp EXCEPT !.out = version.next] /\ pending' = pending \cup {version.next}
 BY DEF CompactOpen
<1>6. comp'.pc = "work" /\ comp'.out = version.next /\ comp'.inputs = comp.inputs
 BY <1>5, CompIs DEF CompType
<1>7. up \in {"open", "closing"} BY <1>5, AtWork
<1> QED BY <1>1, <1>3, <1>4, <1>5, <1>6, <1>7

\* Its output is complete, or it ends with an error.
LEMMA CompactWorkDoes ==
  ASSUME Shape, Quiet, CompactWork
  PROVE  /\ UNCHANGED <<logs, manifest, up, rec, version, mem, imm, logfile, flush, writers,
                        seqOf, excused>>
         /\ up \in {"open", "closing"} /\ comp.pc = "work" /\ flush.pc = "none"
         /\ (bgError => bgError') /\ Woken
         /\ DOMAIN tables' = DOMAIN tables
         /\ \/ /\ comp.out # 0 /\ comp'.pc = "manifest" /\ CompEdit(comp'.edit)
               /\ comp'.edit \in EditType /\ UNCHANGED <<pending, bgError>>
               /\ comp.out \in DOMAIN tables =>
                     tables'[comp.out] = UNION {tables[i] : i \in comp.inputs \cap DOMAIN tables}
               /\ \A n \in DOMAIN tables : n # comp.out => tables'[n] = tables[n]
            \/ comp' = NoComp /\ bgError' /\ UNCHANGED tables /\ pending' = pending \ {comp.out}
<1>1. UNCHANGED <<logs, manifest, up, rec, version, mem, imm, logfile, flush, writers, seqOf,
                  excused>>
 BY DEF CompactWork, openVars, memVars
<1>2. flush.pc = "none" /\ comp.pc = "work" BY DEF CompactWork
<1>a. up \in {"open", "closing"} BY <1>2, AtWork
<1> DEFINE u == UNION {tables[i] : i \in comp.inputs \cap DOMAIN tables}
           e == Edit({}, {comp.out}, comp.inputs, version.log, version)
<1>3. ASSUME tables' = [n \in DOMAIN tables |-> IF n = comp.out THEN u ELSE tables[n]],
             comp' = [comp EXCEPT !.pc = "manifest", !.edit = e], comp.out # 0,
             UNCHANGED <<pending, bgError, scheduled, req, lead>>
      PROVE  /\ comp.out # 0 /\ comp'.pc = "manifest" /\ CompEdit(comp'.edit)
             /\ comp'.edit \in EditType /\ UNCHANGED <<pending, bgError>>
             /\ comp.out \in DOMAIN tables => tables'[comp.out] = u
             /\ \A n \in DOMAIN tables : n # comp.out => tables'[n] = tables[n]
             /\ DOMAIN tables' = DOMAIN tables /\ Woken
 <2> HIDE DEF u
 <2>2. /\ comp.out \in DOMAIN tables => tables'[comp.out] = u
       /\ \A n \in DOMAIN tables : n # comp.out => tables'[n] = tables[n]
       /\ DOMAIN tables' = DOMAIN tables
  BY <1>3
 <2>3. /\ e \in EditType /\ e.add0 = {} /\ e.add1 = {comp.out} /\ e.del = comp.inputs
       /\ e.log = version.log /\ e.next = version.next /\ e.seq = version.seq
  BY EditOf, ShapeIs, VersionIs, CompIs
 <2> HIDE DEF e
 <2>4. comp'.pc = "manifest" /\ comp'.edit = e BY <1>3, <2>3, CompIs DEF CompType
 <2>5. Woken BY <1>3, NobodyWoken
 <2> QED BY <1>3, <2>2, <2>3, <2>4, <2>5 DEF CompEdit
<1>4. ASSUME bgError' = TRUE, pending' = pending \ {comp.out}, comp' = NoComp,
             EndCall(imm, version, TRUE), UNCHANGED tables
      PROVE  /\ comp' = NoComp /\ bgError' /\ UNCHANGED tables /\ pending' = pending \ {comp.out}
             /\ Woken
 BY <1>4, SignalWakes DEF EndCall
<1>5. \/ /\ tables' = [n \in DOMAIN tables |-> IF n = comp.out THEN u ELSE tables[n]]
         /\ comp' = [comp EXCEPT !.pc = "manifest", !.edit = e] /\ comp.out # 0
         /\ UNCHANGED <<pending, bgError, scheduled, req, lead>>
      \/ /\ bgError' = TRUE /\ pending' = pending \ {comp.out} /\ comp' = NoComp
         /\ EndCall(imm, version, TRUE) /\ UNCHANGED tables
 BY DEF CompactWork
<1>6. CASE /\ tables' = [n \in DOMAIN tables |-> IF n = comp.out THEN u ELSE tables[n]]
           /\ comp' = [comp EXCEPT !.pc = "manifest", !.edit = e] /\ comp.out # 0
           /\ UNCHANGED <<pending, bgError, scheduled, req, lead>>
 <2>1. /\ comp.out # 0 /\ comp'.pc = "manifest" /\ CompEdit(comp'.edit)
       /\ comp'.edit \in EditType /\ UNCHANGED <<pending, bgError>>
       /\ comp.out \in DOMAIN tables => tables'[comp.out] = u
       /\ \A n \in DOMAIN tables : n # comp.out => tables'[n] = tables[n]
       /\ DOMAIN tables' = DOMAIN tables /\ Woken
  BY <1>3, <1>6, Zenon
 <2> QED BY <1>1, <1>2, <1>a, <2>1
<1>7. CASE /\ bgError' = TRUE /\ pending' = pending \ {comp.out} /\ comp' = NoComp
           /\ EndCall(imm, version, TRUE) /\ UNCHANGED tables
 BY <1>1, <1>2, <1>a, <1>4, <1>7
<1> QED BY <1>5, <1>6, <1>7

\* A log that nobody touches is kept.
LEMMA KeptSame == ASSUME Shape PROVE \A n \in DOMAIN logs : Kept(logs[n], logs[n])
BY ShapeIs DEF LogsOK, Kept, LogFileType

\* However the process ends,
LEMMA DownCrash ==
  ASSUME Shape, Closed \/ ProcessCrash \/ MachineCrash PROVE Down
<1>1. CASE Closed BY <1>1, KeptSame DEF Closed, Down, diskVars
<1>2. CASE ProcessCrash
 <2>1. \A w \in Writers :
         /\ req'[w].kind = req[w].kind
         /\ req'[w].st = IF req[w].st \in {"queued", "check", "wait"} THEN "lost" ELSE req[w].st
  BY <1>2, CallersLostType, ShapeIs DEF ProcessCrash
 <2>2. Forget /\ up' = "closed" /\ UNCHANGED <<logs, tables, manifest, seqOf, excused>>
  BY <1>2 DEF ProcessCrash, diskVars
 <2> QED BY <2>1, <2>2, KeptSame DEF Down
<1>3. CASE MachineCrash
 <2>1. \A w \in Writers :
         /\ req'[w].kind = req[w].kind
         /\ req'[w].st = IF req[w].st \in {"queued", "check", "wait"} THEN "lost" ELSE req[w].st
  BY <1>3, CallersLostType, ShapeIs DEF MachineCrash
 <2>2. /\ Forget /\ up' = "closed" /\ UNCHANGED <<tables, seqOf>>
       /\ \E c \in manifest.synced .. Len(manifest.recs) : manifest' = Cut(manifest, c)
       /\ excused' = excused \cup {w \in Writers : req[w].kind = "async" /\ req[w].st = "ok"}
  BY <1>3 DEF MachineCrash
 <2>3. DOMAIN logs' = DOMAIN logs /\ \A n \in DOMAIN logs : Kept(logs[n], logs'[n])
  BY <1>3, LogsCut, ShapeIs DEF Kept
 <2> QED BY <2>1, <2>2, <2>3 DEF Down
<1> QED BY <1>1, <1>2, <1>3

\* also by a failing DB::Open.
LEMMA DownOpenFails ==
  ASSUME Shape, OpenFails, UNCHANGED <<logs, tables, manifest, req, seqOf, excused>>,
         up # "open"
  PROVE Down
BY KeptSame DEF OpenFails, Down

\* A table is written during recovery.
LEMMA RecoverTableWrites ==
  ASSUME Shape, NEW m \in SUBSET Writers, NEW next \in Nat, RecoverTable(m, next)
  PROVE  /\ Written(version.next, m) /\ Same(version', version) /\ version'.seq = version.seq
         /\ version.next + 1 <= version'.next /\ version.next <= version'.next
         /\ next <= version'.next
<1>1. /\ DOMAIN tables' = DOMAIN tables \cup {version.next}
      /\ tables'[version.next] = m
      /\ \A k \in DOMAIN tables : k # version.next => tables'[k] = tables[k]
      /\ version' \in VersionType /\ version'.l0 = version.l0 /\ version'.l1 = version.l1
      /\ version'.log = version.log /\ version'.seq = version.seq
      /\ version.next + 1 <= version'.next /\ next <= version'.next
 BY RecoverTableDoes
<1>2. version.next <= version'.next BY <1>1, ShapeIs, VersionIs
<1> QED BY <1>1, <1>2 DEF Written, Same

\* Reading a record ends the recovery or goes on,
LEMMA RecoverRecordCases ==
  ASSUME Shape, RecoverRecord PROVE Down \/ Recovering
<1> DEFINE f == logs[Min(rec.logs)].recs
           r == f[rec.pos]
           rest == UNCHANGED <<up, mem, imm, logfile, pending, scheduled, bgError, flush, comp,
                               writers, lead, budget>>
<1>1. /\ up = "recovering" /\ rec.logs # {} /\ r \in SUBSET Writers
      /\ UNCHANGED <<logs, manifest, req, seqOf, excused>>
      /\ \/ /\ rest /\ UNCHANGED <<tables, version>>
            /\ rec'.logs = rec.logs /\ rec'.added = rec.added
         \/ /\ rest /\ UNCHANGED <<tables, version>> /\ Reads(r, rec') /\ rec'.added = rec.added
         \/ /\ rest /\ RecoverTable(rec.mem \cup r, 0) /\ Reads(r, rec')
            /\ rec'.added = rec.added \cup {version.next}
         \/ Fault /\ OpenFails /\ UNCHANGED tables
 BY RecoverRecordDoes
<1>2. Reads(r, rec') => rec'.logs = rec.logs BY DEF Reads
<1>3. version.next \in Nat /\ rec.mem \cup r \in SUBSET Writers /\ 0 \in Nat
 BY <1>1, ShapeIs, VersionIs, RecIs
<1> HIDE DEF r, f
<1>4. CASE rest /\ UNCHANGED <<tables, version>> /\ rec'.logs = rec.logs /\ rec'.added = rec.added
 BY <1>1, <1>3, <1>4 DEF Recovering, Same
<1>5. CASE /\ rest /\ RecoverTable(rec.mem \cup r, 0) /\ Reads(r, rec')
           /\ rec'.added = rec.added \cup {version.next}
 <2> DEFINE s == rec.mem \cup r
 <2>1. s \in SUBSET Writers /\ RecoverTable(s, 0) BY <1>3, <1>5
 <2> HIDE DEF s
 <2>2. /\ Written(version.next, s) /\ Same(version', version) /\ version'.seq = version.seq
       /\ version.next + 1 <= version'.next /\ version.next <= version'.next
  BY <1>3, <2>1, RecoverTableWrites
 <2> QED BY <1>1, <1>2, <1>5, <2>1, <2>2 DEF Recovering
<1>6. CASE Fault /\ OpenFails /\ UNCHANGED tables BY <1>1, <1>6, DownOpenFails
<1> QED BY <1>1, <1>2, <1>4, <1>5, <1>6

\* and so does the end of a log.
LEMMA RecoverLogDoneCases ==
  ASSUME Shape, RecoverLogDone PROVE Down \/ Recovering
<1> DEFINE n == Min(rec.logs)
           rest == /\ UNCHANGED <<up, mem, imm, logfile, pending, scheduled, bgError, flush,
                                  comp, writers, lead, budget>>
                   /\ rec'.logs = rec.logs \ {n}
<1>1. /\ up = "recovering" /\ rec.logs # {}
      /\ UNCHANGED <<logs, manifest, req, seqOf, excused>>
      /\ \/ /\ rest /\ UNCHANGED tables /\ rec'.added = rec.added
            /\ version'.l0 = version.l0
            /\ version'.l1 = version.l1 /\ version'.log = version.log
            /\ version'.seq = version.seq
            /\ version.next <= version'.next /\ n + 1 <= version'.next
         \/ /\ rest /\ RecoverTable(rec.mem, n + 1)
            /\ rec'.added = rec.added \cup {version.next}
         \/ Fault /\ OpenFails /\ UNCHANGED tables
 BY RecoverLogDoneDoes
<1>2. n \in Nat /\ n + 1 \in Nat /\ rec.mem \in SUBSET Writers BY <1>1, OldestLog, RecIs
<1>3. CASE /\ rest /\ UNCHANGED tables /\ rec'.added = rec.added
           /\ version'.l0 = version.l0
           /\ version'.l1 = version.l1 /\ version'.log = version.log
           /\ version'.seq = version.seq
           /\ version.next <= version'.next /\ n + 1 <= version'.next
 BY <1>1, <1>3 DEF Recovering, Same
<1>4. CASE /\ rest /\ RecoverTable(rec.mem, n + 1) /\ rec'.added = rec.added \cup {version.next}
 <2>1. /\ Written(version.next, rec.mem) /\ Same(version', version) /\ version'.seq = version.seq
       /\ version.next + 1 <= version'.next /\ version.next <= version'.next
       /\ n + 1 <= version'.next
  <3> DEFINE k == n + 1
  <3>1. k \in Nat /\ RecoverTable(rec.mem, k) BY <1>2, <1>4
  <3> HIDE DEF k
  <3>2. /\ Written(version.next, rec.mem) /\ Same(version', version)
        /\ version'.seq = version.seq
        /\ version.next + 1 <= version'.next /\ version.next <= version'.next
        /\ k <= version'.next
   BY <1>2, <3>1, RecoverTableWrites
  <3> QED BY <3>2 DEF k
 <2> QED BY <1>1, <1>2, <1>4, <2>1 DEF Recovering
<1>5. CASE Fault /\ OpenFails /\ UNCHANGED tables BY <1>1, <1>5, DownOpenFails
<1> QED BY <1>1, <1>3, <1>4, <1>5

\* DB::Open finds a version it can use, or reports corruption.
LEMMA OpenRecoverDoes ==
  ASSUME Shape, Quiet, OpenRecover
  PROVE  /\ UNCHANGED <<logs, tables, manifest, mem, imm, logfile, pending, scheduled, bgError,
                        flush, comp, writers, lead, req, seqOf, excused, budget>>
         /\ up = "closed"
         /\ \/ /\ up' = "recovering" /\ Same(version', Newest(manifest))
               /\ Newest(manifest) \in Disk(manifest)
               /\ version'.next = Newest(manifest).next + 1
               /\ version'.seq = Newest(manifest).seq
               /\ rec'.logs = {n \in DOMAIN logs : n >= Newest(manifest).log} /\ rec'.pos = 1
               /\ rec'.mem = {} /\ rec'.added = {} /\ rec'.maxseq = 0
            \/ /\ up' = "corrupt" /\ UNCHANGED <<version, rec>>
<1>1. UNCHANGED <<logs, tables, manifest, mem, imm, logfile, pending,
                  scheduled, bgError, flush, comp, writers, lead, req, seqOf, excused, budget>>
 BY DEF OpenRecover, diskVars, bgVars, callVars
<1> DEFINE v == Newest(manifest)
           L == {n \in DOMAIN logs : n >= v.log}
<1>0. up = "closed" BY DEF OpenRecover
<1>2. v \in VersionType /\ manifest.synced \in Nat /\ Len(manifest.recs) \in Nat
      /\ manifest.synced <= Len(manifest.recs)
 BY NewestType, ShapeIs DEF ManifestOK, ManifestType
<1>3. \/ /\ up' = "recovering" /\ version' = [v EXCEPT !.next = v.next + 1]
         /\ rec' = [NoRec EXCEPT !.logs = L] /\ Readable(Len(manifest.recs))
      \/ up' = "corrupt" /\ UNCHANGED <<version, rec>>
         /\ ~(Readable(Len(manifest.recs)) /\ Live(v) \subseteq DOMAIN tables \cup DOMAIN logs)
 BY DEF OpenRecover, Newest, Replay
<1>4. CASE /\ up' = "recovering" /\ version' = [v EXCEPT !.next = v.next + 1]
           /\ rec' = [NoRec EXCEPT !.logs = L] /\ Readable(Len(manifest.recs))
 <2>1. v \in Disk(manifest) BY <1>2, <1>4 DEF Readable, Disk, Newest
 <2> HIDE DEF L, v
 <2>2. Same(version', v) /\ version'.next = v.next + 1 /\ version'.seq = v.seq
  <3>1. v.next + 1 \in Nat BY <1>2, VersionIs
  <3> QED BY <1>2, <1>4, <3>1, BumpNext DEF Same
 <2>3. /\ rec'.logs = L /\ rec'.pos = 1 /\ rec'.mem = {} /\ rec'.added = {}
       /\ rec'.maxseq = 0
  BY <1>4 DEF NoRec
 <2> QED BY <1>0, <1>1, <1>4, <2>1, <2>2, <2>3 DEF v, L
<1>5. CASE /\ up' = "corrupt" /\ UNCHANGED <<version, rec>>
           /\ ~(Readable(Len(manifest.recs)) /\ Live(v) \subseteq DOMAIN tables \cup DOMAIN logs)
 <2> QED BY <1>0, <1>1, <1>5
<1> QED BY <1>3, <1>4, <1>5

\* DeleteObsoleteFiles keeps the logs from v.log on and the tables of v and p,
LEMMA DeleteDoes ==
  ASSUME Shape, NEW v, NEW p, DeleteObsoleteFiles(v, p) PROVE Deleted(v, p)
BY DeleteShape DEF Deleted

\* as does a step that deletes nothing.
LEMMA NothingDeleted ==
  ASSUME UNCHANGED <<logs, tables>>, NEW v, NEW p PROVE Deleted(v, p)
BY DEF Deleted

\* DB::Open ends with a cleanup.
LEMMA OpenCleanupDoes ==
  ASSUME Shape, Quiet, OpenCleanup
  PROVE  /\ UNCHANGED <<manifest, version, mem, imm, logfile, pending, bgError, flush, comp,
                        writers, lead, req, seqOf, excused, budget>>
         /\ up = "cleanup" /\ up' = "open" /\ rec' = NoRec /\ Deleted(version, {})
<1>1. UNCHANGED <<manifest, version, mem, imm, logfile, pending, bgError, flush, comp,
                  writers, lead, req, seqOf, excused, budget>>
 BY DEF OpenCleanup, memVars, callVars
<1>2. up = "cleanup" /\ up' = "open" /\ rec' = NoRec /\ DeleteObsoleteFiles(version, {})
 BY DEF OpenCleanup
<1>3. Deleted(version, {})
 <2> DEFINE p == {}
 <2>1. DeleteObsoleteFiles(version, p) BY <1>2
 <2> HIDE DEF p
 <2>2. Deleted(version, p) BY <2>1, DeleteDoes
 <2> QED BY <2>2 DEF p
<1> QED BY <1>1, <1>2, <1>3

\* The new log,
LEMMA OpenNewLogCases == ASSUME Shape, OpenNewLog PROVE Down \/ OpenedLog
<1>1. /\ up = "recovering" /\ rec.logs = {}
      /\ UNCHANGED <<tables, manifest, req, seqOf, excused>>
      /\ \/ /\ up' = "new_manifest" /\ logfile' = version.next
            /\ DOMAIN logs' = DOMAIN logs \cup {logfile'}
            /\ logs'[logfile'].recs = <<>>
            /\ \A k \in DOMAIN logs : k # logfile' => logs'[k] = logs[k]
            /\ version'.l0 = version.l0 /\ version'.l1 = version.l1
            /\ version'.log = version.log /\ version'.next = version.next + 1
            /\ version.seq <= version'.seq /\ rec.maxseq <= version'.seq
            /\ UNCHANGED <<rec, mem, imm, pending, scheduled, bgError, flush, comp, writers,
                           lead, budget>>
         \/ Fault /\ OpenFails /\ UNCHANGED logs
 BY OpenNewLogDoes
<1>2. CASE Fault /\ OpenFails /\ UNCHANGED logs BY <1>1, <1>2, DownOpenFails
<1>3. CASE up' = "new_manifest"
 <2>1. ~OpenFails BY <1>3 DEF OpenFails
 <2> QED BY <1>1, <1>3, <2>1 DEF OpenedLog, Same
<1> QED BY <1>1, <1>2, <1>3

\* and the new manifest.
LEMMA OpenManifestCases == ASSUME Shape, OpenManifest PROVE Down \/ OpenedManifest
<1> DEFINE e == Edit(version'.l0, version'.l1, {}, logfile, version')
           P == /\ up' = "cleanup" /\ version' \in VersionType
                /\ version'.l0 = version.l0 \cup rec.added /\ version'.l1 = version.l1
                /\ version'.log = logfile /\ version'.next = version.next
                /\ version'.seq = version.seq
                /\ manifest' = [recs |-> <<e>>, synced |-> 1]
                /\ UNCHANGED <<rec, mem, imm, logfile, pending, scheduled, bgError, flush, comp,
                               writers, lead, budget>>
<1>1. /\ up = "new_manifest" /\ UNCHANGED <<logs, tables, req, seqOf, excused>>
      /\ P \/ (Fault /\ OpenFails /\ UNCHANGED manifest)
 BY OpenManifestDoes
<1>2. CASE Fault /\ OpenFails /\ UNCHANGED manifest BY <1>1, <1>2, DownOpenFails
<1>3. CASE P
 <2>1. version' \in VersionType /\ logfile \in Nat BY <1>3, ShapeIs
 <2>2. version'.l0 \in SUBSET Nat /\ version'.l1 \in SUBSET Nat BY <2>1, VersionIs
 <2>3. /\ e \in EditType /\ e.add0 = version'.l0 /\ e.add1 = version'.l1 /\ e.del = {}
       /\ e.log = logfile /\ e.next = version'.next /\ e.seq = version'.seq
  BY <2>1, <2>2, EditOf
 <2>4. manifest' = [recs |-> <<e>>, synced |-> 1] BY <1>3
 <2> HIDE DEF e
 <2>5. /\ Len(manifest'.recs) = 1 /\ Newest(manifest') = Apply(EmptyVersion, e)
       /\ Replayed(manifest'.recs)[0] = EmptyVersion
       /\ Disk(manifest') = {Newest(manifest')}
  BY <2>3, <2>4, ManifestNew
 <2> DEFINE a == Apply(EmptyVersion, e)
 <2>6. /\ a.l0 = version'.l0 /\ a.l1 = version'.l1 /\ a.log = logfile
       /\ a.next = version'.next /\ a.seq = version'.seq
  BY <2>3 DEF Apply, EmptyVersion
 <2> HIDE DEF a
 <2>7. Newest(manifest') = a BY <2>5 DEF a
 <2>8. Same(a, version') BY <1>3, <2>6 DEF Same
 <2> QED BY <1>1, <1>3, <2>5, <2>6, <2>7, <2>8 DEF OpenedManifest
<1> QED BY <1>1, <1>2, <1>3

\* Every step is one of these.
LEMMA NextCases ==
  ASSUME Shape, [Next]_vars
  PROVE  \/ CallStep \/ FileStep \/ Down \/ OpenRecover
         \/ Recovering /\ (RecoverRecord \/ RecoverLogDone)
         \/ OpenedLog \/ OpenedManifest \/ OpenCleanup
<1>1. CASE BackgroundStep BY <1>1 DEF BackgroundStep, FileStep, CallStep
<1>2. CASE OpenStep
 BY <1>2, RecoverRecordCases, RecoverLogDoneCases, OpenNewLogCases, OpenManifestCases
    DEF OpenStep
<1>3. CASE Closed \/ ProcessCrash \/ MachineCrash BY <1>3, DownCrash
<1>4. CASE \/ \E w \in Writers, kind \in Kinds : Enqueue(w, kind)
           \/ \E w \in Writers : AwaitImm(w)
           \/ LeaderStep \/ Close \/ UNCHANGED vars
 BY <1>4 DEF CallStep
<1> QED BY <1>1, <1>2, <1>3, <1>4 DEF Next

-----------------------------------------------------------------------------
(* Files: no table that is named is deleted.                               *)

\* The parts of Files.
LEMMA FilesIs ==
  ASSUME Files
  PROVE  /\ \A v \in Disk(manifest) : Live(v) \subseteq DOMAIN tables
         /\ Live(version) \subseteq DOMAIN tables
         /\ rec.added \subseteq DOMAIN tables
         /\ flush.pc \in Edited => Adds(flush.edit) \subseteq DOMAIN tables
         /\ comp.pc \in Edited => Adds(comp.edit) \subseteq DOMAIN tables
         /\ Output /\ Exact
BY DEF Files, Present

\* The same files.
LEMMA SameLive == ASSUME NEW u, NEW v, Same(u, v) PROVE Live(u) = Live(v)
BY DEF Same, Live

\* An edit makes the same of the same.
LEMMA SameApply ==
  ASSUME NEW u, NEW v, Same(u, v), NEW e PROVE Same(Apply(u, e), Apply(v, e))
BY DEF Same, Apply

\* What an edit makes has no other files.
LEMMA ApplyLive == \A u, e : Live(Apply(u, e)) \subseteq Live(u) \cup Adds(e)
BY DEF Live, Apply, Adds

\* LogAndApply installs what the edit makes of the current version.
LEMMA SameInstalled ==
  ASSUME Shape, NEW e \in EditType PROVE Same(Installed(e), Apply(version, e))
BY InstalledIs, ShapeIs DEF Same, Apply

\* The same work makes the same of the same.
LEMMA SameTarget ==
  ASSUME NEW u, NEW v, Same(u, v), NEW f, NEW c PROVE Same(Target(u, f, c), Target(v, f, c))
BY SameApply DEF Target

\* Same is an equivalence.
LEMMA SameTrans == \A u, v, w : Same(u, v) /\ Same(v, w) => Same(u, w)
BY DEF Same

LEMMA SameSym == \A u, v : Same(u, v) => Same(v, u)
BY DEF Same

\* When the files of the manifest and the memory of the process stay as they are.
LEMMA ExactKept ==
  ASSUME Exact, UNCHANGED <<manifest, flush, comp>>, Same(version', version),
         NoError' => NoError
  PROVE Exact'
<1> SUFFICES ASSUME NoError' PROVE OnlyNewest(manifest')
                                   /\ Same(Newest(manifest'), Target(version', flush', comp'))
 BY DEF Exact
<1>1. OnlyNewest(manifest) /\ Same(Newest(manifest), Target(version, flush, comp)) BY DEF Exact
<1>2. Same(Target(version, flush, comp), Target(version', flush, comp)) BY SameTarget, SameSym
<1>3. Same(Newest(manifest), Target(version', flush, comp)) BY <1>1, <1>2, SameTrans
<1> QED BY <1>1, <1>3

\* A step of a caller is a step,
LEMMA CallIsNext == ASSUME CallStep PROVE [Next]_vars
BY DEF CallStep, Next, BackgroundStep

\* and a step leaves a version.
LEMMA NextVersion ==
  ASSUME Shape, Quiet, [Next]_vars
  PROVE version' \in VersionType /\ version'.next \in Nat /\ version'.seq \in Nat
<1>1. Shape' BY ShapeStep
<1>2. version' \in VersionType BY <1>1 DEF Shape
<1> QED BY <1>2, VersionIs

\* From here on, one lemma per step: it keeps Files.
LEMMA FilesCall == ASSUME Shape, Quiet, Files, CallStep PROVE Files'
<1>1. /\ UNCHANGED <<tables, manifest, rec, pending, flush, comp>>
      /\ version'.l0 = version.l0 /\ version'.l1 = version.l1 /\ version'.log = version.log
      /\ version.next <= version'.next
      /\ bgError => bgError'
      /\ up' = up \/ (up = "open" /\ up' = "closing")
 BY CallDoes
<1>2. Same(version', version) /\ Live(version') = Live(version) BY <1>1, SameLive DEF Same
<1>3. NoError' => NoError BY <1>1 DEF NoError, Running
<1>4. Exact' BY <1>1, <1>2, <1>3, ExactKept, FilesIs
<1>5. Present' BY <1>1, <1>2, FilesIs DEF Present
<1>6. Output'
 <2>1. comp.out \in Nat /\ version.next \in Nat /\ version'.next \in Nat
  BY CompIs, ShapeIs, VersionIs, NextVersion, CallIsNext
 <2> QED BY <1>1, <2>1, FilesIs DEF Output
<1> QED BY <1>4, <1>5, <1>6 DEF Files

LEMMA FilesDown == ASSUME Shape, Files, Down PROVE Files'
<1>1. /\ rec' = NoRec /\ version' = EmptyVersion /\ flush' = NoFlush /\ comp' = NoComp
      /\ up' = "closed" /\ tables' = tables
 BY ForgetDoes DEF Down
<1>2. Disk(manifest') \subseteq Disk(manifest) BY ManifestCut, ShapeIs DEF Down, ManifestOK
<1>3. Live(version') = {} BY <1>1 DEF Live, EmptyVersion
<1>4. Present'
 BY <1>1, <1>2, <1>3, FilesIs, NoRecType, NoFlushType, NoCompType DEF Present, Edited
<1>5. Output' BY <1>1, NoCompType DEF Output
<1>6. Exact' BY <1>1 DEF Exact, NoError, Running
<1> QED BY <1>4, <1>5, <1>6 DEF Files

LEMMA FilesFlushBegin == ASSUME Shape, Quiet, Files, FlushBegin PROVE Files'
<1>1. /\ UNCHANGED <<tables, manifest, up, rec, bgError, comp>>
      /\ up \in {"open", "closing"} /\ flush.pc = "none"
      /\ flush'.pc = "build" /\ flush'.out = version.next
      /\ pending' = pending \cup {version.next}
      /\ version'.l0 = version.l0 /\ version'.l1 = version.l1 /\ version'.log = version.log
      /\ version'.next = version.next + 1
 BY FlushBeginDoes
<1>2. Same(version', version) /\ Live(version') = Live(version) BY <1>1, SameLive DEF Same
<1>3. Present' BY <1>1, <1>2, FilesIs DEF Present, Edited
<1>4. Output'
 <2>1. comp.out \in Nat /\ version.next \in Nat BY CompIs, ShapeIs, VersionIs
 <2> QED BY <1>1, <2>1, FilesIs DEF Output
<1>5. Exact'
 <2>1. NoError' => NoError BY <1>1 DEF NoError, Running
 <2>2. Target(version', flush', comp') = Target(version', flush, comp) BY <1>1 DEF Target
 <2>3. Same(Target(version', flush, comp), Target(version, flush, comp)) BY <1>2, SameTarget
 <2> QED BY <1>1, <2>1, <2>2, <2>3, FilesIs, SameSym, SameTrans DEF Exact
<1> QED BY <1>3, <1>4, <1>5 DEF Files

LEMMA FilesFlushBuild == ASSUME Shape, Quiet, Files, FlushBuild PROVE Files'
<1> DEFINE E == /\ flush'.pc = "manifest" /\ FlushEdit(flush'.edit)
                /\ imm # {} => flush.out \in DOMAIN tables'
                /\ UNCHANGED bgError
<1>1. /\ UNCHANGED <<manifest, up, rec, version, comp>>
      /\ up \in {"open", "closing"} /\ flush.pc = "build" /\ comp.pc \in {"none", "work"}
      /\ pending' = pending \ {flush.out}
      /\ DOMAIN tables \subseteq DOMAIN tables'
      /\ (flush' = NoFlush /\ bgError') \/ E
 BY FlushBuildDoes
<1>2. Present'
 <2>1. flush'.pc \in Edited => Adds(flush'.edit) \subseteq DOMAIN tables'
  BY <1>1, NoFlushType DEF FlushEdit, Edited
 <2> QED BY <1>1, <2>1, FilesIs DEF Present
<1>3. Output'
 <2>1. flush'.pc # "build" BY <1>1, NoFlushType
 <2> QED BY <1>1, <2>1, FilesIs DEF Output
<1>4. Exact'
 <2>1. NoError' => NoError BY <1>1 DEF NoError, Running
 <2>2. NoError' => flush'.pc = "manifest" BY <1>1 DEF NoError
 <2>3. flush'.pc = "manifest" => Target(version', flush', comp') = Target(version, flush, comp)
  BY <1>1 DEF Target
 <2> QED BY <1>1, <2>1, <2>2, <2>3, FilesIs DEF Exact
<1> QED BY <1>2, <1>3, <1>4 DEF Files

\* A new record of the manifest, when the tables it names exist.
LEMMA PresentExtended ==
  ASSUME Files, NEW e, NEW ok, Extended(e, ok), Adds(e) \subseteq DOMAIN tables
  PROVE \A v \in Disk(manifest') : Live(v) \subseteq DOMAIN tables
<1> TAKE v \in Disk(manifest')
<1>1. CASE v \in Disk(manifest) BY <1>1, FilesIs
<1>2. CASE v = Apply(Newest(manifest), e) /\ Newest(manifest) \in Disk(manifest)
 BY <1>2, FilesIs, ApplyLive
<1> QED BY <1>1, <1>2 DEF Extended

LEMMA FilesFlushManifest == ASSUME Shape, Quiet, Files, FlushManifest PROVE Files'
<1>1. /\ UNCHANGED <<tables, up, rec, version, pending, bgError, comp>>
      /\ up \in {"open", "closing"} /\ flush.pc = "manifest" /\ comp.pc \in {"none", "work"}
      /\ flush.edit \in EditType /\ flush'.edit = flush.edit
      /\ flush'.pc \in {"done", "failed"} /\ Extended(flush.edit, flush'.pc = "done")
 BY FlushManifestDoes
<1>2. Present'
 <2>1. Adds(flush.edit) \subseteq DOMAIN tables BY <1>1, FilesIs DEF Edited
 <2>2. \A v \in Disk(manifest') : Live(v) \subseteq DOMAIN tables BY <1>1, <2>1, PresentExtended
 <2> QED BY <1>1, <2>1, <2>2, FilesIs DEF Present
<1>3. Output' BY <1>1, FilesIs DEF Output
<1>4. Exact'
 <2> SUFFICES ASSUME NoError' PROVE OnlyNewest(manifest')
                                    /\ Same(Newest(manifest'), Target(version', flush', comp'))
  BY DEF Exact
 <2>1. flush'.pc = "done" BY <1>1 DEF NoError
 <2>2. NoError BY <1>1 DEF NoError, Running
 <2>3. Same(Newest(manifest), version) BY <1>1, <2>2, FilesIs DEF Exact, Target
 <2>4. Same(Apply(Newest(manifest), flush.edit), Apply(version, flush.edit)) BY <2>3, SameApply
 <2>5. Target(version', flush', comp') = Apply(version, flush.edit) BY <1>1, <2>1 DEF Target
 <2>6. /\ Newest(manifest') = Apply(Newest(manifest), flush.edit)
       /\ OnlyNewest(manifest')
  BY <1>1, <2>1 DEF Extended, OnlyNewest
 <2> QED BY <2>4, <2>5, <2>6
<1> QED BY <1>2, <1>3, <1>4 DEF Files

LEMMA FilesCompactManifest == ASSUME Shape, Quiet, Files, CompactManifest PROVE Files'
<1>1. /\ UNCHANGED <<tables, up, rec, version, pending, bgError, flush>>
      /\ up \in {"open", "closing"} /\ comp.pc = "manifest" /\ flush.pc = "none"
      /\ comp.edit \in EditType /\ comp'.edit = comp.edit
      /\ comp'.pc \in {"done", "failed"} /\ Extended(comp.edit, comp'.pc = "done")
 BY CompactManifestDoes
<1>2. Present'
 <2>1. Adds(comp.edit) \subseteq DOMAIN tables BY <1>1, FilesIs DEF Edited
 <2>2. \A v \in Disk(manifest') : Live(v) \subseteq DOMAIN tables BY <1>1, <2>1, PresentExtended
 <2> QED BY <1>1, <2>1, <2>2, FilesIs DEF Present
<1>3. Output' BY <1>1 DEF Output
<1>4. Exact'
 <2> SUFFICES ASSUME NoError' PROVE OnlyNewest(manifest')
                                    /\ Same(Newest(manifest'), Target(version', flush', comp'))
  BY DEF Exact
 <2>1. comp'.pc = "done" BY <1>1 DEF NoError
 <2>2. NoError BY <1>1 DEF NoError, Running
 <2>3. Same(Newest(manifest), version) BY <1>1, <2>2, FilesIs DEF Exact, Target
 <2>4. Same(Apply(Newest(manifest), comp.edit), Apply(version, comp.edit)) BY <2>3, SameApply
 <2>5. Target(version', flush', comp') = Apply(version, comp.edit) BY <1>1, <2>1 DEF Target
 <2>6. /\ Newest(manifest') = Apply(Newest(manifest), comp.edit)
       /\ OnlyNewest(manifest')
  BY <1>1, <2>1 DEF Extended, OnlyNewest
 <2> QED BY <2>4, <2>5, <2>6
<1> QED BY <1>2, <1>3, <1>4 DEF Files

\* Deleting what the current version does not need keeps every file that matters.
LEMMA PresentDeleted ==
  ASSUME Shape, Files, NEW v, NEW p, Deleted(v, p), Live(v) \subseteq DOMAIN tables,
         ~bgError => OnlyNewest(manifest) /\ Same(Newest(manifest), v)
  PROVE  /\ \A u \in Disk(manifest) : Live(u) \subseteq DOMAIN tables'
         /\ Live(v) \subseteq DOMAIN tables'
<1>1. Live(v) \subseteq DOMAIN tables' BY DEF Deleted
<1>2. CASE bgError
 <2>1. tables' = tables BY <1>2 DEF Deleted
 <2> QED BY <1>1, <2>1, FilesIs
<1>3. CASE ~bgError
 <2>1. Live(Newest(manifest)) = Live(v) BY <1>3, SameLive
 <2>2. \A u \in Disk(manifest) : u = Newest(manifest) BY <1>3 DEF OnlyNewest
 <2> QED BY <1>1, <2>1, <2>2
<1> QED BY <1>2, <1>3

LEMMA FilesFlushInstall == ASSUME Shape, Quiet, Files, FlushInstall PROVE Files'
<1>1. /\ UNCHANGED <<manifest, up, rec, pending, comp>>
      /\ up \in {"open", "closing"} /\ rec = NoRec /\ comp.pc \in {"none", "work"}
      /\ flush.edit \in EditType /\ flush' = NoFlush
      /\ \/ /\ flush.pc = "done" /\ version' = Installed(flush.edit)
            /\ DeleteObsoleteFiles(version', pending) /\ UNCHANGED bgError
         \/ flush.pc = "failed" /\ bgError' /\ UNCHANGED <<version, imm, logs, tables>>
 BY FlushInstallDoes
<1>2. CASE flush.pc = "failed" /\ bgError' /\ UNCHANGED <<version, imm, logs, tables>>
 <2>1. Present' BY <1>1, <1>2, FilesIs, NoFlushType DEF Present, Edited
 <2>2. Output' BY <1>1, <1>2, FilesIs, NoFlushType DEF Output
 <2>3. Exact' BY <1>2 DEF Exact, NoError
 <2> QED BY <2>1, <2>2, <2>3 DEF Files
<1>3. CASE /\ flush.pc = "done" /\ version' = Installed(flush.edit)
           /\ DeleteObsoleteFiles(version', pending) /\ UNCHANGED bgError
 <2>1. Deleted(version', pending) BY <1>3, DeleteDoes
 <2>2. Same(version', Apply(version, flush.edit)) BY <1>1, <1>3, SameInstalled
 <2>3. NoError => OnlyNewest(manifest) /\ Same(Newest(manifest), version')
  BY <1>3, <2>2, FilesIs, SameSym, SameTrans DEF Exact, Target
 <2>4. ~bgError => NoError BY <1>1, <1>3 DEF NoError, Running
 <2>5. Live(version') \subseteq DOMAIN tables
  BY <1>3, <2>2, SameLive, ApplyLive, FilesIs DEF Edited
 <2>6. /\ \A u \in Disk(manifest) : Live(u) \subseteq DOMAIN tables'
       /\ Live(version') \subseteq DOMAIN tables'
  BY <2>1, <2>3, <2>4, <2>5, PresentDeleted
 <2>7. Present' BY <1>1, <2>6, NoFlushType, NoRecType DEF Present, Edited
 <2>8. Output'
  <3>1. version'.next = version.next BY <1>1, <1>3, InstalledIs, ShapeIs
  <3>2. DOMAIN tables \cap pending \subseteq DOMAIN tables' BY <2>1 DEF Deleted
  <3> QED BY <1>1, <3>1, <3>2, FilesIs, NoFlushType DEF Output
 <2>9. Exact'
  <3>1. NoError' => NoError BY <1>1, <1>3 DEF NoError, Running
  <3>2. Target(version', flush', comp') = version' BY <1>1, NoFlushType DEF Target
  <3> QED BY <1>1, <2>3, <3>1, <3>2 DEF Exact
 <2> QED BY <2>7, <2>8, <2>9 DEF Files
<1> QED BY <1>1, <1>2, <1>3

LEMMA FilesCompactInstall == ASSUME Shape, Quiet, Files, CompactInstall PROVE Files'
<1>1. /\ UNCHANGED <<manifest, up, rec, flush>>
      /\ up \in {"open", "closing"} /\ rec = NoRec /\ flush.pc = "none"
      /\ comp.edit \in EditType /\ comp' = NoComp
      /\ \/ /\ comp.pc = "done" /\ version' = Installed(comp.edit) /\ UNCHANGED bgError
            /\ UNCHANGED <<logs, tables>> \/ DeleteObsoleteFiles(version', pending')
         \/ comp.pc = "failed" /\ bgError' /\ UNCHANGED <<version, logs, tables>>
 BY CompactInstallDoes
<1>2. Output' BY <1>1, NoCompType DEF Output
<1>3. CASE comp.pc = "failed" /\ bgError' /\ UNCHANGED <<version, logs, tables>>
 <2>1. Present' BY <1>1, <1>3, FilesIs, NoCompType DEF Present, Edited
 <2>3. Exact' BY <1>3 DEF Exact, NoError
 <2> QED BY <1>2, <2>1, <2>3 DEF Files
<1>4. CASE /\ comp.pc = "done" /\ version' = Installed(comp.edit) /\ UNCHANGED bgError
           /\ UNCHANGED <<logs, tables>> \/ DeleteObsoleteFiles(version', pending')
 <2>1. Deleted(version', pending') BY <1>4, DeleteDoes, NothingDeleted
 <2>2. Same(version', Apply(version, comp.edit)) BY <1>1, <1>4, SameInstalled
 <2>3. NoError => OnlyNewest(manifest) /\ Same(Newest(manifest), version')
  BY <1>1, <1>4, <2>2, FilesIs, SameSym, SameTrans DEF Exact, Target
 <2>4. ~bgError => NoError BY <1>1, <1>4 DEF NoError, Running
 <2>5. Live(version') \subseteq DOMAIN tables
  BY <1>4, <2>2, SameLive, ApplyLive, FilesIs DEF Edited
 <2>6. /\ \A u \in Disk(manifest) : Live(u) \subseteq DOMAIN tables'
       /\ Live(version') \subseteq DOMAIN tables'
  BY <2>1, <2>3, <2>4, <2>5, PresentDeleted
 <2>7. Present' BY <1>1, <2>6, NoCompType, NoRecType DEF Present, Edited
 <2>9. Exact'
  <3>1. NoError' => NoError BY <1>1, <1>4 DEF NoError, Running
  <3>2. Target(version', flush', comp') = version' BY <1>1, NoCompType DEF Target
  <3> QED BY <1>1, <2>3, <3>1, <3>2 DEF Exact
 <2> QED BY <1>2, <2>7, <2>9 DEF Files
<1> QED BY <1>1, <1>3, <1>4

LEMMA FilesCompactBegin ==
  ASSUME Shape, Quiet, Files, NEW over \in SUBSET version.l1, CompactBegin(over) PROVE Files'
<1>1. /\ UNCHANGED <<tables, manifest, up, rec, version, pending, bgError, flush>>
      /\ up \in {"open", "closing"} /\ flush.pc = "none" /\ comp.pc = "none"
      /\ \/ /\ comp'.pc = "manifest" /\ comp'.edit.add0 = {} /\ comp'.edit.add1 = version.l0
         \/ comp'.pc = "work" /\ comp'.out = 0
 BY CompactBeginDoes
<1>2. Present'
 <2>1. comp'.pc \in Edited => Adds(comp'.edit) \subseteq Live(version)
  BY <1>1 DEF Adds, Live, Edited
 <2> QED BY <1>1, <2>1, FilesIs DEF Present
<1>3. Output' BY <1>1 DEF Output
<1>4. Exact'
 <2>1. NoError' => NoError BY <1>1 DEF NoError, Running
 <2>2. Target(version', flush', comp') = Target(version, flush, comp) BY <1>1 DEF Target
 <2> QED BY <1>1, <2>1, <2>2, FilesIs DEF Exact
<1> QED BY <1>2, <1>3, <1>4 DEF Files

LEMMA FilesCompactOpen == ASSUME Shape, Quiet, Files, CompactOpen PROVE Files'
<1>1. /\ UNCHANGED <<manifest, up, rec, bgError, flush>>
      /\ up \in {"open", "closing"} /\ comp.pc = "work" /\ flush.pc = "none"
      /\ comp'.pc = "work" /\ comp'.out = version.next
      /\ pending' = pending \cup {version.next}
      /\ version'.l0 = version.l0 /\ version'.l1 = version.l1 /\ version'.log = version.log
      /\ version'.next = version.next + 1
      /\ DOMAIN tables' = DOMAIN tables \cup {version.next}
 BY CompactOpenDoes
<1>2. Same(version', version) /\ Live(version') = Live(version) BY <1>1, SameLive DEF Same
<1>3. Present' BY <1>1, <1>2, FilesIs DEF Present, Edited
<1>4. Output'
 <2>1. version.next \in Nat BY ShapeIs, VersionIs
 <2> QED BY <1>1, <2>1 DEF Output
<1>5. Exact'
 <2>1. NoError' => NoError BY <1>1 DEF NoError, Running
 <2>2. Target(version', flush', comp') = Target(version', flush, comp) BY <1>1 DEF Target
 <2>3. Same(Target(version', flush, comp), Target(version, flush, comp)) BY <1>2, SameTarget
 <2> QED BY <1>1, <2>1, <2>2, <2>3, FilesIs, SameSym, SameTrans DEF Exact
<1> QED BY <1>3, <1>4, <1>5 DEF Files

LEMMA FilesCompactWork == ASSUME Shape, Quiet, Files, CompactWork PROVE Files'
<1>1. /\ UNCHANGED <<manifest, up, rec, version, flush>>
      /\ up \in {"open", "closing"} /\ comp.pc = "work" /\ flush.pc = "none"
      /\ DOMAIN tables' = DOMAIN tables
      /\ \/ /\ comp.out # 0 /\ comp'.pc = "manifest" /\ CompEdit(comp'.edit)
            /\ UNCHANGED <<pending, bgError>>
         \/ comp' = NoComp /\ bgError'
 BY CompactWorkDoes
<1>2. Present'
 <2>1. comp'.pc \in Edited => Adds(comp'.edit) \subseteq DOMAIN tables
  BY <1>1, NoCompType, FilesIs DEF Adds, CompEdit, Output, Edited
 <2> QED BY <1>1, <2>1, FilesIs DEF Present
<1>3. Output' BY <1>1, NoCompType DEF Output
<1>4. Exact'
 <2>1. NoError' => NoError BY <1>1 DEF NoError, Running
 <2>2. NoError' => comp'.pc = "manifest" BY <1>1 DEF NoError
 <2>3. comp'.pc = "manifest" => Target(version', flush', comp') = Target(version, flush, comp)
  BY <1>1 DEF Target
 <2> QED BY <1>1, <2>1, <2>2, <2>3, FilesIs DEF Exact
<1> QED BY <1>2, <1>3, <1>4 DEF Files

\* A process that is not running has no work under way.
LEMMA NotWorking ==
  ASSUME Quiet, up \notin {"open", "closing"}
  PROVE  /\ flush = NoFlush /\ comp = NoComp /\ flush.pc = "none" /\ comp.pc = "none"
         /\ mem = {} /\ imm = Nil /\ bgError = FALSE /\ pending = {} /\ lead = NoLead
         /\ writers = <<>>
BY NoFlushType, NoCompType DEF Quiet

LEMMA FilesOpenRecover == ASSUME Shape, Quiet, Files, OpenRecover PROVE Files'
<1>1. /\ UNCHANGED <<tables, manifest, pending, bgError, flush, comp>> /\ up = "closed"
      /\ \/ /\ up' = "recovering" /\ Same(version', Newest(manifest))
            /\ Newest(manifest) \in Disk(manifest) /\ rec'.added = {}
         \/ up' = "corrupt" /\ UNCHANGED <<version, rec>>
 BY OpenRecoverDoes
<1>2. flush.pc = "none" /\ comp.pc = "none" BY <1>1, NotWorking
<1>3. Live(version') \subseteq DOMAIN tables /\ rec'.added \subseteq DOMAIN tables
 BY <1>1, SameLive, FilesIs
<1>4. Present' BY <1>1, <1>2, <1>3, FilesIs DEF Present, Edited
<1>5. Output' BY <1>1, <1>2 DEF Output
<1>6. Exact' BY <1>1 DEF Exact, NoError, Running
<1> QED BY <1>4, <1>5, <1>6 DEF Files

LEMMA FilesRecovering == ASSUME Shape, Quiet, Files, Recovering PROVE Files'
<1>1. /\ up = "recovering" /\ UNCHANGED <<up, manifest, flush, comp>>
      /\ Same(version', version)
      /\ DOMAIN tables \subseteq DOMAIN tables'
      /\ rec'.added = rec.added \/ (/\ rec'.added = rec.added \cup {version.next}
                                    /\ version.next \in DOMAIN tables')
 BY DEF Recovering, Written
<1>2. flush.pc = "none" /\ comp.pc = "none" BY <1>1, NotWorking
<1>3. Live(version') = Live(version) BY <1>1, SameLive
<1>4. Present' BY <1>1, <1>2, <1>3, FilesIs DEF Present, Edited
<1>5. Output' BY <1>1, <1>2 DEF Output
<1>6. Exact' BY <1>1 DEF Exact, NoError, Running
<1> QED BY <1>4, <1>5, <1>6 DEF Files

LEMMA FilesOpenedLog == ASSUME Shape, Quiet, Files, OpenedLog PROVE Files'
<1>1. /\ up = "recovering" /\ up' = "new_manifest" /\ UNCHANGED <<tables, manifest, rec, flush, comp>>
      /\ Same(version', version)
 BY DEF OpenedLog
<1>2. flush.pc = "none" /\ comp.pc = "none" BY <1>1, NotWorking
<1>3. Live(version') = Live(version) BY <1>1, SameLive
<1>4. Present' BY <1>1, <1>2, <1>3, FilesIs DEF Present, Edited
<1>5. Output' BY <1>1, <1>2 DEF Output
<1>6. Exact' BY <1>1 DEF Exact, NoError, Running
<1> QED BY <1>4, <1>5, <1>6 DEF Files

LEMMA FilesOpenedManifest == ASSUME Shape, Quiet, Files, OpenedManifest PROVE Files'
<1>1. /\ up = "new_manifest" /\ up' = "cleanup" /\ UNCHANGED <<tables, rec, flush, comp>>
      /\ version'.l0 = version.l0 \cup rec.added /\ version'.l1 = version.l1
      /\ Disk(manifest') = {Newest(manifest')} /\ Same(Newest(manifest'), version')
 BY DEF OpenedManifest
<1>2. flush.pc = "none" /\ comp.pc = "none" BY <1>1, NotWorking
<1>3. Live(version') \subseteq DOMAIN tables BY <1>1, FilesIs DEF Live
<1>4. Live(Newest(manifest')) \subseteq DOMAIN tables BY <1>1, <1>3, SameLive
<1>5. Present' BY <1>1, <1>2, <1>3, <1>4, FilesIs DEF Present, Edited
<1>6. Output' BY <1>1, <1>2 DEF Output
<1>7. Exact' BY <1>1, <1>2 DEF Exact, OnlyNewest, Target
<1> QED BY <1>5, <1>6, <1>7 DEF Files

LEMMA FilesOpenCleanup == ASSUME Shape, Quiet, Files, OpenCleanup PROVE Files'
<1>1. /\ UNCHANGED <<manifest, version, bgError, flush, comp>>
      /\ up = "cleanup" /\ up' = "open" /\ rec' = NoRec /\ Deleted(version, {})
 BY OpenCleanupDoes
<1>2. flush.pc = "none" /\ comp.pc = "none" BY <1>1, NotWorking
<1>3. (OnlyNewest(manifest) /\ Same(Newest(manifest), version)) \/ bgError
 BY <1>1, <1>2, FilesIs DEF Exact, NoError, Running, Target
<1>4. /\ \A u \in Disk(manifest) : Live(u) \subseteq DOMAIN tables'
      /\ Live(version) \subseteq DOMAIN tables'
 <2> DEFINE p == {}
 <2>1. Deleted(version, p) BY <1>1
 <2> HIDE DEF p
 <2> QED BY <1>3, <2>1, PresentDeleted, FilesIs
<1>5. Present' BY <1>1, <1>2, <1>4, NoRecType DEF Present, Edited
<1>6. Output' BY <1>1, <1>2 DEF Output
<1>7. Exact' BY <1>1, <1>2, <1>3 DEF Exact, NoError, Target
<1> QED BY <1>5, <1>6, <1>7 DEF Files

\* Every step keeps Files.
LEMMA FilesStep == Shape /\ Quiet /\ Files /\ [Next]_vars => Files'
<1> SUFFICES ASSUME Shape, Quiet, Files, [Next]_vars PROVE Files' OBVIOUS
<1>1. CASE FileStep
 BY <1>1, FilesFlushBegin, FilesFlushBuild, FilesFlushManifest, FilesFlushInstall,
    FilesCompactBegin, FilesCompactOpen, FilesCompactWork, FilesCompactManifest,
    FilesCompactInstall, Zenon DEF FileStep
<1>2. CASE CallStep \/ Down \/ OpenRecover \/ Recovering \/ OpenedLog \/ OpenedManifest \/ OpenCleanup
 BY <1>2, FilesCall, FilesDown, FilesOpenRecover, FilesRecovering, FilesOpenedLog,
    FilesOpenedManifest, FilesOpenCleanup, Zenon
<1> QED BY <1>1, <1>2, NextCases

\* Initially.
LEMMA InitFiles == Init => Files
<1> SUFFICES ASSUME Init PROVE Files OBVIOUS
<1> DEFINE e == Edit({}, {}, {}, 0, EmptyVersion)
<1>1. e \in EditType /\ e.add0 = {} /\ e.add1 = {} BY EditOf, EmptyVersionType
<1>2. manifest = [recs |-> <<e>>, synced |-> 1] BY DEF Init
<1> HIDE DEF e
<1>3. Newest(manifest) = Apply(EmptyVersion, e) /\ Disk(manifest) = {Newest(manifest)}
 BY <1>1, <1>2, ManifestNew
<1>4. Live(EmptyVersion) = {} BY DEF Live, EmptyVersion
<1>5. Live(Newest(manifest)) = {} BY <1>1, <1>3, <1>4, ApplyLive DEF Adds
<1>6. Present BY <1>3, <1>4, <1>5, NoRecType, NoFlushType, NoCompType DEF Init, Present, Edited
<1>7. Output BY NoCompType DEF Init, Output
<1>8. Exact BY DEF Init, Exact, NoError, Running
<1> QED BY <1>6, <1>7, <1>8 DEF Files

\* Files implies the property.
LEMMA FilesManifest == Shape /\ Files => ManifestFilesExist
<1> SUFFICES ASSUME Shape, Files, NEW n \in manifest.synced .. Len(manifest.recs), Readable(n)
             PROVE Live(Replay(n)) \subseteq DOMAIN tables
 BY DEF ManifestFilesExist
<1>1. Replay(n) \in Disk(manifest) BY DEF Readable, Replay, Disk
<1> QED BY <1>1, FilesIs

\* No table that the manifest names is ever deleted.
THEOREM ManifestFilesAlwaysExist == Spec => []ManifestFilesExist
<1> DEFINE Inv == Shape /\ Quiet /\ Files
<1>1. Init => Inv BY InitShape, InitFiles
<1>2. Inv /\ [Next]_vars => Inv' BY ShapeStep, FilesStep
<1>3. Inv => ManifestFilesExist BY FilesManifest
<1> QED BY <1>1, <1>2, <1>3, PTL DEF Spec

-----------------------------------------------------------------------------
(* Numbers: file numbers and the last sequence of the manifest and the process. *)

\* The numbers of a version and
LEMMA VersionNumbers == ASSUME NEW v \in VersionType PROVE NumberType(v)
BY VersionIs DEF NumberType

\* of an edit are naturals,
LEMMA EditNumbers == ASSUME NEW e \in EditType PROVE NumberType(e) /\ Adds(e) \subseteq Nat
BY DEF NumberType, EditType, Adds

\* and so are those of the state,
LEMMA StateNumbers ==
  ASSUME Shape
  PROVE  /\ NumberType(version) /\ NumberType(Newest(manifest))
         /\ Live(version) \subseteq Nat /\ Live(Newest(manifest)) \subseteq Nat
         /\ flush.pc \in Edited => NumberType(flush.edit) /\ Adds(flush.edit) \subseteq Nat
         /\ comp.pc \in Edited => NumberType(comp.edit) /\ Adds(comp.edit) \subseteq Nat
         /\ flush.out \in Nat /\ comp.out \in Nat /\ logfile \in Nat /\ rec.added \subseteq Nat
         /\ DOMAIN logs \subseteq Nat
<1>1. version \in VersionType /\ Newest(manifest) \in VersionType
 BY ShapeIs, NewestType DEF ManifestOK
<1>2. Live(version) \subseteq Nat /\ Live(Newest(manifest)) \subseteq Nat
 BY <1>1 DEF Live, VersionType
<1>3. /\ flush.pc \in Edited => flush.edit \in EditType
      /\ comp.pc \in Edited => comp.edit \in EditType
      /\ flush.out \in Nat /\ comp.out \in Nat
 BY ShapeIs DEF WorkOK, FlushType, CompType
<1>4. logfile \in Nat /\ rec.added \subseteq Nat /\ DOMAIN logs \subseteq Nat
 BY ShapeIs, RecIs DEF LogsOK
<1> QED BY <1>1, <1>2, <1>3, <1>4, VersionNumbers, EditNumbers

\* Every version a recovery may find is bounded by the newest.
LEMMA DiskBounds ==
  ASSUME NEW m \in ManifestType, m.synced <= Len(m.recs), Ordered(m.recs)
  PROVE  /\ \A v \in Disk(m) : Sane(v) /\ v.next <= Newest(m).next /\ v.seq <= Newest(m).seq
         /\ Sane(Newest(m))
<1>1. m.synced \in Nat /\ Len(m.recs) \in Nat BY DEF ManifestType
<1>2. Sane(Newest(m)) BY <1>1 DEF Ordered, Newest
<1>3. ASSUME NEW v \in Disk(m)
      PROVE Sane(v) /\ v.next <= Newest(m).next /\ v.seq <= Newest(m).seq
 <2>1. PICK n \in m.synced .. Len(m.recs) : v = Replayed(m.recs)[n] BY DiskMember
 <2>2. n \in 0 .. Len(m.recs) /\ Len(m.recs) \in 0 .. Len(m.recs) /\ n <= Len(m.recs) BY <1>1
 <2> QED BY <2>1, <2>2 DEF Ordered, Newest
<1> QED BY <1>2, <1>3

\* and those a recovery may find.
LEMMA DiskNumbers ==
  ASSUME Shape, Ordered(manifest.recs)
  PROVE  /\ \A v \in Disk(manifest) : /\ Sane(v) /\ NumberType(v) /\ Live(v) \subseteq Nat
                                      /\ v.next <= Newest(manifest).next
                                      /\ v.seq <= Newest(manifest).seq
         /\ Sane(Newest(manifest))
<1>1. manifest \in ManifestType /\ manifest.synced <= Len(manifest.recs)
 BY ShapeIs DEF ManifestOK
<1>2. Disk(manifest) \subseteq VersionType BY <1>1, DiskType
<1>3. \A v \in VersionType : NumberType(v) /\ Live(v) \subseteq Nat
 BY VersionNumbers DEF Live, VersionType
<1> QED BY <1>1, <1>2, <1>3, DiskBounds

\* Adding a record in order keeps the manifest in order.
LEMMA OrderedAppend ==
  ASSUME NEW p, NEW q, Len(p) \in Nat, Len(q) = Len(p) + 1,
         \A i \in 1 .. Len(p) : q[i] = p[i], Ordered(p),
         \A n \in 0 .. Len(p) : NumberType(Replayed(p)[n]),
         NEW n, n = Replayed(q)[Len(q)], NumberType(n), Sane(n),
         Replayed(p)[Len(p)].next <= n.next, Replayed(p)[Len(p)].seq <= n.seq
  PROVE Ordered(q)
<1>1. \A i \in 0 .. Len(p) : Replayed(q)[i] = Replayed(p)[i]
 <2>1. Len(q) \in Nat /\ Len(p) <= Len(q) OBVIOUS
 <2> QED BY <2>1, ReplayedPrefix
<1> DEFINE R(i) == Replayed(q)[i]
<1>2. ASSUME NEW i \in 0 .. Len(q), NEW j \in 0 .. Len(q), i <= j
      PROVE R(i).next <= R(j).next /\ R(i).seq <= R(j).seq
 <2>1. CASE j \in 0 .. Len(p)
  <3>1. i \in 0 .. Len(p) BY <1>2, <2>1
  <3> QED BY <1>1, <1>2, <2>1, <3>1 DEF Ordered
 <2>2. CASE j = Len(q)
  <3>1. CASE i = Len(q) BY <2>2, <3>1 DEF NumberType
  <3>2. CASE i \in 0 .. Len(p)
   <4>1. Len(p) \in 0 .. Len(p) /\ i <= Len(p) BY <3>2
   <4>2. /\ Replayed(p)[i].next <= Replayed(p)[Len(p)].next
         /\ Replayed(p)[i].seq <= Replayed(p)[Len(p)].seq
    BY <3>2, <4>1 DEF Ordered
   <4>3. /\ NumberType(Replayed(p)[i]) /\ NumberType(Replayed(p)[Len(p)])
         /\ R(i) = Replayed(p)[i] /\ R(j) = n
    BY <1>1, <2>2, <3>2, <4>1
   <4> HIDE DEF R
   <4> QED BY <4>2, <4>3, SMTT(30) DEF NumberType
  <3> QED BY <3>1, <3>2
 <2> QED BY <2>1, <2>2
<1>3. ASSUME NEW i \in 0 .. Len(q) PROVE Sane(R(i))
 <2>1. CASE i \in 0 .. Len(p) BY <1>1, <2>1 DEF Ordered
 <2>2. CASE i = Len(q) BY <2>2
 <2> QED BY <2>1, <2>2
<1> QED BY <1>2, <1>3 DEF Ordered

\* The first c records of an ordered manifest are ordered.
LEMMA OrderedPrefix ==
  ASSUME NEW p, NEW q, Len(p) \in Nat, Len(q) \in Nat, Len(q) <= Len(p),
         \A n \in 0 .. Len(q) : Replayed(q)[n] = Replayed(p)[n], Ordered(p)
  PROVE Ordered(q)
<1>1. 0 .. Len(q) \subseteq 0 .. Len(p) OBVIOUS
<1> QED BY <1>1 DEF Ordered

\* What LogAndApply appends.
LEMMA OrderedExtended ==
  ASSUME Shape, Shape', Ordered(manifest.recs), NEW e \in EditType, NEW ok, Extended(e, ok),
         EditOK(e, Newest(manifest), version)
  PROVE Ordered(manifest'.recs)
<1>1. CASE manifest'.recs = manifest.recs BY <1>1
<1>2. ASSUME NEW r \in {e, Torn}, manifest'.recs = Append(manifest.recs, r)
      PROVE Ordered(manifest'.recs)
 <2> DEFINE p == manifest.recs
            q == manifest'.recs
            n == Newest(manifest')
 <2>1. p \in Seq(EditType \cup {Torn}) /\ Len(p) \in Nat BY ShapeIs DEF ManifestOK, ManifestType
 <2>2. Len(q) = Len(p) + 1 /\ \A i \in 1 .. Len(p) : q[i] = p[i] BY <1>2, <2>1
 <2>3. \A i \in 0 .. Len(p) : NumberType(Replayed(p)[i]) BY <2>1, ReplayedType, VersionNumbers
 <2>4. n = Replayed(q)[Len(q)] /\ Newest(manifest) = Replayed(p)[Len(p)] BY DEF Newest
 <2>5. manifest' \in ManifestType BY DEF Shape, ManifestOK
 <2>6. NumberType(n) BY <2>5, NewestType, VersionNumbers
 <2>7. n \in {Newest(manifest), Apply(Newest(manifest), e)} BY DEF Extended
 <2>8. /\ NumberType(Newest(manifest)) /\ NumberType(e) /\ Sane(Newest(manifest))
       /\ Live(Newest(manifest)) \subseteq Nat /\ Adds(e) \subseteq Nat
  BY StateNumbers, EditNumbers, DiskNumbers
 <2>9. Sane(n) /\ Newest(manifest).next <= n.next /\ Newest(manifest).seq <= n.seq
  <3>1. CASE n = Newest(manifest) BY <3>1, <2>8 DEF NumberType
  <3>2. CASE n = Apply(Newest(manifest), e)
   <4>1. n.next = e.next /\ n.seq = e.seq /\ n.log = e.log BY <3>2 DEF Apply
   <4>2. Live(n) \subseteq Live(Newest(manifest)) \cup Adds(e) BY <3>2, ApplyLive
   <4> HIDE DEF n
   <4>3. \A f \in Live(n) : f < e.next BY <4>2, <2>8 DEF EditOK, Sane, NumberType
   <4> QED BY <4>1, <4>3 DEF EditOK, Sane
  <3> QED BY <2>7, <3>1, <3>2
 <2> HIDE DEF p, q, n
 <2> QED BY <2>1, <2>2, <2>3, <2>4, <2>6, <2>9, OrderedAppend DEF p, q
<1> QED BY <1>1, <1>2 DEF Extended

\* A step of a caller touches the current log or switches to a new one.
LEMMA CallLogs ==
  ASSUME Shape, CallStep
  PROVE  \/ DOMAIN logs' = DOMAIN logs /\ logfile' = logfile /\ imm' = imm
         \/ /\ imm = Nil /\ logfile' = version.next /\ version'.next = version.next + 1
            /\ DOMAIN logs' = DOMAIN logs \cup {version.next} /\ imm' = mem
<1>1. ASSUME NEW w \in Writers, NEW kind \in Kinds, Enqueue(w, kind)
      PROVE UNCHANGED <<logs, logfile, imm>>
 BY <1>1 DEF Enqueue, diskVars, memVars
<1>2. ASSUME NEW w \in Writers, AwaitImm(w) PROVE UNCHANGED <<logs, logfile, imm>>
 BY <1>2 DEF AwaitImm, diskVars, memVars
<1>3. ASSUME BackgroundCallSkips \/ Close \/ UNCHANGED vars PROVE UNCHANGED <<logs, logfile, imm>>
 BY <1>3 DEF BackgroundCallSkips, Close, vars, diskVars, memVars
<1>4. ASSUME MakeRoomError \/ MakeRoomDelay \/ MakeRoomWait \/ MakeRoomDone \/ SyncLogFails
             \/ ApplyGroup
      PROVE UNCHANGED <<logs, logfile, imm>>
 BY <1>4 DEF MakeRoomError, MakeRoomDelay, MakeRoomWait, MakeRoomDone, SyncLogFails, ApplyGroup,
             diskVars, memVars
<1>5. ASSUME AddRecord \/ AddRecordFails \/ SyncLog
      PROVE DOMAIN logs' = DOMAIN logs /\ logfile' = logfile /\ imm' = imm
 <2>1. UNCHANGED <<logfile, imm>> BY <1>5 DEF AddRecord, AddRecordFails, SyncLog, memVars
 <2>2. DOMAIN logs' = DOMAIN logs BY <1>5 DEF AddRecord, AddRecordFails, SyncLog, LogWith
 <2> QED BY <2>1, <2>2
<1>6. ASSUME SwitchMemTable
      PROVE  \/ UNCHANGED <<logs, logfile, imm>>
             \/ /\ imm = Nil /\ logfile' = version.next /\ version'.next = version.next + 1
                /\ DOMAIN logs' = DOMAIN logs \cup {version.next} /\ imm' = mem
 <2>1. version \in VersionType BY ShapeIs
 <2> QED BY <1>6, <2>1 DEF SwitchMemTable, MustWait, VersionType
<1> QED BY <1>1, <1>2, <1>3, <1>4, <1>5, <1>6 DEF CallStep, LeaderStep

\* The parts of Numbers.
LEMMA NumbersIs ==
  ASSUME Numbers PROVE Ordered(manifest.recs) /\ Alloc /\ Edits /\ Unused /\ LogFiles /\ Unread
BY DEF Numbers

\* The counters of the process only grow.
LEMMA EditGrows ==
  ASSUME NEW e, NEW n, NEW v, NEW v2, EditOK(e, n, v), NumberType(e), NumberType(v),
         NumberType(v2), v.next <= v2.next, v.seq <= v2.seq
  PROVE EditOK(e, n, v2)
BY DEF EditOK, NumberType

\* A version stays sane,
LEMMA SaneGrows ==
  ASSUME NEW v, NEW v2, Sane(v), Same(v2, v), NumberType(v), NumberType(v2), v.next <= v2.next,
         Live(v) \subseteq Nat
  PROVE Sane(v2)
BY SameLive DEF Sane, Same, NumberType

\* the process keeps counting on,
LEMMA AllocGrows ==
  ASSUME Shape, Shape', Numbers, UNCHANGED <<manifest, rec>>, Same(version', version),
         version.next <= version'.next, version.seq <= version'.seq,
         up' \notin {"closed", "corrupt"} => up \notin {"closed", "corrupt"}
  PROVE Alloc'
<1>1. NumberType(version') BY VersionNumbers DEF Shape
<1>2. NumberType(version) /\ NumberType(Newest(manifest)) /\ Live(version) \subseteq Nat
      /\ rec.added \subseteq Nat
 BY StateNumbers
<1> SUFFICES ASSUME up' \notin {"closed", "corrupt"}
             PROVE  /\ Newest(manifest').next <= version'.next
                    /\ Newest(manifest').seq <= version'.seq
                    /\ Sane(version') /\ \A f \in rec'.added : f < version'.next
 BY DEF Alloc
<1>3. /\ Newest(manifest).next <= version.next /\ Newest(manifest).seq <= version.seq
      /\ Sane(version) /\ \A f \in rec.added : f < version.next
 BY NumbersIs DEF Alloc
<1>4. Sane(version') BY <1>1, <1>2, <1>3, SaneGrows
<1> QED BY <1>1, <1>2, <1>3, <1>4 DEF NumberType

\* and the edits under way stay consistent.
LEMMA EditsGrow ==
  ASSUME Shape, Shape', Numbers, UNCHANGED <<manifest, flush, comp>>,
         version.next <= version'.next, version.seq <= version'.seq
  PROVE Edits'
<1>1. NumberType(version') BY VersionNumbers DEF Shape
<1> QED BY <1>1, StateNumbers, EditGrows, NumbersIs DEF Edits

\* Nothing moves before the database is open.
LEMMA CallRunning ==
  ASSUME Shape, Quiet, CallStep
  PROVE up \in {"open", "closing"} \/ UNCHANGED <<logs, version, up>>
<1>1. CASE LeaderStep BY <1>1, LeaderRunning
<1>2. CASE BackgroundCallSkips BY <1>2, BackgroundRunning DEF BackgroundStep
<1>3. CASE \E w \in Writers, kind \in Kinds : Enqueue(w, kind) BY <1>3 DEF Enqueue
<1>4. CASE \E w \in Writers : AwaitImm(w) BY <1>4 DEF AwaitImm, diskVars, memVars, openVars
<1>5. CASE Close BY <1>5 DEF Close
<1>6. CASE UNCHANGED vars BY <1>6 DEF vars, diskVars, memVars, openVars
<1> QED BY <1>1, <1>2, <1>3, <1>4, <1>5, <1>6 DEF CallStep

\* From here on, one lemma per step: it keeps Numbers.
LEMMA NumbersCall == ASSUME Shape, Quiet, Shape', Numbers, CallStep PROVE Numbers'
<1>1. /\ UNCHANGED <<tables, manifest, rec, pending, flush, comp>>
      /\ version'.l0 = version.l0 /\ version'.l1 = version.l1 /\ version'.log = version.log
      /\ version.next <= version'.next /\ version.seq <= version'.seq
      /\ up' = up \/ (up = "open" /\ up' = "closing")
 BY CallDoes
<1>2. Same(version', version) /\ Live(version') = Live(version) BY <1>1, SameLive DEF Same
<1>3. Ordered(manifest'.recs) BY <1>1, NumbersIs
<1>4. Alloc' BY <1>1, <1>2, AllocGrows
<1>5. Edits' BY <1>1, EditsGrow
<1>6. NumberType(version') /\ NumberType(version) BY VersionNumbers, ShapeIs DEF Shape
<1>7. Unused' BY <1>1, <1>2, <1>6, StateNumbers, NumbersIs DEF Unused, NumberType
<1>8. up' = up \/ (Opened /\ Opened' /\ up = "open" /\ up' = "closing") BY <1>1 DEF Opened
<1>9. LogFiles'
 <2>1. CASE DOMAIN logs' = DOMAIN logs /\ logfile' = logfile
  BY <1>1, <1>6, <1>8, <2>1, StateNumbers, NumbersIs DEF LogFiles, Opened, NumberType
 <2>2. CASE /\ imm = Nil /\ logfile' = version.next /\ version'.next = version.next + 1
            /\ DOMAIN logs' = DOMAIN logs \cup {version.next}
  <3>1. flush.pc = "none" BY <2>2, ShapeIs DEF WorkOK
  <3>2. flush'.pc \notin Edited /\ (comp'.pc \in Edited => comp'.edit.log = version'.log)
   BY <1>1, <3>1, NumbersIs DEF LogFiles, Edited
  <3>3. ASSUME Opened'
        PROVE  /\ logfile' \in DOMAIN logs' /\ logfile' < version'.next
               /\ \A L \in DOMAIN logs' : L <= logfile'
               /\ version'.log <= logfile'
               /\ \A v \in Disk(manifest') : v.log <= logfile'
   <4>1. Opened BY <1>8, <3>3 DEF Opened
   <4>2. /\ logfile < version.next /\ \A L \in DOMAIN logs : L <= logfile
         /\ version.log <= logfile /\ \A v \in Disk(manifest) : v.log <= logfile
    BY <4>1, NumbersIs DEF LogFiles
   <4>3. /\ logfile \in Nat /\ version.next \in Nat /\ version.log \in Nat
         /\ DOMAIN logs \subseteq Nat /\ \A v \in Disk(manifest) : v.log \in Nat
    BY StateNumbers, DiskNumbers, NumbersIs DEF NumberType
   <4>4. \A v \in Disk(manifest) : v.log <= version.next BY <4>2, <4>3
   <4>5. \A L \in DOMAIN logs : L <= version.next BY <4>2, <4>3
   <4>6. version.log <= version.next /\ version.next < version'.next BY <2>2, <4>2, <4>3
   <4>7. \A L \in DOMAIN logs' : L <= version.next BY <2>2, <4>3, <4>5
   <4> QED BY <1>1, <2>2, <4>4, <4>6, <4>7
  <3> QED BY <3>2, <3>3 DEF LogFiles
 <2> QED BY <2>1, <2>2, CallLogs
<1>10. Unread'
 <2>1. CASE up \in {"open", "closing"} BY <1>1, <2>1 DEF Unread
 <2>2. CASE UNCHANGED <<logs, version, up>> BY <1>1, <2>2, NumbersIs DEF Unread
 <2> QED BY <2>1, <2>2, CallRunning
<1> QED BY <1>3, <1>4, <1>5, <1>7, <1>9, <1>10 DEF Numbers

LEMMA NumbersDown == ASSUME Shape, Shape', Numbers, Down PROVE Numbers'
<1>1. /\ rec' = NoRec /\ version' = EmptyVersion /\ flush' = NoFlush /\ comp' = NoComp
      /\ up' = "closed"
 BY ForgetDoes DEF Down
<1>2. Ordered(manifest'.recs)
 <2>1. CASE manifest' = manifest BY <2>1, NumbersIs
 <2>2. ASSUME NEW c \in manifest.synced .. Len(manifest.recs), manifest' = Cut(manifest, c)
       PROVE Ordered(manifest'.recs)
  <3>1. manifest \in ManifestType /\ manifest.synced <= Len(manifest.recs)
        /\ manifest.synced \in Nat /\ Len(manifest.recs) \in Nat
   BY ShapeIs DEF ManifestOK, ManifestType
  <3>2. /\ Len(manifest'.recs) = c
        /\ \A n \in 0 .. c : Replayed(manifest'.recs)[n] = Replayed(manifest.recs)[n]
   BY <2>2, <3>1, ManifestCut
  <3>3. c \in Nat /\ c <= Len(manifest.recs) BY <3>1
  <3> QED BY <3>1, <3>2, <3>3, OrderedPrefix, NumbersIs
 <2> QED BY <2>1, <2>2 DEF Down
<1>3. Alloc' BY <1>1 DEF Alloc
<1>4. Edits' BY <1>1, NoFlushType, NoCompType DEF Edits, Edited
<1>5. Unused' BY <1>1, NoFlushType, NoCompType DEF Unused
<1>6. LogFiles' BY <1>1, NoFlushType, NoCompType DEF LogFiles, Opened, Edited
<1>7. Unread' BY <1>1 DEF Unread
<1> QED BY <1>2, <1>3, <1>4, <1>5, <1>6, <1>7 DEF Numbers

LEMMA NumbersFlushBegin == ASSUME Shape, Quiet, Shape', Files, Numbers, FlushBegin PROVE Numbers'
<1>1. /\ UNCHANGED <<logs, manifest, up, rec, logfile, comp>>
      /\ up \in {"open", "closing"} /\ flush.pc = "none"
      /\ flush'.pc = "build" /\ flush'.out = version.next
      /\ version'.l0 = version.l0 /\ version'.l1 = version.l1 /\ version'.log = version.log
      /\ version'.seq = version.seq /\ version'.next = version.next + 1
 BY FlushBeginDoes
<1>2. Same(version', version) /\ Live(version') = Live(version) BY <1>1, SameLive DEF Same
<1>3. NumberType(version) /\ NumberType(version') BY VersionNumbers, ShapeIs DEF Shape
<1>a. version.next <= version'.next /\ version.seq <= version'.seq BY <1>1, <1>3 DEF NumberType
<1>4. Ordered(manifest'.recs) BY <1>1, NumbersIs
<1>5. Alloc' BY <1>1, <1>2, <1>a, AllocGrows
<1>6. Edits'
 <2>1. comp.pc \in Edited => EditOK(comp.edit, Newest(manifest), version')
  BY <1>3, <1>a, StateNumbers, EditGrows, NumbersIs DEF Edits
 <2> QED BY <1>1, <2>1 DEF Edits, Edited
<1>7. Unused'
 <2>1. /\ Newest(manifest).next <= version.next /\ \A f \in Live(version) : f < version.next
  BY <1>1, NumbersIs DEF Alloc, Sane
 <2> QED BY <1>1, <1>2, <1>3, <2>1, NumbersIs DEF Unused, NumberType, Edited
<1>8. LogFiles'
 <2>1. version.next \in Nat /\ logfile \in Nat BY StateNumbers DEF NumberType
 <2> QED BY <1>1, <2>1, NumbersIs DEF LogFiles, Opened, Edited
<1>9. Unread' BY <1>1 DEF Unread
<1> QED BY <1>4, <1>5, <1>6, <1>7, <1>8, <1>9 DEF Numbers

LEMMA NumbersFlushBuild == ASSUME Shape, Quiet, Shape', Files, Numbers, FlushBuild PROVE Numbers'
<1> DEFINE E == flush'.pc = "manifest" /\ FlushEdit(flush'.edit) /\ flush'.edit \in EditType
<1>1. /\ UNCHANGED <<logs, manifest, up, rec, version, logfile, comp>>
      /\ up \in {"open", "closing"} /\ flush.pc = "build" /\ comp.pc \in {"none", "work"}
      /\ flush' = NoFlush \/ E
 BY FlushBuildDoes
<1>2. Ordered(manifest'.recs) /\ Alloc' BY <1>1, NumbersIs DEF Alloc
<1>3. flush'.pc = "none" \/ E BY <1>1, NoFlushType
<1>4. Edits'
 <2>1. ASSUME E PROVE EditOK(flush'.edit, Newest(manifest), version)
  <3>1. /\ Newest(manifest).next <= version.next /\ Newest(manifest).seq <= version.seq
        /\ Sane(version)
   BY <1>1, NumbersIs DEF Alloc
  <3>2. flush.out < version.next BY <1>1, NumbersIs DEF Unused
  <3>3. version.log <= logfile /\ logfile < version.next BY <1>1, NumbersIs DEF LogFiles, Opened
  <3>4. NumberType(version) BY StateNumbers
  <3> QED BY <2>1, <3>1, <3>2, <3>3, <3>4 DEF EditOK, FlushEdit, NumberType
 <2> QED BY <1>1, <1>3, <2>1, NumbersIs DEF Edits, Edited
<1>5. Unused'
 <2>1. /\ flush'.pc # "build"
       /\ flush'.pc \in Edited => Adds(flush'.edit) \subseteq {flush.out}
  BY <1>3 DEF FlushEdit, Edited
 <2>2. comp.pc = "work" /\ comp.out # 0 => comp.out # flush.out BY <1>1, FilesIs DEF Output
 <2> QED BY <1>1, <2>1, <2>2, NumbersIs DEF Unused
<1>6. LogFiles' BY <1>1, <1>3, NumbersIs DEF LogFiles, FlushEdit, Opened, Edited
<1>7. Unread' BY <1>1 DEF Unread
<1> QED BY <1>2, <1>4, <1>5, <1>6, <1>7 DEF Numbers

\* After LogAndApply wrote its record (or failed to), the edit is still consistent.
LEMMA EditExtended ==
  ASSUME Shape, NEW e \in EditType, NEW ok, Extended(e, ok), EditOK(e, Newest(manifest), version)
  PROVE  /\ EditOK(e, Newest(manifest'), version)
         /\ Newest(manifest').next <= version.next /\ Newest(manifest').seq <= version.seq
         /\ Live(Newest(manifest')) \subseteq Live(Newest(manifest)) \cup Adds(e)
         /\ \A v \in Disk(manifest') : v \in Disk(manifest) \/ (v = Apply(Newest(manifest), e)
                                                              /\ v.log = e.log)
<1> DEFINE n == Newest(manifest)
           n2 == Newest(manifest')
<1>1. n2 \in {n, Apply(n, e)} BY DEF Extended
<1>2. n2 = n \/ (n2.next = e.next /\ n2.seq = e.seq) BY <1>1 DEF Apply
<1>3. NumberType(n) /\ NumberType(e) /\ NumberType(version) BY StateNumbers, EditNumbers
<1>4. Live(n2) \subseteq Live(n) \cup Adds(e) BY <1>1, ApplyLive
<1>5. \A v \in Disk(manifest') : v \in Disk(manifest) \/ (v = Apply(n, e) /\ v.log = e.log)
 BY DEF Extended, Apply
<1> HIDE DEF n, n2
<1>6. EditOK(e, n2, version) /\ n2.next <= version.next /\ n2.seq <= version.seq
 BY <1>2, <1>3 DEF EditOK, NumberType, n
<1> QED BY <1>4, <1>5, <1>6 DEF n, n2

LEMMA NumbersFlushManifest ==
  ASSUME Shape, Quiet, Shape', Files, Numbers, FlushManifest PROVE Numbers'
<1> DEFINE e == flush.edit
<1>1. /\ UNCHANGED <<logs, up, rec, version, logfile, comp>>
      /\ up \in {"open", "closing"} /\ flush.pc = "manifest" /\ comp.pc \in {"none", "work"}
      /\ e \in EditType /\ flush'.edit = e
      /\ flush'.pc \in {"done", "failed"} /\ Extended(e, flush'.pc = "done")
 BY FlushManifestDoes
<1>2. EditOK(e, Newest(manifest), version) BY <1>1, NumbersIs DEF Edits, Edited
<1>3. /\ EditOK(e, Newest(manifest'), version)
      /\ Newest(manifest').next <= version.next /\ Newest(manifest').seq <= version.seq
      /\ Live(Newest(manifest')) \subseteq Live(Newest(manifest)) \cup Adds(e)
      /\ \A v \in Disk(manifest') : v \in Disk(manifest) \/ (v = Apply(Newest(manifest), e)
                                                           /\ v.log = e.log)
 BY <1>1, <1>2, EditExtended
<1> HIDE DEF e
<1>4. Ordered(manifest'.recs) BY <1>1, <1>2, OrderedExtended, NumbersIs
<1>5. Alloc' BY <1>1, <1>3, NumbersIs DEF Alloc
<1>6. Edits' BY <1>1, <1>3 DEF Edits, Edited
<1>7. Unused'
 <2>1. \A v \in Disk(manifest') : v \in Disk(manifest)
                                  \/ Live(v) \subseteq Live(Newest(manifest)) \cup Adds(e)
  BY <1>3, ApplyLive
 <2>2. comp.pc = "work" /\ comp.out # 0 =>
         /\ comp.out \notin Live(version) /\ comp.out \notin Live(Newest(manifest))
         /\ \A v \in Disk(manifest) : comp.out \notin Live(v)
         /\ comp.out \notin Adds(e)
  BY <1>1, NumbersIs DEF Unused, Edited, e
 <2> QED BY <1>1, <1>3, <2>1, <2>2 DEF Unused
<1>8. LogFiles'
 <2>1. e.log = logfile /\ logfile \in Nat BY <1>1, NumbersIs, StateNumbers DEF LogFiles, Edited, e
 <2>2. \A v \in Disk(manifest') : v.log <= logfile
  BY <1>1, <1>3, <2>1, NumbersIs DEF LogFiles, Opened
 <2> QED BY <1>1, <2>1, <2>2, NumbersIs DEF LogFiles, Opened, Edited
<1>9. Unread' BY <1>1 DEF Unread
<1> QED BY <1>4, <1>5, <1>6, <1>7, <1>8, <1>9 DEF Numbers

LEMMA NumbersCompactManifest ==
  ASSUME Shape, Quiet, Shape', Files, Numbers, CompactManifest PROVE Numbers'
<1> DEFINE e == comp.edit
<1>1. /\ UNCHANGED <<logs, up, rec, version, logfile, flush>>
      /\ up \in {"open", "closing"} /\ comp.pc = "manifest" /\ flush.pc = "none"
      /\ e \in EditType /\ comp'.edit = e
      /\ comp'.pc \in {"done", "failed"} /\ Extended(e, comp'.pc = "done")
 BY CompactManifestDoes
<1>2. EditOK(e, Newest(manifest), version) BY <1>1, NumbersIs DEF Edits, Edited
<1>3. /\ EditOK(e, Newest(manifest'), version)
      /\ Newest(manifest').next <= version.next /\ Newest(manifest').seq <= version.seq
      /\ \A v \in Disk(manifest') : v \in Disk(manifest) \/ (v = Apply(Newest(manifest), e)
                                                           /\ v.log = e.log)
 BY <1>1, <1>2, EditExtended
<1> HIDE DEF e
<1>4. Ordered(manifest'.recs) BY <1>1, <1>2, OrderedExtended, NumbersIs
<1>5. Alloc' BY <1>1, <1>3, NumbersIs DEF Alloc
<1>6. Edits' BY <1>1, <1>3 DEF Edits, Edited
<1>7. Unused' BY <1>1 DEF Unused, Edited
<1>8. LogFiles'
 <2>1. e.log = version.log BY <1>1, NumbersIs DEF LogFiles, Edited, e
 <2>2. \A v \in Disk(manifest') : v.log <= logfile
  BY <1>1, <1>3, <2>1, NumbersIs DEF LogFiles, Opened
 <2> QED BY <1>1, <2>1, <2>2, NumbersIs DEF LogFiles, Opened, Edited
<1>9. Unread' BY <1>1 DEF Unread
<1> QED BY <1>4, <1>5, <1>6, <1>7, <1>8, <1>9 DEF Numbers

\* A version is installed.
LEMMA InstalledSane ==
  ASSUME Shape, NEW e \in EditType, EditOK(e, Newest(manifest), version), Sane(version)
  PROVE Sane(Installed(e)) /\ Live(Installed(e)) \subseteq Live(version) \cup Adds(e)
<1> DEFINE v == Installed(e)
<1>1. v.next = version.next /\ v.log = e.log BY InstalledIs, ShapeIs
<1>2. Live(v) \subseteq Live(version) \cup Adds(e) BY SameInstalled, SameLive, ApplyLive
<1>3. NumberType(e) /\ NumberType(version) /\ Live(version) \subseteq Nat /\ Adds(e) \subseteq Nat
 BY StateNumbers, EditNumbers
<1> HIDE DEF v
<1>4. \A f \in Live(v) : f < version.next BY <1>2, <1>3 DEF EditOK, Sane, NumberType
<1>5. e.log < version.next BY <1>3 DEF EditOK, NumberType
<1>6. Sane(v) BY <1>1, <1>4, <1>5 DEF Sane
<1> QED BY <1>2, <1>6 DEF v

\* The counters after an installation.
LEMMA AllocInstalled ==
  ASSUME Shape, Numbers, NEW e \in EditType, EditOK(e, Newest(manifest), version),
         up \in {"open", "closing"}, version' = Installed(e), UNCHANGED <<manifest, rec, up>>
  PROVE Alloc'
<1>1. Sane(version) BY NumbersIs DEF Alloc
<1>2. Sane(version') BY <1>1, InstalledSane
<1>3. version'.next = version.next /\ version'.seq = version.seq BY InstalledIs, ShapeIs
<1> QED BY <1>2, <1>3, NumbersIs DEF Alloc

LEMMA NumbersFlushInstall ==
  ASSUME Shape, Quiet, Shape', Files, Numbers, FlushInstall PROVE Numbers'
<1> DEFINE e == flush.edit
<1>1. /\ UNCHANGED <<manifest, up, rec, logfile, pending, comp>>
      /\ up \in {"open", "closing"} /\ rec = NoRec /\ comp.pc \in {"none", "work"}
      /\ e \in EditType /\ flush' = NoFlush
      /\ \/ /\ flush.pc = "done" /\ version' = Installed(e)
            /\ DeleteObsoleteFiles(version', pending)
         \/ flush.pc = "failed" /\ UNCHANGED <<version, imm, logs, tables>>
 BY FlushInstallDoes
<1>2. Ordered(manifest'.recs) BY <1>1, NumbersIs
<1>3. flush'.pc = "none" BY <1>1, NoFlushType
<1>4. Edits' BY <1>1, <1>3 DEF Edits, Edited
<1>5. Unread' BY <1>1 DEF Unread
<1>6. CASE flush.pc = "failed" /\ UNCHANGED <<version, imm, logs, tables>>
 <2>1. Alloc' BY <1>1, <1>6, NumbersIs DEF Alloc
 <2>2. Unused' BY <1>1, <1>3, <1>6, NumbersIs DEF Unused, Edited
 <2>3. LogFiles' BY <1>1, <1>3, <1>6, NumbersIs DEF LogFiles, Opened, Edited
 <2> QED BY <1>2, <1>4, <1>5, <2>1, <2>2, <2>3 DEF Numbers
<1>7. CASE /\ flush.pc = "done" /\ version' = Installed(e) /\ DeleteObsoleteFiles(version', pending)
 <2>1. EditOK(e, Newest(manifest), version) /\ e.log = logfile
  BY <1>7, NumbersIs DEF Edits, LogFiles, Edited
 <2> HIDE DEF e
 <2>2. Alloc' BY <1>1, <1>7, <2>1, AllocInstalled
 <2>3. Live(version') \subseteq Live(version) \cup Adds(e)
  BY <1>1, <1>7, <2>1, InstalledSane, NumbersIs DEF Alloc
 <2>4. Unused'
  <3>1. comp.pc = "work" /\ comp.out # 0 =>
          /\ comp.out \notin Live(version) /\ comp.out \notin Live(Newest(manifest))
          /\ \A v \in Disk(manifest) : comp.out \notin Live(v)
          /\ comp.out \notin Adds(e)
   BY <1>7, NumbersIs DEF Unused, Edited, e
  <3> QED BY <1>1, <1>3, <2>3, <3>1 DEF Unused, Edited
 <2>5. LogFiles'
  <3>1. version'.log = logfile /\ version'.next = version.next
   BY <1>1, <1>7, <2>1, InstalledIs, ShapeIs
  <3>2. Deleted(version', pending) BY <1>7, DeleteDoes
  <3>3. /\ logfile \in DOMAIN logs /\ logfile < version.next
        /\ \A L \in DOMAIN logs : L <= logfile
        /\ \A v \in Disk(manifest) : v.log <= logfile
   BY <1>1, NumbersIs DEF LogFiles, Opened
  <3>4. logfile \in Nat BY StateNumbers
  <3>5. logfile \in DOMAIN logs' /\ DOMAIN logs' \subseteq DOMAIN logs
   BY <3>1, <3>2, <3>3, <3>4 DEF Deleted
  <3> QED BY <1>1, <1>3, <3>1, <3>3, <3>4, <3>5 DEF LogFiles, Edited
 <2> QED BY <1>2, <1>4, <1>5, <2>2, <2>4, <2>5 DEF Numbers
<1> QED BY <1>1, <1>6, <1>7

LEMMA NumbersCompactInstall ==
  ASSUME Shape, Quiet, Shape', Files, Numbers, CompactInstall PROVE Numbers'
<1> DEFINE e == comp.edit
<1>1. /\ UNCHANGED <<manifest, up, rec, logfile, flush>>
      /\ up \in {"open", "closing"} /\ rec = NoRec /\ flush.pc = "none"
      /\ e \in EditType /\ comp' = NoComp
      /\ \/ /\ comp.pc = "done" /\ version' = Installed(e)
            /\ UNCHANGED <<logs, tables>> \/ DeleteObsoleteFiles(version', pending')
         \/ comp.pc = "failed" /\ UNCHANGED <<version, logs, tables>>
 BY CompactInstallDoes
<1>2. Ordered(manifest'.recs) BY <1>1, NumbersIs
<1>3. comp'.pc = "none" BY <1>1, NoCompType
<1>4. Edits' BY <1>1, <1>3 DEF Edits, Edited
<1>5. Unread' BY <1>1 DEF Unread
<1>u. Unused' BY <1>1, <1>3 DEF Unused
<1>6. CASE comp.pc = "failed" /\ UNCHANGED <<version, logs, tables>>
 <2>1. Alloc' BY <1>1, <1>6, NumbersIs DEF Alloc
 <2>3. LogFiles' BY <1>1, <1>3, <1>6, NumbersIs DEF LogFiles, Opened, Edited
 <2> QED BY <1>2, <1>4, <1>5, <1>u, <2>1, <2>3 DEF Numbers
<1>7. CASE /\ comp.pc = "done" /\ version' = Installed(e)
           /\ UNCHANGED <<logs, tables>> \/ DeleteObsoleteFiles(version', pending')
 <2>1. EditOK(e, Newest(manifest), version) /\ e.log = version.log
  BY <1>7, NumbersIs DEF Edits, LogFiles, Edited
 <2> HIDE DEF e
 <2>2. Alloc' BY <1>1, <1>7, <2>1, AllocInstalled
 <2>5. LogFiles'
  <3>1. version'.log = version.log /\ version'.next = version.next
   BY <1>1, <1>7, <2>1, InstalledIs, ShapeIs
  <3>2. Deleted(version', pending') BY <1>7, DeleteDoes, NothingDeleted
  <3>3. /\ logfile \in DOMAIN logs /\ logfile < version.next
        /\ \A L \in DOMAIN logs : L <= logfile /\ version.log <= logfile
        /\ \A v \in Disk(manifest) : v.log <= logfile
   BY <1>1, NumbersIs DEF LogFiles, Opened
  <3>4. logfile \in Nat /\ version.log \in Nat BY StateNumbers DEF NumberType
  <3>5. logfile \in DOMAIN logs' /\ DOMAIN logs' \subseteq DOMAIN logs
   BY <3>1, <3>2, <3>3, <3>4 DEF Deleted
  <3> QED BY <1>1, <1>3, <3>1, <3>3, <3>4, <3>5 DEF LogFiles, Edited
 <2> QED BY <1>2, <1>4, <1>5, <1>u, <2>2, <2>5 DEF Numbers
<1> QED BY <1>1, <1>6, <1>7

LEMMA NumbersCompactBegin ==
  ASSUME Shape, Quiet, Shape', Files, Numbers, NEW over \in SUBSET version.l1, CompactBegin(over)
  PROVE Numbers'
<1>1. /\ UNCHANGED <<logs, manifest, up, rec, version, logfile, flush>>
      /\ up \in {"open", "closing"} /\ flush.pc = "none" /\ comp.pc = "none"
      /\ \/ /\ comp'.pc = "manifest" /\ comp'.edit.add0 = {} /\ comp'.edit.add1 = version.l0
            /\ comp'.edit.log = version.log
            /\ comp'.edit.next = version.next /\ comp'.edit.seq = version.seq
         \/ comp'.pc = "work" /\ comp'.out = 0
 BY CompactBeginDoes
<1>2. Ordered(manifest'.recs) /\ Alloc' BY <1>1, NumbersIs DEF Alloc
<1>3. Edits'
 <2>1. /\ Newest(manifest).next <= version.next /\ Newest(manifest).seq <= version.seq
       /\ Sane(version)
  BY <1>1, NumbersIs DEF Alloc
 <2>2. NumberType(version) BY StateNumbers
 <2>3. comp'.pc \in Edited => EditOK(comp'.edit, Newest(manifest), version)
  BY <1>1, <2>1, <2>2 DEF EditOK, Sane, Adds, Live, NumberType, Edited
 <2> QED BY <1>1, <2>3 DEF Edits, Edited
<1>4. Unused' BY <1>1 DEF Unused
<1>5. LogFiles' BY <1>1, NumbersIs DEF LogFiles, Opened, Edited
<1>6. Unread' BY <1>1 DEF Unread
<1> QED BY <1>2, <1>3, <1>4, <1>5, <1>6 DEF Numbers

LEMMA NumbersCompactOpen ==
  ASSUME Shape, Quiet, Shape', Files, Numbers, CompactOpen PROVE Numbers'
<1>1. /\ UNCHANGED <<logs, manifest, up, rec, logfile, flush>>
      /\ up \in {"open", "closing"} /\ comp.pc = "work" /\ flush.pc = "none"
      /\ comp'.pc = "work" /\ comp'.out = version.next
      /\ version'.l0 = version.l0 /\ version'.l1 = version.l1 /\ version'.log = version.log
      /\ version'.seq = version.seq /\ version'.next = version.next + 1
 BY CompactOpenDoes
<1>2. Same(version', version) /\ Live(version') = Live(version) BY <1>1, SameLive DEF Same
<1>3. NumberType(version) /\ NumberType(version') BY VersionNumbers, ShapeIs DEF Shape
<1>a. version.next <= version'.next /\ version.seq <= version'.seq BY <1>1, <1>3 DEF NumberType
<1>4. Ordered(manifest'.recs) BY <1>1, NumbersIs
<1>5. Alloc' BY <1>1, <1>2, <1>a, AllocGrows
<1>6. Edits' BY <1>1 DEF Edits, Edited
<1>7. Unused'
 <2>1. /\ Newest(manifest).next <= version.next /\ \A f \in Live(version) : f < version.next
  BY <1>1, NumbersIs DEF Alloc, Sane
 <2>2. \A f \in Live(Newest(manifest)) : f < Newest(manifest).next
  BY DiskNumbers, NumbersIs DEF Sane
 <2>3. \A v \in Disk(manifest) : /\ v.next <= Newest(manifest).next /\ NumberType(v)
                                 /\ Live(v) \subseteq Nat /\ \A f \in Live(v) : f < v.next
  BY DiskNumbers, NumbersIs DEF Sane
 <2>4. NumberType(Newest(manifest)) /\ Live(Newest(manifest)) \subseteq Nat
       /\ Live(version) \subseteq Nat
  BY StateNumbers
 <2>5. version.next \notin Live(version) BY <1>3, <2>1, <2>4 DEF NumberType
 <2>6. version.next \notin Live(Newest(manifest)) BY <1>3, <2>1, <2>2, <2>4 DEF NumberType
 <2>7. \A v \in Disk(manifest) : version.next \notin Live(v)
  BY <1>3, <2>1, <2>3, <2>4 DEF NumberType
 <2> QED BY <1>1, <1>2, <2>5, <2>6, <2>7 DEF Unused, Edited
<1>8. LogFiles'
 <2>1. version.next \in Nat /\ logfile \in Nat BY StateNumbers DEF NumberType
 <2> QED BY <1>1, <2>1, NumbersIs DEF LogFiles, Opened, Edited
<1>9. Unread' BY <1>1 DEF Unread
<1> QED BY <1>4, <1>5, <1>6, <1>7, <1>8, <1>9 DEF Numbers

LEMMA NumbersCompactWork ==
  ASSUME Shape, Quiet, Shape', Files, Numbers, CompactWork PROVE Numbers'
<1>1. /\ UNCHANGED <<logs, manifest, up, rec, version, logfile, flush>>
      /\ up \in {"open", "closing"} /\ comp.pc = "work" /\ flush.pc = "none"
      /\ \/ /\ comp.out # 0 /\ comp'.pc = "manifest" /\ CompEdit(comp'.edit)
         \/ comp' = NoComp
 BY CompactWorkDoes
<1>2. Ordered(manifest'.recs) /\ Alloc' BY <1>1, NumbersIs DEF Alloc
<1>3. Edits'
 <2>1. /\ Newest(manifest).next <= version.next /\ Newest(manifest).seq <= version.seq
       /\ Sane(version)
  BY <1>1, NumbersIs DEF Alloc
 <2>2. NumberType(version) BY StateNumbers
 <2>3. comp.out # 0 => comp.out < version.next BY <1>1, FilesIs DEF Output
 <2>4. comp'.pc \in Edited => EditOK(comp'.edit, Newest(manifest), version)
  BY <1>1, <2>1, <2>2, <2>3, NoCompType DEF EditOK, Sane, Adds, CompEdit, NumberType, Edited
 <2> QED BY <1>1, <2>4 DEF Edits, Edited
<1>4. Unused' BY <1>1, NoCompType DEF Unused
<1>5. LogFiles' BY <1>1, NoCompType, NumbersIs DEF LogFiles, Opened, Edited, CompEdit
<1>6. Unread' BY <1>1 DEF Unread
<1> QED BY <1>2, <1>3, <1>4, <1>5, <1>6 DEF Numbers

\* Outside a running process nothing is under way.
LEMMA IdleWork ==
  ASSUME UNCHANGED <<flush, comp>>, flush.pc = "none", comp.pc = "none" PROVE Edits' /\ Unused'
BY DEF Edits, Unused, Edited

LEMMA NumbersOpenRecover ==
  ASSUME Shape, Quiet, Shape', Numbers, OpenRecover PROVE Numbers'
<1> DEFINE n == Newest(manifest)
<1>1. /\ UNCHANGED <<logs, manifest, flush, comp>> /\ up = "closed"
      /\ \/ /\ up' = "recovering" /\ Same(version', n) /\ n \in Disk(manifest)
            /\ version'.next = n.next + 1 /\ version'.seq = n.seq
            /\ rec'.logs = {k \in DOMAIN logs : k >= n.log} /\ rec'.added = {}
         \/ up' = "corrupt"
 BY OpenRecoverDoes
<1>2. flush.pc = "none" /\ comp.pc = "none" BY <1>1, NotWorking
<1>3. Ordered(manifest'.recs) BY <1>1, NumbersIs
<1>4. Edits' /\ Unused' BY <1>1, <1>2, IdleWork
<1>5. LogFiles' BY <1>1, <1>2 DEF LogFiles, Opened, Edited
<1>6. NumberType(n) /\ Sane(n) /\ Live(n) \subseteq Nat /\ DOMAIN logs \subseteq Nat
 BY StateNumbers, DiskNumbers, NumbersIs
<1> HIDE DEF n
<1>7. CASE up' = "corrupt" BY <1>3, <1>4, <1>5, <1>7 DEF Numbers, Alloc, Unread
<1>8. CASE /\ up' = "recovering" /\ Same(version', n) /\ n \in Disk(manifest)
           /\ version'.next = n.next + 1 /\ version'.seq = n.seq
           /\ rec'.logs = {k \in DOMAIN logs : k >= n.log} /\ rec'.added = {}
 <2>1. Sane(version') BY <1>6, <1>8, SameLive DEF Sane, Same, NumberType
 <2>2. Alloc' BY <1>1, <1>6, <1>8, <2>1 DEF Alloc, NumberType, n
 <2>3. Unread'
  <3>1. \A L \in DOMAIN logs : L \in rec'.logs \/ L < version'.next
   BY <1>6, <1>8 DEF NumberType, Sane
  <3>2. \A L \in rec'.logs : L >= version'.log BY <1>8 DEF Same
  <3> QED BY <1>1, <1>8, <3>1, <3>2 DEF Unread, n
 <2> QED BY <1>3, <1>4, <1>5, <2>2, <2>3 DEF Numbers
<1> QED BY <1>1, <1>7, <1>8

LEMMA NumbersRecovering ==
  ASSUME Shape, Quiet, Shape', Numbers, Recovering PROVE Numbers'
<1>1. /\ up = "recovering" /\ rec.logs # {} /\ UNCHANGED <<up, logs, manifest, flush, comp>>
      /\ Same(version', version) /\ version'.seq = version.seq /\ version.next <= version'.next
      /\ rec'.logs = rec.logs \/ (rec'.logs = rec.logs \ {Min(rec.logs)}
                                  /\ Min(rec.logs) + 1 <= version'.next)
      /\ \/ rec'.added = rec.added
         \/ /\ rec'.added = rec.added \cup {version.next} /\ version.next + 1 <= version'.next
 BY DEF Recovering
<1>2. flush.pc = "none" /\ comp.pc = "none" BY <1>1, NotWorking
<1>3. Ordered(manifest'.recs) BY <1>1, NumbersIs
<1>4. Edits' /\ Unused' BY <1>1, <1>2, IdleWork
<1>5. LogFiles' BY <1>1, <1>2 DEF LogFiles, Opened, Edited
<1>6. /\ NumberType(version) /\ NumberType(Newest(manifest)) /\ Live(version) \subseteq Nat
      /\ rec.added \subseteq Nat /\ DOMAIN logs \subseteq Nat
 BY StateNumbers
<1>7. NumberType(version') BY VersionNumbers DEF Shape
<1>8. /\ Newest(manifest).next <= version.next /\ Newest(manifest).seq <= version.seq
      /\ Sane(version) /\ \A f \in rec.added : f < version.next
 BY <1>1, NumbersIs DEF Alloc
<1>9. Alloc'
 <2>1. Sane(version') BY <1>1, <1>6, <1>7, <1>8, SaneGrows
 <2>2. \A f \in rec'.added : f < version'.next BY <1>1, <1>6, <1>7, <1>8 DEF NumberType
 <2> QED BY <1>1, <1>6, <1>7, <1>8, <2>1, <2>2 DEF Alloc, NumberType
<1>10. Unread'
 <2>1. /\ \A L \in DOMAIN logs : L \in rec.logs \/ L < version.next
       /\ \A L \in rec.logs : L >= version.log
       /\ Newest(manifest) \in Disk(manifest) /\ Same(version, Newest(manifest))
  BY <1>1, NumbersIs DEF Unread
 <2>2. Min(rec.logs) \in Nat BY <1>1, OldestLog
 <2>3. \A L \in DOMAIN logs : L \in rec'.logs \/ L < version'.next
  BY <1>1, <1>6, <1>7, <2>1, <2>2 DEF NumberType
 <2>4. \A L \in rec'.logs : L >= version'.log BY <1>1, <2>1 DEF Same
 <2>5. Same(version', Newest(manifest)) BY <1>1, <2>1, SameTrans
 <2> QED BY <1>1, <2>1, <2>3, <2>4, <2>5 DEF Unread
<1> QED BY <1>3, <1>4, <1>5, <1>9, <1>10 DEF Numbers

LEMMA NumbersOpenedLog ==
  ASSUME Shape, Quiet, Shape', Numbers, OpenedLog PROVE Numbers'
<1>1. /\ up = "recovering" /\ rec.logs = {} /\ up' = "new_manifest"
      /\ logfile' = version.next /\ DOMAIN logs' = DOMAIN logs \cup {logfile'}
      /\ Same(version', version) /\ version'.next = version.next + 1
      /\ version.seq <= version'.seq
      /\ UNCHANGED <<manifest, rec, flush, comp>>
 BY DEF OpenedLog
<1>2. flush.pc = "none" /\ comp.pc = "none" BY <1>1, NotWorking
<1>3. Ordered(manifest'.recs) BY <1>1, NumbersIs
<1>4. Edits' /\ Unused' BY <1>1, <1>2, IdleWork
<1>5. NumberType(version) /\ NumberType(version') /\ DOMAIN logs \subseteq Nat
      /\ NumberType(Newest(manifest))
 BY VersionNumbers, StateNumbers DEF Shape
<1>6. Alloc' BY <1>1, <1>5, AllocGrows DEF NumberType
<1>7. /\ \A L \in DOMAIN logs : L \in rec.logs \/ L < version.next
      /\ Newest(manifest) \in Disk(manifest) /\ Same(version, Newest(manifest))
 BY <1>1, NumbersIs DEF Unread
<1>8. Unread' BY <1>1, <1>7, SameTrans DEF Unread
<1>9. LogFiles'
 <2>1. /\ Newest(manifest).next <= version.next /\ Sane(version) BY <1>1, NumbersIs DEF Alloc
 <2>2. \A v \in Disk(manifest) : v.log < v.next /\ v.next <= Newest(manifest).next /\ NumberType(v)
  BY DiskNumbers, NumbersIs DEF Sane
 <2>3. \A v \in Disk(manifest) : v.log <= version.next BY <1>5, <2>1, <2>2 DEF NumberType
 <2>4. version'.log <= version.next BY <1>1, <1>5, <2>1 DEF Sane, Same, NumberType
 <2>5. \A L \in DOMAIN logs' : L <= version.next BY <1>1, <1>5, <1>7 DEF NumberType
 <2>6. version.next < version'.next BY <1>1, <1>5 DEF NumberType
 <2> QED BY <1>1, <1>2, <2>3, <2>4, <2>5, <2>6 DEF LogFiles, Edited
<1> QED BY <1>3, <1>4, <1>6, <1>8, <1>9 DEF Numbers

LEMMA NumbersOpenedManifest ==
  ASSUME Shape, Quiet, Shape', Numbers, OpenedManifest PROVE Numbers'
<1> DEFINE n == Newest(manifest')
<1>1. /\ up = "new_manifest" /\ up' = "cleanup"
      /\ version'.l0 = version.l0 \cup rec.added /\ version'.l1 = version.l1
      /\ version'.log = logfile /\ version'.next = version.next /\ version'.seq = version.seq
      /\ Disk(manifest') = {n} /\ Same(n, version')
      /\ n.next = version.next /\ n.seq = version.seq
      /\ Len(manifest'.recs) = 1 /\ Replayed(manifest'.recs)[0] = EmptyVersion
      /\ UNCHANGED <<logs, rec, logfile, flush, comp>>
 BY DEF OpenedManifest
<1>2. flush.pc = "none" /\ comp.pc = "none" BY <1>1, NotWorking
<1>4. Edits' /\ Unused' BY <1>1, <1>2, IdleWork
<1>5. NumberType(version) /\ Live(version) \subseteq Nat /\ rec.added \subseteq Nat
      /\ logfile \in Nat
 BY StateNumbers
<1>6. /\ logfile \in DOMAIN logs /\ logfile < version.next /\ \A L \in DOMAIN logs : L <= logfile
 BY <1>1, NumbersIs DEF LogFiles, Opened
<1>7. Sane(version) /\ \A f \in rec.added : f < version.next BY <1>1, NumbersIs DEF Alloc
<1>8. Sane(version') BY <1>1, <1>5, <1>6, <1>7 DEF Sane, Live, NumberType
<1>9. Sane(n) BY <1>1, <1>8, SameLive DEF Sane, Same
<1>10. Ordered(manifest'.recs)
 <2> DEFINE R == Replayed(manifest'.recs)
 <2>1. R[0] = EmptyVersion /\ R[1] = n BY <1>1 DEF Newest
 <2>2. Sane(EmptyVersion) /\ EmptyVersion.next = 2 /\ EmptyVersion.seq = 0
  BY DEF Sane, EmptyVersion, Live
 <2>a. EmptyVersion.next <= n.next
  <3>1. Newest(manifest).next <= version.next BY <1>1, NumbersIs DEF Alloc
  <3>2. EmptyVersion.next <= Newest(manifest).next
   <4>1. manifest \in ManifestType /\ Len(manifest.recs) \in Nat
    BY ShapeIs DEF ManifestOK, ManifestType
   <4>2. 0 \in 0 .. Len(manifest.recs) /\ Len(manifest.recs) \in 0 .. Len(manifest.recs)
         /\ 0 <= Len(manifest.recs)
    BY <4>1
   <4>3. Replayed(manifest.recs)[0] = EmptyVersion BY <4>1, ReplayedStep
   <4> QED BY <4>2, <4>3, NumbersIs DEF Ordered, Newest
  <3>3. NumberType(Newest(manifest)) BY StateNumbers
  <3> QED BY <1>1, <1>5, <2>2, <3>1, <3>2, <3>3 DEF NumberType
 <2>3. 0 .. Len(manifest'.recs) = {0, 1} BY <1>1
 <2>4. n.next \in Nat /\ n.seq \in Nat BY <1>1, <1>5 DEF NumberType
 <2> HIDE DEF R, n
 <2>5. \A i \in {0, 1} : Sane(R[i]) BY <1>9, <2>1, <2>2
 <2>6. \A i, j \in {0, 1} : i <= j => R[i].next <= R[j].next /\ R[i].seq <= R[j].seq
  BY <2>1, <2>2, <2>a, <2>4
 <2> QED BY <2>3, <2>5, <2>6 DEF Ordered, R
<1>11. Alloc' BY <1>1, <1>5, <1>7, <1>8 DEF Alloc, NumberType
<1>12. LogFiles' BY <1>1, <1>2, <1>5, <1>6 DEF LogFiles, Edited, Same
<1>13. Unread' BY <1>1 DEF Unread
<1> QED BY <1>4, <1>10, <1>11, <1>12, <1>13 DEF Numbers

LEMMA NumbersOpenCleanup ==
  ASSUME Shape, Quiet, Shape', Numbers, OpenCleanup PROVE Numbers'
<1>1. /\ UNCHANGED <<manifest, version, logfile, flush, comp>>
      /\ up = "cleanup" /\ up' = "open" /\ rec' = NoRec /\ Deleted(version, {})
 BY OpenCleanupDoes
<1>2. flush.pc = "none" /\ comp.pc = "none" BY <1>1, NotWorking
<1>3. Ordered(manifest'.recs) BY <1>1, NumbersIs
<1>4. Edits' /\ Unused' BY <1>1, <1>2, IdleWork
<1>5. Alloc' BY <1>1, NoRecType, NumbersIs DEF Alloc
<1>6. LogFiles'
 <2>1. /\ logfile \in DOMAIN logs /\ logfile < version.next
       /\ \A L \in DOMAIN logs : L <= logfile /\ version.log <= logfile
       /\ \A v \in Disk(manifest) : v.log <= logfile
  BY <1>1, NumbersIs DEF LogFiles, Opened
 <2>2. logfile \in Nat /\ version.log \in Nat BY StateNumbers DEF NumberType
 <2>3. logfile \in DOMAIN logs' /\ DOMAIN logs' \subseteq DOMAIN logs
  BY <1>1, <2>1, <2>2 DEF Deleted
 <2> QED BY <1>1, <1>2, <2>1, <2>2, <2>3 DEF LogFiles, Edited
<1>7. Unread' BY <1>1 DEF Unread
<1> QED BY <1>3, <1>4, <1>5, <1>6, <1>7 DEF Numbers

\* Every step keeps Numbers.
LEMMA NumbersStep == Shape /\ Quiet /\ Files /\ Numbers /\ [Next]_vars => Numbers'
<1> SUFFICES ASSUME Shape, Quiet, Files, Numbers, [Next]_vars PROVE Numbers' OBVIOUS
<1>0. Shape' BY ShapeStep
<1>1. CASE FileStep
 BY <1>0, <1>1, NumbersFlushBegin, NumbersFlushBuild, NumbersFlushManifest, NumbersFlushInstall,
    NumbersCompactBegin, NumbersCompactOpen, NumbersCompactWork, NumbersCompactManifest,
    NumbersCompactInstall, Zenon DEF FileStep
<1>2. CASE CallStep \/ Down \/ OpenRecover \/ Recovering \/ OpenedLog \/ OpenedManifest \/ OpenCleanup
 BY <1>0, <1>2, NumbersCall, NumbersDown, NumbersOpenRecover, NumbersRecovering, NumbersOpenedLog,
    NumbersOpenedManifest, NumbersOpenCleanup, Zenon
<1> QED BY <1>1, <1>2, NextCases

\* Initially.
LEMMA InitNumbers == Init => Numbers
<1> SUFFICES ASSUME Init PROVE Numbers OBVIOUS
<1> DEFINE e == Edit({}, {}, {}, 0, EmptyVersion)
           n == Newest(manifest)
<1>1. /\ e \in EditType /\ e.add0 = {} /\ e.add1 = {} /\ e.log = 0 /\ e.next = 2 /\ e.seq = 0
 <2>1. EmptyVersion.next = 2 /\ EmptyVersion.seq = 0 BY DEF EmptyVersion
 <2> QED BY <2>1, EditOf, EmptyVersionType
<1>2. manifest = [recs |-> <<e>>, synced |-> 1] BY DEF Init
<1> HIDE DEF e
<1>3. /\ n = Apply(EmptyVersion, e) /\ Len(manifest.recs) = 1
      /\ Replayed(manifest.recs)[0] = EmptyVersion
 BY <1>1, <1>2, ManifestNew
<1>4. n.next = 2 /\ n.seq = 0 /\ n.log = 0 BY <1>1, <1>3 DEF Apply
<1>5. Live(EmptyVersion) = {} BY DEF Live, EmptyVersion
<1>6. Live(n) = {} BY <1>1, <1>3, <1>5, ApplyLive DEF Adds
<1>7. Ordered(manifest.recs)
 <2> DEFINE R == Replayed(manifest.recs)
 <2>1. R[0] = EmptyVersion /\ R[1] = n BY <1>3 DEF Newest
 <2>2. EmptyVersion.next = 2 /\ EmptyVersion.seq = 0 /\ EmptyVersion.log = 0 BY DEF EmptyVersion
 <2>3. 0 .. Len(manifest.recs) = {0, 1} BY <1>3
 <2> HIDE DEF R, n
 <2>5. \A i \in {0, 1} : Sane(R[i]) BY <1>4, <1>5, <1>6, <2>1, <2>2 DEF Sane
 <2>6. \A i, j \in {0, 1} : i <= j => R[i].next <= R[j].next /\ R[i].seq <= R[j].seq
  BY <1>4, <2>1, <2>2
 <2> QED BY <2>3, <2>5, <2>6 DEF Ordered, R
<1>8. Alloc BY DEF Init, Alloc
<1>9. Edits /\ Unused BY NoFlushType, NoCompType DEF Init, Edits, Unused, Edited
<1>10. LogFiles BY NoFlushType, NoCompType DEF Init, LogFiles, Opened, Edited
<1>11. Unread BY DEF Init, Unread
<1> QED BY <1>7, <1>8, <1>9, <1>10, <1>11 DEF Numbers

-----------------------------------------------------------------------------
(* Contents: tables do not change, and edits do not change what can be read. *)

\* Tables do not change.
\* What a read finds in the tables.
LEMMA InTablesAre == InTables = In(tables, Live(version))
BY DEF InTables, In

\* of tables that stay,
LEMMA InKept ==
  ASSUME NEW t, NEW u, NEW S, S \subseteq DOMAIN u,
         \A n \in S : n \in DOMAIN t /\ u[n] = t[n]
  PROVE In(u, S) = In(t, S)
BY DEF In

\* of two sets of tables,
LEMMA InUnion == ASSUME NEW t, NEW S, NEW T PROVE In(t, S \cup T) = In(t, S) \cup In(t, T)
BY DEF In

\* of a part of them,
LEMMA InMonotone == ASSUME NEW t, NEW S, NEW T, S \subseteq T PROVE In(t, S) \subseteq In(t, T)
BY DEF In

\* and of none.
LEMMA InNone == ASSUME NEW t PROVE In(t, {}) = {}
BY DEF In

\* What is named exists,
LEMMA NamedPresent == ASSUME Files, NEW n, Named(n) PROVE n \in DOMAIN tables
BY FilesIs DEF Named

\* was numbered before,
LEMMA NamedOld ==
  ASSUME Shape, Numbers, up \notin {"closed", "corrupt"}, NEW n, Named(n)
  PROVE n \in Nat /\ n < version.next
<1>1. /\ NumberType(version) /\ NumberType(Newest(manifest)) /\ Live(version) \subseteq Nat
      /\ flush.pc \in Edited => NumberType(flush.edit) /\ Adds(flush.edit) \subseteq Nat
      /\ comp.pc \in Edited => NumberType(comp.edit) /\ Adds(comp.edit) \subseteq Nat
      /\ rec.added \subseteq Nat
 BY StateNumbers
<1>2. /\ Newest(manifest).next <= version.next /\ Sane(version)
      /\ \A f \in rec.added : f < version.next
 BY NumbersIs DEF Alloc
<1>3. CASE n \in Live(version) BY <1>1, <1>2, <1>3 DEF Sane
<1>4. CASE \E v \in Disk(manifest) : n \in Live(v)
 <2>1. PICK v \in Disk(manifest) : n \in Live(v) BY <1>4
 <2>2. Sane(v) /\ NumberType(v) /\ Live(v) \subseteq Nat /\ v.next <= Newest(manifest).next
  BY DiskNumbers, NumbersIs
 <2> QED BY <1>1, <1>2, <2>1, <2>2 DEF Sane, NumberType
<1>5. CASE n \in rec.added BY <1>1, <1>2, <1>5
<1>6. CASE flush.pc \in Edited /\ n \in Adds(flush.edit)
 <2>1. EditOK(flush.edit, Newest(manifest), version) BY <1>6, NumbersIs DEF Edits
 <2> QED BY <1>1, <1>6, <2>1 DEF EditOK, NumberType
<1>7. CASE comp.pc \in Edited /\ n \in Adds(comp.edit)
 <2>1. EditOK(comp.edit, Newest(manifest), version) BY <1>7, NumbersIs DEF Edits
 <2> QED BY <1>1, <1>7, <2>1 DEF EditOK, NumberType
<1> QED BY <1>3, <1>4, <1>5, <1>6, <1>7 DEF Named

\* is not the table that a flush builds,
LEMMA NamedNotBuilt ==
  ASSUME Shape, Quiet, Numbers, flush.pc = "build", NEW n, Named(n) PROVE n # flush.out
<1>1. /\ NumberType(version) /\ NumberType(Newest(manifest)) /\ Live(version) \subseteq Nat
      /\ flush.out \in Nat
 BY StateNumbers
<1>2. /\ Newest(manifest).next <= flush.out /\ \A f \in Live(version) : f < flush.out
 BY NumbersIs DEF Unused
<1>3. rec = NoRec /\ comp.pc \in {"none", "work"} BY AtWork, FlushIdle
<1>4. CASE n \in Live(version) BY <1>1, <1>2, <1>4
<1>5. CASE \E v \in Disk(manifest) : n \in Live(v)
 <2>1. PICK v \in Disk(manifest) : n \in Live(v) BY <1>5
 <2>2. Sane(v) /\ NumberType(v) /\ Live(v) \subseteq Nat /\ v.next <= Newest(manifest).next
  BY DiskNumbers, NumbersIs
 <2> QED BY <1>1, <1>2, <2>1, <2>2 DEF Sane, NumberType
<1> QED BY <1>3, <1>4, <1>5, NoRecType DEF Named, Edited

\* and not the output of a compaction.
LEMMA NamedNotOutput ==
  ASSUME Shape, Quiet, Numbers, comp.pc = "work", comp.out # 0, flush.pc = "none", NEW n, Named(n)
  PROVE n # comp.out
<1>1. rec = NoRec BY AtWork
<1> QED BY <1>1, NumbersIs, NoRecType DEF Named, Edited, Unused

\* No step changes a table that something refers to.
LEMMA ImmutableStep ==
  ASSUME Shape, Quiet, Files, Numbers, [Next]_vars PROVE Immutable
<1> SUFFICES ASSUME NEW n, Named(n), n \in DOMAIN tables' PROVE tables'[n] = tables[n]
 BY DEF Immutable
<1>0. n \in DOMAIN tables BY NamedPresent
<1>1. CASE CallStep BY <1>1, CallDoes
<1>2. CASE FlushBegin BY <1>2, FlushBeginDoes
<1>3. CASE FlushBuild BY <1>0, <1>3, FlushBuildDoes, NamedNotBuilt
<1>4. CASE FlushManifest BY <1>4, FlushManifestDoes
<1>5. CASE FlushInstall
 <2>1. UNCHANGED tables \/ Deleted(version', pending) BY <1>5, FlushInstallDoes, DeleteDoes
 <2> QED BY <2>1 DEF Deleted
<1>6. CASE \E over \in SUBSET version.l1 : CompactBegin(over) BY <1>6, CompactBeginDoes
<1>7. CASE CompactOpen
 <2>1. up \in {"open", "closing"}
       /\ \A k \in DOMAIN tables : k # version.next => tables'[k] = tables[k]
  BY <1>7, CompactOpenDoes
 <2>2. n < version.next /\ n \in Nat BY <2>1, NamedOld
 <2>3. version.next \in Nat BY ShapeIs, VersionIs
 <2> QED BY <1>0, <2>1, <2>2, <2>3
<1>8. CASE CompactWork
 <2>1. /\ comp.pc = "work" /\ flush.pc = "none"
       /\ UNCHANGED tables \/ (comp.out # 0 /\ \A k \in DOMAIN tables :
                                  k # comp.out => tables'[k] = tables[k])
  BY <1>8, CompactWorkDoes
 <2> QED BY <1>0, <2>1, NamedNotOutput
<1>9. CASE CompactManifest BY <1>9, CompactManifestDoes
<1>10. CASE CompactInstall
 <2>1. UNCHANGED tables \/ Deleted(version', pending') BY <1>10, CompactInstallDoes, DeleteDoes
 <2> QED BY <2>1 DEF Deleted
<1>11. CASE Down BY <1>11 DEF Down
<1>12. CASE OpenRecover BY <1>12, OpenRecoverDoes
<1>13. CASE Recovering
 <2>1. /\ up = "recovering"
       /\ UNCHANGED tables \/ \A k \in DOMAIN tables : k # version.next => tables'[k] = tables[k]
  BY <1>13 DEF Recovering, Written
 <2>2. n < version.next /\ n \in Nat BY <2>1, NamedOld
 <2>3. version.next \in Nat BY ShapeIs, VersionIs
 <2> QED BY <1>0, <2>1, <2>2, <2>3
<1>14. CASE OpenedLog \/ OpenedManifest BY <1>14 DEF OpenedLog, OpenedManifest
<1>15. CASE OpenCleanup
 <2>1. Deleted(version, {}) BY <1>15, OpenCleanupDoes
 <2> QED BY <2>1 DEF Deleted
<1>16. CASE FileStep BY <1>16, <1>2, <1>3, <1>4, <1>5, <1>6, <1>7, <1>8, <1>9, <1>10 DEF FileStep
<1> QED BY <1>1, <1>11, <1>12, <1>13, <1>14, <1>15, <1>16, NextCases

\* A set of tables that something refers to, and that is still there, holds what it held.
LEMMA StillHolds ==
  ASSUME Files, Immutable, NEW S, \A n \in S : Named(n), S \subseteq DOMAIN tables'
  PROVE In(tables', S) = In(tables, S)
<1>1. \A n \in S : n \in DOMAIN tables /\ tables'[n] = tables[n] BY NamedPresent DEF Immutable
<1> QED BY <1>1, InKept

\* The parts of Contents.
LEMMA ContentsIs ==
  ASSUME Contents
  PROVE  /\ flush.pc \in Edited => flush.edit.del = {} /\ In(tables, Adds(flush.edit)) = imm
         /\ comp.pc \in Edited => /\ comp.edit.add0 = {}
                                  /\ In(tables, comp.edit.add1) = In(tables, comp.edit.del)
                                  /\ comp.edit.del \subseteq Live(version)
         /\ comp.pc = "work" => comp.inputs \subseteq Live(version)
BY DEF Contents

\* What an edit adds stays,
LEMMA EditHolds ==
  ASSUME Files, Immutable, NEW e, Adds(e) \subseteq DOMAIN tables',
         \/ flush.pc \in Edited /\ e = flush.edit
         \/ comp.pc \in Edited /\ e = comp.edit
  PROVE In(tables', Adds(e)) = In(tables, Adds(e))
<1>1. \A n \in Adds(e) : Named(n) BY DEF Named
<1> DEFINE S == Adds(e)
<1>2. \A n \in S : Named(n) BY <1>1
<1>3. S \subseteq DOMAIN tables' OBVIOUS
<1> HIDE DEF S
<1>4. In(tables', S) = In(tables, S) BY <1>2, <1>3, StillHolds
<1> QED BY <1>4 DEF S

\* and what the current version holds.
LEMMA LiveHolds ==
  ASSUME Files, Immutable, NEW S, S \subseteq Live(version), S \subseteq DOMAIN tables'
  PROVE In(tables', S) = In(tables, S)
<1>1. \A n \in S : Named(n) BY DEF Named
<1> QED BY <1>1, StillHolds

\* A step that makes no edit keeps Contents;
LEMMA ContentsKept ==
  ASSUME Files, Files', Immutable, Contents,
         flush'.pc \in Edited => flush.pc \in Edited /\ flush'.edit = flush.edit /\ imm' = imm,
         comp'.pc \in Edited => comp.pc \in Edited /\ comp'.edit = comp.edit,
         comp'.pc = "work" => comp.pc = "work" /\ comp'.inputs = comp.inputs,
         comp'.pc # "none" => Live(version) \subseteq Live(version')
  PROVE Contents'
<1>1. ASSUME flush'.pc \in Edited
      PROVE flush'.edit.del = {} /\ In(tables', Adds(flush'.edit)) = imm'
 <2>1. Adds(flush.edit) \subseteq DOMAIN tables' BY <1>1 DEF Files, Present
 <2>2. In(tables', Adds(flush.edit)) = In(tables, Adds(flush.edit)) BY <1>1, <2>1, EditHolds
 <2> QED BY <1>1, <2>2, ContentsIs
<1>2. ASSUME comp'.pc \in Edited
      PROVE  /\ comp'.edit.add0 = {} /\ In(tables', comp'.edit.add1) = In(tables', comp'.edit.del)
             /\ comp'.edit.del \subseteq Live(version')
 <2> DEFINE e == comp.edit
 <2>0. comp'.edit = e /\ comp'.pc # "none" BY <1>2 DEF Edited
 <2>1. /\ e.add0 = {} /\ In(tables, e.add1) = In(tables, e.del) /\ e.del \subseteq Live(version)
       /\ Adds(e) = e.add1
  BY <1>2, ContentsIs DEF Adds
 <2>2. Adds(e) \subseteq DOMAIN tables' /\ Live(version') \subseteq DOMAIN tables'
  BY <1>2 DEF Files, Present
 <2>3. e.del \subseteq Live(version') /\ e.del \subseteq DOMAIN tables' BY <2>0, <2>1, <2>2
 <2>4. In(tables', Adds(e)) = In(tables, Adds(e)) BY <1>2, <2>2, EditHolds
 <2>5. In(tables', e.del) = In(tables, e.del) BY <2>1, <2>3, LiveHolds
 <2> HIDE DEF e
 <2> QED BY <2>0, <2>1, <2>3, <2>4, <2>5
<1>3. comp'.pc = "work" => comp'.inputs \subseteq Live(version') BY ContentsIs
<1> QED BY <1>1, <1>2, <1>3 DEF Contents

\* What an edit does to the set of live files.
LEMMA InstalledLive ==
  ASSUME Shape, NEW e \in EditType, version' = Installed(e)
  PROVE Live(version') = (Live(version) \ e.del) \cup Adds(e)
BY InstalledIs, ShapeIs DEF Live, Adds

\* the steps that make one keep it too.
LEMMA ContentsFlushBuild ==
  ASSUME Shape, Quiet, Files, Files', Numbers, Immutable, Contents, FlushBuild PROVE Contents'
<1>1. /\ UNCHANGED <<version, imm, comp>> /\ flush.pc = "build" /\ comp.pc \in {"none", "work"}
      /\ imm \in SUBSET Writers
      /\ \/ flush' = NoFlush
         \/ /\ flush'.pc = "manifest" /\ FlushEdit(flush'.edit)
            /\ imm # {} => flush.out \in DOMAIN tables' /\ tables'[flush.out] = imm
 BY FlushBuildDoes
<1>2. CASE flush' = NoFlush BY <1>1, <1>2, ContentsKept, NoFlushType DEF Edited
<1>3. CASE /\ flush'.pc = "manifest" /\ FlushEdit(flush'.edit)
           /\ imm # {} => flush.out \in DOMAIN tables' /\ tables'[flush.out] = imm
 <2>1. flush'.edit.del = {} /\ Adds(flush'.edit) = (IF imm = {} THEN {} ELSE {flush.out})
  BY <1>3 DEF FlushEdit
 <2>2. In(tables', Adds(flush'.edit)) = imm
  <3>1. CASE imm = {} BY <2>1, <3>1, InNone
  <3>2. CASE imm # {}
   <4>1. In(tables', {flush.out}) = tables'[flush.out] BY <1>3, <3>2 DEF In
   <4> QED BY <1>3, <2>1, <3>2, <4>1
  <3> QED BY <3>1, <3>2
 <2> QED BY <1>1, <2>1, <2>2, ContentsIs DEF Contents, Edited
<1> QED BY <1>1, <1>2, <1>3

LEMMA ContentsCompactBegin ==
  ASSUME Shape, Quiet, Contents, NEW over \in SUBSET version.l1, CompactBegin(over)
  PROVE Contents'
<1>1. /\ UNCHANGED <<tables, version, imm, flush>>
      /\ \/ /\ comp'.pc = "manifest" /\ comp'.edit.add0 = {} /\ comp'.edit.add1 = version.l0
            /\ comp'.edit.del = version.l0
         \/ comp'.pc = "work" /\ comp'.inputs \subseteq Live(version)
 BY CompactBeginDoes
<1>2. flush'.pc \in Edited => flush'.edit.del = {} /\ In(tables', Adds(flush'.edit)) = imm'
 BY <1>1, ContentsIs
<1>3. version.l0 \subseteq Live(version) BY DEF Live
<1> QED BY <1>1, <1>2, <1>3 DEF Contents, Edited

LEMMA ContentsCompactWork ==
  ASSUME Shape, Quiet, Files, Files', Numbers, Immutable, Contents, CompactWork PROVE Contents'
<1> DEFINE W == /\ comp.out # 0 /\ comp'.pc = "manifest" /\ CompEdit(comp'.edit)
                /\ comp.out \in DOMAIN tables =>
                      tables'[comp.out] = UNION {tables[i] : i \in comp.inputs \cap DOMAIN tables}
<1>1. /\ UNCHANGED <<version, imm, flush>> /\ comp.pc = "work" /\ flush.pc = "none"
      /\ DOMAIN tables' = DOMAIN tables
      /\ W \/ comp' = NoComp
 BY CompactWorkDoes
<1>2. CASE comp' = NoComp BY <1>1, <1>2, ContentsKept, NoCompType DEF Edited
<1>3. CASE W
 <2>1. comp.out \in DOMAIN tables BY <1>1, <1>3, FilesIs DEF Output
 <2>2. tables'[comp.out] = In(tables, comp.inputs) BY <1>3, <2>1 DEF In
 <2>3. In(tables', {comp.out}) = tables'[comp.out] BY <1>1, <2>1 DEF In
 <2>4. comp.inputs \subseteq Live(version) BY <1>1, ContentsIs
 <2>5. Live(version') \subseteq DOMAIN tables' BY DEF Files, Present
 <2>6. comp.inputs \subseteq DOMAIN tables' BY <1>1, <2>4, <2>5
 <2>7. In(tables', comp.inputs) = In(tables, comp.inputs)
  <3> DEFINE S == comp.inputs
  <3> HIDE DEF S
  <3>1. In(tables', S) = In(tables, S) BY <2>4, <2>6, LiveHolds DEF S
  <3> QED BY <3>1 DEF S
 <2>8. comp'.edit.add0 = {} /\ comp'.edit.add1 = {comp.out} /\ comp'.edit.del = comp.inputs
  BY <1>3 DEF CompEdit
 <2> QED BY <1>1, <1>3, <2>2, <2>3, <2>4, <2>7, <2>8 DEF Contents, Edited
<1> QED BY <1>1, <1>2, <1>3

\* Every step keeps Contents.
LEMMA ContentsStep == Shape /\ Quiet /\ Files /\ Numbers /\ Contents /\ [Next]_vars => Contents'
<1> SUFFICES ASSUME Shape, Quiet, Files, Numbers, Contents, [Next]_vars PROVE Contents' OBVIOUS
<1>0. Files' /\ Immutable BY FilesStep, ImmutableStep
<1>1. CASE CallStep
 <2>1. /\ UNCHANGED <<flush, comp>>
       /\ version'.l0 = version.l0 /\ version'.l1 = version.l1
  BY <1>1, CallDoes
 <2>2. flush.pc \in Edited => imm' = imm
  <3>1. flush.pc \in Edited => flush.pc # "none" BY DEF Edited
  <3> QED BY <1>1, <3>1, CallLogs, FlushIdle
 <2>3. Live(version') = Live(version) BY <2>1 DEF Live
 <2> QED BY <1>0, <2>1, <2>2, <2>3, ContentsKept
<1>2. CASE FlushBegin
 <2>1. /\ UNCHANGED comp /\ flush'.pc = "build"
       /\ version'.l0 = version.l0 /\ version'.l1 = version.l1
  BY <1>2, FlushBeginDoes
 <2>3. Live(version') = Live(version) BY <2>1 DEF Live
 <2> QED BY <1>0, <2>1, <2>3, ContentsKept DEF Edited
<1>3. CASE FlushManifest BY <1>0, <1>3, FlushManifestDoes, ContentsKept DEF Edited
<1>4. CASE FlushInstall
 <2>1. /\ UNCHANGED comp /\ flush' = NoFlush /\ flush.edit \in EditType
       /\ UNCHANGED version \/ (flush.pc = "done" /\ version' = Installed(flush.edit))
  BY <1>4, FlushInstallDoes
 <2>2. Live(version) \subseteq Live(version') BY <2>1, InstalledLive, ContentsIs DEF Edited
 <2> QED BY <1>0, <2>1, <2>2, ContentsKept, NoFlushType DEF Edited
<1>5. CASE CompactOpen
 <2>1. /\ UNCHANGED <<flush, imm>> /\ comp'.pc = "work" /\ comp'.inputs = comp.inputs /\ comp.pc = "work"
       /\ version'.l0 = version.l0 /\ version'.l1 = version.l1
  BY <1>5, CompactOpenDoes
 <2>3. Live(version') = Live(version) BY <2>1 DEF Live
 <2> QED BY <1>0, <2>1, <2>3, ContentsKept DEF Edited
<1>6. CASE CompactManifest BY <1>0, <1>6, CompactManifestDoes, ContentsKept DEF Edited
<1>7. CASE CompactInstall BY <1>0, <1>7, CompactInstallDoes, ContentsKept, NoCompType DEF Edited
<1>8. CASE Down BY <1>0, <1>8, ForgetDoes, ContentsKept, NoCompType, NoFlushType DEF Edited, Down
<1>9. CASE OpenRecover \/ Recovering \/ OpenedLog \/ OpenedManifest \/ OpenCleanup
 <2>1. UNCHANGED <<flush, comp, imm>> /\ up \notin {"open", "closing"}
  BY <1>9, OpenRecoverDoes, OpenCleanupDoes DEF Recovering, OpenedLog, OpenedManifest
 <2>2. flush.pc = "none" /\ comp.pc = "none" BY <2>1, NotWorking
 <2> QED BY <1>0, <2>1, <2>2, ContentsKept DEF Edited
<1>10. CASE FileStep
 BY <1>0, <1>10, <1>2, <1>3, <1>4, <1>5, <1>6, <1>7, ContentsFlushBuild, ContentsCompactBegin,
    ContentsCompactWork, Zenon DEF FileStep
<1> QED BY <1>1, <1>8, <1>9, <1>10, NextCases

\* Initially.
LEMMA InitContents == Init => Contents
BY NoFlushType, NoCompType DEF Init, Contents, Edited

\* What the memtables hold only moves from mem_ to imm_.
LEMMA CallMemory ==
  ASSUME Shape, CallStep
  PROVE  \/ mem \subseteq mem' /\ imm' = imm
         \/ imm = Nil /\ imm' = mem /\ mem' = {}
<1>1. CASE SwitchMemTable BY <1>1 DEF SwitchMemTable, MustWait
<1>2. CASE ApplyGroup BY <1>2 DEF ApplyGroup
<1>3. CASE CallStep /\ ~SwitchMemTable /\ ~ApplyGroup
 <2>1. mem' = mem /\ imm' = imm BY <1>3
      DEF CallStep, LeaderStep, MakeRoomError, MakeRoomDelay, MakeRoomWait, MakeRoomDone, AddRecord,
          AddRecordFails, SyncLog, SyncLogFails, Enqueue, AwaitImm, BackgroundCallSkips, Close, vars,
          memVars
 <2> QED BY <2>1
<1> QED BY <1>1, <1>2, <1>3

\* A step of a caller takes nothing out of the memtables.
LEMMA MemoryCall == ASSUME Shape, CallStep PROVE InMemory \subseteq InMemory'
<1>1. \/ mem \subseteq mem' /\ imm' = imm
      \/ imm = Nil /\ imm' = mem /\ mem' = {}
 BY CallMemory
<1>2. mem # Nil BY ShapeIs, NilIsNoSet
<1> QED BY <1>1, <1>2 DEF InMemory

\* What a read sees.
LEMMA VisibleIs == Visible = InMemory \cup In(tables, Live(version))
BY InTablesAre DEF Visible

\* The tables of the current version keep what they hold while the version stays.
LEMMA SameTables ==
  ASSUME Files, Files', Immutable, Live(version') = Live(version)
  PROVE In(tables', Live(version')) = In(tables, Live(version))
<1>1. Live(version') \subseteq DOMAIN tables' BY DEF Files, Present
<1> DEFINE S == Live(version)
<1>2. S \subseteq Live(version) /\ S \subseteq DOMAIN tables' BY <1>1
<1> HIDE DEF S
<1>3. In(tables', S) = In(tables, S) BY <1>2, LiveHolds
<1> QED BY <1>3 DEF S

\* Nor does the installation of an edit take anything away.
LEMMA TablesInstalled ==
  ASSUME Shape, Files, Files', Immutable, NEW e \in EditType,
         \/ flush.pc \in Edited /\ e = flush.edit
         \/ comp.pc \in Edited /\ e = comp.edit,
         version' = Installed(e), In(tables, e.del) \subseteq In(tables, Adds(e)),
         e.del \subseteq Live(version)
  PROVE In(tables', Live(version')) = In(tables, Live(version)) \cup In(tables, Adds(e))
<1> DEFINE R == Live(version) \ e.del
           A == Adds(e)
<1>1. Live(version') = R \cup A BY InstalledLive
<1>2. Live(version') \subseteq DOMAIN tables' BY DEF Files, Present
<1>3. In(tables', A) = In(tables, A) BY <1>1, <1>2, EditHolds
<1>4. R \subseteq Live(version) /\ R \subseteq DOMAIN tables' BY <1>1, <1>2
<1>5. In(tables, Live(version)) = In(tables, R) \cup In(tables, e.del)
 <2>1. Live(version) = R \cup e.del OBVIOUS
 <2> HIDE DEF R
 <2> QED BY <2>1, InUnion
<1> HIDE DEF R
<1>6. In(tables', R) = In(tables, R) BY <1>4, LiveHolds
<1>7. In(tables', R \cup A) = In(tables', R) \cup In(tables', A) BY InUnion
<1>8. In(tables', Live(version')) = In(tables, R) \cup In(tables, A) BY <1>1, <1>3, <1>6, <1>7
<1> QED BY <1>5, <1>8

\* A flush brings imm_ to the tables;
LEMMA FlushInstalled ==
  ASSUME Shape, Quiet, Files, Files', Immutable, Contents, flush.pc = "done",
         flush.edit \in EditType, version' = Installed(flush.edit)
  PROVE In(tables', Live(version')) = In(tables, Live(version)) \cup imm
<1> DEFINE e == flush.edit
<1>1. e \in EditType /\ flush.pc \in Edited /\ version' = Installed(e) BY DEF Edited
<1>2. e.del = {} /\ In(tables, Adds(e)) = imm BY <1>1, ContentsIs
<1>3. In(tables, e.del) \subseteq In(tables, Adds(e)) /\ e.del \subseteq Live(version)
 BY <1>2, InNone
<1>4. \/ flush.pc \in Edited /\ e = flush.edit
      \/ comp.pc \in Edited /\ e = comp.edit
 BY <1>1
<1> HIDE DEF e
<1>5. In(tables', Live(version')) = In(tables, Live(version)) \cup In(tables, Adds(e))
 BY <1>1, <1>3, <1>4, TablesInstalled
<1> QED BY <1>2, <1>5

\* a compaction changes nothing of what they hold.
LEMMA CompactInstalled ==
  ASSUME Shape, Quiet, Files, Files', Immutable, Contents, comp.pc = "done",
         comp.edit \in EditType, version' = Installed(comp.edit)
  PROVE In(tables', Live(version')) = In(tables, Live(version))
<1> DEFINE e == comp.edit
<1>1. e \in EditType /\ comp.pc \in Edited /\ version' = Installed(e) BY DEF Edited
<1>2. /\ e.add0 = {} /\ In(tables, e.add1) = In(tables, e.del) /\ e.del \subseteq Live(version)
      /\ Adds(e) = e.add1
 BY <1>1, ContentsIs DEF Adds
<1>3. In(tables, e.del) \subseteq In(tables, Adds(e)) BY <1>2
<1>4. \/ flush.pc \in Edited /\ e = flush.edit
      \/ comp.pc \in Edited /\ e = comp.edit
 BY <1>1
<1> HIDE DEF e
<1>5. In(tables', Live(version')) = In(tables, Live(version)) \cup In(tables, Adds(e))
 BY <1>1, <1>2, <1>3, <1>4, TablesInstalled
<1>6. In(tables, e.del) \subseteq In(tables, Live(version)) BY <1>2, InMonotone
<1> QED BY <1>2, <1>5, <1>6

\* What a read can see is never taken back while the process runs.
LEMMA VisibleGrows ==
  ASSUME Shape, Quiet, Files, Numbers, Contents, [Next]_vars, Running, Running'
  PROVE Visible \subseteq Visible'
<1>0. Files' /\ Immutable BY FilesStep, ImmutableStep
<1>1. Visible = InMemory \cup In(tables, Live(version)) BY VisibleIs
<1>2. Visible' = InMemory' \cup In(tables', Live(version')) BY DEF Visible, InTables, In
<1>3. ASSUME version'.l0 = version.l0, version'.l1 = version.l1, InMemory \subseteq InMemory'
      PROVE Visible \subseteq Visible'
 <2>1. Live(version') = Live(version) BY <1>3 DEF Live
 <2> QED BY <1>0, <1>1, <1>2, <1>3, <2>1, SameTables
<1>4. CASE CallStep BY <1>3, <1>4, MemoryCall, CallDoes
<1>5. ASSUME UNCHANGED <<mem, imm>> PROVE InMemory \subseteq InMemory' BY <1>5 DEF InMemory
<1>6. CASE FlushBegin BY <1>3, <1>5, <1>6, FlushBeginDoes
<1>7. CASE FlushBuild BY <1>3, <1>5, <1>7, FlushBuildDoes
<1>8. CASE FlushManifest BY <1>3, <1>5, <1>8, FlushManifestDoes
<1>9. CASE FlushInstall
 <2>1. /\ UNCHANGED mem /\ flush.edit \in EditType
       /\ \/ UNCHANGED <<version, imm>>
          \/ flush.pc = "done" /\ version' = Installed(flush.edit) /\ imm' = Nil
  BY <1>9, FlushInstallDoes
 <2>2. CASE UNCHANGED <<version, imm>> BY <1>3, <1>5, <2>1, <2>2
 <2>3. CASE flush.pc = "done" /\ version' = Installed(flush.edit) /\ imm' = Nil
  <3>1. In(tables', Live(version')) = In(tables, Live(version)) \cup imm
   BY <1>0, <2>1, <2>3, FlushInstalled
  <3>2. InMemory \subseteq InMemory' \cup imm BY <2>1, <2>3 DEF InMemory
  <3> QED BY <1>1, <1>2, <3>1, <3>2
 <2> QED BY <2>1, <2>2, <2>3
<1>10. CASE \E over \in SUBSET version.l1 : CompactBegin(over)
 BY <1>3, <1>5, <1>10, CompactBeginDoes
<1>11. CASE CompactOpen BY <1>3, <1>5, <1>11, CompactOpenDoes
<1>12. CASE CompactWork BY <1>3, <1>5, <1>12, CompactWorkDoes
<1>13. CASE CompactManifest BY <1>3, <1>5, <1>13, CompactManifestDoes
<1>14. CASE CompactInstall
 <2>1. /\ UNCHANGED <<mem, imm>> /\ comp.edit \in EditType
       /\ UNCHANGED version \/ (comp.pc = "done" /\ version' = Installed(comp.edit))
  BY <1>14, CompactInstallDoes
 <2>2. CASE UNCHANGED version BY <1>3, <1>5, <2>1, <2>2
 <2>3. CASE comp.pc = "done" /\ version' = Installed(comp.edit)
  <3>1. In(tables', Live(version')) = In(tables, Live(version))
   BY <1>0, <2>1, <2>3, CompactInstalled
  <3> QED BY <1>1, <1>2, <1>5, <2>1, <3>1
 <2> QED BY <2>1, <2>2, <2>3
<1>15. CASE OpenCleanup BY <1>3, <1>5, <1>15, OpenCleanupDoes
<1>16. CASE FileStep
 BY <1>16, <1>6, <1>7, <1>8, <1>9, <1>10, <1>11, <1>12, <1>13, <1>14 DEF FileStep
<1>17. ~Down /\ ~OpenRecover /\ ~Recovering /\ ~OpenedLog /\ ~OpenedManifest
 BY DEF Down, OpenRecover, Recovering, OpenedLog, OpenedManifest, Running
<1> QED BY <1>4, <1>15, <1>16, <1>17, NextCases

\* No step of an open database takes back what a read could see.
THEOREM ContentsAlwaysGrow == Spec => ContentsOnlyGrow
<1> DEFINE I == Shape /\ Quiet /\ Files /\ Numbers /\ Contents
<1>1. Init => I BY InitShape, InitFiles, InitNumbers, InitContents
<1>2. I /\ [Next]_vars => I' BY ShapeStep, FilesStep, NumbersStep, ContentsStep
<1>3. I /\ [Next]_vars => [up = "open" /\ up' = "open" => Visible \subseteq Visible']_vars
 BY VisibleGrows DEF Running
<1> QED BY <1>1, <1>2, <1>3, PTL DEF Spec, ContentsOnlyGrow

-----------------------------------------------------------------------------
(* Queue: the writers' queue and group commit.                             *)

\* The queue of writers.
\* The rest of a queue is a queue.
LEMMA QueuedPop ==
  ASSUME NEW q \in Seq(Writers), NEW r, NEW r2, Queued(q, r), NEW n \in 1 .. Len(q),
         \A w \in Writers : w \notin {q[i] : i \in 1 .. n} /\ r[w].st = "queued"
                               => r2[w].st = "queued"
  PROVE Queued(SubSeq(q, n + 1, Len(q)), r2)
<1> DEFINE p == SubSeq(q, n + 1, Len(q))
<1>1. Len(q) \in Nat /\ \A i \in 1 .. Len(q) : q[i] \in Writers OBVIOUS
<1>2. Len(p) = Len(q) - n /\ \A i \in 1 .. Len(p) : p[i] = q[i + n]
 <2>1. n + 1 \in 1 .. Len(q) + 1 /\ Len(q) \in n .. Len(q) BY <1>1
 <2>2. /\ Len(p) = IF n + 1 <= Len(q) THEN Len(q) - (n + 1) + 1 ELSE 0
       /\ \A i \in 1 .. Len(q) - (n + 1) + 1 : p[i] = q[n + 1 + i - 1]
  BY <1>1, <2>1, SubSeqProperties
 <2>3. Len(p) = Len(q) - n BY <1>1, <2>2
 <2>4. ASSUME NEW i \in 1 .. Len(p) PROVE p[i] = q[i + n]
  <3>1. i \in 1 .. Len(q) - (n + 1) + 1 /\ n + 1 + i - 1 = i + n BY <1>1, <2>3
  <3> QED BY <2>2, <3>1
 <2> QED BY <2>3, <2>4
<1> HIDE DEF p
<1>3. ASSUME NEW i \in 1 .. Len(p), NEW j \in 1 .. Len(p), p[i] = p[j] PROVE i = j
 <2>1. i + n \in 1 .. Len(q) /\ j + n \in 1 .. Len(q) BY <1>1, <1>2
 <2>2. i + n = j + n BY <1>2, <1>3, <2>1 DEF Queued
 <2> QED BY <2>2
<1>4. ASSUME NEW i \in 1 .. Len(p) PROVE r2[p[i]].st = "queued"
 <2>1. i + n \in 1 .. Len(q) /\ p[i] = q[i + n] BY <1>1, <1>2
 <2>2. \A k \in 1 .. n : q[k] # q[i + n]
  <3> TAKE k \in 1 .. n
  <3>1. k \in 1 .. Len(q) /\ k # i + n BY <1>1
  <3> QED BY <2>1, <3>1 DEF Queued
 <2> QED BY <1>1, <2>1, <2>2 DEF Queued
<1> QED BY <1>3, <1>4 DEF Queued, p

\* The parts of Queue.
LEMMA QueueFieldsOf ==
  ASSUME Queue
  PROVE  /\ Queued(writers, req)
         /\ \A w \in Writers : req[w].st \in {"check", "wait"} => req[w].kind = "flush"
         /\ up # "open" => \A w \in Writers : req[w].st \notin Waiting
         /\ \E k \in {0} \cup Writers : {w \in Writers : req[w].st # "idle"} = 1 .. k
BY DEF Queue, Calls

\* Whoever leads the queue finds the database open.
LEMMA LeaderOpen ==
  ASSUME Shape, Queue, writers # <<>>
  PROVE  /\ up = "open" /\ Head(writers) \in Writers /\ Head(writers) = writers[1]
         /\ req[Head(writers)].st = "queued"
<1>1. writers \in Seq(Writers) BY QueueIs
<1>2. 1 \in 1 .. Len(writers) /\ Head(writers) = writers[1] /\ writers[1] \in Writers
 BY <1>1, NonEmptyLen
<1>3. req[writers[1]].st = "queued" BY <1>2, QueueFieldsOf DEF Queued
<1> QED BY <1>2, <1>3, QueueFieldsOf DEF Waiting

\* The calls go on in one direction.
LEMMA CallsProgress ==
  ASSUME Calls, Progress, up' = up \/ up' = "closed" \/ up # "open",
         up' # "open" /\ up = "open" => \A w \in Writers : req'[w].st \notin Waiting
  PROVE Calls'
<1>1. {w \in Writers : req'[w].st # "idle"} = {w \in Writers : req[w].st # "idle"} BY DEF Progress
<1>2. \A w \in Writers : req'[w].st \in {"check", "wait"} => req'[w].kind = "flush"
 BY DEF Progress, Calls
<1>3. up' # "open" => \A w \in Writers : req'[w].st \notin Waiting BY DEF Progress, Calls
<1>4. \E k \in {0} \cup Writers : {w \in Writers : req'[w].st # "idle"} = 1 .. k BY <1>1 DEF Calls
<1>5. Writers' = Writers BY DEF Writers
<1> QED BY <1>2, <1>3, <1>4, <1>5 DEF Calls, Waiting

\* What the end of Write does, field by field.
LEMMA FinishDoes ==
  ASSUME Shape, Queue, NEW n \in 1 .. Len(writers), NEW s \in {"ok", "error"}, Finish(n, s),
         UNCHANGED up
  PROVE  /\ Queue' /\ Progress
         /\ lead'.group = <<>> /\ lead'.pc \in {"none", "room"}
         /\ \A w \in Leaving(n) : req[w].st = "queued" /\ req'[w].st \in {s, "check"}
         /\ \A w \in Writers : w \notin Leaving(n) => req'[w].st = req[w].st
         /\ \A w \in Leaving(n) : req'[w].st = "check" => req[w].kind = "flush"
<1>1. writers \in Seq(Writers) /\ req \in [Writers -> ReqType] BY QueueIs, ShapeIs
<1>2. /\ lead'.pc \in {"none", "room"} /\ lead'.group = <<>>
      /\ writers' = SubSeq(writers, n + 1, Len(writers))
      /\ \A w \in Writers :
            /\ req'[w].kind = req[w].kind
            /\ IF w \in {writers[i] : i \in 1 .. n}
               THEN req'[w].st \in {"check", s} /\ (req'[w].st = "check" => req[w].kind = "flush")
               ELSE req'[w].st = req[w].st
 BY <1>1, FinishType
<1>3. Leaving(n) \subseteq Writers /\ \A w \in Leaving(n) : req[w].st = "queued"
 <2>1. \A i \in 1 .. n : i \in 1 .. Len(writers) /\ writers[i] \in Writers BY <1>1
 <2> QED BY <2>1, QueueFieldsOf DEF Leaving, Queued
<1>4. Queued(writers', req')
 <2>1. \A w \in Writers : w \notin {writers[i] : i \in 1 .. n} /\ req[w].st = "queued"
                            => req'[w].st = "queued"
  BY <1>2
 <2>2. Queued(writers, req) BY QueueFieldsOf
 <2>3. Queued(SubSeq(writers, n + 1, Len(writers)), req') BY <1>1, <2>1, <2>2, QueuedPop
 <2> QED BY <1>2, <2>3
<1>a. writers # <<>> BY <1>1
<1>5. up = "open" BY <1>a, LeaderOpen
<1>6. Progress
 <2> SUFFICES ASSUME NEW w \in Writers
              PROVE  /\ (req'[w].st = "idle") <=> (req[w].st = "idle")
                     /\ req'[w].kind = req[w].kind
                     /\ req'[w].st \in {"check", "wait"} => req[w].st \in {"check", "wait"}
                                                            \/ req[w].kind = "flush"
                     /\ req'[w].st = "queued" => req[w].st = "queued"
  BY <1>5 DEF Progress
 <2>1. CASE w \in Leaving(n) BY <1>2, <1>3, <2>1 DEF Leaving
 <2>2. CASE w \notin Leaving(n) BY <1>2, <2>2 DEF Leaving
 <2> QED BY <2>1, <2>2
<1>7. Calls' BY <1>6, CallsProgress DEF Queue
<1> QED BY <1>2, <1>3, <1>4, <1>6, <1>7 DEF Leaving, Queue

\* A step that only wakes sleepers.
LEMMA WokenDoes ==
  ASSUME Shape, Queue, Woken, UNCHANGED <<writers, up>>
  PROVE Queue' /\ Progress /\ Group' = Group
<1>1. Progress BY DEF Woken, Progress, Waiting
<1>2. Calls' BY <1>1, CallsProgress DEF Queue
<1>3. Queued(writers', req')
 <2>1. writers \in Seq(Writers) BY QueueIs
 <2>2. \A i \in 1 .. Len(writers) : writers[i] \in Writers BY <2>1
 <2> QED BY <2>2, QueueFieldsOf DEF Queued, Woken
<1>4. Group' = Group
 <2>1. lead.group \in Seq(Writers) /\ lead'.group = lead.group BY QueueIs DEF LeadType, Woken
 <2>2. ToSet(lead.group) \subseteq Writers BY <2>1, BatchesOf
 <2>3. {w \in ToSet(lead.group) : req'[w].kind # "flush"}
         = {w \in ToSet(lead.group) : req[w].kind # "flush"}
  BY <2>2 DEF Woken
 <2> QED BY <2>1, <2>3 DEF Group, Batches
<1> QED BY <1>1, <1>2, <1>3, <1>4 DEF Queue

\* The group is in the queue,
LEMMA GroupMembers ==
  ASSUME Shape, Queue
  PROVE  /\ ToSet(lead.group) \subseteq Writers
         /\ \A w \in ToSet(lead.group) : req[w].st = "queued"
         /\ lead.pc \in Logging => /\ Len(lead.group) \in 1 .. Len(writers)
                                   /\ ToSet(lead.group) = Leaving(Len(lead.group))
         /\ Group = {w \in ToSet(lead.group) : req[w].kind # "flush"}
         /\ Group \in SUBSET Writers
         /\ lead.pc \notin Logging => Group = {}
<1>1. /\ lead.group \in Seq(Writers) /\ writers \in Seq(Writers)
      /\ lead.pc \in Logging => /\ Len(lead.group) \in 1 .. Len(writers)
                                /\ \A i \in 1 .. Len(lead.group) : lead.group[i] = writers[i]
      /\ lead.pc \notin Logging => lead.group = <<>>
 BY QueueIs DEF LeadType
<1>2. /\ ToSet(lead.group) = {lead.group[i] : i \in 1 .. Len(lead.group)}
      /\ ToSet(lead.group) \subseteq Writers
      /\ Group = {w \in ToSet(lead.group) : req[w].kind # "flush"}
      /\ Group \in SUBSET Writers
 BY <1>1, BatchesOf DEF Group
<1>3. CASE lead.pc \in Logging
 <2>1. ToSet(lead.group) = Leaving(Len(lead.group)) BY <1>1, <1>2, <1>3 DEF Leaving
 <2>2. \A i \in 1 .. Len(lead.group) : i \in 1 .. Len(writers) BY <1>1, <1>3
 <2>3. \A w \in ToSet(lead.group) : req[w].st = "queued"
  BY <2>1, <2>2, QueueFieldsOf DEF Leaving, Queued
 <2> QED BY <1>1, <1>2, <1>3, <2>1, <2>3
<1>4. CASE lead.pc \notin Logging
 <2>1. ToSet(lead.group) = {} BY <1>1, <1>2, <1>4
 <2> QED BY <1>2, <1>4, <2>1
<1> QED BY <1>3, <1>4

\* and stays the group while its calls stay calls.
LEMMA GroupKept ==
  ASSUME Shape, Queue, lead'.group = lead.group,
         \A w \in Writers : req[w].st = "queued" => req'[w].kind = req[w].kind
  PROVE Group' = Group
<1>1. ToSet(lead.group) \subseteq Writers /\ \A w \in ToSet(lead.group) : req[w].st = "queued"
 BY GroupMembers
<1>2. {w \in ToSet(lead.group) : req'[w].kind # "flush"}
          = {w \in ToSet(lead.group) : req[w].kind # "flush"}
 BY <1>1
<1> QED BY <1>2 DEF Group, Batches

\* Without a group.
LEMMA NoGroup == ASSUME lead'.group = <<>> PROVE Group' = {}
<1>1. ToSet(<<>>) = {} BY DEF ToSet
<1> QED BY <1>1 DEF Group, Batches

\* From here on, one lemma per step: it keeps Queue and does what its name says.
LEMMA EnqueueDoes ==
  ASSUME Shape, Queue, NEW w \in Writers, NEW kind \in Kinds, Enqueue(w, kind)
  PROVE Queue' /\ QuietCall
<1>1. /\ UNCHANGED <<logs, version, mem, imm, logfile, seqOf, excused>> /\ up = "open" /\ up' = up
      /\ req' = [req EXCEPT ![w] = [kind |-> kind, st |-> "queued"]]
      /\ writers' = Append(writers, w)
      /\ w = 1 + Cardinality({v \in Writers : req[v].st # "idle"})
 BY DEF Enqueue, diskVars, memVars, openVars
<1>2. PICK k \in {0} \cup Writers : {v \in Writers : req[v].st # "idle"} = 1 .. k BY QueueFieldsOf
<1>3. k \in Nat BY WritersAreFinite
<1>4. Cardinality(1 .. k) = k BY <1>3, FS_Interval
<1>5. w = k + 1
 <2>1. Cardinality({v \in Writers : req[v].st # "idle"}) = k BY <1>2, <1>4
 <2>2. w = 1 + k BY <1>1, <2>1
 <2> QED BY <1>3, <2>2
<1>6. req[w].st = "idle" /\ req \in [Writers -> ReqType] BY <1>2, <1>3, <1>5, ShapeIs
<1>7. /\ req'[w].kind = kind /\ req'[w].st = "queued"
      /\ \A v \in Writers : v # w => req'[v] = req[v]
 BY <1>1, <1>6
<1>8. {v \in Writers : req'[v].st # "idle"} = 1 .. w
 <2>1. \A v \in Writers : req'[v].st # "idle" <=> v \in 1 .. k \/ v = w
  <3> TAKE v \in Writers
  <3>1. req[v].st # "idle" <=> v \in 1 .. k BY <1>2
  <3> QED BY <1>7, <3>1
 <2>2. 1 .. w = (1 .. k) \cup {w} BY <1>3, <1>5
 <2>3. 1 .. k \subseteq Writers BY <1>2
 <2> QED BY <2>1, <2>2, <2>3
<1>9. Calls'
 <2>1. \A v \in Writers : req'[v].st \in {"check", "wait"} => req'[v].kind = "flush"
  <3> TAKE v \in Writers
  <3>1. CASE v = w BY <1>7, <3>1
  <3>2. CASE v # w BY <1>7, <3>2, QueueFieldsOf
  <3> QED BY <3>1, <3>2
 <2>2. up' = "open" BY <1>1
 <2> QED BY <1>8, <2>1, <2>2 DEF Calls, Writers
<1>10. Queued(writers', req')
 <2> DEFINE q == writers
            p == writers'
 <2>1. q \in Seq(Writers) /\ Queued(q, req) BY QueueIs, QueueFieldsOf
 <2>2. /\ Len(q) \in Nat /\ Len(p) = Len(q) + 1 /\ p[Len(q) + 1] = w
       /\ \A i \in 1 .. Len(q) : p[i] = q[i] /\ q[i] \in Writers
  BY <1>1, <2>1
 <2>3. \A i \in 1 .. Len(q) : q[i] # w BY <1>6, <2>1 DEF Queued
 <2>4. \A i \in 1 .. Len(p) : i \in 1 .. Len(q) \/ i = Len(q) + 1 BY <2>2
 <2> HIDE DEF q, p
 <2>5. ASSUME NEW i \in 1 .. Len(p), NEW j \in 1 .. Len(p), p[i] = p[j] PROVE i = j
  <3>1. CASE i \in 1 .. Len(q) /\ j \in 1 .. Len(q) BY <2>1, <2>2, <2>5, <3>1 DEF Queued
  <3>2. CASE i = Len(q) + 1 \/ j = Len(q) + 1 BY <2>2, <2>3, <2>4, <2>5, <3>2
  <3> QED BY <2>4, <3>1, <3>2
 <2>6. ASSUME NEW i \in 1 .. Len(p) PROVE req'[p[i]].st = "queued"
  <3>1. CASE i \in 1 .. Len(q) BY <1>7, <2>1, <2>2, <2>3, <3>1 DEF Queued
  <3>2. CASE i = Len(q) + 1 BY <1>7, <2>2, <3>2
  <3> QED BY <2>4, <3>1, <3>2
 <2> QED BY <2>5, <2>6 DEF Queued, p
<1>11. lead'.group = lead.group /\ (lead'.pc \in Logging => lead' = lead /\ writers # <<>>)
 <2>1. CASE writers = <<>>
  <3>1. lead'.pc = "room" /\ lead'.group = <<>> BY <2>1 DEF Enqueue
  <3>2. lead.pc = "none" /\ lead.group = <<>> BY <2>1, QueueIs DEF Logging
  <3> QED BY <3>1, <3>2 DEF Logging
 <2>2. CASE writers # <<>> BY <2>2 DEF Enqueue
 <2> QED BY <2>1, <2>2
<1>12. Group' = Group BY <1>6, <1>7, <1>11, GroupKept
<1>13. Onward
 <2> SUFFICES ASSUME NEW v \in Writers
              PROVE  /\ req[v].st \notin Fresh => req'[v].st \notin Fresh
                     /\ req[v].st # "idle" => req'[v].kind = req[v].kind
                     /\ req'[v].st = "ok" => req[v].st = "ok" \/ req'[v].kind = "flush"
  BY DEF Onward
 <2>1. CASE v = w BY <1>6, <1>7, <2>1 DEF Fresh
 <2>2. CASE v # w BY <1>7, <2>2
 <2> QED BY <2>1, <2>2
<1>14. SameLead
 <2> SUFFICES ASSUME lead'.pc \in Logging
              PROVE lead'.pc = lead.pc /\ req'[Head(writers')].kind = req[Head(writers)].kind
  BY DEF SameLead
 <2>1. lead' = lead /\ writers # <<>> BY <1>11
 <2>2. Head(writers) \in Writers /\ req[Head(writers)].st = "queued" BY <2>1, LeaderOpen
 <2>3. Head(writers') = Head(writers)
  <3>1. writers \in Seq(Writers) BY QueueIs
  <3> QED BY <1>1, <2>1, <3>1
 <2>4. Head(writers) # w BY <1>6, <2>2
 <2> QED BY <1>7, <2>1, <2>2, <2>3, <2>4
<1> QED BY <1>1, <1>9, <1>10, <1>12, <1>13, <1>14 DEF Queue, QuietCall

\* A call that ends without a batch.
LEMMA QuietFinish ==
  ASSUME Shape, Queue, InLoop, NEW s \in {"ok", "error"}, Finish(1, s),
         s = "ok" => req[Head(writers)].kind = "flush",
         UNCHANGED <<up, logs, version, mem, imm, logfile, seqOf, excused>>
  PROVE Queue' /\ QuietCall
<1>1. writers # <<>> /\ 1 \in 1 .. Len(writers) BY InLoopQueue
<1> DEFINE n == 1
<1>2. n \in 1 .. Len(writers) /\ Finish(n, s) BY <1>1
<1> HIDE DEF n
<1>3. /\ Queue' /\ Progress
      /\ lead'.group = <<>> /\ lead'.pc \in {"none", "room"}
      /\ \A w \in Leaving(n) : req[w].st = "queued" /\ req'[w].st \in {s, "check"}
      /\ \A w \in Writers : w \notin Leaving(n) => req'[w].st = req[w].st
 BY <1>2, FinishDoes
<1>4. Leaving(n) = {Head(writers)}
 <2>1. Head(writers) = writers[1] BY <1>1, LeaderOpen
 <2>2. 1 .. n = {1} BY DEF n
 <2> QED BY <2>1, <2>2 DEF Leaving
<1>5. Group = {} /\ Group' = {} BY <1>3, GroupMembers, NoGroup DEF InLoop, Logging
<1>6. Onward
 <2> SUFFICES ASSUME NEW v \in Writers
              PROVE  /\ req[v].st \notin Fresh => req'[v].st \notin Fresh
                     /\ req'[v].kind = req[v].kind
                     /\ req'[v].st = "ok" => req[v].st = "ok" \/ req'[v].kind = "flush"
  BY DEF Onward
 <2>1. req'[v].kind = req[v].kind BY <1>3 DEF Progress
 <2>2. CASE v \in Leaving(n) BY <1>3, <1>4, <2>1, <2>2 DEF Fresh
 <2>3. CASE v \notin Leaving(n) BY <1>3, <2>1, <2>3
 <2> QED BY <2>2, <2>3
<1>7. SameLead BY <1>3 DEF SameLead, Logging
<1> QED BY <1>3, <1>5, <1>6, <1>7 DEF QuietCall

\* A step that touches neither the callers nor the leader's group.
LEMMA QuietLoop ==
  ASSUME Shape, Queue, InLoop, lead'.group = lead.group, lead'.pc \in {"room", "waiting"},
         UNCHANGED <<up, logs, version, mem, imm, logfile, seqOf, excused, writers, req>>
  PROVE Queue' /\ QuietCall
<1>1. Group' = Group BY GroupKept
<1>2. Onward /\ SameLead BY DEF Onward, SameLead, Logging
<1>3. Queue' BY DEF Queue, Calls, Queued, Waiting, Writers
<1> QED BY <1>1, <1>2, <1>3 DEF QuietCall

\* A call that is only woken.
LEMMA WokenQuiet ==
  ASSUME Shape, Queue, Woken,
         UNCHANGED <<up, logs, version, mem, imm, logfile, seqOf, excused, writers>>
  PROVE Queue' /\ QuietCall
<1>1. Queue' /\ Group' = Group BY WokenDoes
<1>2. Onward BY DEF Onward, Woken, Fresh
<1>3. SameLead
 <2> SUFFICES ASSUME lead'.pc \in Logging
              PROVE lead'.pc = lead.pc /\ req'[Head(writers')].kind = req[Head(writers)].kind
  BY DEF SameLead
 <2>1. lead'.pc = lead.pc BY DEF Woken, Logging
 <2>2. writers # <<>> BY <2>1, QueueIs DEF Logging
 <2>3. Head(writers) \in Writers BY <2>2, LeaderOpen
 <2> QED BY <2>1, <2>3 DEF Woken
<1> QED BY <1>1, <1>2, <1>3 DEF QuietCall

LEMMA AwaitImmDoes ==
  ASSUME Shape, Queue, NEW w \in Writers, AwaitImm(w) PROVE Queue' /\ QuietCall
<1> DEFINE s == CASE imm = Nil -> "ok" [] imm # Nil /\ bgError -> "error" [] OTHER -> "wait"
<1>1. /\ req[w].st = "check" /\ req' = [req EXCEPT ![w].st = s]
      /\ UNCHANGED <<up, logs, version, mem, imm, logfile, seqOf, excused, writers, lead>>
 BY DEF AwaitImm, diskVars, openVars, memVars
<1>2. s \in {"ok", "error", "wait"} OBVIOUS
<1> HIDE DEF s
<1>3. req \in [Writers -> ReqType] /\ req[w] \in ReqType BY ShapeIs
<1>4. req'[w].kind = req[w].kind /\ req'[w].st = s /\ \A v \in Writers : v # w => req'[v] = req[v]
 BY <1>1, <1>3 DEF ReqType
<1>5. req[w].kind = "flush" BY <1>1, QueueFieldsOf
<1>6. Progress
 <2> SUFFICES ASSUME NEW v \in Writers
              PROVE  /\ (req'[v].st = "idle") <=> (req[v].st = "idle")
                     /\ req'[v].kind = req[v].kind
                     /\ req'[v].st \in {"check", "wait"} => req[v].st \in {"check", "wait"}
                                                            \/ req[v].kind = "flush"
                     /\ req'[v].st = "queued" => req[v].st = "queued"
                     /\ up # "open" /\ req'[v].st \in Waiting => req[v].st \in Waiting
  BY DEF Progress
 <2>1. CASE v = w BY <1>1, <1>2, <1>4, <1>5, <2>1 DEF Waiting
 <2>2. CASE v # w BY <1>4, <2>2
 <2> QED BY <2>1, <2>2
<1>7. Calls' BY <1>1, <1>6, CallsProgress DEF Queue
<1>8. Queued(writers', req')
 <2>1. writers \in Seq(Writers) /\ Queued(writers, req) BY QueueIs, QueueFieldsOf
 <2>2. \A i \in 1 .. Len(writers) : writers[i] \in Writers /\ writers[i] # w
  BY <1>1, <2>1 DEF Queued
 <2> QED BY <1>1, <1>4, <2>1, <2>2 DEF Queued
<1>9. Group' = Group BY <1>1, <1>6, GroupKept DEF Progress
<1>10. Onward
 <2> SUFFICES ASSUME NEW v \in Writers
              PROVE  /\ req[v].st \notin Fresh => req'[v].st \notin Fresh
                     /\ req'[v].kind = req[v].kind
                     /\ req'[v].st = "ok" => req[v].st = "ok" \/ req'[v].kind = "flush"
  BY DEF Onward
 <2>1. CASE v = w BY <1>2, <1>4, <1>5, <2>1 DEF Fresh
 <2>2. CASE v # w BY <1>4, <2>2
 <2> QED BY <2>1, <2>2
<1>11. SameLead
 <2> SUFFICES ASSUME lead'.pc \in Logging
              PROVE lead'.pc = lead.pc /\ req'[Head(writers')].kind = req[Head(writers)].kind
  BY DEF SameLead
 <2>2. writers # <<>> BY <1>1, QueueIs DEF Logging
 <2>3. Head(writers) \in Writers BY <2>2, LeaderOpen
 <2> QED BY <1>1, <1>6, <2>3 DEF Progress
<1> QED BY <1>1, <1>7, <1>8, <1>9, <1>10, <1>11 DEF Queue, QuietCall

LEMMA CloseDoes ==
  ASSUME Shape, Queue, Close \/ UNCHANGED vars PROVE Queue' /\ QuietCall
<1>1. /\ UNCHANGED <<logs, version, mem, imm, logfile, seqOf, excused, writers, lead, req>>
      /\ up' = up \/ \A w \in Writers : req[w].st \notin Waiting
 BY DEF Close, vars, diskVars, openVars, memVars, bgVars, callVars, Waiting
<1>2. Group' = Group BY <1>1, GroupKept
<1>3. Onward /\ SameLead BY <1>1 DEF Onward, SameLead
<1>4. Queued(writers', req') BY <1>1, QueueFieldsOf
<1>5. Calls'
 <2>1. Calls BY DEF Queue
 <2> QED BY <1>1, <2>1 DEF Calls, Waiting, Writers
<1> QED BY <1>1, <1>2, <1>3, <1>4, <1>5 DEF Queue, QuietCall

LEMMA SwitchDoes ==
  ASSUME Shape, Queue, SwitchMemTable PROVE Queue' /\ (QuietCall \/ Switched)
<1>1. UNCHANGED <<up, seqOf, excused>> BY DEF SwitchMemTable, openVars
<1>2. InLoop /\ imm = Nil BY DEF SwitchMemTable, MustWait
<1>3. ASSUME logfile' = version.next,
             version' = [version EXCEPT !.next = version.next + 1],
             logs' = [n \in DOMAIN logs \cup {logfile'} |->
                        IF n = logfile' THEN [recs |-> <<>>, synced |-> 0] ELSE logs[n]],
             imm' = mem, mem' = {},
             lead' = [lead EXCEPT !.pc = "switched", !.force = FALSE],
             UNCHANGED <<writers, req>>
      PROVE Queue' /\ Switched
 <2>1. version.next \in Nat /\ version.next + 1 \in Nat BY ShapeIs, VersionIs
 <2>2. Same(version', version) /\ version'.next = version.next + 1 /\ version'.seq = version.seq
  BY <1>3, <2>1, ShapeIs, BumpNext DEF Same
 <2>3. /\ DOMAIN logs' = DOMAIN logs \cup {logfile'} /\ logs'[logfile'].recs = <<>>
       /\ \A k \in DOMAIN logs : k # logfile' => logs'[k] = logs[k]
  <3>1. logfile' \in Nat BY <1>3, <2>1
  <3> QED BY <1>3, <3>1, ShapeIs, NewLogOK
 <2>4. lead'.pc = "switched" /\ lead'.group = <<>>
  BY <1>2, <1>3, InLoopQueue, QueueIs DEF LeadType
 <2>5. Group' = {} BY <2>4, NoGroup
 <2>6. Group = {} BY <1>2, GroupMembers DEF InLoop, Logging
 <2>7. Queue' BY <1>1, <1>3 DEF Queue, Calls, Queued, Waiting, Writers
 <2> QED BY <1>1, <1>2, <1>3, <2>2, <2>3, <2>4, <2>5, <2>6, <2>7 DEF Switched
<1>4. ASSUME Finish(1, "error"), UNCHANGED <<logs, version, mem, imm, logfile>>
      PROVE Queue' /\ QuietCall
 <2> DEFINE s == "error"
 <2>1. s \in {"ok", "error"} /\ Finish(1, s) /\ s # "ok" BY <1>4
 <2> HIDE DEF s
 <2> QED BY <1>1, <1>2, <1>4, <2>1, QuietFinish
<1> QED BY <1>3, <1>4 DEF SwitchMemTable

LEMMA MakeRoomDoneDoes ==
  ASSUME Shape, Queue, MakeRoomDone PROVE Queue' /\ (QuietCall \/ Grouped)
<1>1. UNCHANGED <<logs, up, version, mem, imm, logfile, excused>> /\ InLoop
 BY DEF MakeRoomDone, diskVars, openVars, memVars
<1>3. writers # <<>> /\ 1 \in 1 .. Len(writers) /\ writers \in Seq(Writers) /\ lead \in LeadType
 BY <1>1, InLoopQueue, QueueIs
<1>4. ASSUME req[Head(writers)].kind = "flush", Finish(1, "ok"), UNCHANGED seqOf
      PROVE Queue' /\ QuietCall
 <2> DEFINE s == "ok"
 <2>1. s \in {"ok", "error"} /\ Finish(1, s) BY <1>4
 <2> HIDE DEF s
 <2> QED BY <1>1, <1>4, <2>1, QuietFinish
<1> DEFINE n == BuildBatchGroup
           group == SubSeq(writers, 1, n)
           batch == Batches(group)
           s == [w \in Writers |-> IF w \in batch
                                   THEN version.seq + Cardinality({v \in batch : v <= w})
                                   ELSE seqOf[w]]
<1>5. ASSUME lead' = [lead EXCEPT !.pc = "logging", !.group = group], seqOf' = s,
             UNCHANGED <<writers, req>>
      PROVE Queue' /\ Grouped
 <2>1. /\ n \in 1 .. Len(writers)
       /\ \A i \in 2 .. n : req[writers[i]].kind # "sync" \/ req[Head(writers)].kind = "sync"
  BY <1>3, BuildBatchGroupRange
 <2> HIDE DEF n
 <2>2. /\ group \in Seq(Writers) /\ Len(group) = n /\ \A i \in 1 .. n : group[i] = writers[i]
  BY <1>3, <2>1, SubSeqProperties
 <2> HIDE DEF group
 <2>3. lead'.pc = "logging" /\ lead'.group = group BY <1>5, <1>3, <2>2 DEF LeadType
 <2>4. /\ ToSet(group) = {group[i] : i \in 1 .. n}
       /\ batch = {w \in ToSet(group) : req[w].kind # "flush"}
       /\ batch \in SUBSET Writers
  BY <2>2, BatchesOf
 <2>5. Group' = batch BY <1>5, <2>3 DEF Group, Batches
 <2>6. \A w \in batch : \E i \in 1 .. n : w = writers[i] BY <2>2, <2>4
 <2> HIDE DEF batch
 <2>7. \A w \in batch : req[w].st = "queued"
  <3> TAKE w \in batch
  <3>1. PICK i \in 1 .. n : w = writers[i] BY <2>6
  <3>2. i \in 1 .. Len(writers) BY <2>1
  <3> QED BY <3>1, <3>2, QueueFieldsOf DEF Queued
 <2>8. req[Head(writers)].kind # "sync" => \A w \in batch : req[w].kind # "sync"
  <3> SUFFICES ASSUME req[Head(writers)].kind # "sync", NEW w \in batch
               PROVE req[w].kind # "sync"
   OBVIOUS
  <3>1. PICK i \in 1 .. n : w = writers[i] BY <2>6
  <3>2. CASE i = 1 BY <1>3, <3>1, <3>2, LeaderOpen
  <3>3. CASE i # 1
   <4>1. i \in 2 .. n BY <2>1, <3>3
   <4> QED BY <2>1, <3>1, <4>1
  <3> QED BY <3>2, <3>3
 <2>9. \A w \in Writers : seqOf'[w] = IF w \in batch
                                      THEN version.seq + Cardinality({v \in batch : v <= w})
                                      ELSE seqOf[w]
  BY <1>5
 <2>10. Group = {} BY <1>1, GroupMembers DEF InLoop, Logging
 <2>11. Queue' BY <1>1, <1>5 DEF Queue, Calls, Queued, Waiting, Writers
 <2>12. \A w \in Group' : seqOf'[w] = version.seq + Cardinality({v \in Group' : v <= w})
  BY <2>4, <2>5, <2>9
 <2>13. \A w \in Writers : w \notin Group' => seqOf'[w] = seqOf[w] BY <2>5, <2>9
 <2> HIDE DEF s
 <2> QED BY <1>1, <1>5, <2>3, <2>4, <2>5, <2>7, <2>8, <2>10, <2>11, <2>12, <2>13 DEF Grouped
<1> QED BY <1>4, <1>5 DEF MakeRoomDone

LEMMA GroupPasses ==
  ASSUME Shape, Queue, lead.pc \in Logging, NEW s \in {"ok", "error"},
         Finish(Len(lead.group), s), version' = [version EXCEPT !.seq = LastSequence],
         UNCHANGED <<seqOf, logfile, imm, up>>
  PROVE Queue' /\ Passed(s)
<1> DEFINE n == Len(lead.group)
<1>1. /\ n \in 1 .. Len(writers) /\ ToSet(lead.group) = Leaving(n)
      /\ Group = {w \in ToSet(lead.group) : req[w].kind # "flush"}
 BY GroupMembers
<1>2. Finish(n, s) OBVIOUS
<1> HIDE DEF n
<1>3. /\ Queue' /\ Progress
      /\ lead'.group = <<>> /\ lead'.pc \in {"none", "room"}
      /\ \A w \in Leaving(n) : req[w].st = "queued" /\ req'[w].st \in {s, "check"}
      /\ \A w \in Writers : w \notin Leaving(n) => req'[w].st = req[w].st
      /\ \A w \in Leaving(n) : req'[w].st = "check" => req[w].kind = "flush"
 BY <1>1, <1>2, FinishDoes
<1>4. Group' = {} BY <1>3, NoGroup
<1>5. Same(version', version) /\ version'.next = version.next /\ version'.seq = LastSequence
 BY GroupBatches, BumpSeq, ShapeIs DEF Same
<1>6. ASSUME NEW w \in Writers
      PROVE  /\ req'[w].kind = req[w].kind
             /\ req[w].st \notin Fresh => req'[w].st \notin Fresh
             /\ w \in Group => req'[w].st = s
             /\ req'[w].st = "ok" /\ req[w].kind # "flush" =>
                   req[w].st = "ok" \/ (w \in Group /\ s = "ok")
 <2>1. req'[w].kind = req[w].kind BY <1>3 DEF Progress
 <2>2. CASE w \in Leaving(n) BY <1>1, <1>3, <2>1, <2>2 DEF Fresh
 <2>3. CASE w \notin Leaving(n) BY <1>1, <1>3, <2>1, <2>3
 <2> QED BY <2>2, <2>3
<1> QED BY <1>3, <1>4, <1>5, <1>6 DEF Passed, Logging

LEMMA SyncFailsDoes ==
  ASSUME Shape, Queue, SyncLogFails
  PROVE Queue' /\ Passed("error") /\ UNCHANGED <<logs, mem, excused>>
<1>1. /\ UNCHANGED <<logs, mem, excused, seqOf, logfile, imm, up>> /\ lead.pc = "syncing"
      /\ version' = [version EXCEPT !.seq = LastSequence]
 BY DEF SyncLogFails, diskVars, openVars
<1> DEFINE n == Len(lead.group)
<1>2. /\ n \in 1 .. Len(writers) /\ ToSet(lead.group) = Leaving(n)
      /\ Group = {w \in ToSet(lead.group) : req[w].kind # "flush"}
      /\ \A w \in ToSet(lead.group) : req[w].st = "queued"
 BY <1>1, GroupMembers DEF Logging
<1>3. /\ writers' = SubSeq(writers, n + 1, Len(writers))
      /\ lead'.pc \in {"none", "room"} /\ lead'.group = <<>>
      /\ \A w \in Writers :
            /\ req'[w].kind = req[w].kind
            /\ IF w \in Leaving(n) THEN req'[w].st = "error"
               ELSE req'[w].st = IF req[w].st = "wait" THEN "check" ELSE req[w].st
 BY SyncFailsQueue DEF Leaving
<1> HIDE DEF n
<1>4. writers # <<>> /\ up = "open" BY <1>1, QueueIs, LeaderOpen
<1>5. Progress
 <2> SUFFICES ASSUME NEW w \in Writers
              PROVE  /\ (req'[w].st = "idle") <=> (req[w].st = "idle")
                     /\ req'[w].kind = req[w].kind
                     /\ req'[w].st \in {"check", "wait"} => req[w].st \in {"check", "wait"}
                                                            \/ req[w].kind = "flush"
                     /\ req'[w].st = "queued" => req[w].st = "queued"
  BY <1>4 DEF Progress
 <2>1. CASE w \in Leaving(n) BY <1>2, <1>3, <2>1
 <2>2. CASE w \notin Leaving(n) BY <1>3, <2>2
 <2> QED BY <2>1, <2>2
<1>6. Calls' BY <1>1, <1>5, CallsProgress DEF Queue
<1>7. Queued(writers', req')
 <2>1. \A w \in Writers : w \notin {writers[i] : i \in 1 .. n} /\ req[w].st = "queued"
                            => req'[w].st = "queued"
  BY <1>3 DEF Leaving
 <2>2. Queued(writers, req) /\ writers \in Seq(Writers) BY QueueFieldsOf, QueueIs
 <2>3. Queued(SubSeq(writers, n + 1, Len(writers)), req') BY <1>2, <2>1, <2>2, QueuedPop
 <2> QED BY <1>3, <2>3
<1>8. Group' = {} BY <1>3, NoGroup
<1>9. Same(version', version) /\ version'.next = version.next /\ version'.seq = LastSequence
 BY <1>1, GroupBatches, BumpSeq, ShapeIs DEF Same
<1>10. ASSUME NEW w \in Writers
      PROVE  /\ req'[w].kind = req[w].kind
             /\ req[w].st \notin Fresh => req'[w].st \notin Fresh
             /\ w \in Group => req'[w].st = "error"
             /\ req'[w].st = "ok" => req[w].st = "ok"
 <2>2. CASE w \in Leaving(n) BY <1>2, <1>3, <2>2 DEF Fresh
 <2>3. CASE w \notin Leaving(n) BY <1>2, <1>3, <2>3 DEF Fresh
 <2> QED BY <2>2, <2>3
<1> QED BY <1>1, <1>3, <1>6, <1>7, <1>8, <1>9, <1>10 DEF Passed, Logging, Queue

LEMMA AddFailsDoes ==
  ASSUME Shape, Queue, AddRecordFails
  PROVE Queue' /\ Passed("error") /\ UNCHANGED <<mem, excused>> /\ PerhapsLogged
<1>0. {} \in SUBSET Group /\ Group \in SUBSET Group /\ Group \in SUBSET Writers BY GroupMembers
<1>1. /\ UNCHANGED <<mem, excused, seqOf, logfile, imm, up>> /\ lead.pc \in Logging
      /\ PerhapsLogged
      /\ version' = [version EXCEPT !.seq = LastSequence]
 BY <1>0 DEF AddRecordFails, openVars, Logging, Group, TornLog, PerhapsLogged
<1> DEFINE s == "error"
<1>2. Finish(Len(lead.group), s) /\ s \in {"ok", "error"} BY DEF AddRecordFails
<1> HIDE DEF s
<1>3. Queue' /\ Passed(s) BY <1>1, <1>2, GroupPasses
<1> QED BY <1>1, <1>3 DEF s

LEMMA ApplyDoes ==
  ASSUME Shape, Queue, ApplyGroup
  PROVE  /\ Queue' /\ Passed("ok") /\ UNCHANGED logs /\ mem' = mem \cup Group
         /\ lead.pc = "applying"
         /\ excused \subseteq excused'
         /\ TornLog \in ToSet(logs[logfile].recs) => Group \subseteq excused'
<1>1. /\ UNCHANGED <<logs, seqOf, logfile, imm, up>> /\ lead.pc = "applying" /\ lead.pc \in Logging
      /\ mem' = mem \cup Group
      /\ excused \subseteq excused'
      /\ TornLog \in ToSet(logs[logfile].recs) => Group \subseteq excused'
      /\ version' = [version EXCEPT !.seq = LastSequence]
 BY DEF ApplyGroup, openVars, diskVars, Logging, Group
<1> DEFINE s == "ok"
<1>2. Finish(Len(lead.group), s) /\ s \in {"ok", "error"} BY DEF ApplyGroup
<1> HIDE DEF s
<1>3. Queue' /\ Passed(s) BY <1>1, <1>2, GroupPasses
<1> QED BY <1>1, <1>3 DEF s

LEMMA AddRecordDoes ==
  ASSUME Shape, Queue, AddRecord
  PROVE  /\ Queue' /\ Group' = Group /\ lead.pc \in Logging /\ logs' = LogWith(Group)
         /\ lead'.pc = IF req[Head(writers)].kind = "sync" THEN "syncing" ELSE "applying"
         /\ UNCHANGED <<version, mem, imm, logfile, writers, req, seqOf, excused, up>>
<1>1. /\ UNCHANGED <<version, mem, imm, logfile, writers, req, seqOf, excused, up>>
      /\ lead.pc = "logging" /\ logs' = LogWith(Group)
 BY DEF AddRecord, openVars, memVars, Group
<1> DEFINE p == IF req[Head(writers)].kind = "sync" THEN "syncing" ELSE "applying"
<1>2. lead' = [lead EXCEPT !.pc = p] BY DEF AddRecord
<1> HIDE DEF p
<1>3. lead'.pc = p /\ lead'.group = lead.group BY <1>2, QueueIs DEF LeadType
<1>4. Group' = Group BY <1>1, <1>3, GroupKept
<1>5. Queue' BY <1>1 DEF Queue, Calls, Queued, Waiting, Writers
<1> QED BY <1>1, <1>3, <1>4, <1>5 DEF Logging, p

LEMMA SyncLogDoes ==
  ASSUME Shape, Queue, SyncLog
  PROVE  /\ Queue' /\ Group' = Group /\ lead.pc = "syncing" /\ lead'.pc = "applying"
         /\ DOMAIN logs' = DOMAIN logs
         /\ \A n \in DOMAIN logs : logs'[n].recs = logs[n].recs /\ logs[n].synced <= logs'[n].synced
         /\ logfile \in DOMAIN logs => logs'[logfile].synced = Len(logs[logfile].recs)
         /\ UNCHANGED <<version, mem, imm, logfile, writers, req, seqOf, excused, up>>
<1>1. /\ UNCHANGED <<version, mem, imm, logfile, writers, req, seqOf, excused, up>>
      /\ lead.pc = "syncing"
      /\ logs' = [logs EXCEPT ![logfile].synced = Len(logs[logfile].recs)]
      /\ lead' = [lead EXCEPT !.pc = "applying"]
 BY DEF SyncLog, openVars, memVars
<1>3. lead'.pc = "applying" /\ lead'.group = lead.group BY <1>1, QueueIs DEF LeadType
<1>4. Group' = Group BY <1>1, <1>3, GroupKept
<1>5. Queue' BY <1>1 DEF Queue, Calls, Queued, Waiting, Writers
<1>6. DOMAIN logs' = DOMAIN logs BY <1>1
<1>7. ASSUME NEW n \in DOMAIN logs
      PROVE  /\ logs'[n].recs = logs[n].recs /\ logs[n].synced <= logs'[n].synced
             /\ n = logfile => logs'[n].synced = Len(logs[n].recs)
 <2>1. logs[n] \in LogFileType /\ logs[n].synced <= Len(logs[n].recs) BY ShapeIs DEF LogsOK
 <2>2. CASE n = logfile BY <1>1, <2>1, <2>2 DEF LogFileType
 <2>3. CASE n # logfile BY <1>1, <2>1, <2>3 DEF LogFileType
 <2> QED BY <2>2, <2>3
<1> QED BY <1>1, <1>3, <1>4, <1>5, <1>6, <1>7

\* The steps of callers and of the leader, by what they write.
LEMMA CallCases ==
  ASSUME Shape, Queue, CallStep
  PROVE  /\ Queue'
         /\ \/ QuietCall \/ Switched \/ Grouped \/ AddRecord \/ AddRecordFails
            \/ SyncLog \/ SyncLogFails \/ ApplyGroup
<1>1. CASE \E w \in Writers, kind \in Kinds : Enqueue(w, kind) BY <1>1, EnqueueDoes
<1>2. CASE \E w \in Writers : AwaitImm(w) BY <1>2, AwaitImmDoes
<1>3. CASE Close \/ UNCHANGED vars BY <1>3, CloseDoes
<1>4. CASE BackgroundCallSkips
 <2>1. UNCHANGED <<up, logs, version, mem, imm, logfile, seqOf, excused, writers>> /\ SignalAll
  BY <1>4 DEF BackgroundCallSkips, EndCall, diskVars, openVars, memVars
 <2> QED BY <2>1, SignalWakes, WokenQuiet
<1>5. CASE MakeRoomError
 <2> DEFINE s == "error"
 <2>1. /\ UNCHANGED <<up, logs, version, mem, imm, logfile, seqOf, excused>> /\ InLoop
       /\ Finish(1, s) /\ s \in {"ok", "error"} /\ s # "ok"
  BY <1>5 DEF MakeRoomError, diskVars, openVars, memVars
 <2> HIDE DEF s
 <2> QED BY <2>1, QuietFinish
<1>6. CASE MakeRoomDelay \/ MakeRoomWait
 <2>1. /\ UNCHANGED <<up, logs, version, mem, imm, logfile, seqOf, excused, writers, req>> /\ InLoop
  BY <1>6 DEF MakeRoomDelay, MakeRoomWait, diskVars, openVars, memVars
 <2>2. lead'.group = lead.group /\ lead'.pc \in {"room", "waiting"}
  BY <1>6, QueueIs DEF MakeRoomDelay, MakeRoomWait, LeadType
 <2> QED BY <2>1, <2>2, QuietLoop
<1>7. CASE SwitchMemTable BY <1>7, SwitchDoes
<1>8. CASE MakeRoomDone BY <1>8, MakeRoomDoneDoes
<1>9. CASE AddRecord BY <1>9, AddRecordDoes
<1>10. CASE AddRecordFails BY <1>10, AddFailsDoes
<1>11. CASE SyncLog BY <1>11, SyncLogDoes
<1>12. CASE SyncLogFails BY <1>12, SyncFailsDoes
<1>13. CASE ApplyGroup BY <1>13, ApplyDoes
<1>14. CASE LeaderStep
 BY <1>14, <1>5, <1>6, <1>7, <1>8, <1>9, <1>10, <1>11, <1>12, <1>13 DEF LeaderStep
<1> QED BY <1>1, <1>2, <1>3, <1>4, <1>14 DEF CallStep

\* The background thread leaves the callers alone but for waking them.
LEMMA FileStepCallers ==
  ASSUME Shape, Quiet, FileStep
  PROVE  /\ UNCHANGED <<up, rec, mem, logfile, writers, seqOf, excused>> /\ Woken
         /\ up \in {"open", "closing"}
         /\ version'.seq = version.seq /\ version.next <= version'.next
<1>0. version.next \in Nat BY ShapeIs, VersionIs
<1>1. CASE FlushBegin BY <1>0, <1>1, FlushBeginDoes, NobodyWoken
<1>2. CASE FlushBuild BY <1>0, <1>2, FlushBuildDoes
<1>3. CASE FlushManifest BY <1>0, <1>3, FlushManifestDoes, NobodyWoken
<1>4. CASE FlushInstall BY <1>0, <1>4, FlushInstallDoes, InstalledIs, ShapeIs
<1>5. CASE \E over \in SUBSET version.l1 : CompactBegin(over)
 BY <1>0, <1>5, CompactBeginDoes, NobodyWoken
<1>6. CASE CompactOpen BY <1>0, <1>6, CompactOpenDoes, NobodyWoken
<1>7. CASE CompactWork BY <1>0, <1>7, CompactWorkDoes
<1>8. CASE CompactManifest BY <1>0, <1>8, CompactManifestDoes, NobodyWoken
<1>9. CASE CompactInstall BY <1>0, <1>9, CompactInstallDoes, InstalledIs, ShapeIs
<1> QED BY <1>1, <1>2, <1>3, <1>4, <1>5, <1>6, <1>7, <1>8, <1>9 DEF FileStep

\* DB::Open leaves the callers alone.
LEMMA OpeningCallers ==
  ASSUME Shape, Quiet, OpeningStep
  PROVE  /\ UNCHANGED <<mem, imm, writers, lead, req, seqOf, excused, flush, comp>> /\ up # "open"
         /\ up \notin {"open", "closing"} /\ lead.pc = "none" /\ lead.group = <<>>
         /\ flush.pc = "none" /\ comp.pc = "none" /\ mem = {} /\ imm = Nil
<1>1. UNCHANGED <<mem, imm, writers, lead, req, seqOf, excused, flush, comp>>
      /\ up \notin {"open", "closing"}
 BY OpenRecoverDoes, OpenCleanupDoes DEF OpeningStep, Recovering, OpenedLog, OpenedManifest
<1>2. flush.pc = "none" /\ comp.pc = "none" /\ mem = {} /\ imm = Nil /\ lead = NoLead
 BY <1>1, NotWorking
<1> QED BY <1>1, <1>2, NoLeadType

\* The callers of a process that ends.
LEMMA DownCallers ==
  ASSUME Shape, Down
  PROVE  /\ Progress /\ lead'.group = <<>> /\ Onward /\ writers' = <<>> /\ lead'.pc = "none"
         /\ mem' = {} /\ imm' = Nil /\ flush' = NoFlush /\ comp' = NoComp
<1>1. Progress BY DEF Down, Progress, Waiting
<1>2. Onward BY DEF Down, Onward, Fresh
<1> QED BY <1>1, <1>2, ForgetDoes, NoLeadType DEF Down

\* Every step keeps Queue.
LEMMA QueueStep == Shape /\ Quiet /\ Queue /\ [Next]_vars => Queue'
<1> SUFFICES ASSUME Shape, Quiet, Queue, [Next]_vars PROVE Queue' OBVIOUS
<1>1. CASE CallStep BY <1>1, CallCases
<1>2. CASE FileStep BY <1>2, FileStepCallers, WokenDoes
<1>3. CASE OpeningStep
 <2>1. UNCHANGED <<writers, req>> /\ up # "open" BY <1>3, OpeningCallers
 <2> QED BY <2>1 DEF Queue, Calls, Queued, Waiting, Writers
<1>4. CASE Down
 <2>1. Progress /\ writers' = <<>> BY <1>4, DownCallers
 <2>2. Calls BY DEF Queue
 <2>3. up' = "closed" /\ (up = "open" => \A w \in Writers : req'[w].st \notin Waiting)
  BY <1>4 DEF Down, Waiting
 <2>4. Calls' BY <2>1, <2>2, <2>3, CallsProgress
 <2>5. Queued(writers', req') BY <2>1 DEF Queued
 <2> QED BY <2>4, <2>5 DEF Queue
<1> QED BY <1>1, <1>2, <1>3, <1>4, NextCases DEF OpeningStep

\* Initially.
LEMMA InitQueue == Init => Queue
<1> SUFFICES ASSUME Init PROVE Queue OBVIOUS
<1>1. \A w \in Writers : req[w].st = "idle" BY DEF Init
<1>2. writers = <<>> BY DEF Init
<1>3. {w \in Writers : req[w].st # "idle"} = 1 .. 0 BY <1>1
<1>4. Calls BY <1>1, <1>3 DEF Calls, Waiting
<1> QED BY <1>2, <1>4 DEF Queue, Queued

\* ----- sequence numbers
\* A table holds batches of callers,
LEMMA InWriters == ASSUME Shape, NEW S PROVE In(tables, S) \subseteq Writers
BY ShapeIs DEF In, TablesOK

\* and so does everything that is settled.
LEMMA SettledWriters == ASSUME Shape, NEW w, Settled(w) PROVE w \in Writers
<1>1. mem \subseteq Writers /\ (imm # Nil => imm \subseteq Writers) BY ShapeIs DEF ImmOK
<1> QED BY <1>1, InWriters DEF Settled, InMemory

\* The sequence numbers of a step that gives none.
LEMMA UniqueKept ==
  ASSUME Distinct, Begun, Past, seqOf' = seqOf, Group' = Group,
         \A w \in Writers : Settled(w)' => Settled(w) \/ (Logged(w) /\ w \notin Group),
         \A w \in Writers : Logged(w)' => Logged(w) \/ w \in Group,
         \A w \in Writers : req[w].st \notin Fresh => req'[w].st \notin Fresh,
         Running' => \A w \in Writers : Settled(w)' \/ (Logged(w)' /\ w \notin Group)
                                            => seqOf[w] <= version'.seq,
         Group = {} \/ version'.seq = version.seq
  PROVE Distinct' /\ Begun' /\ Past'
<1>0. Writers' = Writers /\ Fresh' = Fresh BY DEF Writers, Fresh
<1>1. Distinct' BY <1>0 DEF Distinct, Known
<1>2. Begun'
 <2>1. \A w \in Writers : Settled(w)' => req'[w].st \notin Fresh BY DEF Begun
 <2>2. \A w \in Writers : Logged(w)' /\ req'[w].st \in Fresh => w \in Group' BY DEF Begun
 <2> QED BY <1>0, <2>1, <2>2 DEF Begun
<1>3. Past'
 <2>1. LastSequence = version.seq + Cardinality(Group)
       /\ LastSequence' = version'.seq + Cardinality(Group')
  BY DEF LastSequence, Group
 <2>2. \A w \in Group' : version'.seq < seqOf'[w] /\ seqOf'[w] <= LastSequence' BY <2>1 DEF Past
 <2> QED BY <1>0, <2>2 DEF Past
<1> QED BY <1>1, <1>2, <1>3

\* The usual case: the process runs on and the last sequence number stays.
LEMMA UniqueSame ==
  ASSUME Shape, Shape', Distinct, Begun, Past, seqOf' = seqOf, Group' = Group,
         \A w \in Writers : Settled(w)' => Settled(w),
         \A w \in Writers : Logged(w)' => Logged(w) \/ w \in Group,
         \A w \in Writers : req[w].st \notin Fresh => req'[w].st \notin Fresh,
         Running' => Running,
         Group = {} \/ version'.seq = version.seq,
         Running' => version.seq <= version'.seq
  PROVE Distinct' /\ Begun' /\ Past'
<1>1. /\ version.seq \in Nat /\ version'.seq \in Nat /\ seqOf \in [Writers -> Nat]
 BY VersionIs DEF Shape, SeqBounded
<1>2. Running' => \A w \in Writers : Settled(w)' \/ (Logged(w)' /\ w \notin Group)
                                              => seqOf[w] <= version'.seq
 <2> SUFFICES ASSUME Running', NEW w \in Writers, Settled(w)' \/ (Logged(w)' /\ w \notin Group)
              PROVE seqOf[w] <= version'.seq
  OBVIOUS
 <2>1. Settled(w) \/ (Logged(w) /\ w \notin Group) OBVIOUS
 <2>2. seqOf[w] <= version.seq BY <2>1 DEF Past
 <2>3. seqOf[w] \in Nat /\ version.seq <= version'.seq BY <1>1
 <2> QED BY <1>1, <2>2, <2>3
<1>3. \A w \in Writers : Settled(w)' => Settled(w) \/ (Logged(w) /\ w \notin Group) OBVIOUS
<1> QED BY <1>2, <1>3, UniqueKept

-----------------------------------------------------------------------------
(* Sequence: no two batches have the same number.                          *)

\* The rank of each member of a set of writers.
LEMMA Ranks ==
  ASSUME NEW B \in SUBSET Writers
  PROVE  /\ Cardinality(B) \in Nat
         /\ \A w \in B : Cardinality({x \in B : x <= w}) \in 1 .. Cardinality(B)
         /\ \A v, w \in B : v # w =>
               Cardinality({x \in B : x <= v}) # Cardinality({x \in B : x <= w})
<1>1. IsFiniteSet(B) /\ Cardinality(B) \in Nat BY SubsetOfWriters
<1>2. B \subseteq Nat BY WritersAreFinite
<1>3. ASSUME NEW w \in B PROVE Cardinality({x \in B : x <= w}) \in 1 .. Cardinality(B)
 <2> DEFINE S == {x \in B : x <= w}
 <2>1. S \subseteq B /\ w \in S BY <1>2
 <2> HIDE DEF S
 <2>2. IsFiniteSet(S) /\ Cardinality(S) <= Cardinality(B) BY <1>1, <2>1, FS_Subset
 <2>3. Cardinality(S) \in Nat BY <2>2, FS_CardinalityType
 <2>4. Cardinality(S) # 0 BY <2>1, <2>2, FS_EmptySet
 <2> QED BY <1>1, <2>2, <2>3, <2>4 DEF S
<1>4. ASSUME NEW v \in B, NEW w \in B, v < w
      PROVE Cardinality({x \in B : x <= v}) < Cardinality({x \in B : x <= w})
 <2> DEFINE S == {x \in B : x <= v}
            T == {x \in B : x <= w}
 <2>0. v \in Nat /\ w \in Nat /\ ~(w <= v) BY <1>2, <1>4
 <2>a. \A x \in B : x <= v => x <= w BY <1>2, <1>4
 <2>b. S \subseteq T BY <2>a
 <2>c. w \in T BY <2>0
 <2>d. w \notin S BY <2>0
 <2>e. T \subseteq B OBVIOUS
 <2>1. S \subseteq T /\ w \in T /\ w \notin S /\ T \subseteq B BY <2>b, <2>c, <2>d, <2>e
 <2> HIDE DEF S, T
 <2>2. IsFiniteSet(T) BY <1>1, <2>1, FS_Subset
 <2>3. IsFiniteSet(S) /\ Cardinality(S) <= Cardinality(T) /\ (Cardinality(S) = Cardinality(T) => S = T)
  BY <2>1, <2>2, FS_Subset
 <2>4. Cardinality(S) \in Nat /\ Cardinality(T) \in Nat BY <2>2, <2>3, FS_CardinalityType
 <2>5. Cardinality(S) # Cardinality(T) BY <2>1, <2>3
 <2> QED BY <2>3, <2>4, <2>5 DEF S, T
<1>5. ASSUME NEW v \in B, NEW w \in B, v # w
      PROVE Cardinality({x \in B : x <= v}) # Cardinality({x \in B : x <= w})
 <2>1. Cardinality({x \in B : x <= v}) \in Nat /\ Cardinality({x \in B : x <= w}) \in Nat
  BY <1>1, <1>3
 <2>2. v < w \/ w < v BY <1>2, <1>5
 <2> QED BY <1>4, <2>1, <2>2
<1> QED BY <1>1, <1>3, <1>5

\* The group is done: last_sequence_ moves over it.
LEMMA UniquePassed ==
  ASSUME Shape, Shape', Queue, Distinct, Begun, Past, NEW s \in {"ok", "error"}, Passed(s),
         Running, \A w \in Writers : Settled(w)' => Settled(w) \/ w \in Group,
         \A w \in Writers : Logged(w)' => Logged(w) \/ w \in Group
  PROVE Distinct' /\ Begun' /\ Past'
<1>0. Writers' = Writers /\ Fresh' = Fresh BY DEF Writers, Fresh
<1>1. /\ Group' = {} /\ version'.seq = LastSequence /\ seqOf' = seqOf
      /\ \A w \in Writers : /\ req[w].st \notin Fresh => req'[w].st \notin Fresh
                            /\ w \in Group => req'[w].st \notin Fresh
 BY DEF Passed, Fresh
<1>2. Distinct' BY <1>0, <1>1 DEF Distinct, Known
<1>3. Begun'
 <2>1. \A w \in Writers : Settled(w)' => req'[w].st \notin Fresh BY <1>1 DEF Begun
 <2>2. \A w \in Writers : Logged(w)' /\ req'[w].st \in Fresh => w \in Group' BY <1>1 DEF Begun
 <2> QED BY <1>0, <2>1, <2>2 DEF Begun
<1>4. Past'
 <2>1. ASSUME NEW w \in Writers, Settled(w)' \/ Logged(w)' PROVE seqOf[w] <= LastSequence
  <3>1. CASE w \in Group BY <3>1 DEF Past
  <3>2. CASE w \notin Group
   <4>1. seqOf[w] <= version.seq BY <2>1, <3>2 DEF Past
   <4>2. version.seq \in Nat /\ LastSequence \in Nat /\ version.seq <= LastSequence
         /\ seqOf[w] \in Nat
    BY GroupBatches, ShapeIs, VersionIs DEF SeqBounded
   <4> QED BY <4>1, <4>2
  <3> QED BY <3>1, <3>2
 <2> QED BY <1>0, <1>1, <2>1 DEF Past
<1> QED BY <1>2, <1>3, <1>4

\* A new group takes the numbers above last_sequence_.
LEMMA UniqueGrouped ==
  ASSUME Shape, Shape', Queue, Distinct, Begun, Past, Grouped, Running,
         \A w \in Writers : Settled(w)' => Settled(w),
         \A w \in Writers : Logged(w)' => Logged(w)
  PROVE  /\ Distinct' /\ Begun' /\ Past'
         /\ \A w \in Writers : Settled(w) \/ Logged(w) => seqOf'[w] = seqOf[w]
<1>0. Writers' = Writers /\ Fresh' = Fresh BY DEF Writers, Fresh
<1> DEFINE B == Group'
           R(w) == Cardinality({x \in B : x <= w})
<1>1. /\ Group = {} /\ B \in SUBSET Writers /\ UNCHANGED <<req, version>>
      /\ \A w \in B : req[w].st = "queued" /\ seqOf'[w] = version.seq + R(w)
      /\ \A w \in Writers : w \notin B => seqOf'[w] = seqOf[w]
 BY DEF Grouped
<1> HIDE DEF B
<1>2. /\ Cardinality(B) \in Nat /\ \A w \in B : R(w) \in 1 .. Cardinality(B)
      /\ \A v, w \in B : v # w => R(v) # R(w)
 BY <1>1, Ranks
<1> HIDE DEF R
<1>3. version.seq \in Nat /\ seqOf \in [Writers -> Nat] BY ShapeIs, VersionIs DEF SeqBounded
<1>4. \A w \in B : ~Settled(w) /\ ~Logged(w) BY <1>1 DEF Begun, Fresh
<1>5. \A w \in Writers : Settled(w) \/ Logged(w) => seqOf'[w] = seqOf[w] /\ seqOf[w] <= version.seq
 BY <1>1, <1>4 DEF Past
<1>6. LastSequence' = version.seq + Cardinality(B) BY <1>1 DEF LastSequence, Group, B
<1>7. \A w \in B : version.seq < seqOf'[w] /\ seqOf'[w] <= version.seq + Cardinality(B)
 BY <1>1, <1>2, <1>3
<1>8. Distinct'
 <2> SUFFICES ASSUME NEW v \in Writers, NEW w \in Writers, Known(v)', Known(w)', v # w
              PROVE seqOf'[v] # seqOf'[w]
  BY <1>0 DEF Distinct
 <2>1. (v \in B \/ Settled(v) \/ Logged(v)) /\ (w \in B \/ Settled(w) \/ Logged(w)) BY DEF Known, B
 <2>2. CASE v \in B /\ w \in B BY <1>1, <1>2, <1>3, <2>2
 <2>3. CASE v \in B /\ w \notin B
  <3>1. seqOf'[w] <= version.seq /\ seqOf'[w] \in Nat BY <1>3, <1>5, <2>1, <2>3
  <3>2. version.seq < seqOf'[v] /\ seqOf'[v] \in Nat BY <1>1, <1>2, <1>3, <1>7, <2>3
  <3> QED BY <1>3, <3>1, <3>2
 <2>4. CASE v \notin B /\ w \in B
  <3>1. seqOf'[v] <= version.seq /\ seqOf'[v] \in Nat BY <1>3, <1>5, <2>1, <2>4
  <3>2. version.seq < seqOf'[w] /\ seqOf'[w] \in Nat BY <1>1, <1>2, <1>3, <1>7, <2>4
  <3> QED BY <1>3, <3>1, <3>2
 <2>5. CASE v \notin B /\ w \notin B
  <3>1. Known(v) /\ Known(w) BY <2>1, <2>5 DEF Known
  <3>2. seqOf[v] # seqOf[w] BY <2>5, <3>1 DEF Distinct
  <3> QED BY <1>1, <2>5, <3>2
 <2> QED BY <2>2, <2>3, <2>4, <2>5
<1>9. Begun'
 <2>1. \A w \in Writers : Settled(w)' => req'[w].st \notin Fresh BY <1>1 DEF Begun
 <2>2. \A w \in Writers : Logged(w)' /\ req'[w].st \in Fresh => w \in Group' BY <1>1 DEF Begun
 <2> QED BY <1>0, <2>1, <2>2 DEF Begun
<1>10. Past'
 <2>1. \A w \in Writers : Settled(w)' \/ Logged(w)' => seqOf'[w] <= version'.seq BY <1>1, <1>5
 <2>2. \A w \in Group' : version'.seq < seqOf'[w] /\ seqOf'[w] <= LastSequence'
  BY <1>1, <1>6, <1>7 DEF B
 <2> QED BY <1>0, <2>1, <2>2 DEF Past
<1> QED BY <1>5, <1>8, <1>9, <1>10

\* What the logs hold, when nothing is written.
LEMMA LoggedKept ==
  ASSUME \A L \in DOMAIN logs', w \in Writers :
             Holds(logs'[L], w) => L \in DOMAIN logs /\ Holds(logs[L], w),
         \A L \in DOMAIN logs : Reachable(L)' => Reachable(L)
  PROVE \A w \in Writers : Logged(w)' => Logged(w)
BY DEF Logged, Holds

\* No log becomes reachable again,
LEMMA ReachKept ==
  ASSUME Shape, Shape', Running' => Running /\ version.log <= version'.log,
         Disk(manifest') \subseteq Disk(manifest), NEW L \in DOMAIN logs, Reachable(L)'
  PROVE Reachable(L)
<1>1. L \in Nat /\ version.log \in Nat /\ version'.log \in Nat BY VersionIs DEF Shape, LogsOK
<1>2. CASE Running' /\ version'.log <= L
 <2>1. version.log <= L BY <1>1, <1>2
 <2> QED BY <1>2, <2>1 DEF Reachable
<1>3. CASE \E v \in Disk(manifest') : v.log <= L BY <1>3 DEF Reachable
<1> QED BY <1>2, <1>3 DEF Reachable

\* The parts of Base.
LEMMA BaseIs ==
  ASSUME Base
  PROVE  /\ Shape /\ Quiet /\ Files /\ Numbers /\ Contents /\ Queue
         /\ Ordered(manifest.recs) /\ Alloc /\ Edits /\ Unused /\ LogFiles /\ Unread
BY NumbersIs DEF Base

\* Every step keeps them, and changes no table that something refers to.
LEMMA BaseStep == ASSUME Base, [Next]_vars PROVE Base' /\ Immutable
<1>1. Shape' /\ Quiet' BY ShapeStep DEF Base
<1>2. Files' /\ Numbers' /\ Immutable BY FilesStep, NumbersStep, ImmutableStep DEF Base
<1>3. Contents' /\ Queue' BY ContentsStep, QueueStep DEF Base
<1> QED BY <1>1, <1>2, <1>3 DEF Base

\* What a version holds that a recovery may find.
LEMMA DiskHolds ==
  ASSUME Base, Base', Immutable, NEW v \in Disk(manifest), v \in Disk(manifest')
  PROVE In(tables', Live(v)) = In(tables, Live(v))
<1> DEFINE S == Live(v)
<1>1. Files /\ \A n \in S : Named(n) BY DEF Named, Base
<1>2. S \subseteq DOMAIN tables' BY DEF Base, Files, Present
<1> HIDE DEF S
<1>3. In(tables', S) = In(tables, S) BY <1>1, <1>2, StillHolds
<1> QED BY <1>3 DEF S

\* What the inputs of a compaction hold.
LEMMA DeletedHolds ==
  ASSUME Base, Base', Immutable, comp.pc \in Edited, comp'.pc \in Edited, comp'.edit = comp.edit
  PROVE In(tables', comp'.edit.del) = In(tables, comp.edit.del)
<1> DEFINE S == comp.edit.del
<1>1. S \subseteq Live(version) BY BaseIs, ContentsIs
<1>2. S \subseteq Live(version') BY DEF Base, Contents
<1>3. Live(version') \subseteq DOMAIN tables' BY DEF Base, Files, Present
<1>4. Files BY DEF Base
<1> HIDE DEF S
<1>5. In(tables', S) = In(tables, S) BY <1>1, <1>2, <1>3, <1>4, LiveHolds
<1> QED BY <1>5 DEF S

\* The memtables and the tables of the current version are settled.
LEMMA SettledAre ==
  ASSUME Base
  PROVE  /\ \A w \in InMemory : Settled(w) /\ w \in Writers
         /\ \A w \in In(tables, Live(version)) : Settled(w) /\ w \in Writers
         /\ flush.pc \in Edited => \A w \in imm : Settled(w) /\ w \in Writers
         /\ comp.pc \in Edited => \A w \in In(tables, comp.edit.del) : Settled(w) /\ w \in Writers
         /\ \A v \in Disk(manifest) : \A w \in In(tables, Live(v)) : Settled(w) /\ w \in Writers
<1>0. Shape BY DEF Base
<1>1. \A w : Settled(w) => w \in Writers BY <1>0, SettledWriters
<1>2. \A w \in InMemory : Settled(w) BY DEF Settled
<1>3. \A w \in In(tables, Live(version)) : Settled(w) BY DEF Settled
<1>4. flush.pc \in Edited => imm # Nil BY <1>0, FlushIdle DEF Edited
<1>5. flush.pc \in Edited => \A w \in imm : Settled(w) BY <1>2, <1>4 DEF InMemory
<1>6. comp.pc \in Edited => \A w \in In(tables, comp.edit.del) : Settled(w)
 <2> SUFFICES ASSUME comp.pc \in Edited PROVE \A w \in In(tables, comp.edit.del) : Settled(w)
  OBVIOUS
 <2> DEFINE S == comp.edit.del
            T == Live(version)
 <2>1. S \subseteq T BY BaseIs, ContentsIs
 <2> HIDE DEF S, T
 <2>2. In(tables, S) \subseteq In(tables, T) BY <2>1, InMonotone
 <2> QED BY <1>3, <2>2 DEF S, T
<1>7. \A v \in Disk(manifest) : \A w \in In(tables, Live(v)) : Settled(w) BY DEF Settled
<1> QED BY <1>1, <1>2, <1>3, <1>5, <1>6, <1>7

\* The bounds of the manifest,
LEMMA BoundsDisk ==
  ASSUME Base, Base', Immutable, Bounds, SeqKept,
         NEW v \in Disk(manifest), v \in Disk(manifest')
  PROVE \A w \in In(tables', Live(v)) : seqOf'[w] <= v.seq
<1>1. In(tables', Live(v)) = In(tables, Live(v)) BY DiskHolds
<1> QED BY <1>1, SettledAre DEF Bounds, SeqKept

\* of a flush
LEMMA BoundsFlush ==
  ASSUME Base, Base', Immutable, Bounds, SeqKept,
         flush'.pc \in Edited => flush.pc \in Edited /\ flush'.edit = flush.edit /\ imm' = imm
  PROVE flush'.pc \in Edited => \A w \in imm' : seqOf'[w] <= flush'.edit.seq
BY SettledAre DEF Bounds, SeqKept

\* and of a compaction
LEMMA BoundsComp ==
  ASSUME Base, Base', Immutable, Bounds, SeqKept,
         comp'.pc \in Edited => comp.pc \in Edited /\ comp'.edit = comp.edit
  PROVE comp'.pc \in Edited => \A w \in In(tables', comp'.edit.del) : seqOf'[w] <= comp'.edit.seq
BY SettledAre, DeletedHolds DEF Bounds, SeqKept

\* stay when no record and no edit is made.
LEMMA BoundsKept ==
  ASSUME Base, Base', Immutable, Bounds, SeqKept,
         Disk(manifest') \subseteq Disk(manifest),
         flush'.pc \in Edited => flush.pc \in Edited /\ flush'.edit = flush.edit /\ imm' = imm,
         comp'.pc \in Edited => comp.pc \in Edited /\ comp'.edit = comp.edit
  PROVE Bounds'
<1>0. Edited' = Edited BY DEF Edited
<1>1. \A v \in Disk(manifest') : \A w \in In(tables', Live(v)) : seqOf'[w] <= v.seq BY BoundsDisk
<1>2. flush'.pc \in Edited => \A w \in imm' : seqOf'[w] <= flush'.edit.seq BY BoundsFlush
<1>3. comp'.pc \in Edited => \A w \in In(tables', comp'.edit.del) : seqOf'[w] <= comp'.edit.seq
 BY BoundsComp
<1> QED BY <1>0, <1>1, <1>2, <1>3 DEF Bounds

\* A step of a caller keeps the bounds,
LEMMA CallBounds ==
  ASSUME Base, Base', Immutable, Bounds, SeqKept, CallStep PROVE Bounds'
<1>0. Shape BY DEF Base
<1>1. UNCHANGED <<manifest, flush, comp>> BY <1>0, CallDoes
<1>2. flush.pc \in Edited => imm' = imm BY <1>0, CallLogs, FlushIdle DEF Edited
<1> QED BY <1>1, <1>2, BoundsKept

\* No call moves while the database is not open.
LEMMA CallIdle ==
  ASSUME Base, CallStep, up \notin {"open", "closing"} PROVE UNCHANGED vars
<1>0. Shape /\ Quiet /\ Queue BY DEF Base
<1>1. CASE \E w \in Writers, kind \in Kinds : Enqueue(w, kind) BY <1>1 DEF Enqueue
<1>2. CASE \E w \in Writers : AwaitImm(w) BY <1>0, <1>2, QueueFieldsOf DEF AwaitImm, Waiting
<1>3. CASE LeaderStep BY <1>0, <1>3, LeaderRunning
<1>4. CASE BackgroundCallSkips BY <1>0, <1>4, BackgroundRunning DEF BackgroundStep
<1>5. CASE Close BY <1>5 DEF Close
<1> QED BY <1>1, <1>2, <1>3, <1>4, <1>5 DEF CallStep

\* the recovery,
LEMMA CallRecovered ==
  ASSUME Base, CallStep, Recovered PROVE Recovered'
<1>1. CASE up \in {"open", "closing"}
 <2>1. up' \in {"open", "closing"} BY <1>1, CallDoes DEF Base
 <2> QED BY <2>1 DEF Recovered
<1>2. CASE up \notin {"open", "closing"}
 <2>1. UNCHANGED vars BY <1>2, CallIdle
 <2> QED
  BY <2>1 DEF vars, diskVars, openVars, memVars, bgVars, callVars, Recovered, Rebuilt, Logged, Holds,
              Reachable, Running, In
<1> QED BY <1>1, <1>2

\* A call changes the memtables only.
LEMMA CallSettled ==
  ASSUME Base, Base', Immutable, CallStep, NEW w, Settled(w)'
  PROVE Settled(w) \/ w \in InMemory'
<1>0. Shape /\ Files /\ Files' BY DEF Base
<1>1. manifest' = manifest /\ version'.l0 = version.l0 /\ version'.l1 = version.l1
 BY <1>0, CallDoes
<1>2. Live(version') = Live(version) BY <1>1 DEF Live
<1>3. In(tables', Live(version')) = In(tables, Live(version)) BY <1>0, <1>2, SameTables
<1>4. \A v \in Disk(manifest) : In(tables', Live(v)) = In(tables, Live(v)) BY <1>1, DiskHolds
<1> QED BY <1>1, <1>3, <1>4 DEF Settled

\* the logs that may be replayed,
LEMMA CallReach ==
  ASSUME Base, Base', CallStep, NEW L \in DOMAIN logs, Reachable(L)' PROVE Reachable(L)
<1>0. Shape /\ Shape' BY DEF Base
<1>1. manifest' = manifest /\ version'.log = version.log
      /\ (up' = up \/ (up = "open" /\ up' = "closing"))
 BY <1>0, CallDoes
<1>2. Running' => Running /\ version.log <= version'.log
 BY <1>0, <1>1, VersionIs DEF Running, Shape
<1> QED BY <1>0, <1>1, <1>2, ReachKept

\* and what they hold, but for the record it appends.
LEMMA CallLogged ==
  ASSUME Base, Base', CallStep, NEW G,
         \A L \in DOMAIN logs', w \in Writers :
             Holds(logs'[L], w) => (L \in DOMAIN logs /\ Holds(logs[L], w)) \/ w \in G
  PROVE \A w \in Writers : Logged(w)' => Logged(w) \/ w \in G
BY CallReach DEF Logged, Holds

\* What a log holds after AddRecord.
LEMMA HoldsAppended ==
  ASSUME Shape, LogFiles, Running, NEW r \in SUBSET Writers, logs' = LogWith(r)
  PROVE  \A L \in DOMAIN logs', w \in Writers :
             Holds(logs'[L], w) => (L \in DOMAIN logs /\ Holds(logs[L], w)) \/ w \in r
<1>1. logfile \in DOMAIN logs BY DEF LogFiles, Opened, Running
<1>2. DOMAIN logs' = DOMAIN logs /\ \A L \in DOMAIN logs : L # logfile => logs'[L] = logs[L]
 BY DEF LogWith
<1>3. logs[logfile].recs \in Seq(SUBSET Writers) BY <1>1 DEF Shape, LogsOK, LogFileType
<1>4. logs'[logfile].recs = Append(logs[logfile].recs, r)
 BY <1>1 DEF LogWith, Shape, LogsOK, LogFileType
<1>5. ASSUME NEW w, Holds(logs'[logfile], w) PROVE Holds(logs[logfile], w) \/ w \in r
 <2> DEFINE q == logs[logfile].recs
 <2>1. q \in Seq(SUBSET Writers) /\ logs'[logfile].recs = Append(q, r) BY <1>3, <1>4
 <2>2. \E i \in 1 .. Len(Append(q, r)) : w \in Append(q, r)[i] BY <1>5, <2>1 DEF Holds
 <2>3. (\E i \in 1 .. Len(q) : w \in q[i]) \/ w \in r
  <3> HIDE DEF q
  <3> QED BY <2>1, <2>2
 <2> QED BY <2>3 DEF Holds
<1> QED BY <1>2, <1>5

\* A batch that was taken stays taken.
LEMMA OnwardFresh ==
  ASSUME Onward PROVE \A w \in Writers : req[w].st \notin Fresh => req'[w].st \notin Fresh
BY DEF Onward

\* The parts of Sequence.
LEMMA SequenceIs == ASSUME Sequence PROVE Distinct /\ Begun /\ Past /\ Bounds /\ Recovered
BY DEF Sequence

\* A call that neither logs nor applies a batch.
LEMMA SequenceQuiet ==
  ASSUME Base, Base', Immutable, Sequence, CallStep, Group' = Group, seqOf' = seqOf,
         InMemory' \subseteq InMemory,
         \A L \in DOMAIN logs', w \in Writers :
             Holds(logs'[L], w) => (L \in DOMAIN logs /\ Holds(logs[L], w)) \/ w \in Group,
         \A w \in Writers : req[w].st \notin Fresh => req'[w].st \notin Fresh,
         version'.seq = version.seq
  PROVE Sequence'
<1>0. Shape /\ Shape' /\ Distinct /\ Begun /\ Past /\ Bounds /\ Recovered BY SequenceIs DEF Base
<1>1. \A w \in Writers : Settled(w)' => Settled(w) BY CallSettled, SettledAre
<1>2. \A w \in Writers : Logged(w)' => Logged(w) \/ w \in Group BY CallLogged
<1>3. Running' => Running BY <1>0, CallDoes DEF Running
<1>4. version.seq <= version'.seq BY <1>0, VersionIs DEF Shape
<1>5. Distinct' /\ Begun' /\ Past' BY <1>0, <1>1, <1>2, <1>3, <1>4, UniqueSame
<1>6. Bounds' BY <1>0, CallBounds DEF SeqKept
<1>7. Recovered' BY <1>0, CallRecovered
<1> QED BY <1>5, <1>6, <1>7 DEF Sequence

\* Nothing is logged.
LEMMA NoNewLogs ==
  ASSUME UNCHANGED logs, NEW G
  PROVE  \A L \in DOMAIN logs', w \in Writers :
             Holds(logs'[L], w) => (L \in DOMAIN logs /\ Holds(logs[L], w)) \/ w \in G
OBVIOUS

\* From here on, one lemma per step: it keeps Sequence.
LEMMA SequenceQuietCall ==
  ASSUME Base, Base', Immutable, Sequence, CallStep, QuietCall PROVE Sequence'
<1>1. UNCHANGED <<logs, version, mem, imm, seqOf>> /\ Group' = Group /\ Onward BY DEF QuietCall
<1>2. InMemory' \subseteq InMemory BY <1>1 DEF InMemory
<1>3. \A L \in DOMAIN logs', w \in Writers :
          Holds(logs'[L], w) => (L \in DOMAIN logs /\ Holds(logs[L], w)) \/ w \in Group
 BY <1>1, NoNewLogs
<1> QED BY <1>1, <1>2, <1>3, OnwardFresh, SequenceQuiet

\* An empty log holds nothing.
LEMMA EmptyHolds == ASSUME NEW f, f.recs = <<>>, NEW w PROVE ~Holds(f, w)
<1>1. Len(<<>>) = 0 BY EmptySeq
<1> QED BY <1>1 DEF Holds

LEMMA SequenceSwitched ==
  ASSUME Base, Base', Immutable, Sequence, CallStep, Switched PROVE Sequence'
<1>1. /\ Group' = Group /\ seqOf' = seqOf /\ req' = req /\ version'.seq = version.seq
      /\ imm = Nil /\ imm' = mem /\ mem' = {}
 BY DEF Switched
<1>2. InMemory' \subseteq InMemory BY <1>1 DEF InMemory
<1>3. \A L \in DOMAIN logs', w \in Writers :
          Holds(logs'[L], w) => (L \in DOMAIN logs /\ Holds(logs[L], w)) \/ w \in Group
 <2> SUFFICES ASSUME NEW L \in DOMAIN logs', NEW w \in Writers, Holds(logs'[L], w)
              PROVE L \in DOMAIN logs /\ Holds(logs[L], w)
  OBVIOUS
 <2>1. L # logfile' BY EmptyHolds DEF Switched
 <2> QED BY <2>1 DEF Switched
<1> QED BY <1>1, <1>2, <1>3, SequenceQuiet

LEMMA SequenceAddRecord ==
  ASSUME Base, Base', Immutable, Sequence, CallStep, AddRecord PROVE Sequence'
<1>0. Shape /\ Queue /\ Quiet /\ LogFiles BY BaseIs
<1>1. /\ Group' = Group /\ lead.pc \in Logging /\ logs' = LogWith(Group)
      /\ UNCHANGED <<version, mem, imm, req, seqOf>>
 BY <1>0, AddRecordDoes
<1>2. InMemory' \subseteq InMemory BY <1>1 DEF InMemory
<1>3. Running BY <1>0, <1>1, AtWork DEF Running, Logging
<1>4. Group \in SUBSET Writers BY <1>0, GroupMembers
<1>5. \A L \in DOMAIN logs', w \in Writers :
          Holds(logs'[L], w) => (L \in DOMAIN logs /\ Holds(logs[L], w)) \/ w \in Group
 BY <1>0, <1>1, <1>3, <1>4, HoldsAppended
<1> QED BY <1>1, <1>2, <1>5, SequenceQuiet

LEMMA SequenceSyncLog ==
  ASSUME Base, Base', Immutable, Sequence, CallStep, SyncLog PROVE Sequence'
<1>0. Shape /\ Queue BY DEF Base
<1>1. /\ Group' = Group /\ DOMAIN logs' = DOMAIN logs
      /\ \A n \in DOMAIN logs : logs'[n].recs = logs[n].recs
      /\ UNCHANGED <<version, mem, imm, req, seqOf>>
 BY <1>0, SyncLogDoes
<1>2. InMemory' \subseteq InMemory BY <1>1 DEF InMemory
<1>3. \A L \in DOMAIN logs', w \in Writers :
          Holds(logs'[L], w) => (L \in DOMAIN logs /\ Holds(logs[L], w)) \/ w \in Group
 BY <1>1 DEF Holds
<1> QED BY <1>1, <1>2, <1>3, SequenceQuiet

\* The group is done, one way or another.
LEMMA SequencePassed ==
  ASSUME Base, Base', Immutable, Sequence, CallStep, NEW s \in {"ok", "error"}, Passed(s),
         InMemory' \subseteq InMemory \cup Group,
         \A L \in DOMAIN logs', w \in Writers :
             Holds(logs'[L], w) => (L \in DOMAIN logs /\ Holds(logs[L], w)) \/ w \in Group
  PROVE Sequence'
<1>0. Shape /\ Shape' /\ Quiet /\ Queue /\ Distinct /\ Begun /\ Past /\ Bounds /\ Recovered
 BY SequenceIs DEF Base
<1>1. Running BY <1>0, AtWork DEF Passed, Running, Logging
<1>2. \A w \in Writers : Settled(w)' => Settled(w) \/ w \in Group BY CallSettled, SettledAre
<1>3. \A w \in Writers : Logged(w)' => Logged(w) \/ w \in Group BY CallLogged
<1>4. Distinct' /\ Begun' /\ Past' BY <1>0, <1>1, <1>2, <1>3, UniquePassed
<1>5. seqOf' = seqOf BY DEF Passed
<1>6. Bounds' BY <1>0, <1>5, CallBounds DEF SeqKept
<1>7. Recovered' BY <1>0, CallRecovered
<1> QED BY <1>4, <1>6, <1>7 DEF Sequence

LEMMA SequenceGrouped ==
  ASSUME Base, Base', Immutable, Sequence, CallStep, Grouped PROVE Sequence'
<1>0. Shape /\ Shape' /\ Quiet /\ Queue /\ Distinct /\ Begun /\ Past /\ Bounds /\ Recovered
 BY SequenceIs DEF Base
<1>1. UNCHANGED <<logs, mem, imm, up>> BY DEF Grouped
<1>2. Running
 <2>1. lead'.pc # "none" BY DEF Grouped
 <2>2. up' \in {"open", "closing"} BY <2>1, NoLeadType DEF Base, Quiet
 <2> QED BY <1>1, <2>2 DEF Running
<1>3. InMemory' \subseteq InMemory BY <1>1 DEF InMemory
<1>4. \A w \in Writers : Settled(w)' => Settled(w) BY <1>3, CallSettled, SettledAre
<1>5. \A w \in Writers : Logged(w)' => Logged(w)
 <2>1. \A L \in DOMAIN logs : Reachable(L)' => Reachable(L) BY CallReach
 <2> QED BY <1>1, <2>1, LoggedKept
<1>6. Distinct' /\ Begun' /\ Past' /\ \A w \in Writers : Settled(w) \/ Logged(w) => seqOf'[w] = seqOf[w]
 BY <1>0, <1>2, <1>4, <1>5, UniqueGrouped
<1>7. Bounds' BY <1>0, <1>6, CallBounds DEF SeqKept
<1>8. Recovered' BY <1>0, CallRecovered
<1> QED BY <1>6, <1>7, <1>8 DEF Sequence

LEMMA SequenceCall ==
  ASSUME Base, Base', Immutable, Sequence, CallStep PROVE Sequence'
<1>0. Shape /\ Queue /\ Quiet /\ LogFiles BY BaseIs
<1>1. CASE AddRecordFails
 <2> DEFINE s == "error"
 <2>1. Passed(s) /\ UNCHANGED mem /\ s \in {"ok", "error"} /\ PerhapsLogged
  BY <1>0, <1>1, AddFailsDoes
 <2>2. InMemory' \subseteq InMemory \cup Group BY <2>1 DEF InMemory, Passed
 <2>3. Running BY <1>0, <2>1, AtWork DEF Passed, Running, Logging
 <2>4. \A L \in DOMAIN logs', w \in Writers :
           Holds(logs'[L], w) => (L \in DOMAIN logs /\ Holds(logs[L], w)) \/ w \in Group
  <3>1. CASE logs' = logs BY <3>1
  <3>2. ASSUME NEW r \in SUBSET Group, r \in SUBSET Writers, logs' = LogWith(r)
        PROVE \A L \in DOMAIN logs', w \in Writers :
                Holds(logs'[L], w) => (L \in DOMAIN logs /\ Holds(logs[L], w)) \/ w \in Group
   BY <1>0, <2>3, <3>2, HoldsAppended
  <3> QED BY <2>1, <3>1, <3>2 DEF PerhapsLogged
 <2> HIDE DEF s
 <2> QED BY <2>1, <2>2, <2>4, SequencePassed
<1>2. CASE SyncLogFails
 <2> DEFINE s == "error"
 <2>1. Passed(s) /\ UNCHANGED <<mem, logs>> /\ s \in {"ok", "error"} BY <1>0, <1>2, SyncFailsDoes
 <2>2. InMemory' \subseteq InMemory \cup Group BY <2>1 DEF InMemory, Passed
 <2> HIDE DEF s
 <2> QED BY <2>1, <2>2, SequencePassed
<1>3. CASE ApplyGroup
 <2> DEFINE s == "ok"
 <2>1. Passed(s) /\ mem' = mem \cup Group /\ UNCHANGED logs /\ s \in {"ok", "error"}
  BY <1>0, <1>3, ApplyDoes
 <2>2. InMemory' \subseteq InMemory \cup Group BY <2>1 DEF InMemory, Passed
 <2> HIDE DEF s
 <2> QED BY <2>1, <2>2, SequencePassed
<1> QED
 BY <1>0, <1>1, <1>2, <1>3, CallCases, SequenceQuietCall, SequenceSwitched, SequenceAddRecord,
    SequenceSyncLog, SequenceGrouped

\* A step of the background thread.
LEMMA SequenceFile ==
  ASSUME Base, Base', Immutable, Sequence, FileStep,
         \A w \in Writers : Settled(w)' => Settled(w),
         DOMAIN logs' \subseteq DOMAIN logs, \A n \in DOMAIN logs' : logs'[n] = logs[n],
         \A L \in DOMAIN logs : Reachable(L)' => Reachable(L), Bounds'
  PROVE Sequence'
<1>0. Shape /\ Shape' /\ Quiet /\ Queue /\ Distinct /\ Begun /\ Past /\ Bounds /\ Recovered
 BY SequenceIs DEF Base
<1>1. /\ UNCHANGED <<up, seqOf, writers>> /\ Woken /\ up \in {"open", "closing"}
      /\ version'.seq = version.seq
 BY <1>0, FileStepCallers
<1>2. Group' = Group BY <1>0, <1>1, WokenDoes
<1>3. \A w \in Writers : req[w].st \notin Fresh => req'[w].st \notin Fresh BY <1>1 DEF Woken, Fresh
<1>4. \A w \in Writers : Logged(w)' => Logged(w) BY LoggedKept
<1>5. version.seq <= version'.seq BY <1>0, <1>1, VersionIs DEF Shape
<1>6. Running' => Running BY <1>1 DEF Running
<1>7. Distinct' /\ Begun' /\ Past' BY <1>0, <1>1, <1>2, <1>3, <1>4, <1>5, <1>6, UniqueSame
<1>8. Recovered' BY <1>1 DEF Recovered
<1> QED BY <1>7, <1>8 DEF Sequence

\* The manifest and the files of the current version stay.
LEMMA FileSettled ==
  ASSUME Base, Base', Immutable, FileStep, UNCHANGED <<manifest, imm>>,
         In(tables', Live(version')) = In(tables, Live(version))
  PROVE \A w \in Writers : Settled(w)' => Settled(w)
<1>1. mem' = mem BY FileStepCallers DEF Base
<1>2. InMemory' = InMemory BY <1>1 DEF InMemory
<1>3. \A v \in Disk(manifest) : In(tables', Live(v)) = In(tables, Live(v)) BY DiskHolds
<1> QED BY <1>2, <1>3 DEF Settled

\* The background thread makes no log reachable again.
LEMMA FileReach ==
  ASSUME Base, Base', FileStep, version.log <= version'.log,
         \A v \in Disk(manifest') : v \in Disk(manifest) \/ version.log <= v.log,
         NEW L \in DOMAIN logs, Reachable(L)'
  PROVE Reachable(L)
<1>0. Shape /\ Shape' /\ Quiet BY DEF Base
<1>1. Running BY <1>0, FileStepCallers DEF Running
<1>2. L \in Nat /\ version.log \in Nat /\ version'.log \in Nat
 BY <1>0, VersionIs DEF Shape, LogsOK
<1>3. CASE version'.log <= L BY <1>1, <1>2, <1>3 DEF Reachable
<1>4. CASE \E v \in Disk(manifest') : v.log <= L
 <2>1. PICK v \in Disk(manifest') : v.log <= L BY <1>4
 <2>2. CASE v \in Disk(manifest) BY <2>1, <2>2 DEF Reachable
 <2>3. CASE version.log <= v.log
  <3>1. v.log \in Nat
   <4>1. manifest' \in ManifestType BY <1>0 DEF Shape, ManifestOK
   <4>2. Disk(manifest') \subseteq VersionType BY <4>1, DiskType
   <4> QED BY <4>2, VersionIs
  <3> QED BY <1>1, <1>2, <2>1, <2>3, <3>1 DEF Reachable
 <2> QED BY <2>2, <2>3
<1> QED BY <1>3, <1>4 DEF Reachable

\* A step that leaves the manifest, the logs and the version alone.
LEMMA SequenceStill ==
  ASSUME Base, Base', Immutable, Sequence, FileStep, UNCHANGED <<manifest, imm, logs>>,
         version'.l0 = version.l0, version'.l1 = version.l1, version'.log = version.log, Bounds'
  PROVE Sequence'
<1>0. Files /\ Files' /\ Shape BY DEF Base
<1>1. Live(version') = Live(version) BY DEF Live
<1>2. In(tables', Live(version')) = In(tables, Live(version)) BY <1>0, <1>1, SameTables
<1>3. \A w \in Writers : Settled(w)' => Settled(w) BY <1>2, FileSettled
<1>4. version.log <= version'.log BY <1>0, VersionIs DEF Shape
<1>5. \A L \in DOMAIN logs : Reachable(L)' => Reachable(L) BY <1>4, FileReach
<1> QED BY <1>3, <1>5, SequenceFile

\* It gives no sequence number.
LEMMA FileSeq == ASSUME Base, FileStep PROVE SeqKept
BY FileStepCallers DEF Base, SeqKept

LEMMA SequenceFlushBegin ==
  ASSUME Base, Base', Immutable, Sequence, FileStep, FlushBegin PROVE Sequence'
<1>1. /\ UNCHANGED <<logs, manifest, imm, comp>> /\ flush'.pc = "build"
      /\ version'.l0 = version.l0 /\ version'.l1 = version.l1 /\ version'.log = version.log
 BY FlushBeginDoes DEF Base
<1>2. Bounds' BY <1>1, SequenceIs, FileSeq, BoundsKept DEF Edited
<1> QED BY <1>1, <1>2, SequenceStill

\* What is settled now is below the last sequence of a running database.
LEMMA SettledPast ==
  ASSUME Base, Sequence, up \in {"open", "closing"}
  PROVE  /\ \A w \in InMemory : seqOf[w] <= version.seq
         /\ \A w \in In(tables, Live(version)) : seqOf[w] <= version.seq
BY SettledAre, SequenceIs DEF Past, Running

LEMMA SequenceFlushBuild ==
  ASSUME Base, Base', Immutable, Sequence, FileStep, FlushBuild PROVE Sequence'
<1>0. Edited' = Edited BY DEF Edited
<1>1. /\ UNCHANGED <<logs, manifest, imm, comp, version, seqOf>> /\ up \in {"open", "closing"}
      /\ imm \in SUBSET Writers
      /\ flush' = NoFlush \/ (flush'.pc = "manifest" /\ FlushEdit(flush'.edit))
 BY FlushBuildDoes DEF Base
<1>2. flush'.pc \in Edited => \A w \in imm' : seqOf'[w] <= flush'.edit.seq
 <2> SUFFICES ASSUME flush'.pc \in Edited, NEW w \in imm PROVE seqOf[w] <= flush'.edit.seq BY <1>1
 <2>1. flush'.edit.seq = version.seq BY <1>1, NoFlushType DEF FlushEdit, Edited
 <2>2. w \in InMemory BY <1>1, NilIsNoSet DEF InMemory
 <2> QED BY <1>1, <2>1, <2>2, SettledPast
<1>3. Bounds BY SequenceIs
<1>4. \A v \in Disk(manifest') : \A w \in In(tables', Live(v)) : seqOf'[w] <= v.seq
 BY <1>1, <1>3, FileSeq, BoundsDisk
<1>5. comp'.pc \in Edited => \A w \in In(tables', comp'.edit.del) : seqOf'[w] <= comp'.edit.seq
 BY <1>1, <1>3, FileSeq, BoundsComp
<1>6. Bounds' BY <1>0, <1>2, <1>4, <1>5 DEF Bounds
<1> QED BY <1>1, <1>6, SequenceStill

\* An edit that deletes files of the current version, made now.
LEMMA BoundsNewEdit ==
  ASSUME Base, Base', Immutable, Sequence, FileStep, UNCHANGED <<manifest, imm, flush>>,
         comp'.pc \in Edited => /\ comp'.edit.del \subseteq Live(version)
                                /\ comp'.edit.seq = version.seq,
         Live(version') = Live(version)
  PROVE Bounds'
<1>0. Edited' = Edited /\ Bounds /\ Shape /\ Quiet BY SequenceIs DEF Edited, Base
<1>1. seqOf' = seqOf /\ up \in {"open", "closing"} BY <1>0, FileStepCallers
<1>2. \A v \in Disk(manifest') : \A w \in In(tables', Live(v)) : seqOf'[w] <= v.seq
 BY <1>0, FileSeq, BoundsDisk
<1>3. flush'.pc \in Edited => \A w \in imm' : seqOf'[w] <= flush'.edit.seq
 BY <1>0, FileSeq, BoundsFlush
<1>4. comp'.pc \in Edited => \A w \in In(tables', comp'.edit.del) : seqOf'[w] <= comp'.edit.seq
 <2> SUFFICES ASSUME comp'.pc \in Edited
              PROVE \A w \in In(tables', comp'.edit.del) : seqOf[w] <= version.seq
  BY <1>1
 <2> DEFINE S == comp'.edit.del
            T == Live(version)
 <2>1. S \subseteq T OBVIOUS
 <2>2. T \subseteq DOMAIN tables' BY DEF Base, Files, Present
 <2>3. \A w \in In(tables, T) : seqOf[w] <= version.seq BY <1>1, SettledPast
 <2>4. Files /\ Files' BY DEF Base
 <2>5. In(tables', T) = In(tables, T) BY <2>4, SameTables
 <2> HIDE DEF S, T
 <2>6. In(tables', S) \subseteq In(tables', T) BY <2>1, InMonotone
 <2> QED BY <2>3, <2>5, <2>6 DEF S, T
<1> QED BY <1>0, <1>2, <1>3, <1>4 DEF Bounds

LEMMA SequenceCompactBegin ==
  ASSUME Base, Base', Immutable, Sequence, FileStep,
         \E over \in SUBSET version.l1 : CompactBegin(over)
  PROVE Sequence'
<1>1. PICK over \in SUBSET version.l1 : CompactBegin(over) OBVIOUS
<1>2. /\ UNCHANGED <<logs, manifest, imm, flush, version>>
      /\ \/ comp'.edit.del = version.l0 /\ comp'.edit.seq = version.seq
         \/ comp'.pc = "work"
 BY <1>1, CompactBeginDoes DEF Base
<1>3. Bounds' BY <1>2, BoundsNewEdit DEF Live, Edited
<1> QED BY <1>2, <1>3, SequenceStill

LEMMA SequenceCompactOpen ==
  ASSUME Base, Base', Immutable, Sequence, FileStep, CompactOpen PROVE Sequence'
<1>1. /\ UNCHANGED <<logs, manifest, imm, flush>> /\ comp'.pc = "work"
      /\ version'.l0 = version.l0 /\ version'.l1 = version.l1 /\ version'.log = version.log
 BY CompactOpenDoes DEF Base
<1>2. Bounds' BY <1>1, SequenceIs, FileSeq, BoundsKept DEF Edited
<1> QED BY <1>1, <1>2, SequenceStill

LEMMA SequenceCompactWork ==
  ASSUME Base, Base', Immutable, Sequence, FileStep, CompactWork PROVE Sequence'
<1>1. /\ UNCHANGED <<logs, manifest, imm, flush, version>> /\ comp.pc = "work"
      /\ (comp'.pc = "manifest" /\ CompEdit(comp'.edit)) \/ comp' = NoComp
 BY CompactWorkDoes DEF Base
<1>2. comp.inputs \subseteq Live(version) BY <1>1, ContentsIs DEF Base
<1>3. Bounds' BY <1>1, <1>2, BoundsNewEdit, NoCompType DEF CompEdit, Edited
<1> QED BY <1>1, <1>3, SequenceStill

\* What the version that an edit makes of the newest one holds.
LEMMA AppliedHolds ==
  ASSUME NEW t, NEW v, NEW e, NEW w, w \in In(t, Live(Apply(v, e)))
  PROVE w \in In(t, Live(v)) \/ w \in In(t, Adds(e))
<1> DEFINE S == Live(Apply(v, e))
           T == Live(v)
           A == Adds(e)
<1>1. S \subseteq T \cup A BY ApplyLive
<1>2. w \in In(t, S) OBVIOUS
<1> HIDE DEF S, T, A
<1>3. In(t, S) \subseteq In(t, T \cup A) BY <1>1, InMonotone
<1>4. In(t, T \cup A) = In(t, T) \cup In(t, A) BY InUnion
<1>5. w \in In(t, T) \/ w \in In(t, A) BY <1>2, <1>3, <1>4
<1> QED BY <1>5 DEF T, A

\* A record is added to the manifest.
LEMMA SequenceExtended ==
  ASSUME Base, Base', Immutable, Sequence, FileStep, NEW e \in EditType, NEW ok, Extended(e, ok),
         EditOK(e, Newest(manifest), version), version.log <= e.log,
         \A w \in In(tables, Adds(e)) : Settled(w) /\ seqOf[w] <= e.seq,
         UNCHANGED <<logs, tables, version, imm>>,
         flush'.pc \in Edited => flush.pc \in Edited /\ flush'.edit = flush.edit,
         comp'.pc \in Edited => comp.pc \in Edited /\ comp'.edit = comp.edit
  PROVE Sequence'
<1>0. Edited' = Edited /\ Bounds /\ Shape /\ Quiet /\ Shape' BY SequenceIs DEF Edited, Base
<1>1. seqOf' = seqOf /\ mem' = mem BY <1>0, FileStepCallers
<1>2. \A v \in Disk(manifest') : v \in Disk(manifest) \/ (v = Apply(Newest(manifest), e)
                                                   /\ Newest(manifest) \in Disk(manifest))
 BY DEF Extended
<1>3. \A w \in Writers : Settled(w)' => Settled(w)
 <2> SUFFICES ASSUME NEW w \in Writers, Settled(w)', ~Settled(w) PROVE FALSE OBVIOUS
 <2>1. InMemory' = InMemory BY <1>1 DEF InMemory
 <2>2. PICK v \in Disk(manifest') : w \in In(tables, Live(v)) BY <2>1 DEF Settled
 <2>3. v = Apply(Newest(manifest), e) /\ Newest(manifest) \in Disk(manifest)
  BY <1>2, <2>2 DEF Settled
 <2>4. w \in In(tables, Live(Newest(manifest))) \/ w \in In(tables, Adds(e))
  BY <2>2, <2>3, AppliedHolds
 <2> QED BY <2>3, <2>4 DEF Settled
<1>4. \A v \in Disk(manifest') : v \in Disk(manifest) \/ version.log <= v.log BY <1>2 DEF Apply
<1>5. version.log <= version'.log BY <1>0, VersionIs DEF Shape
<1>6. \A L \in DOMAIN logs : Reachable(L)' => Reachable(L) BY <1>4, <1>5, FileReach
<1>7. \A v \in Disk(manifest') : \A w \in In(tables', Live(v)) : seqOf'[w] <= v.seq
 <2> SUFFICES ASSUME NEW v \in Disk(manifest'), NEW w \in In(tables, Live(v)), v \notin Disk(manifest)
              PROVE seqOf[w] <= v.seq
  BY <1>0, <1>1, FileSeq, BoundsDisk
 <2> DEFINE n == Newest(manifest)
 <2>1. v = Apply(n, e) /\ n \in Disk(manifest) BY <1>2
 <2>2. v.seq = e.seq BY <2>1 DEF Apply
 <2>3. CASE w \in In(tables, Live(n))
  <3>1. seqOf[w] <= n.seq /\ w \in Writers BY <1>0, <2>1, <2>3, SettledAre DEF Bounds
  <3>2. n.seq <= e.seq BY DEF EditOK
  <3>3. n.seq \in Nat /\ e.seq \in Nat BY <1>0, StateNumbers, EditNumbers DEF NumberType
  <3>4. seqOf[w] \in Nat BY <1>0, <3>1 DEF Shape, SeqBounded
  <3> QED BY <2>2, <3>1, <3>2, <3>3, <3>4
 <2>4. CASE w \in In(tables, Adds(e)) BY <2>2, <2>4
 <2> QED BY <2>1, <2>3, <2>4, AppliedHolds
<1>8. flush'.pc \in Edited => \A w \in imm' : seqOf'[w] <= flush'.edit.seq
 BY <1>0, FileSeq, BoundsFlush
<1>9. comp'.pc \in Edited => \A w \in In(tables', comp'.edit.del) : seqOf'[w] <= comp'.edit.seq
 BY <1>0, FileSeq, BoundsComp
<1>10. Bounds' BY <1>0, <1>7, <1>8, <1>9 DEF Bounds
<1> QED BY <1>3, <1>6, <1>10, SequenceFile

LEMMA SequenceFlushManifest ==
  ASSUME Base, Base', Immutable, Sequence, FileStep, FlushManifest PROVE Sequence'
<1> DEFINE e == flush.edit
           ok == flush'.pc = "done"
<1>1. /\ UNCHANGED <<logs, tables, version, imm, comp>> /\ flush.pc = "manifest" /\ e \in EditType
      /\ flush'.edit = e /\ Extended(e, ok) /\ up \in {"open", "closing"} /\ flush.pc \in Edited
 BY FlushManifestDoes DEF Base, Edited
<1>2. EditOK(e, Newest(manifest), version) BY <1>1, BaseIs DEF Edits
<1>3. version.log <= e.log BY <1>1, BaseIs DEF LogFiles, Opened
<1>4. \A w \in In(tables, Adds(e)) : Settled(w) /\ seqOf[w] <= e.seq
 <2>1. In(tables, Adds(e)) = imm BY <1>1, BaseIs, ContentsIs
 <2> QED BY <1>1, <2>1, SettledAre, SequenceIs DEF Bounds
<1>5. flush'.pc \in Edited => flush.pc \in Edited /\ flush'.edit = flush.edit BY <1>1
<1> HIDE DEF e, ok
<1> QED BY <1>1, <1>2, <1>3, <1>4, <1>5, SequenceExtended

LEMMA SequenceCompactManifest ==
  ASSUME Base, Base', Immutable, Sequence, FileStep, CompactManifest PROVE Sequence'
<1> DEFINE e == comp.edit
           ok == comp'.pc = "done"
<1>1. /\ UNCHANGED <<logs, tables, version, imm, flush>> /\ comp.pc = "manifest" /\ e \in EditType
      /\ comp'.edit = e /\ Extended(e, ok) /\ comp.pc \in Edited
 BY CompactManifestDoes DEF Base, Edited
<1>2. EditOK(e, Newest(manifest), version) BY <1>1, BaseIs DEF Edits
<1>3. version.log <= e.log
 <2>1. e.log = version.log /\ version.log \in Nat
  BY <1>1, BaseIs, ShapeIs, VersionIs DEF LogFiles
 <2> QED BY <2>1
<1>4. \A w \in In(tables, Adds(e)) : Settled(w) /\ seqOf[w] <= e.seq
 <2>1. In(tables, Adds(e)) = In(tables, e.del) BY <1>1, BaseIs, ContentsIs DEF Adds
 <2> QED BY <1>1, <2>1, SettledAre, SequenceIs DEF Bounds
<1>5. comp'.pc \in Edited => comp.pc \in Edited /\ comp'.edit = comp.edit BY <1>1
<1> HIDE DEF e, ok
<1> QED BY <1>1, <1>2, <1>3, <1>4, <1>5, SequenceExtended

\* A version is installed.
LEMMA SequenceInstalled ==
  ASSUME Base, Base', Immutable, Sequence, FileStep, UNCHANGED manifest,
         In(tables', Live(version')) \subseteq In(tables, Live(version)) \cup InMemory,
         InMemory' \subseteq InMemory, version.log <= version'.log,
         DOMAIN logs' \subseteq DOMAIN logs, \A n \in DOMAIN logs' : logs'[n] = logs[n], Bounds'
  PROVE Sequence'
<1>1. \A v \in Disk(manifest) : In(tables', Live(v)) = In(tables, Live(v)) BY DiskHolds
<1>2. \A w \in Writers : Settled(w)' => Settled(w) BY <1>1 DEF Settled
<1>3. \A L \in DOMAIN logs : Reachable(L)' => Reachable(L) BY FileReach
<1> QED BY <1>2, <1>3, SequenceFile

LEMMA SequenceFlushInstall ==
  ASSUME Base, Base', Immutable, Sequence, FileStep, FlushInstall PROVE Sequence'
<1>0. Shape /\ Quiet /\ Files /\ Files' /\ Contents /\ LogFiles BY BaseIs DEF Base
<1>1. /\ UNCHANGED <<manifest, comp, mem, logfile>> /\ flush.edit \in EditType /\ flush' = NoFlush
      /\ up \in {"open", "closing"}
      /\ \/ /\ flush.pc = "done" /\ version' = Installed(flush.edit) /\ imm' = Nil
            /\ DeleteObsoleteFiles(version', pending)
         \/ UNCHANGED <<version, imm, logs, tables>>
 BY <1>0, FlushInstallDoes
<1>2. Bounds' BY <1>1, SequenceIs, FileSeq, BoundsKept, NoFlushType DEF Edited
<1>3. CASE UNCHANGED <<version, imm, logs, tables>>
 <2>1. version.log <= version'.log BY <1>0, <1>3, ShapeIs, VersionIs
 <2>2. InMemory' \subseteq InMemory BY <1>1, <1>3 DEF InMemory
 <2> QED BY <1>1, <1>2, <1>3, <2>1, <2>2, SequenceInstalled
<1>4. CASE /\ flush.pc = "done" /\ version' = Installed(flush.edit) /\ imm' = Nil
           /\ DeleteObsoleteFiles(version', pending)
 <2>1. In(tables', Live(version')) = In(tables, Live(version)) \cup imm
  BY <1>0, <1>1, <1>4, FlushInstalled
 <2>2. imm # Nil BY <1>0, <1>4, FlushIdle
 <2>3. InMemory' \subseteq InMemory /\ imm \subseteq InMemory BY <1>1, <1>4, <2>2 DEF InMemory
 <2>4. version'.log = logfile /\ version.log <= logfile
  BY <1>0, <1>1, <1>4, InstalledIs, ShapeIs DEF LogFiles, Opened, Edited
 <2>5. DOMAIN logs' \subseteq DOMAIN logs /\ \A n \in DOMAIN logs' : logs'[n] = logs[n]
  BY <1>0, <1>4, DeleteDoes DEF Deleted
 <2> QED BY <1>1, <1>2, <2>1, <2>3, <2>4, <2>5, SequenceInstalled
<1> QED BY <1>1, <1>3, <1>4

LEMMA SequenceCompactInstall ==
  ASSUME Base, Base', Immutable, Sequence, FileStep, CompactInstall PROVE Sequence'
<1>0. Shape /\ Quiet /\ Files /\ Files' /\ Contents /\ LogFiles BY BaseIs DEF Base
<1>1. /\ UNCHANGED <<manifest, flush, mem, imm, logfile>> /\ comp.edit \in EditType /\ comp' = NoComp
      /\ up \in {"open", "closing"}
      /\ \/ /\ comp.pc = "done" /\ version' = Installed(comp.edit)
            /\ UNCHANGED <<logs, tables>> \/ DeleteObsoleteFiles(version', pending')
         \/ UNCHANGED <<version, logs, tables>>
 BY <1>0, CompactInstallDoes
<1>2. Bounds' BY <1>1, SequenceIs, FileSeq, BoundsKept, NoCompType DEF Edited
<1>3. InMemory' \subseteq InMemory BY <1>1 DEF InMemory
<1>4. CASE UNCHANGED <<version, logs, tables>>
 <2>1. version.log <= version'.log BY <1>0, <1>4, ShapeIs, VersionIs
 <2> QED BY <1>1, <1>2, <1>3, <1>4, <2>1, SequenceInstalled
<1>5. CASE /\ comp.pc = "done" /\ version' = Installed(comp.edit)
           /\ UNCHANGED <<logs, tables>> \/ DeleteObsoleteFiles(version', pending')
 <2>1. In(tables', Live(version')) = In(tables, Live(version)) BY <1>0, <1>1, <1>5, CompactInstalled
 <2>2. version'.log = version.log /\ version.log \in Nat
  BY <1>0, <1>1, <1>5, InstalledIs, ShapeIs, VersionIs DEF LogFiles, Edited
 <2>3. DOMAIN logs' \subseteq DOMAIN logs /\ \A n \in DOMAIN logs' : logs'[n] = logs[n]
  BY <1>0, <1>5, DeleteDoes DEF Deleted
 <2>4. version.log <= version'.log BY <2>2
 <2> QED BY <1>1, <1>2, <1>3, <2>1, <2>3, <2>4, SequenceInstalled
<1> QED BY <1>1, <1>4, <1>5

\* The background thread keeps Sequence.
LEMMA SequenceFileStep ==
  ASSUME Base, Base', Immutable, Sequence, FileStep PROVE Sequence'
BY SequenceFlushBegin, SequenceFlushBuild, SequenceFlushManifest, SequenceFlushInstall,
   SequenceCompactBegin, SequenceCompactOpen, SequenceCompactWork, SequenceCompactManifest,
   SequenceCompactInstall DEF FileStep

\* A table written during recovery holds what was read.
LEMMA RebuiltTable ==
  ASSUME Base, up = "recovering", NEW s, Written(version.next, s),
         rec'.added = rec.added \cup {version.next}
  PROVE In(tables', rec'.added) = In(tables, rec.added) \cup s
<1> DEFINE A == rec.added
           n == version.next
<1>0. n \in Nat /\ A \subseteq Nat BY BaseIs, ShapeIs, VersionIs, RecIs
<1>1. A \subseteq DOMAIN tables BY BaseIs, FilesIs
<1>2. \A k \in A : k < n BY BaseIs DEF Alloc
<1>3. n \notin A BY <1>0, <1>2
<1>4. A \subseteq DOMAIN tables' /\ \A k \in A : tables'[k] = tables[k] BY <1>1, <1>3 DEF Written
<1>5. n \in DOMAIN tables' /\ tables'[n] = s BY DEF Written
<1>6. rec'.added = A \cup {n} OBVIOUS
<1> HIDE DEF A, n
<1>7. In(tables', A) = In(tables, A) BY <1>1, <1>4, InKept
<1>8. In(tables', {n}) = s BY <1>5 DEF In
<1>9. In(tables', A \cup {n}) = In(tables', A) \cup In(tables', {n}) BY InUnion
<1> QED BY <1>6, <1>7, <1>8, <1>9 DEF A

\* A record is torn or read.
LEMMA ReplayRecord ==
  ASSUME Base, Recovering, RecoverRecord PROVE ReplaysTorn \/ ReplaysRead
<1> DEFINE r == Oldest[rec.pos]
<1>0. Shape BY DEF Base
<1>1. /\ rec.logs # {} /\ rec.pos \in 1 .. Len(Oldest) /\ r \in SUBSET Writers
      /\ \/ /\ UNCHANGED <<tables, version>> /\ r = TornLog
            /\ rec'.pos \in rec.pos + 1 .. Len(Oldest) + 1
            /\ rec'.logs = rec.logs /\ rec'.mem = rec.mem
            /\ rec'.added = rec.added /\ rec'.maxseq = rec.maxseq
         \/ /\ UNCHANGED <<tables, version>> /\ Reads(r, rec')
            /\ rec'.mem = rec.mem \cup r /\ rec'.added = rec.added
         \/ /\ RecoverTable(rec.mem \cup r, 0) /\ Reads(r, rec')
            /\ rec'.mem = {} /\ rec'.added = rec.added \cup {version.next}
         \/ OpenFails
 BY <1>0, RecoverRecordDoes DEF Oldest
<1>2. ~OpenFails /\ up = "recovering" BY DEF OpenFails, Recovering
<1>3. CASE /\ UNCHANGED <<tables, version>> /\ r = TornLog
           /\ rec'.pos \in rec.pos + 1 .. Len(Oldest) + 1
           /\ rec'.logs = rec.logs /\ rec'.mem = rec.mem
           /\ rec'.added = rec.added /\ rec'.maxseq = rec.maxseq
 <2>1. Rebuilt' = Rebuilt BY <1>3 DEF Rebuilt
 <2>2. rec.pos \in Nat /\ Len(Oldest) \in Nat BY <1>0, <1>1, RecIs, OldestLog DEF Oldest
 <2>3. rec'.pos \in Nat /\ rec.pos < rec'.pos BY <1>3, <2>2
 <2> QED BY <1>1, <1>3, <2>1, <2>3 DEF ReplaysTorn
<1>4. CASE /\ UNCHANGED <<tables, version>> /\ Reads(r, rec')
           /\ rec'.mem = rec.mem \cup r /\ rec'.added = rec.added
 <2>1. Rebuilt' = Rebuilt \cup r BY <1>4 DEF Rebuilt
 <2> QED BY <1>1, <1>4, <2>1 DEF ReplaysRead
<1>5. CASE /\ RecoverTable(rec.mem \cup r, 0) /\ Reads(r, rec')
           /\ rec'.mem = {} /\ rec'.added = rec.added \cup {version.next}
 <2> DEFINE m == rec.mem \cup r
            z == 0
 <2>1. m \in SUBSET Writers /\ z \in Nat /\ RecoverTable(m, z) BY <1>0, <1>1, <1>5, RecIs
 <2> HIDE DEF m, z
 <2>2. Written(version.next, m) BY <1>0, <2>1, RecoverTableWrites
 <2>3. In(tables', rec'.added) = In(tables, rec.added) \cup m BY <1>2, <1>5, <2>2, RebuiltTable
 <2>4. Rebuilt' = Rebuilt \cup r BY <1>5, <2>3 DEF Rebuilt, m
 <2> QED BY <1>1, <1>5, <2>4 DEF ReplaysRead
<1> QED BY <1>1, <1>2, <1>3, <1>4, <1>5

\* The end of a log.
LEMMA ReplayLogDone ==
  ASSUME Base, Recovering, RecoverLogDone PROVE ReplaysDone
<1>0. Shape BY DEF Base
<1>1. /\ rec.pos > Len(Oldest)
      /\ \/ /\ rec'.logs = rec.logs \ {Min(rec.logs)} /\ rec'.pos = 1 /\ rec'.mem = {}
            /\ rec'.maxseq = rec.maxseq
            /\ rec.mem = {} /\ UNCHANGED tables /\ rec'.added = rec.added
         \/ /\ rec'.logs = rec.logs \ {Min(rec.logs)} /\ rec'.pos = 1 /\ rec'.mem = {}
            /\ rec'.maxseq = rec.maxseq
            /\ RecoverTable(rec.mem, Min(rec.logs) + 1)
            /\ rec'.added = rec.added \cup {version.next}
         \/ OpenFails
 BY <1>0, RecoverLogDoneDoes DEF Oldest
<1>2. ~OpenFails /\ up = "recovering" /\ rec.logs # {} BY DEF OpenFails, Recovering
<1>3. CASE rec.mem = {} /\ UNCHANGED tables /\ rec'.added = rec.added /\ rec'.mem = {}
 <2>1. Rebuilt' = Rebuilt BY <1>3 DEF Rebuilt
 <2> QED BY <1>1, <1>2, <2>1 DEF ReplaysDone
<1>4. CASE /\ RecoverTable(rec.mem, Min(rec.logs) + 1)
           /\ rec'.added = rec.added \cup {version.next} /\ rec'.mem = {}
 <2> DEFINE m == rec.mem
            z == Min(rec.logs) + 1
 <2>1. m \in SUBSET Writers /\ z \in Nat /\ RecoverTable(m, z)
  BY <1>0, <1>2, <1>4, RecIs, OldestLog
 <2> HIDE DEF m, z
 <2>2. Written(version.next, m) BY <1>0, <2>1, RecoverTableWrites
 <2>3. In(tables', rec'.added) = In(tables, rec.added) \cup m BY <1>2, <1>4, <2>2, RebuiltTable
 <2>4. Rebuilt' = Rebuilt BY <1>4, <2>3 DEF Rebuilt, m
 <2> QED BY <1>1, <1>2, <2>4 DEF ReplaysDone
<1> QED BY <1>1, <1>2, <1>3, <1>4

\* What is left of a log was in it.
LEMMA HoldsKept ==
  ASSUME Shape, Shape', NEW f, NEW g, Kept(f, g), Len(f.recs) \in Nat, Len(g.recs) \in Nat,
         NEW w, Holds(g, w)
  PROVE Holds(f, w)
<1>1. PICK i \in 1 .. Len(g.recs) : w \in g.recs[i] BY DEF Holds
<1>2. i \in 1 .. Len(f.recs) BY DEF Kept
<1> QED BY <1>1, <1>2 DEF Kept, Holds

\* The lengths of the logs.
LEMMA LogLengths ==
  ASSUME Shape
  PROVE  \A n \in DOMAIN logs : /\ logs[n].recs \in Seq(SUBSET Writers) /\ Len(logs[n].recs) \in Nat
                                /\ logs[n].synced \in Nat /\ logs[n].synced <= Len(logs[n].recs)
BY DEF Shape, LogsOK, LogFileType

\* What is left of the process, field by field.
LEMMA DownDoes ==
  ASSUME Shape, Down
  PROVE  /\ rec' = NoRec /\ version' = EmptyVersion /\ flush' = NoFlush /\ comp' = NoComp
         /\ up' = "closed" /\ tables' = tables /\ seqOf' = seqOf /\ mem' = {} /\ imm' = Nil
         /\ Disk(manifest') \subseteq Disk(manifest) /\ Live(version') = {}
         /\ InMemory' = {} /\ Group' = {}
<1>1. /\ rec' = NoRec /\ version' = EmptyVersion /\ flush' = NoFlush /\ comp' = NoComp
      /\ up' = "closed" /\ tables' = tables /\ seqOf' = seqOf /\ mem' = {} /\ imm' = Nil
 BY ForgetDoes DEF Down
<1>2. Disk(manifest') \subseteq Disk(manifest) BY ManifestCut, ShapeIs DEF Down, ManifestOK
<1>3. Live(version') = {} BY <1>1 DEF Live, EmptyVersion
<1>4. InMemory' = {} BY <1>1 DEF InMemory
<1>5. Group' = {} BY DownCallers, NoGroup
<1> QED BY <1>1, <1>2, <1>3, <1>4, <1>5

LEMMA SequenceDown ==
  ASSUME Base, Base', Immutable, Sequence, Down PROVE Sequence'
<1>0. /\ Shape /\ Shape' /\ Quiet /\ Queue /\ Distinct /\ Begun /\ Past /\ Bounds /\ Recovered
      /\ Fresh' = Fresh /\ Writers' = Writers
 BY SequenceIs DEF Base, Fresh, Writers
<1>1. /\ flush' = NoFlush /\ comp' = NoComp /\ up' = "closed" /\ tables' = tables /\ seqOf' = seqOf
      /\ Disk(manifest') \subseteq Disk(manifest) /\ Live(version') = {}
      /\ InMemory' = {} /\ Group' = {}
 BY <1>0, DownDoes
<1>2. In(tables', Live(version')) = {} BY <1>1, InNone
<1>3. \A w \in Writers : Settled(w)' => Settled(w) BY <1>1, <1>2 DEF Settled
<1>4. \A w \in Writers : Logged(w)' => Logged(w)
 <2>1. DOMAIN logs' = DOMAIN logs /\ \A n \in DOMAIN logs : Kept(logs[n], logs'[n]) BY DEF Down
 <2>2. \A n \in DOMAIN logs : Len(logs[n].recs) \in Nat /\ Len(logs'[n].recs) \in Nat
  <3>1. \A n \in DOMAIN logs' : Len(logs'[n].recs) \in Nat BY <1>0 DEF Shape, LogsOK, LogFileType
  <3> QED BY <1>0, <2>1, <3>1, LogLengths
 <2>3. \A L \in DOMAIN logs', w \in Writers :
            Holds(logs'[L], w) => L \in DOMAIN logs /\ Holds(logs[L], w)
  BY <1>0, <2>1, <2>2, HoldsKept
 <2>4. \A L \in DOMAIN logs : Reachable(L)' => Reachable(L) BY <1>1 DEF Reachable, Running
 <2> QED BY <2>3, <2>4, LoggedKept
<1>5. Distinct' BY <1>0, <1>1, <1>3, <1>4 DEF Distinct, Known
<1>6. Begun'
 <2>1. \A w \in Writers : req[w].st \notin Fresh => req'[w].st \notin Fresh
  BY <1>0, DownCallers, OnwardFresh
 <2>2. \A w \in Writers : Settled(w)' => req'[w].st \notin Fresh BY <1>0, <1>3, <2>1 DEF Begun
 <2>3. \A w \in Writers : Logged(w)' /\ req'[w].st \in Fresh => w \in Group'
  <3> SUFFICES ASSUME NEW w \in Writers, Logged(w)', req'[w].st \in Fresh PROVE FALSE OBVIOUS
  <3>1. w \in Group BY <1>0, <1>4, <2>1 DEF Begun
  <3>2. req[w].st = "queued" BY <1>0, <3>1, GroupMembers
  <3>3. up = "open" BY <1>0, <3>2, QueueFieldsOf DEF Waiting
  <3>4. req'[w].st \notin {"queued", "check", "wait"} BY <3>3 DEF Down
  <3>5. req'[w].st # "idle" BY <3>2 DEF Down
  <3> QED BY <3>4, <3>5 DEF Fresh
 <2> QED BY <1>0, <2>2, <2>3 DEF Begun
<1>7. Past' BY <1>1 DEF Past, Running
<1>8. Bounds' BY <1>0, <1>1, BoundsKept, NoFlushType, NoCompType DEF SeqKept, Edited
<1>9. Recovered' BY <1>1 DEF Recovered
<1> QED BY <1>5, <1>6, <1>7, <1>8, <1>9 DEF Sequence

\* ----- DB::Open
\* While DB::Open runs nothing is in memory.
LEMMA OpeningDoes ==
  ASSUME Base, Base', Immutable, Sequence, OpeningStep
  PROVE  /\ Group = {} /\ Group' = {} /\ UNCHANGED <<req, seqOf, flush, comp, imm>>
         /\ InMemory = {} /\ InMemory' = {} /\ SeqKept
         /\ flush.pc \notin Edited /\ comp.pc \notin Edited
<1>0. Shape /\ Quiet /\ Queue BY DEF Base
<1>1. /\ UNCHANGED <<mem, imm, lead, req, seqOf, flush, comp>> /\ lead.group = <<>>
      /\ flush.pc = "none" /\ comp.pc = "none" /\ mem = {} /\ imm = Nil /\ lead.pc = "none"
 BY <1>0, OpeningCallers
<1>2. Group = {} BY <1>0, <1>1, GroupMembers DEF Logging
<1>3. Group' = {} BY <1>1, NoGroup
<1>4. InMemory = {} /\ InMemory' = {} BY <1>1 DEF InMemory
<1> QED BY <1>1, <1>2, <1>3, <1>4 DEF SeqKept, Edited

\* The steps that add no batch to the version.
LEMMA SequenceOpening ==
  ASSUME Base, Base', Immutable, Sequence, OpeningStep, Disk(manifest') \subseteq Disk(manifest),
         \A w \in Writers : w \in In(tables', Live(version')) => Settled(w),
         \A L \in DOMAIN logs', w \in Writers :
             Holds(logs'[L], w) => L \in DOMAIN logs /\ Holds(logs[L], w),
         Running' => Running /\ UNCHANGED version, Recovered'
  PROVE Sequence'
<1>0. Shape /\ Shape' /\ Distinct /\ Begun /\ Past /\ Bounds BY SequenceIs DEF Base
<1>1. /\ Group = {} /\ Group' = Group /\ UNCHANGED <<req, seqOf, flush, comp, imm>>
      /\ InMemory' = {} /\ SeqKept /\ flush.pc \notin Edited /\ comp.pc \notin Edited
 BY OpeningDoes
<1>2. \A v \in Disk(manifest') : In(tables', Live(v)) = In(tables, Live(v)) BY DiskHolds
<1>3. \A w \in Writers : Settled(w)' => Settled(w) BY <1>1, <1>2 DEF Settled
<1>4. Running' => Running /\ version.log <= version'.log /\ version.seq <= version'.seq
 BY <1>0, VersionIs DEF Shape
<1>5. \A L \in DOMAIN logs : Reachable(L)' => Reachable(L) BY <1>0, <1>4, ReachKept
<1>6. \A w \in Writers : Logged(w)' => Logged(w) BY <1>5, LoggedKept
<1>7. Distinct' /\ Begun' /\ Past' BY <1>0, <1>1, <1>3, <1>4, <1>6, UniqueSame
<1>8. Bounds' BY <1>0, <1>1, BoundsKept
<1> QED BY <1>7, <1>8 DEF Sequence

LEMMA SequenceOpenRecover ==
  ASSUME Base, Base', Immutable, Sequence, OpenRecover PROVE Sequence'
<1>0. OpeningStep /\ Shape /\ Quiet BY DEF OpeningStep, Base
<1>1. /\ UNCHANGED <<logs, tables, manifest>> /\ up = "closed"
      /\ \/ /\ up' = "recovering" /\ Same(version', Newest(manifest))
            /\ Newest(manifest) \in Disk(manifest) /\ rec'.mem = {} /\ rec'.added = {}
         \/ up' = "corrupt" /\ UNCHANGED version
 BY <1>0, OpenRecoverDoes
<1>2. \A w \in Writers : w \in In(tables', Live(version')) => Settled(w)
 BY <1>1, SameLive DEF Settled
<1>3. ~Running' BY <1>1 DEF Running
<1>4. Recovered'
 <2>1. CASE up' = "corrupt" BY <2>1 DEF Recovered
 <2>2. CASE rec'.mem = {} /\ rec'.added = {} /\ up' = "recovering"
  <3>1. Rebuilt' = {} BY <2>2, InNone DEF Rebuilt
  <3> QED BY <2>2, <3>1 DEF Recovered
 <2> QED BY <1>1, <2>1, <2>2
<1> QED BY <1>0, <1>1, <1>2, <1>3, <1>4, SequenceOpening

LEMMA SequenceRecovering ==
  ASSUME Base, Base', Immutable, Sequence, Recovering, RecoverRecord \/ RecoverLogDone
  PROVE Sequence'
<1>0. OpeningStep /\ Shape /\ Quiet /\ Unread /\ Recovered BY BaseIs, SequenceIs DEF OpeningStep
<1>1. /\ UNCHANGED <<logs, manifest, up, seqOf>> /\ up = "recovering" /\ Same(version', version)
      /\ rec.logs # {}
 BY DEF Recovering
<1>2. \A w \in Writers : w \in In(tables', Live(version')) => Settled(w)
 <2>1. Live(version') = Live(version) /\ Files /\ Files' BY <1>1, SameLive DEF Base
 <2>2. In(tables', Live(version')) = In(tables, Live(version)) BY <2>1, SameTables
 <2> QED BY <2>2 DEF Settled
<1>3. ~Running' BY <1>1 DEF Running
<1>4. \A w \in Writers : Logged(w) => Logged(w)' BY <1>1 DEF Logged, Reachable, Running
<1>5. rec.maxseq \in Nat /\ rec.pos \in Nat /\ Rebuilt \subseteq Writers
 BY <1>0, RecIs, InWriters DEF Rebuilt
<1>6. \A w \in Rebuilt : Logged(w) /\ seqOf[w] <= rec.maxseq BY <1>0, <1>1 DEF Recovered
<1>7. \A w \in Rebuilt' : Logged(w)' /\ seqOf[w] <= rec'.maxseq
 <2>1. CASE ReplaysTorn \/ ReplaysDone BY <1>4, <1>5, <1>6, <2>1 DEF ReplaysTorn, ReplaysDone
 <2>2. CASE ReplaysRead
  <3> DEFINE r == Oldest[rec.pos]
  <3>1. /\ rec.pos \in 1 .. Len(Oldest) /\ r \in SUBSET Writers /\ Rebuilt' = Rebuilt \cup r
        /\ rec'.maxseq \in Nat /\ rec.maxseq <= rec'.maxseq /\ \A w \in r : seqOf[w] <= rec'.maxseq
   BY <2>2 DEF ReplaysRead, Reads, RecType
  <3>2. \A w \in r : Logged(w)
   <4>1. /\ Min(rec.logs) \in DOMAIN logs /\ Min(rec.logs) \in rec.logs BY <1>0, <1>1, OldestLog
   <4>2. Reachable(Min(rec.logs))
    <5>1. Min(rec.logs) >= version.log /\ version.log = Newest(manifest).log
          /\ Newest(manifest) \in Disk(manifest)
     BY <1>0, <1>1, <4>1 DEF Unread, Same
    <5> QED BY <5>1 DEF Reachable
   <4>3. \A w \in r : Holds(logs[Min(rec.logs)], w) BY <3>1 DEF Holds, Oldest
   <4> QED BY <4>1, <4>2, <4>3 DEF Logged
  <3>3. \A w \in Rebuilt : seqOf[w] <= rec'.maxseq
   <4> SUFFICES ASSUME NEW w \in Rebuilt PROVE seqOf[w] <= rec'.maxseq OBVIOUS
   <4>1. seqOf[w] \in Nat BY <1>0, <1>5 DEF Shape, SeqBounded
   <4> QED BY <1>5, <1>6, <3>1, <4>1
  <3> QED BY <1>4, <1>5, <1>6, <3>1, <3>2, <3>3
 <2> QED BY <2>1, <2>2, ReplayRecord, ReplayLogDone
<1>8. Recovered' BY <1>1, <1>7 DEF Recovered
<1> QED BY <1>0, <1>1, <1>2, <1>3, <1>8, SequenceOpening

\* The new log has a new number.
LEMMA OpenedLogNew == ASSUME Base, OpenedLog PROVE logfile' \notin DOMAIN logs
<1>0. Shape /\ Unread BY BaseIs
<1>1. \A L \in DOMAIN logs : L \in Nat /\ L < version.next
 BY <1>0, StateNumbers DEF OpenedLog, Unread
<1>2. logfile' = version.next /\ version.next \in Nat BY <1>0, ShapeIs, VersionIs DEF OpenedLog
<1> QED BY <1>1, <1>2

LEMMA SequenceOpenedLog ==
  ASSUME Base, Base', Immutable, Sequence, OpenedLog PROVE Sequence'
<1>0. OpeningStep /\ Shape /\ Shape' /\ Recovered BY BaseIs, SequenceIs DEF OpeningStep, Base
<1>1. /\ UNCHANGED <<tables, manifest, rec, seqOf>> /\ up = "recovering" /\ up' = "new_manifest"
      /\ Same(version', version) /\ rec.maxseq <= version'.seq
      /\ DOMAIN logs' = DOMAIN logs \cup {logfile'} /\ logs'[logfile'].recs = <<>>
      /\ \A k \in DOMAIN logs : logs'[k] = logs[k]
 BY OpenedLogNew DEF OpenedLog
<1>2. \A w \in Writers : w \in In(tables', Live(version')) => Settled(w)
 BY <1>1, SameLive DEF Settled
<1>3. \A L \in DOMAIN logs', w \in Writers :
          Holds(logs'[L], w) => L \in DOMAIN logs /\ Holds(logs[L], w)
 BY <1>1, EmptyHolds
<1>4. ~Running /\ ~Running' BY <1>1 DEF Running
<1>5. \A w \in Writers : Logged(w) => Logged(w)' BY <1>1, <1>4 DEF Logged, Reachable
<1>6. Recovered'
 <2>1. Rebuilt' = Rebuilt BY <1>1 DEF Rebuilt
 <2>2. Rebuilt \subseteq Writers BY <1>0, RecIs, InWriters DEF Rebuilt
 <2>3. \A w \in Rebuilt : Logged(w)' /\ seqOf[w] <= rec.maxseq
  BY <1>0, <1>1, <1>5, <2>2 DEF Recovered
 <2> QED BY <1>1, <2>1, <2>3 DEF Recovered
<1> QED BY <1>0, <1>1, <1>2, <1>3, <1>4, <1>6, SequenceOpening

LEMMA SequenceOpenedManifest ==
  ASSUME Base, Base', Immutable, Sequence, OpenedManifest PROVE Sequence'
<1>0. /\ OpeningStep /\ Shape /\ Shape' /\ Recovered /\ Alloc /\ Unread /\ LogFiles
      /\ Distinct /\ Begun /\ Past /\ Bounds /\ Edited' = Edited
 BY BaseIs, SequenceIs DEF OpeningStep, Base, Edited
<1>1. /\ UNCHANGED <<tables, logs>> /\ up = "new_manifest" /\ up' = "cleanup"
      /\ version'.l0 = version.l0 \cup rec.added /\ version'.l1 = version.l1
      /\ version'.log = logfile /\ version'.seq = version.seq
      /\ Disk(manifest') = {Newest(manifest')} /\ Same(Newest(manifest'), version')
      /\ Newest(manifest').seq = version.seq
 BY DEF OpenedManifest
<1>2. /\ Group = {} /\ Group' = Group /\ UNCHANGED <<req, seqOf, flush, comp, imm>>
      /\ InMemory' = {} /\ flush.pc \notin Edited /\ comp.pc \notin Edited
 BY <1>0, OpeningDoes
<1>3. In(tables', Live(version')) = In(tables, Live(version)) \cup In(tables, rec.added)
 <2> DEFINE S == Live(version)
            A == rec.added
 <2>1. Live(version') = S \cup A BY <1>1 DEF Live
 <2> HIDE DEF S, A
 <2>2. In(tables, S \cup A) = In(tables, S) \cup In(tables, A) BY InUnion
 <2> QED BY <1>1, <2>1, <2>2 DEF S, A
<1>4. Live(Newest(manifest')) = Live(version') BY <1>1, SameLive
<1>5. \A w \in In(tables, rec.added) : Logged(w) /\ seqOf[w] <= rec.maxseq
 BY <1>0, <1>1 DEF Recovered, Rebuilt
<1>6. \A w \in Writers : Settled(w)' => w \in In(tables', Live(version'))
 BY <1>1, <1>2, <1>4 DEF Settled
<1>7. \A w \in In(tables', Live(version')) : seqOf[w] <= version.seq
 <2> SUFFICES ASSUME NEW w \in In(tables', Live(version')) PROVE seqOf[w] <= version.seq OBVIOUS
 <2>0. w \in Writers BY <1>0, <1>3, InWriters
 <2>1. seqOf[w] \in Nat /\ version.seq \in Nat /\ rec.maxseq \in Nat /\ Newest(manifest).seq \in Nat
  BY <1>0, <2>0, RecIs, StateNumbers DEF Shape, SeqBounded, NumberType
 <2>2. CASE w \in In(tables, rec.added)
  <3>1. seqOf[w] <= rec.maxseq /\ rec.maxseq <= version.seq BY <1>0, <1>1, <1>5, <2>2 DEF Recovered
  <3> QED BY <2>1, <3>1
 <2>3. CASE w \in In(tables, Live(version))
  <3>1. Same(version, Newest(manifest)) /\ Newest(manifest) \in Disk(manifest)
   BY <1>0, <1>1 DEF Unread
  <3>2. w \in In(tables, Live(Newest(manifest))) BY <2>3, <3>1, SameLive
  <3>3. seqOf[w] <= Newest(manifest).seq BY <1>0, <3>1, <3>2 DEF Bounds
  <3>4. Newest(manifest).seq <= version.seq BY <1>0, <1>1 DEF Alloc
  <3> QED BY <2>1, <3>3, <3>4
 <2> QED BY <1>3, <2>2, <2>3
<1>8. \A w \in Writers : ~Logged(w)'
 <2> SUFFICES ASSUME NEW w \in Writers, Logged(w)' PROVE FALSE OBVIOUS
 <2>1. PICK L \in DOMAIN logs : Reachable(L)' /\ Holds(logs[L], w) BY <1>1 DEF Logged
 <2>2. Newest(manifest').log = logfile BY <1>1 DEF Same
 <2>3. logfile <= L BY <1>1, <2>1, <2>2 DEF Reachable
 <2>4. L <= logfile /\ L \in Nat /\ logfile \in Nat BY <1>0, <1>1, StateNumbers DEF LogFiles, Opened
 <2>5. L = logfile BY <2>3, <2>4
 <2>6. logs[logfile].recs = <<>> BY <1>0, <1>1 DEF Recovered
 <2> QED BY <2>1, <2>5, <2>6, EmptyHolds
<1>9. \A w \in Writers : Settled(w)' => Settled(w) \/ (Logged(w) /\ w \notin Group)
 BY <1>2, <1>3, <1>5, <1>6 DEF Settled
<1>10. Distinct' /\ Begun' /\ Past'
 <2>1. \A w \in Writers : Settled(w)' \/ (Logged(w)' /\ w \notin Group) => seqOf[w] <= version'.seq
  BY <1>1, <1>6, <1>7, <1>8
 <2> QED BY <1>0, <1>2, <1>8, <1>9, <2>1, UniqueKept
<1>11. Bounds' BY <1>0, <1>1, <1>2, <1>4, <1>7 DEF Bounds
<1>12. Recovered' BY <1>1 DEF Recovered
<1> QED BY <1>10, <1>11, <1>12 DEF Sequence

LEMMA SequenceOpenCleanup ==
  ASSUME Base, Base', Immutable, Sequence, OpenCleanup PROVE Sequence'
<1>0. OpeningStep /\ Shape /\ Quiet BY DEF OpeningStep, Base
<1> DEFINE p == {}
<1>1. /\ UNCHANGED <<manifest, version>> /\ up = "cleanup" /\ up' = "open" /\ Deleted(version, p)
 BY <1>0, OpenCleanupDoes
<1> HIDE DEF p
<1>2. \A w \in Writers : w \in In(tables', Live(version')) => Settled(w)
 <2>1. Live(version') = Live(version) /\ Files /\ Files' BY <1>1 DEF Base
 <2>2. In(tables', Live(version')) = In(tables, Live(version)) BY <2>1, SameTables
 <2> QED BY <2>2 DEF Settled
<1>3. \A L \in DOMAIN logs', w \in Writers :
          Holds(logs'[L], w) => L \in DOMAIN logs /\ Holds(logs[L], w)
 BY <1>1 DEF Deleted
<1>4. Running BY <1>1 DEF Running
<1>5. Recovered' BY <1>1 DEF Recovered
<1> QED BY <1>0, <1>1, <1>2, <1>3, <1>4, <1>5, SequenceOpening

\* Every step keeps Sequence.
LEMMA SequenceStep == ASSUME Base, Sequence, [Next]_vars PROVE Sequence'
<1>1. Base' /\ Immutable /\ Shape BY BaseStep, BaseIs
<1> QED BY <1>1, NextCases, SequenceCall, SequenceFileStep, SequenceDown, SequenceOpenRecover,
     SequenceRecovering, SequenceOpenedLog, SequenceOpenedManifest, SequenceOpenCleanup

\* Initially the layers below hold,
LEMMA InitBase == Init => Base
BY InitShape, InitFiles, InitNumbers, InitContents, InitQueue DEF Base

\* nothing is logged or settled,
LEMMA InitEmpty ==
  ASSUME Init
  PROVE  /\ \A w : ~Settled(w) /\ ~Logged(w)
         /\ Group = {} /\ \A S : In(tables, S) = {}
<1>1. /\ tables = <<>> /\ logs = <<>> /\ mem = {} /\ imm = Nil /\ lead = NoLead BY DEF Init
<1>2. DOMAIN tables = {} /\ DOMAIN logs = {} BY <1>1
<1>3. \A S : In(tables, S) = {} BY <1>2 DEF In
<1>4. InMemory = {} BY <1>1 DEF InMemory
<1>5. Group = {} BY <1>1, InitBase, GroupMembers, NoLeadType DEF Base, Logging
<1>6. \A w : ~Settled(w) BY <1>3, <1>4 DEF Settled
<1>7. \A w : ~Logged(w) BY <1>2 DEF Logged
<1> QED BY <1>3, <1>5, <1>6, <1>7

\* and Sequence holds.
LEMMA InitSequence == Init => Sequence
<1> SUFFICES ASSUME Init PROVE Sequence OBVIOUS
<1>1. up = "closed" /\ flush.pc = "none" /\ comp.pc = "none" BY NoFlushType, NoCompType DEF Init
<1>2. Distinct BY InitEmpty DEF Distinct, Known
<1>3. Begun BY InitEmpty DEF Begun
<1>4. Past BY <1>1, InitEmpty DEF Past, Running
<1>5. Bounds BY <1>1, InitEmpty DEF Bounds, Edited
<1>6. Recovered BY <1>1 DEF Recovered
<1> QED BY <1>2, <1>3, <1>4, <1>5, <1>6 DEF Sequence

\* Sequence implies the property.
LEMMA SequenceUnique == Base /\ Sequence => SequenceNumbersUnique
<1> SUFFICES ASSUME Base, Sequence, up = "open" PROVE SequenceNumbersUnique
 BY DEF SequenceNumbersUnique
<1>1. \A w \in Visible : Settled(w) /\ w \in Writers BY SettledAre, VisibleIs
<1>2. \A v, w \in Visible : v # w => seqOf[v] # seqOf[w] BY <1>1, SequenceIs DEF Distinct, Known
<1>3. \A w \in Visible : seqOf[w] <= version.seq BY <1>1, SequenceIs DEF Past, Running
<1> QED BY <1>2, <1>3 DEF SequenceNumbersUnique

\* Two batches that can both be read never carry the same sequence number, and the next
\* number given is beyond all: also after a failed write, whose number is used up but
\* whose record may be found in the log, and after a recovery that found only part of it.
THEOREM SequenceNumbersAlwaysUnique == Spec => []SequenceNumbersUnique
<1>1. Init => Base /\ Sequence BY InitBase, InitSequence
<1>2. Base /\ Sequence /\ [Next]_vars => Base' /\ Sequence' BY BaseStep, SequenceStep
<1>3. Base /\ Sequence => SequenceNumbersUnique BY SequenceUnique
<1> QED BY <1>1, <1>2, <1>3, PTL DEF Spec

-----------------------------------------------------------------------------
(* Acknowledged: nothing acknowledged is lost.                             *)

\* The members of Acked.
LEMMA AckedIs ==
  ASSUME NEW w
  PROVE  w \in Acked <=> /\ w \in Writers /\ req[w].st = "ok" /\ req[w].kind # "flush"
                         /\ w \notin excused
BY DEF Acked

\* Appending and syncing keep a batch durable.
LEMMA DurableGrows ==
  ASSUME NEW f, NEW g, Grows(f, g), NEW w, NEW k, NEW p \in Nat \ {0}, Durable(f, w, k, p)
  PROVE Durable(g, w, k, p)
<1>1. PICK i \in p .. Len(f.recs) :
          /\ w \in f.recs[i] /\ \A j \in 1 .. i - 1 : f.recs[j] # TornLog
          /\ k = "sync" => i <= f.synced
 BY DEF Durable
<1>0. i \in Nat /\ p <= i /\ 1 <= i /\ i <= Len(f.recs) /\ Len(f.recs) \in Nat /\ Len(g.recs) \in Nat
      /\ f.synced \in Nat /\ g.synced \in Nat /\ Len(f.recs) <= Len(g.recs) /\ f.synced <= g.synced
 BY DEF Grows
<1>2. i \in p .. Len(g.recs) BY <1>0
<1>3. \A j \in 1 .. i : g.recs[j] = f.recs[j] BY <1>0 DEF Grows
<1>4. w \in g.recs[i] BY <1>0, <1>1, <1>3
<1>5. \A j \in 1 .. i - 1 : g.recs[j] # TornLog BY <1>0, <1>1, <1>3
<1>6. i <= f.synced => i <= g.synced BY <1>0
<1> QED BY <1>1, <1>2, <1>4, <1>5, <1>6 DEF Durable

\* A log that stays grows.
LEMMA GrowsSelf ==
  ASSUME Shape PROVE \A n \in DOMAIN logs : Grows(logs[n], logs[n])
BY LogLengths DEF Grows

\* A batch stays in logs that grow,
LEMMA LoggedGrows ==
  ASSUME LogsGrow, NEW w, NEW k, NEW n, LoggedIn(logs, w, k, n) PROVE LoggedIn(logs', w, k, n)
<1>1. PICK L \in DOMAIN logs : n <= L /\ Durable(logs[L], w, k, 1) BY DEF LoggedIn
<1> DEFINE f == logs[L]
           g == logs'[L]
           p == 1
<1>2. L \in DOMAIN logs' /\ Grows(f, g) /\ Durable(f, w, k, p) /\ p \in Nat \ {0} BY <1>1 DEF LogsGrow
<1> HIDE DEF f, g, p
<1>3. Durable(g, w, k, p) BY <1>2, DurableGrows
<1> QED BY <1>1, <1>2, <1>3 DEF LoggedIn, g, p

\* and in logs that stay.
LEMMA LoggedStays ==
  ASSUME NEW n, LogsFrom(n), NEW w, NEW k, LoggedIn(logs, w, k, n)
  PROVE LoggedIn(logs', w, k, n)
BY DEF LoggedIn, LogsFrom

\* No log is touched.
LEMMA LogsStay == ASSUME UNCHANGED logs, NEW n PROVE LogsFrom(n)
BY DEF LogsFrom

\* What a recovery finds, when logs grow,
LEMMA OnDiskGrows ==
  ASSUME Base, Base', Immutable, OnDisk, AckedKept, LogsGrow, Disk(manifest') \subseteq Disk(manifest)
  PROVE OnDisk'
<1>1. ASSUME NEW w \in Acked', NEW v \in Disk(manifest')
      PROVE Safe(tables', logs', w, req'[w].kind, v)
 <2> DEFINE k == req[w].kind
            n == v.log
 <2>1. Safe(tables, logs, w, k, v) /\ req'[w].kind = k BY <1>1 DEF OnDisk, AckedKept
 <2>2. In(tables', Live(v)) = In(tables, Live(v)) BY DiskHolds
 <2> HIDE DEF k
 <2>3. CASE w \in In(tables, Live(v)) BY <2>1, <2>2, <2>3 DEF Safe
 <2>4. CASE LoggedIn(logs, w, k, n)
  <3> HIDE DEF n
  <3>1. LoggedIn(logs', w, k, n) BY <2>4, LoggedGrows
  <3> QED BY <2>1, <3>1 DEF Safe, n
 <2> QED BY <2>1, <2>3, <2>4 DEF Safe
<1> QED BY <1>1 DEF OnDisk

\* and when old ones are deleted.
LEMMA OnDiskStays ==
  ASSUME Base, Base', Immutable, OnDisk, AckedKept, Disk(manifest') \subseteq Disk(manifest),
         \A v \in Disk(manifest') : LogsFrom(v.log)
  PROVE OnDisk'
<1>1. ASSUME NEW w \in Acked', NEW v \in Disk(manifest')
      PROVE Safe(tables', logs', w, req'[w].kind, v)
 <2> DEFINE k == req[w].kind
            n == v.log
 <2>1. Safe(tables, logs, w, k, v) /\ req'[w].kind = k /\ LogsFrom(n) BY <1>1 DEF OnDisk, AckedKept
 <2>2. In(tables', Live(v)) = In(tables, Live(v)) BY DiskHolds
 <2> HIDE DEF k
 <2>3. CASE w \in In(tables, Live(v)) BY <2>1, <2>2, <2>3 DEF Safe
 <2>4. CASE LoggedIn(logs, w, k, n)
  <3> HIDE DEF n
  <3>1. LoggedIn(logs', w, k, n) BY <2>1, <2>4, LoggedStays
  <3> QED BY <2>1, <3>1 DEF Safe, n
 <2> QED BY <2>1, <2>3, <2>4 DEF Safe
<1> QED BY <1>1 DEF OnDisk

\* The parts of Readers,
LEMMA ReadersAre ==
  ASSUME Readers PROVE (Running => Acked \subseteq Visible) /\ MemDurable /\ ImmDurable
BY DEF Readers, MemDurable, ImmDurable

\* and of Acknowledged.
LEMMA AckIs ==
  ASSUME Acknowledged
  PROVE  /\ OnDisk /\ Readers /\ Ahead /\ Replaying /\ Leading
         /\ (Running => Acked \subseteq Visible) /\ MemDurable /\ ImmDurable
BY ReadersAre DEF Acknowledged

\* The log in use exists and is the last one.
LEMMA InUse ==
  ASSUME Base, up \in {"open", "closing"}
  PROVE  /\ logfile \in DOMAIN logs /\ logfile \in Nat /\ version.log \in Nat /\ version.log <= logfile
         /\ Running /\ \A v \in Disk(manifest) : v.log <= logfile
<1>1. LogFiles /\ Shape BY BaseIs
<1> QED BY <1>1, StateNumbers DEF LogFiles, Opened, Running, NumberType

\* Only a running process has memtables.
LEMMA MemoryInUse ==
  ASSUME Base, mem # {} \/ imm # Nil PROVE up \in {"open", "closing"}
BY NotWorking DEF Base

\* mem_ stays in its log,
LEMMA MemKept ==
  ASSUME Base, MemDurable, AckedKept, LogsGrow, mem' \subseteq mem, logfile' = logfile
  PROVE MemDurable'
<1>1. ASSUME NEW w \in Acked', w \in mem' PROVE Durable(logs'[logfile'], w, req'[w].kind, 1)
 <2>1. w \in Acked /\ w \in mem /\ req'[w].kind = req[w].kind BY <1>1 DEF AckedKept
 <2>2. logfile \in DOMAIN logs BY <2>1, MemoryInUse, InUse
 <2> DEFINE f == logs[logfile]
            g == logs'[logfile]
            p == 1
            k == req[w].kind
 <2>3. Durable(f, w, k, p) /\ Grows(f, g) /\ p \in Nat \ {0} BY <2>1, <2>2 DEF MemDurable, LogsGrow
 <2> HIDE DEF f, g, p, k
 <2>4. Durable(g, w, k, p) BY <2>3, DurableGrows
 <2> QED BY <2>1, <2>4 DEF g, p, k
<1> QED BY <1>1 DEF MemDurable

\* and imm_ in an older one.
LEMMA ImmKept ==
  ASSUME ImmDurable, AckedKept, LogsGrow \/ LogsFrom(version.log),
         imm' = imm \/ imm' = Nil, version'.log = version.log
  PROVE ImmDurable'
<1>1. ASSUME imm' # Nil, NEW w \in Acked', w \in imm'
      PROVE LoggedIn(logs', w, req'[w].kind, version'.log)
 <2> DEFINE k == req[w].kind
            n == version.log
 <2>1. w \in Acked /\ w \in imm /\ req'[w].kind = k BY <1>1 DEF AckedKept
 <2>2. LoggedIn(logs, w, k, n) BY <1>1, <2>1 DEF ImmDurable
 <2>3. LogsGrow \/ LogsFrom(n) OBVIOUS
 <2> HIDE DEF k, n
 <2>4. LoggedIn(logs', w, k, n) BY <2>2, <2>3, LoggedGrows, LoggedStays
 <2> QED BY <2>1, <2>4 DEF n
<1> QED BY <1>1 DEF ImmDurable

\* Logs that stay grow.
LEMMA LogsGrowSame == ASSUME Shape, UNCHANGED logs PROVE LogsGrow
BY GrowsSelf DEF LogsGrow

\* A step of a caller keeps what the recovery knows,
LEMMA CallReplaying ==
  ASSUME Base, CallStep, AckedKept, Replaying PROVE Replaying'
<1>0. rec' = rec /\ Shape BY CallDoes DEF Base
<1>1. CASE up \in {"open", "closing"}
 <2>1. up' \in {"open", "closing"} BY <1>1, <1>0, CallDoes
 <2> QED BY <1>0, <2>1 DEF Replaying
<1>2. CASE up \notin {"open", "closing"}
 <2>1. UNCHANGED vars BY <1>2, CallIdle
 <2>2. UNCHANGED <<up, rec, req, logs, tables, version, excused>>
  BY <2>1 DEF vars, diskVars, openVars, memVars, bgVars, callVars
 <2>3. Acked' = Acked BY <2>2 DEF Acked, Writers
 <2>4. \A w \in Acked : ToRead(w) => ToRead(w)' BY <2>2 DEF ToRead, Rebuilt
 <2> QED BY <2>2, <2>3, <2>4 DEF Replaying
<1> QED BY <1>1, <1>2

\* what the manifest is ahead by,
LEMMA CallAhead == ASSUME Base, CallStep, Ahead PROVE Ahead'
<1>1. UNCHANGED <<tables, manifest, flush>> /\ version'.l0 = version.l0 /\ version'.l1 = version.l1
      /\ (up' = up \/ (up = "open" /\ up' = "closing"))
 BY CallDoes DEF Base
<1>2. Live(version') = Live(version) /\ (Running' => Running) BY <1>1 DEF Live, Running
<1> QED BY <1>1, <1>2 DEF Ahead

\* and what a read sees.
LEMMA CallVisible ==
  ASSUME Base, CallStep, Running' PROVE Running /\ Visible \subseteq Visible'
<1>1. Shape /\ Quiet /\ Files /\ Numbers /\ Contents /\ [Next]_vars BY BaseIs, CallIsNext
<1>2. Running BY <1>1, CallDoes DEF Running
<1> QED BY <1>1, <1>2, VisibleGrows

\* What is left to show for a step of a caller.
LEMMA AckCall ==
  ASSUME Base, Base', Immutable, Acknowledged, CallStep, AckedKept, LogsGrow,
         MemDurable', ImmDurable', Leading'
  PROVE Acknowledged'
<1>1. manifest' = manifest BY CallDoes DEF Base
<1>2. OnDisk' BY <1>1, AckIs, OnDiskGrows
<1>3. Running' => Acked' \subseteq Visible' BY AckIs, CallVisible DEF AckedKept
<1>4. Readers' BY <1>3 DEF Readers, MemDurable, ImmDurable
<1>5. Ahead' /\ Replaying' BY AckIs, CallAhead, CallReplaying
<1> QED BY <1>2, <1>4, <1>5 DEF Acknowledged

\* The parts of Leading.
LEMMA LeadingIs ==
  ASSUME Leading
  PROVE  /\ lead.pc \in {"syncing", "applying"} =>
               /\ Len(logs[logfile].recs) > 0 /\ logs[logfile].recs[Len(logs[logfile].recs)] = Group
               /\ lead.pc = "applying" /\ req[Head(writers)].kind = "sync" =>
                     logs[logfile].synced = Len(logs[logfile].recs)
         /\ lead.pc \in Logging /\ req[Head(writers)].kind # "sync" =>
               \A w \in Group : req[w].kind # "sync"
BY DEF Leading

\* No group is under way.
LEMMA LeadingNone == ASSUME lead'.pc \notin Logging PROVE Leading'
BY DEF Leading, Logging

\* The calls of a group keep their kinds.
LEMMA GroupKinds ==
  ASSUME Shape, Queue, Onward PROVE \A w \in Group : w \in Writers /\ req'[w].kind = req[w].kind
<1>1. \A w \in Group : w \in Writers /\ req[w].st = "queued" BY GroupMembers
<1> QED BY <1>1 DEF Onward

\* The leader and its log are as they were.
LEMMA LeadingSame ==
  ASSUME Leading, Group' = Group, \A w \in Group : req'[w].kind = req[w].kind,
         lead'.pc \in Logging => /\ lead'.pc = lead.pc /\ logs'[logfile'] = logs[logfile]
                                 /\ req'[Head(writers')].kind = req[Head(writers)].kind
  PROVE Leading'
<1>1. CASE lead'.pc \notin Logging BY <1>1, LeadingNone
<1>2. CASE lead'.pc \in Logging
 <2>1. /\ lead'.pc = lead.pc /\ logs'[logfile'] = logs[logfile] /\ lead.pc \in Logging
       /\ req'[Head(writers')].kind = req[Head(writers)].kind
  BY <1>2
 <2> HIDE DEF Logging
 <2> QED BY <1>2, <2>1, LeadingIs DEF Leading
<1> QED BY <1>1, <1>2

\* From here on, one lemma per step: it keeps Acknowledged.
LEMMA AckQuietCall ==
  ASSUME Base, Base', Immutable, Acknowledged, CallStep, QuietCall PROVE Acknowledged'
<1>0. Shape /\ Queue BY DEF Base
<1>1. /\ UNCHANGED <<logs, version, mem, imm, logfile, excused>> /\ Group' = Group /\ Onward /\ SameLead
 BY DEF QuietCall
<1>2. AckedKept
 <2> SUFFICES ASSUME NEW w \in Acked' PROVE w \in Acked /\ req'[w].kind = req[w].kind
  BY DEF AckedKept
 <2>1. w \in Writers /\ req'[w].st = "ok" /\ req'[w].kind # "flush" /\ w \notin excused
  BY <1>1 DEF Acked, Writers
 <2>2. req[w].st = "ok" BY <1>1, <2>1 DEF Onward
 <2>3. req'[w].kind = req[w].kind BY <1>1, <2>1, <2>2 DEF Onward
 <2> QED BY <2>1, <2>2, <2>3, AckedIs
<1>3. LogsGrow BY <1>0, <1>1, LogsGrowSame
<1>4. MemDurable' BY <1>1, <1>2, <1>3, AckIs, MemKept
<1>5. ImmDurable' BY <1>1, <1>2, <1>3, AckIs, ImmKept
<1>6. Leading' BY <1>0, <1>1, AckIs, GroupKinds, LeadingSame DEF SameLead
<1> QED BY <1>2, <1>3, <1>4, <1>5, <1>6, AckCall

\* Nobody is acknowledged.
LEMMA AckedSame == ASSUME UNCHANGED <<req, excused>> PROVE AckedKept
BY DEF AckedKept, Acked, Writers

LEMMA AckSwitched ==
  ASSUME Base, Base', Immutable, Acknowledged, CallStep, Switched PROVE Acknowledged'
<1>0. Shape /\ Shape' /\ Queue /\ Quiet BY DEF Base
<1>1. /\ UNCHANGED <<req, excused, up>> /\ lead'.pc = "switched" /\ imm' = mem /\ mem' = {}
      /\ version'.log = version.log
      /\ logfile' = version.next /\ DOMAIN logs' = DOMAIN logs \cup {logfile'}
      /\ \A k \in DOMAIN logs : k # logfile' => logs'[k] = logs[k]
 BY DEF Switched, Same
<1>2. AckedKept BY <1>1, AckedSame
<1>3. up \in {"open", "closing"}
 <2>1. lead'.pc # "none" BY <1>1
 <2>2. up' \in {"open", "closing"} BY <2>1, NoLeadType DEF Base, Quiet
 <2> QED BY <1>1, <2>2
<1>4. logfile' \notin DOMAIN logs
 <2>1. LogFiles BY BaseIs
 <2>2. \A L \in DOMAIN logs : L \in Nat /\ L <= logfile BY <1>0, <1>3, <2>1, StateNumbers DEF LogFiles, Opened
 <2>3. logfile < version.next /\ logfile \in Nat /\ version.next \in Nat
  BY <1>0, <1>3, <2>1, StateNumbers DEF LogFiles, Opened, NumberType
 <2> QED BY <1>1, <2>2, <2>3
<1>5. LogsGrow BY <1>0, <1>1, <1>4, GrowsSelf DEF LogsGrow
<1>6. MemDurable' BY <1>1 DEF MemDurable
<1>7. ImmDurable'
 <2>1. ASSUME NEW w \in Acked', w \in mem PROVE LoggedIn(logs', w, req'[w].kind, version'.log)
  <3>1. w \in Acked /\ req'[w].kind = req[w].kind BY <1>2 DEF AckedKept
  <3>2. Durable(logs[logfile], w, req[w].kind, 1) BY <2>1, <3>1, AckIs DEF MemDurable
  <3>3. logfile \in DOMAIN logs /\ version.log <= logfile BY <1>3, InUse
  <3>4. logfile \in DOMAIN logs' /\ logs'[logfile] = logs[logfile] BY <1>1, <1>4, <3>3
  <3> QED BY <1>1, <3>1, <3>2, <3>3, <3>4 DEF LoggedIn
 <2> QED BY <1>1, <2>1 DEF ImmDurable
<1>8. Leading' BY <1>1, LeadingNone DEF Logging
<1> QED BY <1>2, <1>5, <1>6, <1>7, <1>8, AckCall

LEMMA AckGrouped ==
  ASSUME Base, Base', Immutable, Acknowledged, CallStep, Grouped PROVE Acknowledged'
<1>0. Shape BY DEF Base
<1>1. /\ UNCHANGED <<logs, version, mem, imm, logfile, excused, writers, req>> /\ lead'.pc = "logging"
      /\ req[Head(writers)].kind # "sync" => \A w \in Group' : req[w].kind # "sync"
 BY DEF Grouped
<1>2. AckedKept BY <1>1, AckedSame
<1>3. LogsGrow BY <1>0, <1>1, LogsGrowSame
<1>4. MemDurable' BY <1>1, <1>2, <1>3, AckIs, MemKept
<1>5. ImmDurable' BY <1>1, <1>2, <1>3, AckIs, ImmKept
<1>6. Leading' BY <1>1 DEF Leading
<1> QED BY <1>2, <1>3, <1>4, <1>5, <1>6, AckCall

\* The log after AddRecord.
LEMMA AppendedLog ==
  ASSUME Shape, LogFiles, Running, NEW r \in SUBSET Writers, logs' = LogWith(r)
  PROVE  /\ LogsGrow /\ logs'[logfile].recs = Append(logs[logfile].recs, r)
         /\ Len(logs'[logfile].recs) = Len(logs[logfile].recs) + 1
         /\ Len(logs[logfile].recs) \in Nat
         /\ logs'[logfile].recs[Len(logs'[logfile].recs)] = r
<1>1. logfile \in DOMAIN logs BY DEF LogFiles, Opened, Running
<1>2. DOMAIN logs' = DOMAIN logs /\ \A L \in DOMAIN logs : L # logfile => logs'[L] = logs[L]
 BY DEF LogWith
<1>3. logs[logfile] \in LogFileType BY <1>1 DEF Shape, LogsOK
<1> DEFINE q == logs[logfile].recs
<1>4. q \in Seq(SUBSET Writers) /\ logs[logfile].synced \in Nat BY <1>3 DEF LogFileType
<1>5. logs'[logfile].recs = Append(q, r) /\ logs'[logfile].synced = logs[logfile].synced
 BY <1>1, <1>3 DEF LogWith, LogFileType
<1>6. /\ Len(q) \in Nat /\ Len(Append(q, r)) = Len(q) + 1 /\ Append(q, r)[Len(q) + 1] = r
      /\ \A i \in 1 .. Len(q) : Append(q, r)[i] = q[i]
 <2> HIDE DEF q
 <2> QED BY <1>4
<1>7. Grows(logs[logfile], logs'[logfile]) BY <1>4, <1>5, <1>6 DEF Grows
<1>8. LogsGrow BY <1>2, <1>7, GrowsSelf DEF LogsGrow
<1> QED BY <1>5, <1>6, <1>8

LEMMA AckAddRecord ==
  ASSUME Base, Base', Immutable, Acknowledged, CallStep, AddRecord PROVE Acknowledged'
<1>0. Shape /\ Queue /\ Quiet /\ LogFiles BY BaseIs
<1>1. /\ Group' = Group /\ lead.pc \in Logging /\ logs' = LogWith(Group)
      /\ lead'.pc = (IF req[Head(writers)].kind = "sync" THEN "syncing" ELSE "applying")
      /\ UNCHANGED <<version, mem, imm, logfile, writers, req, excused>>
 BY <1>0, AddRecordDoes
<1>2. AckedKept BY <1>1, AckedSame
<1>3. Running BY <1>0, <1>1, AtWork DEF Running, Logging
<1>4. Group \in SUBSET Writers BY <1>0, GroupMembers
<1>5. /\ LogsGrow /\ Len(logs'[logfile].recs) > 0
      /\ logs'[logfile].recs[Len(logs'[logfile].recs)] = Group
 BY <1>0, <1>1, <1>3, <1>4, AppendedLog
<1>6. MemDurable' BY <1>1, <1>2, <1>5, AckIs, MemKept
<1>7. ImmDurable' BY <1>1, <1>2, <1>5, AckIs, ImmKept
<1>8. Leading'
 <2>1. req[Head(writers)].kind # "sync" => \A w \in Group : req[w].kind # "sync"
  BY <1>1, AckIs, LeadingIs
 <2> QED BY <1>1, <1>5, <2>1 DEF Leading
<1> QED BY <1>2, <1>5, <1>6, <1>7, <1>8, AckCall

LEMMA AckSyncLog ==
  ASSUME Base, Base', Immutable, Acknowledged, CallStep, SyncLog PROVE Acknowledged'
<1>0. Shape /\ Shape' /\ Queue /\ Quiet /\ LogFiles BY BaseIs DEF Base
<1>1. /\ Group' = Group /\ lead.pc = "syncing" /\ lead'.pc = "applying"
      /\ DOMAIN logs' = DOMAIN logs
      /\ \A n \in DOMAIN logs : logs'[n].recs = logs[n].recs /\ logs[n].synced <= logs'[n].synced
      /\ logfile \in DOMAIN logs => logs'[logfile].synced = Len(logs[logfile].recs)
      /\ UNCHANGED <<version, mem, imm, logfile, writers, req, excused, up>>
 BY <1>0, SyncLogDoes
<1>2. AckedKept BY <1>1, AckedSame
<1>3. up \in {"open", "closing"} BY <1>0, <1>1, AtWork
<1>4. LogsGrow
 <2>1. \A n \in DOMAIN logs' : logs'[n].synced \in Nat BY <1>0 DEF Shape, LogsOK, LogFileType
 <2> QED BY <1>0, <1>1, <2>1, LogLengths DEF LogsGrow, Grows
<1>5. MemDurable' BY <1>1, <1>2, <1>4, AckIs, MemKept
<1>6. ImmDurable' BY <1>1, <1>2, <1>4, AckIs, ImmKept
<1>7. Leading'
 <2>1. logfile \in DOMAIN logs BY <1>3, InUse
 <2>2. /\ Len(logs[logfile].recs) > 0 /\ logs[logfile].recs[Len(logs[logfile].recs)] = Group
       /\ req[Head(writers)].kind # "sync" => \A w \in Group : req[w].kind # "sync"
  BY <1>1, AckIs, LeadingIs DEF Logging
 <2> QED BY <1>1, <2>1, <2>2 DEF Leading
<1> QED BY <1>2, <1>4, <1>5, <1>6, <1>7, AckCall

\* The group fails.
LEMMA AckFailed ==
  ASSUME Base, Base', Immutable, Acknowledged, CallStep, NEW s, s = "error", Passed(s),
         UNCHANGED <<mem, excused>>, LogsGrow
  PROVE Acknowledged'
<1>1. /\ lead'.pc \notin Logging /\ version'.log = version.log /\ UNCHANGED <<imm, logfile>>
      /\ \A w \in Writers : /\ req'[w].kind = req[w].kind
                            /\ req'[w].st = "ok" /\ req[w].kind # "flush" => req[w].st = "ok"
 BY DEF Passed, Same
<1>2. AckedKept
 <2> SUFFICES ASSUME NEW w \in Acked' PROVE w \in Acked /\ req'[w].kind = req[w].kind
  BY DEF AckedKept
 <2>1. w \in Writers /\ req'[w].st = "ok" /\ req'[w].kind # "flush" /\ w \notin excused
  BY DEF Acked, Writers
 <2> QED BY <1>1, <2>1, AckedIs
<1>3. MemDurable' BY <1>1, <1>2, AckIs, MemKept
<1>4. ImmDurable' BY <1>1, <1>2, AckIs, ImmKept
<1>5. Leading' BY <1>1, LeadingNone
<1> QED BY <1>2, <1>3, <1>4, <1>5, AckCall

\* What the leader acknowledges is in its log for good.
LEMMA GroupDurable ==
  ASSUME Base, Acknowledged, lead.pc = "applying", TornLog \notin ToSet(logs[logfile].recs),
         NEW w \in Group
  PROVE Durable(logs[logfile], w, req[w].kind, 1)
<1>0. Shape /\ Quiet BY DEF Base
<1>1. up \in {"open", "closing"} BY <1>0, AtWork
<1>2. logfile \in DOMAIN logs BY <1>1, InUse
<1> DEFINE f == logs[logfile]
           i == Len(f.recs)
<1>3. /\ f.recs \in Seq(SUBSET Writers) /\ i \in Nat BY <1>0, <1>2, LogLengths
<1>4. /\ i > 0 /\ f.recs[i] = Group
      /\ req[Head(writers)].kind = "sync" => f.synced = i
      /\ req[Head(writers)].kind # "sync" => req[w].kind # "sync"
 BY AckIs, LeadingIs DEF Logging
<1>5. i \in 1 .. Len(f.recs) BY <1>3, <1>4
<1>6. \A j \in 1 .. i - 1 : f.recs[j] # TornLog
 <2>1. \A j \in 1 .. Len(f.recs) : f.recs[j] \in ToSet(f.recs) BY DEF ToSet
 <2>2. \A j \in 1 .. i - 1 : j \in 1 .. Len(f.recs) BY <1>3
 <2> QED BY <2>1, <2>2
<1>7. req[w].kind = "sync" => i <= f.synced BY <1>3, <1>4
<1> QED BY <1>4, <1>5, <1>6, <1>7 DEF Durable

LEMMA AckApplyGroup ==
  ASSUME Base, Base', Immutable, Acknowledged, CallStep, ApplyGroup PROVE Acknowledged'
<1>0. Shape /\ Queue /\ Quiet /\ Files /\ Files' BY BaseIs DEF Base
<1>1. /\ Passed("ok") /\ UNCHANGED logs /\ mem' = mem \cup Group /\ lead.pc = "applying"
      /\ excused \subseteq excused'
      /\ TornLog \in ToSet(logs[logfile].recs) => Group \subseteq excused'
 BY <1>0, ApplyDoes
<1>2. /\ lead'.pc \notin Logging /\ version'.log = version.log /\ UNCHANGED <<imm, logfile, up>>
      /\ \A w \in Writers : /\ req'[w].kind = req[w].kind
                            /\ req'[w].st = "ok" /\ req[w].kind # "flush" =>
                                  req[w].st = "ok" \/ w \in Group
 BY <1>1 DEF Passed, Same
<1>3. up \in {"open", "closing"} BY <1>0, <1>1, AtWork
<1>4. /\ logfile \in DOMAIN logs /\ version.log <= logfile /\ Running
      /\ \A v \in Disk(manifest) : v.log <= logfile
 BY <1>3, InUse
<1>5. ASSUME NEW w \in Acked'
      PROVE  /\ w \in Writers /\ req'[w].kind = req[w].kind
             /\ w \in Acked \/ (w \in Group /\ Durable(logs[logfile], w, req[w].kind, 1))
 <2>1. w \in Writers /\ req'[w].st = "ok" /\ req'[w].kind # "flush" /\ w \notin excused'
  BY DEF Acked, Writers
 <2>2. req'[w].kind = req[w].kind /\ (req[w].st = "ok" \/ w \in Group) BY <1>2, <2>1
 <2>3. CASE req[w].st = "ok" BY <1>1, <2>1, <2>2, <2>3, AckedIs
 <2>4. CASE w \in Group
  <3>1. TornLog \notin ToSet(logs[logfile].recs) BY <1>1, <2>1, <2>4
  <3> QED BY <1>1, <2>1, <2>2, <2>4, <3>1, GroupDurable
 <2> QED BY <2>2, <2>3, <2>4
<1>6. OnDisk'
 <2>1. manifest' = manifest /\ tables' = tables BY <1>0, CallDoes
 <2>2. ASSUME NEW w \in Acked', NEW v \in Disk(manifest)
       PROVE Safe(tables, logs, w, req'[w].kind, v)
  <3>1. CASE w \in Acked BY <1>5, <3>1, AckIs DEF OnDisk
  <3>2. CASE Durable(logs[logfile], w, req[w].kind, 1) BY <1>4, <1>5, <3>2 DEF Safe, LoggedIn
  <3> QED BY <1>5, <3>1, <3>2
 <2> QED BY <1>1, <2>1, <2>2 DEF OnDisk
<1>7. MemDurable'
 <2>1. ASSUME NEW w \in Acked', w \in mem' PROVE Durable(logs[logfile], w, req'[w].kind, 1)
  <3>1. CASE w \in Acked /\ w \in mem BY <1>5, <3>1, AckIs DEF MemDurable
  <3>2. CASE w \in Group
   <4>1. req[w].st = "queued" BY <1>0, <3>2, GroupMembers
   <4>2. w \notin Acked BY <4>1, AckedIs
   <4> QED BY <1>5, <4>2
  <3> QED BY <1>1, <1>5, <2>1, <3>1, <3>2
 <2> QED BY <1>1, <1>2, <2>1 DEF MemDurable
<1>8. ImmDurable'
 <2>1. ASSUME imm # Nil, NEW w \in Acked', w \in imm PROVE LoggedIn(logs, w, req'[w].kind, version.log)
  <3>1. CASE w \in Acked BY <1>5, <2>1, <3>1, AckIs DEF ImmDurable
  <3>2. CASE Durable(logs[logfile], w, req[w].kind, 1) BY <1>4, <1>5, <3>2 DEF LoggedIn
  <3> QED BY <1>5, <3>1, <3>2
 <2> QED BY <1>1, <1>2, <2>1 DEF ImmDurable
<1>9. Running' => Acked' \subseteq Visible'
 <2>1. Group \subseteq Visible' BY <1>1 DEF Visible, InMemory
 <2> QED BY <1>5, <2>1, AckIs, CallVisible
<1>10. Readers' BY <1>7, <1>8, <1>9 DEF Readers, MemDurable, ImmDurable
<1>11. Ahead' BY AckIs, CallAhead
<1>12. Replaying'
 <2>1. rec' = rec BY <1>0, CallDoes
 <2> QED BY <1>2, <1>3, <2>1, AckIs DEF Replaying
<1>13. Leading' BY <1>2, LeadingNone
<1> QED BY <1>6, <1>10, <1>11, <1>12, <1>13 DEF Acknowledged

LEMMA AckCallStep ==
  ASSUME Base, Base', Immutable, Acknowledged, CallStep PROVE Acknowledged'
<1>0. Shape /\ Queue /\ Quiet /\ LogFiles BY BaseIs
<1>1. CASE AddRecordFails
 <2> DEFINE s == "error"
 <2>1. Passed(s) /\ UNCHANGED <<mem, excused>> /\ s = "error" /\ PerhapsLogged
  BY <1>0, <1>1, AddFailsDoes
 <2>2. Running BY <1>0, <2>1, AtWork DEF Passed, Running, Logging
 <2>3. LogsGrow
  <3>1. CASE logs' = logs BY <1>0, <3>1, LogsGrowSame
  <3>2. ASSUME NEW r \in SUBSET Writers, logs' = LogWith(r) PROVE LogsGrow
   BY <1>0, <2>2, <3>2, AppendedLog
  <3> QED BY <2>1, <3>1, <3>2 DEF PerhapsLogged
 <2> HIDE DEF s
 <2> QED BY <2>1, <2>3, AckFailed
<1>2. CASE SyncLogFails
 <2> DEFINE s == "error"
 <2>1. Passed(s) /\ UNCHANGED <<mem, logs, excused>> /\ s = "error" BY <1>0, <1>2, SyncFailsDoes
 <2>2. LogsGrow BY <1>0, <2>1, LogsGrowSame
 <2> HIDE DEF s
 <2> QED BY <2>1, <2>2, AckFailed
<1> QED
 BY <1>0, <1>1, <1>2, CallCases, AckQuietCall, AckSwitched, AckGrouped, AckAddRecord, AckSyncLog,
    AckApplyGroup

\* A step of the background thread is a step,
LEMMA FileIsNext == ASSUME FileStep PROVE [Next]_vars
BY DEF FileStep, Next, BackgroundStep

\* and acknowledges nobody.
LEMMA FileAcked == ASSUME Base, FileStep PROVE AckedKept
<1>1. excused' = excused /\ Woken BY FileStepCallers DEF Base
<1> SUFFICES ASSUME NEW w \in Acked' PROVE w \in Acked /\ req'[w].kind = req[w].kind
 BY DEF AckedKept
<1>2. w \in Writers /\ req'[w].st = "ok" /\ req'[w].kind # "flush" /\ w \notin excused
 BY <1>1 DEF Acked, Writers
<1>3. req[w].st = "ok" /\ req'[w].kind = req[w].kind BY <1>1, <1>2 DEF Woken
<1> QED BY <1>2, <1>3, AckedIs

\* What is left to show for it.
LEMMA AckFile ==
  ASSUME Base, Base', Immutable, Acknowledged, FileStep, OnDisk', Ahead', ImmDurable',
         logs'[logfile] = logs[logfile]
  PROVE Acknowledged'
<1>0. Shape /\ Quiet /\ Files /\ Numbers /\ Contents /\ Queue BY BaseIs
<1>1. UNCHANGED <<up, rec, mem, logfile, writers>> /\ Woken /\ up \in {"open", "closing"}
 BY <1>0, FileStepCallers
<1>2. AckedKept BY FileAcked
<1>3. Running /\ Running' BY <1>1 DEF Running
<1>4. Visible \subseteq Visible' BY <1>0, <1>3, FileIsNext, VisibleGrows
<1>5. Acked' \subseteq Visible' BY <1>2, <1>3, <1>4, AckIs DEF AckedKept
<1>6. MemDurable' BY <1>1, <1>2, AckIs DEF MemDurable, AckedKept
<1>7. Readers' BY <1>5, <1>6 DEF Readers, MemDurable, ImmDurable
<1>8. Replaying' BY <1>1, AckIs DEF Replaying
<1>9. Leading'
 <2>1. Group' = Group BY <1>0, <1>1, WokenDoes
 <2>2. \A w \in Group : req'[w].kind = req[w].kind BY <1>0, <1>1, GroupMembers DEF Woken
 <2>3. ASSUME lead'.pc \in Logging
       PROVE lead'.pc = lead.pc /\ req'[Head(writers')].kind = req[Head(writers)].kind
  <3>1. lead'.pc = lead.pc BY <1>1, <2>3 DEF Woken, Logging
  <3>2. writers # <<>> BY <1>0, <2>3, <3>1 DEF Shape, QueueOK, Logging
  <3>3. Head(writers) \in Writers BY <1>0, <3>2, LeaderOpen
  <3> QED BY <1>1, <3>1, <3>3 DEF Woken
 <2> QED BY <1>1, <2>1, <2>2, <2>3, AckIs, LeadingSame
<1> QED BY <1>7, <1>8, <1>9 DEF Acknowledged

\* The newest version keeps what it holds;
LEMMA NewestHolds ==
  ASSUME NewestKept
  PROVE In(tables, Live(Newest(manifest))) \subseteq In(tables', Live(Newest(manifest)))
BY DEF NewestKept, In

\* its files were numbered before.
LEMMA NewestOld ==
  ASSUME Base, up \in {"open", "closing"}
  PROVE  \A n \in Live(Newest(manifest)) : /\ n \in Nat /\ n < Newest(manifest).next /\ n < version.next
                                           /\ Newest(manifest).next \in Nat
<1>1. Shape /\ Ordered(manifest.recs) /\ Alloc BY BaseIs
<1>2. Sane(Newest(manifest)) BY <1>1, DiskNumbers
<1>3. Newest(manifest).next <= version.next BY <1>1 DEF Alloc
<1>4. Newest(manifest).next \in Nat /\ version.next \in Nat /\ Live(Newest(manifest)) \subseteq Nat
 BY <1>1, StateNumbers DEF NumberType
<1> QED BY <1>2, <1>3, <1>4 DEF Sane

\* A step that leaves manifest, logs and version alone.
LEMMA AckStill ==
  ASSUME Base, Base', Immutable, Acknowledged, FileStep, UNCHANGED <<manifest, imm, logs>>,
         version'.l0 = version.l0, version'.l1 = version.l1, version'.log = version.log,
         NewestKept, flush'.pc # "done"
  PROVE Acknowledged'
<1>0. Files /\ Files' /\ Shape BY DEF Base
<1>1. AckedKept BY FileAcked
<1>2. OnDisk' BY <1>0, <1>1, AckIs, LogsGrowSame, OnDiskGrows
<1>3. ImmDurable' BY <1>0, <1>1, AckIs, LogsGrowSame, ImmKept
<1>4. Live(version') = Live(version) BY DEF Live
<1>5. In(tables', Live(version')) = In(tables, Live(version)) BY <1>0, <1>4, SameTables
<1>6. Running' = Running BY FileStepCallers DEF Base, Running
<1>7. Ahead' BY <1>5, <1>6, AckIs, NewestHolds DEF Ahead
<1> QED BY <1>2, <1>3, <1>7, AckFile

LEMMA AckFlushBegin ==
  ASSUME Base, Base', Immutable, Acknowledged, FileStep, FlushBegin PROVE Acknowledged'
<1>1. /\ UNCHANGED <<logs, tables, manifest, imm>> /\ flush'.pc = "build"
      /\ version'.l0 = version.l0 /\ version'.l1 = version.l1 /\ version'.log = version.log
 BY FlushBeginDoes DEF Base
<1>2. NewestKept BY <1>1 DEF NewestKept
<1> QED BY <1>1, <1>2, AckStill

LEMMA AckFlushBuild ==
  ASSUME Base, Base', Immutable, Acknowledged, FileStep, FlushBuild PROVE Acknowledged'
<1>1. /\ UNCHANGED <<logs, manifest, imm, version>> /\ up \in {"open", "closing"}
      /\ flush.pc = "build" /\ flush.out \in Nat
      /\ DOMAIN tables \subseteq DOMAIN tables'
      /\ \A n \in DOMAIN tables : n # flush.out => tables'[n] = tables[n]
      /\ flush' = NoFlush \/ flush'.pc = "manifest"
 BY FlushBuildDoes DEF Base
<1>2. Newest(manifest).next <= flush.out BY <1>1, BaseIs DEF Unused
<1>3. \A n \in Live(Newest(manifest)) : n # flush.out BY <1>1, <1>2, NewestOld
<1>4. NewestKept BY <1>1, <1>3 DEF NewestKept
<1> QED BY <1>1, <1>4, AckStill, NoFlushType

LEMMA AckCompactBegin ==
  ASSUME Base, Base', Immutable, Acknowledged, FileStep,
         \E over \in SUBSET version.l1 : CompactBegin(over)
  PROVE Acknowledged'
<1>1. UNCHANGED <<logs, tables, manifest, imm, flush, version>> /\ flush.pc = "none"
 BY CompactBeginDoes DEF Base
<1>2. NewestKept BY <1>1 DEF NewestKept
<1> QED BY <1>1, <1>2, AckStill

LEMMA AckCompactOpen ==
  ASSUME Base, Base', Immutable, Acknowledged, FileStep, CompactOpen PROVE Acknowledged'
<1>1. /\ UNCHANGED <<logs, manifest, imm, flush>> /\ flush.pc = "none" /\ up \in {"open", "closing"}
      /\ version'.l0 = version.l0 /\ version'.l1 = version.l1 /\ version'.log = version.log
      /\ DOMAIN tables' = DOMAIN tables \cup {version.next}
      /\ \A n \in DOMAIN tables : n # version.next => tables'[n] = tables[n]
 BY CompactOpenDoes DEF Base
<1>2. version.next \in Nat BY ShapeIs, VersionIs DEF Base
<1>3. \A n \in Live(Newest(manifest)) : n # version.next BY <1>1, <1>2, NewestOld
<1>4. NewestKept BY <1>1, <1>3 DEF NewestKept
<1> QED BY <1>1, <1>4, AckStill

LEMMA AckCompactWork ==
  ASSUME Base, Base', Immutable, Acknowledged, FileStep, CompactWork PROVE Acknowledged'
<1>1. /\ UNCHANGED <<logs, manifest, imm, flush, version>> /\ comp.pc = "work" /\ flush.pc = "none"
      /\ DOMAIN tables' = DOMAIN tables
      /\ \/ comp.out # 0 /\ \A n \in DOMAIN tables : n # comp.out => tables'[n] = tables[n]
         \/ UNCHANGED tables
 BY CompactWorkDoes DEF Base
<1>2. comp.out # 0 => comp.out \notin Live(Newest(manifest)) BY <1>1, BaseIs DEF Unused
<1>3. NewestKept BY <1>1, <1>2 DEF NewestKept
<1> QED BY <1>1, <1>3, AckStill

\* What a running database shows is safe in every version ahead of the current one.
LEMMA VersionSafe ==
  ASSUME Base, Acknowledged, up \in {"open", "closing"}, NEW v \in VersionType,
         In(tables, Live(version)) \subseteq In(tables, Live(v)), v.log <= logfile,
         imm # Nil => imm \subseteq In(tables, Live(v)) \/ v.log <= version.log, NEW w \in Acked
  PROVE Safe(tables, logs, w, req[w].kind, v)
<1>1. /\ logfile \in DOMAIN logs /\ Running /\ version.log \in Nat BY InUse
<1>2. w \in mem \/ (imm # Nil /\ w \in imm) \/ w \in In(tables, Live(version))
 BY <1>1, AckIs, VisibleIs DEF InMemory
<1>3. CASE w \in In(tables, Live(version)) BY <1>3 DEF Safe
<1>4. CASE w \in mem
 <2>1. Durable(logs[logfile], w, req[w].kind, 1) BY <1>4, AckIs DEF MemDurable
 <2> QED BY <1>1, <2>1 DEF Safe, LoggedIn
<1>5. CASE imm # Nil /\ w \in imm
 <2>1. CASE imm \subseteq In(tables, Live(v)) BY <1>5, <2>1 DEF Safe
 <2>2. CASE v.log <= version.log
  <3>1. LoggedIn(logs, w, req[w].kind, version.log) BY <1>5, AckIs DEF ImmDurable
  <3>2. PICK L \in DOMAIN logs : version.log <= L /\ Durable(logs[L], w, req[w].kind, 1)
   BY <3>1 DEF LoggedIn
  <3>3. L \in Nat /\ v.log \in Nat BY StateNumbers, VersionIs DEF Base
  <3>4. v.log <= L BY <1>1, <2>2, <3>2, <3>3
  <3> QED BY <3>2, <3>4 DEF Safe, LoggedIn
 <2> QED BY <1>5, <2>1, <2>2
<1> QED BY <1>2, <1>3, <1>4, <1>5

\* A record is added to the manifest.
LEMMA AckExtended ==
  ASSUME Base, Base', Immutable, Acknowledged, FileStep, NEW e \in EditType, NEW ok, Extended(e, ok),
         up \in {"open", "closing"}, UNCHANGED <<logs, tables, version, imm>>,
         In(tables, e.del) \subseteq In(tables, Adds(e)), e.log <= logfile,
         imm # Nil => imm \subseteq In(tables, Adds(e)) \/ e.log <= version.log,
         flush'.pc = "done" => Adds(flush'.edit) \subseteq Live(Newest(manifest'))
  PROVE Acknowledged'
<1>0. Shape /\ Quiet BY DEF Base
<1>1. AckedKept /\ Running /\ Running' BY FileAcked, InUse, FileStepCallers DEF Base, Running
<1> DEFINE n == Newest(manifest)
           v == Apply(n, e)
<1>2. n \in VersionType /\ v \in VersionType
 <2>1. n \in VersionType BY <1>0, NewestType DEF Shape, ManifestOK
 <2> QED BY <2>1, ApplyType
<1>3. In(tables, Live(n)) \subseteq In(tables, Live(v)) /\ In(tables, Adds(e)) \subseteq In(tables, Live(v))
 <2> DEFINE N == Live(n)
            D == e.del
            A == Adds(e)
            V == Live(v)
 <2>1. V = (N \ D) \cup A BY <1>2 DEF Apply, Live, Adds, VersionType
 <2>2. In(tables, D) \subseteq In(tables, A) OBVIOUS
 <2> HIDE DEF N, D, A, V
 <2>3. In(tables, V) = In(tables, N \ D) \cup In(tables, A) BY <2>1, InUnion
 <2>4. In(tables, N) \subseteq In(tables, (N \ D) \cup D) BY InMonotone
 <2>5. In(tables, (N \ D) \cup D) = In(tables, N \ D) \cup In(tables, D) BY InUnion
 <2>6. In(tables, N) \subseteq In(tables, V) /\ In(tables, A) \subseteq In(tables, V)
  BY <2>2, <2>3, <2>4, <2>5
 <2> QED BY <2>6 DEF N, A, V
<1>4. In(tables, Live(version)) \subseteq In(tables, Live(n)) BY <1>1, AckIs DEF Ahead
<1>5. v.log = e.log BY DEF Apply
<1>6. In(tables, Live(version)) \subseteq In(tables, Live(v)) BY <1>3, <1>4
<1>7. imm # Nil => imm \subseteq In(tables, Live(v)) \/ v.log <= version.log BY <1>3, <1>5
<1>8. OnDisk'
 <2>1. ASSUME NEW w \in Acked', NEW u \in Disk(manifest')
       PROVE Safe(tables, logs, w, req'[w].kind, u)
  <3>1. w \in Acked /\ req'[w].kind = req[w].kind BY <1>1 DEF AckedKept
  <3>2. CASE u \in Disk(manifest) BY <3>1, <3>2, AckIs DEF OnDisk
  <3>3. CASE u = v
   <4> HIDE DEF v
   <4> QED BY <1>2, <1>5, <1>6, <1>7, <3>1, <3>3, VersionSafe
  <3> QED BY <3>2, <3>3 DEF Extended
 <2> QED BY <2>1 DEF OnDisk
<1>9. Ahead'
 <2>1. Newest(manifest') = n \/ Newest(manifest') = v BY DEF Extended
 <2>2. In(tables, Live(version)) \subseteq In(tables, Live(Newest(manifest'))) BY <1>4, <1>6, <2>1
 <2> QED BY <1>1, <2>2 DEF Ahead
<1>10. ImmDurable' BY <1>0, <1>1, AckIs, LogsGrowSame, ImmKept
<1> QED BY <1>8, <1>9, <1>10, AckFile

LEMMA AckFlushManifest ==
  ASSUME Base, Base', Immutable, Acknowledged, FileStep, FlushManifest PROVE Acknowledged'
<1> DEFINE e == flush.edit
           ok == flush'.pc = "done"
<1>1. /\ UNCHANGED <<logs, tables, version, imm>> /\ flush.pc \in Edited /\ e \in EditType
      /\ flush'.edit = e /\ Extended(e, ok) /\ up \in {"open", "closing"}
 BY FlushManifestDoes DEF Base, Edited
<1>2. e.del = {} /\ In(tables, Adds(e)) = imm BY <1>1, BaseIs, ContentsIs
<1>3. In(tables, e.del) \subseteq In(tables, Adds(e)) BY <1>2, InNone
<1>4. e.log = logfile /\ logfile \in Nat BY <1>1, BaseIs, InUse DEF LogFiles
<1>5. e.log <= logfile BY <1>4
<1>6. flush'.pc = "done" => Adds(flush'.edit) \subseteq Live(Newest(manifest'))
 BY <1>1 DEF Extended, Apply, Live, Adds
<1>7. imm # Nil => imm \subseteq In(tables, Adds(e)) \/ e.log <= version.log BY <1>2
<1> HIDE DEF e, ok
<1> QED BY <1>1, <1>3, <1>5, <1>6, <1>7, AckExtended

LEMMA AckCompactManifest ==
  ASSUME Base, Base', Immutable, Acknowledged, FileStep, CompactManifest PROVE Acknowledged'
<1> DEFINE e == comp.edit
           ok == comp'.pc = "done"
<1>1. /\ UNCHANGED <<logs, tables, version, imm, flush>> /\ comp.pc \in Edited /\ e \in EditType
      /\ Extended(e, ok) /\ up \in {"open", "closing"} /\ flush.pc = "none"
 BY CompactManifestDoes DEF Base, Edited
<1>2. In(tables, e.del) = In(tables, Adds(e)) BY <1>1, BaseIs, ContentsIs DEF Adds
<1>3. In(tables, e.del) \subseteq In(tables, Adds(e)) BY <1>2
<1>4. e.log = version.log /\ version.log \in Nat /\ version.log <= logfile
 BY <1>1, BaseIs, InUse DEF LogFiles
<1>5. e.log <= logfile /\ e.log <= version.log BY <1>4
<1>6. imm # Nil => imm \subseteq In(tables, Adds(e)) \/ e.log <= version.log BY <1>5
<1>7. flush'.pc = "done" => Adds(flush'.edit) \subseteq Live(Newest(manifest')) BY <1>1
<1> HIDE DEF e, ok
<1> QED BY <1>1, <1>3, <1>5, <1>6, <1>7, AckExtended

\* The obsolete files go after version' was installed.
LEMMA LogsDeleted ==
  ASSUME Shape, Shape', NEW p, Deleted(version', p),
         ~bgError => OnlyNewest(manifest) /\ Same(Newest(manifest), version')
  PROVE  /\ \A v \in Disk(manifest) : LogsFrom(v.log)
         /\ LogsFrom(version'.log)
<1>1. \A n \in DOMAIN logs : n >= version'.log => n \in DOMAIN logs' /\ logs'[n] = logs[n]
 BY DEF Deleted
<1>2. LogsFrom(version'.log) BY <1>1 DEF LogsFrom
<1>3. CASE bgError
 <2>1. UNCHANGED logs BY <1>3 DEF Deleted
 <2> QED BY <2>1, LogsStay
<1>4. CASE ~bgError
 <2>1. \A v \in Disk(manifest) : v.log = version'.log BY <1>4 DEF OnlyNewest, Same
 <2> QED BY <1>2, <2>1
<1> QED BY <1>2, <1>3, <1>4

\* DeleteObsoleteFiles keeps the newest version.
LEMMA NewestDeleted ==
  ASSUME Files', NEW p, Deleted(version', p),
         ~bgError => OnlyNewest(manifest) /\ Same(Newest(manifest), version')
  PROVE NewestKept
<1>1. CASE bgError BY <1>1 DEF Deleted, NewestKept
<1>2. CASE ~bgError
 <2>1. Live(Newest(manifest)) = Live(version') BY <1>2, SameLive
 <2>2. Live(version') \subseteq DOMAIN tables' BY DEF Files, Present
 <2> QED BY <2>1, <2>2 DEF Deleted, NewestKept
<1> QED BY <1>1, <1>2

\* The log in use after the step.
LEMMA InUseNext ==
  ASSUME Base', up' \in {"open", "closing"} PROVE logfile' \in DOMAIN logs'
BY DEF Base, Numbers, LogFiles, Opened

\* A version is installed and obsolete files go.
LEMMA AckInstalled ==
  ASSUME Base, Base', Immutable, Acknowledged, FileStep, UNCHANGED manifest, NEW p,
         Deleted(version', p), ~bgError => OnlyNewest(manifest) /\ Same(Newest(manifest), version'),
         flush'.pc # "done", imm' = Nil \/ (imm' = imm /\ version'.log = version.log),
         In(tables', Live(version')) \subseteq In(tables', Live(Newest(manifest)))
  PROVE Acknowledged'
<1>0. Shape /\ Shape' /\ Quiet BY DEF Base
<1>1. AckedKept BY FileAcked
<1>2. UNCHANGED <<up, logfile>> /\ up \in {"open", "closing"} BY <1>0, FileStepCallers
<1>3. (\A v \in Disk(manifest) : LogsFrom(v.log)) /\ LogsFrom(version'.log) BY <1>0, LogsDeleted
<1>4. OnDisk' BY <1>1, <1>3, AckIs, OnDiskStays
<1>5. Ahead' BY DEF Ahead
<1>6. ImmDurable'
 <2>1. CASE imm' = Nil BY <2>1 DEF ImmDurable
 <2>2. CASE imm' = imm /\ version'.log = version.log
  <3>1. LogsFrom(version.log) BY <1>3, <2>2
  <3> QED BY <1>1, <2>2, <3>1, AckIs, ImmKept
 <2> QED BY <2>1, <2>2
<1>7. logs'[logfile] = logs[logfile] BY <1>2, InUseNext DEF Deleted
<1> QED BY <1>4, <1>5, <1>6, <1>7, AckFile

LEMMA AckFlushInstall ==
  ASSUME Base, Base', Immutable, Acknowledged, FileStep, FlushInstall PROVE Acknowledged'
<1>0. Shape /\ Quiet /\ Files /\ Files' /\ Contents BY DEF Base
<1>1. /\ UNCHANGED <<manifest, up>> /\ flush.edit \in EditType /\ flush' = NoFlush
      /\ up \in {"open", "closing"} /\ comp.pc \in {"none", "work"}
      /\ \/ /\ flush.pc = "done" /\ version' = Installed(flush.edit) /\ imm' = Nil
            /\ DeleteObsoleteFiles(version', pending)
         \/ UNCHANGED <<version, imm, logs, tables>>
 BY <1>0, FlushInstallDoes
<1>2. CASE UNCHANGED <<version, imm, logs, tables>>
 <2>1. NewestKept /\ flush'.pc # "done" BY <1>1, <1>2, NoFlushType DEF NewestKept
 <2> QED BY <1>1, <1>2, <2>1, AckStill
<1>3. CASE /\ flush.pc = "done" /\ version' = Installed(flush.edit) /\ imm' = Nil
           /\ DeleteObsoleteFiles(version', pending)
 <2>1. Deleted(version', pending) BY <1>0, <1>3, DeleteDoes
 <2>2. Same(version', Apply(version, flush.edit)) BY <1>0, <1>1, <1>3, SameInstalled
 <2>3. NoError => OnlyNewest(manifest) /\ Same(Newest(manifest), version')
  BY <1>0, <1>3, <2>2, FilesIs, SameSym, SameTrans DEF Exact, Target
 <2>4. ~bgError => NoError BY <1>1, <1>3 DEF NoError, Running
 <2>5. NewestKept BY <1>0, <2>1, <2>3, <2>4, NewestDeleted
 <2>6. In(tables', Live(version')) = In(tables, Live(version)) \cup imm
  BY <1>0, <1>1, <1>3, FlushInstalled
 <2>7. imm \subseteq In(tables, Live(Newest(manifest)))
  <3> DEFINE A == Adds(flush.edit)
             N == Live(Newest(manifest))
  <3>1. In(tables, A) = imm BY <1>3, BaseIs, ContentsIs DEF Edited
  <3>2. A \subseteq N BY <1>3, AckIs DEF Ahead
  <3> HIDE DEF A, N
  <3>3. In(tables, A) \subseteq In(tables, N) BY <3>2, InMonotone
  <3> QED BY <3>1, <3>3 DEF N
 <2>8. In(tables, Live(version)) \subseteq In(tables, Live(Newest(manifest)))
  BY <1>1, InUse, AckIs DEF Ahead
 <2>9. In(tables', Live(version')) \subseteq In(tables', Live(Newest(manifest)))
  BY <2>5, <2>6, <2>7, <2>8, NewestHolds
 <2>10. flush'.pc # "done" BY <1>1, NoFlushType
 <2> QED BY <1>1, <1>3, <2>1, <2>3, <2>4, <2>9, <2>10, AckInstalled
<1> QED BY <1>1, <1>2, <1>3

LEMMA AckCompactInstall ==
  ASSUME Base, Base', Immutable, Acknowledged, FileStep, CompactInstall PROVE Acknowledged'
<1>0. Shape /\ Quiet /\ Files /\ Files' /\ Contents /\ LogFiles BY BaseIs DEF Base
<1>1. /\ UNCHANGED <<manifest, up, imm, flush>> /\ comp.edit \in EditType
      /\ up \in {"open", "closing"} /\ flush.pc = "none"
      /\ \/ /\ comp.pc = "done" /\ version' = Installed(comp.edit)
            /\ UNCHANGED <<logs, tables>> \/ DeleteObsoleteFiles(version', pending')
         \/ UNCHANGED <<version, logs, tables>>
 BY <1>0, CompactInstallDoes
<1>2. CASE UNCHANGED <<version, logs, tables>>
 <2>1. NewestKept /\ flush'.pc # "done" BY <1>1, <1>2 DEF NewestKept
 <2> QED BY <1>1, <1>2, <2>1, AckStill
<1>3. CASE /\ comp.pc = "done" /\ version' = Installed(comp.edit)
           /\ UNCHANGED <<logs, tables>> \/ DeleteObsoleteFiles(version', pending')
 <2> DEFINE p == pending'
 <2>1. Deleted(version', p) BY <1>0, <1>3, DeleteDoes, NothingDeleted
 <2>2. Same(version', Apply(version, comp.edit)) BY <1>0, <1>1, <1>3, SameInstalled
 <2>3. NoError => OnlyNewest(manifest) /\ Same(Newest(manifest), version')
  BY <1>0, <1>1, <1>3, <2>2, FilesIs, SameSym, SameTrans DEF Exact, Target
 <2>4. ~bgError => NoError BY <1>1, <1>3 DEF NoError, Running
 <2> HIDE DEF p
 <2>5. NewestKept BY <1>0, <2>1, <2>3, <2>4, NewestDeleted
 <2>6. In(tables', Live(version')) = In(tables, Live(version)) BY <1>0, <1>1, <1>3, CompactInstalled
 <2>7. In(tables, Live(version)) \subseteq In(tables, Live(Newest(manifest)))
  BY <1>1, InUse, AckIs DEF Ahead
 <2>8. In(tables', Live(version')) \subseteq In(tables', Live(Newest(manifest)))
  BY <2>5, <2>6, <2>7, NewestHolds
 <2>9. version'.log = version.log
  BY <1>0, <1>1, <1>3, InstalledIs, ShapeIs DEF LogFiles, Edited
 <2> QED BY <1>1, <2>1, <2>3, <2>4, <2>8, <2>9, AckInstalled
<1> QED BY <1>1, <1>2, <1>3

\* The background thread keeps Acknowledged.
LEMMA AckFileStep ==
  ASSUME Base, Base', Immutable, Acknowledged, FileStep PROVE Acknowledged'
BY AckFlushBegin, AckFlushBuild, AckFlushManifest, AckFlushInstall, AckCompactBegin, AckCompactOpen,
   AckCompactWork, AckCompactManifest, AckCompactInstall DEF FileStep

\* ----- crashes
\* A synced batch survives a crash of the machine.
LEMMA DurableCut ==
  ASSUME NEW f, NEW g, Kept(f, g), f.synced \in Nat, Len(f.recs) \in Nat, Len(g.recs) \in Nat,
         NEW w, Durable(f, w, "sync", 1)
  PROVE Durable(g, w, "sync", 1)
<1>1. PICK i \in 1 .. Len(f.recs) :
          w \in f.recs[i] /\ (\A j \in 1 .. i - 1 : f.recs[j] # TornLog) /\ i <= f.synced
 BY DEF Durable
<1>2. i \in Nat /\ 1 <= i BY <1>1
<1>3. i \in 1 .. Len(g.recs) /\ i <= g.synced BY <1>1, <1>2 DEF Kept
<1>4. \A j \in 1 .. i : g.recs[j] = f.recs[j] BY <1>2, <1>3 DEF Kept
<1>5. w \in g.recs[i] BY <1>1, <1>2, <1>4
<1>6. \A j \in 1 .. i - 1 : g.recs[j] # TornLog BY <1>1, <1>2, <1>4
<1> QED BY <1>3, <1>5, <1>6 DEF Durable

\* The process ends: the promise to a call that was not sync ends with the machine.
LEMMA AckDown ==
  ASSUME Base, Base', Immutable, Acknowledged, Down PROVE Acknowledged'
<1>0. Shape /\ Shape' BY DEF Base
<1>1. /\ rec' = NoRec /\ flush' = NoFlush /\ up' = "closed" /\ tables' = tables
      /\ mem' = {} /\ imm' = Nil /\ Disk(manifest') \subseteq Disk(manifest)
 BY <1>0, DownDoes
<1>2. lead'.pc = "none" BY <1>0, DownCallers
<1>3. ASSUME NEW w \in Acked'
      PROVE w \in Acked /\ req'[w].kind = req[w].kind /\ (logs' = logs \/ req[w].kind = "sync")
 <2>1. w \in Writers /\ req'[w].st = "ok" /\ req'[w].kind # "flush" /\ w \notin excused'
  BY DEF Acked, Writers
 <2>2. req'[w].kind = req[w].kind /\ req[w].st = "ok" BY <2>1 DEF Down
 <2>3. excused \subseteq excused' /\ (logs' = logs \/ (req[w].kind = "async" => w \in excused'))
  BY <2>1, <2>2 DEF Down
 <2>4. req[w].kind \in {"sync", "async", "flush"} BY <1>0, <2>1, ShapeIs DEF ReqType, Kinds
 <2> QED BY <2>1, <2>2, <2>3, <2>4, AckedIs
<1>4. OnDisk'
 <2> SUFFICES ASSUME NEW w \in Acked', NEW v \in Disk(manifest')
              PROVE Safe(tables', logs', w, req'[w].kind, v)
  BY DEF OnDisk
 <2>1. Safe(tables, logs, w, req[w].kind, v) BY <1>1, <1>3, AckIs DEF OnDisk
 <2>2. CASE w \in In(tables, Live(v)) BY <1>1, <2>2 DEF Safe
 <2>3. CASE logs' = logs BY <1>1, <1>3, <2>1, <2>3
 <2>4. CASE req[w].kind = "sync" /\ LoggedIn(logs, w, req[w].kind, v.log)
  <3>1. PICK L \in DOMAIN logs : v.log <= L /\ Durable(logs[L], w, "sync", 1) BY <2>4 DEF LoggedIn
  <3> DEFINE f == logs[L]
             g == logs'[L]
  <3>2. DOMAIN logs' = DOMAIN logs /\ Kept(f, g) BY DEF Down
  <3>3. Len(g.recs) \in Nat BY <1>0, <3>2 DEF Shape, LogsOK, LogFileType
  <3>4. f.synced \in Nat /\ Len(f.recs) \in Nat /\ Durable(f, w, "sync", 1) BY <1>0, <3>1, LogLengths
  <3> HIDE DEF f, g
  <3>5. Durable(g, w, "sync", 1) BY <3>2, <3>3, <3>4, DurableCut
  <3> QED BY <1>3, <2>4, <3>1, <3>2, <3>5 DEF Safe, LoggedIn, g
 <2> QED BY <1>3, <2>1, <2>2, <2>3, <2>4 DEF Safe
<1>5. Readers' BY <1>1 DEF Readers, Running
<1>6. Ahead' BY <1>1, NoFlushType DEF Ahead, Running
<1>7. Replaying' BY <1>1, NoRecType DEF Replaying
<1>8. Leading' BY <1>2, LeadingNone DEF Logging
<1> QED BY <1>4, <1>5, <1>6, <1>7, <1>8 DEF Acknowledged

\* What a step of DB::Open has left to show: nothing is in memory and no group is
\* under way.
LEMMA AckOpening ==
  ASSUME Base, OpeningStep, OnDisk', Running' => Acked' \subseteq Visible', Ahead', Replaying'
  PROVE Acknowledged'
<1>1. /\ UNCHANGED <<mem, imm, lead>> /\ lead.pc = "none" /\ mem = {} /\ imm = Nil
 BY BaseIs, OpeningCallers
<1>2. Readers' BY <1>1 DEF Readers
<1>3. Leading' BY <1>1, LeadingNone DEF Logging
<1> QED BY <1>2, <1>3 DEF Acknowledged

\* DB::Open acknowledges nobody.
LEMMA OpeningAcked ==
  ASSUME Base, OpeningStep
  PROVE  /\ AckedKept /\ Acked' = Acked /\ UNCHANGED req
         /\ flush'.pc = "none" /\ flush.pc = "none"
<1>1. UNCHANGED <<req, excused, flush>> /\ flush.pc = "none" BY BaseIs, OpeningCallers
<1>2. Acked' = Acked BY <1>1 DEF Acked, Writers
<1> QED BY <1>1, <1>2, AckedSame

\* Every acknowledged batch is in the version or in a log that will be replayed.
LEMMA AckOpenRecover ==
  ASSUME Base, Base', Immutable, Acknowledged, OpenRecover PROVE Acknowledged'
<1>0. OpeningStep /\ Shape /\ Quiet /\ rec = NoRec BY BaseIs, OpenRecoverDoes DEF OpeningStep, Quiet
<1>1. /\ UNCHANGED <<logs, tables, manifest>>
      /\ \/ /\ up' = "recovering" /\ Same(version', Newest(manifest))
            /\ Newest(manifest) \in Disk(manifest)
            /\ rec'.logs = {n \in DOMAIN logs : n >= Newest(manifest).log} /\ rec'.pos = 1
            /\ rec'.mem = {}
         \/ up' = "corrupt" /\ UNCHANGED rec
 BY <1>0, OpenRecoverDoes
<1>2. AckedKept /\ Acked' = Acked /\ UNCHANGED req /\ flush'.pc = "none" BY <1>0, OpeningAcked
<1>3. OnDisk' BY <1>0, <1>1, <1>2, AckIs, LogsGrowSame, OnDiskGrows
<1>4. ~Running' BY <1>1 DEF Running
<1>5. Ahead' BY <1>2, <1>4 DEF Ahead
<1>6. Replaying'
 <2>1. CASE up' = "corrupt" BY <1>0, <1>1, <2>1, NoRecType DEF Replaying
 <2>2. CASE up' = "recovering"
  <3>1. ASSUME NEW w \in Acked PROVE ToRead(w)'
   <4> DEFINE v == Newest(manifest)
              k == req[w].kind
   <4>1. v \in Disk(manifest) /\ Live(version') = Live(v) /\ rec'.pos = 1
         /\ rec'.logs = {n \in DOMAIN logs : n >= v.log}
    BY <1>1, <2>2, SameLive
   <4>2. Safe(tables, logs, w, k, v) BY <3>1, <4>1, AckIs DEF OnDisk
   <4>3. CASE w \in In(tables, Live(v)) BY <1>1, <4>1, <4>3 DEF ToRead
   <4>4. CASE LoggedIn(logs, w, k, v.log)
    <5>1. PICK L \in DOMAIN logs : v.log <= L /\ Durable(logs[L], w, k, 1) BY <4>4 DEF LoggedIn
    <5>2. v.log \in Nat /\ L \in Nat BY <1>0, StateNumbers DEF NumberType
    <5>3. L \in rec'.logs BY <4>1, <5>1, <5>2
    <5>4. StartAt(rec', L) = 1 BY <4>1 DEF StartAt
    <5> QED BY <1>1, <1>2, <5>1, <5>3, <5>4 DEF ToRead
   <4> QED BY <4>2, <4>3, <4>4 DEF Safe
  <3> QED BY <1>1, <1>2, <2>2, <3>1 DEF Replaying
 <2> QED BY <1>1, <2>1, <2>2
<1> QED BY <1>0, <1>3, <1>4, <1>5, <1>6, AckOpening

\* What is still to be read stays so when the reader passes a record.
LEMMA DurablePast ==
  ASSUME NEW f, NEW w, NEW k, NEW p \in Nat \ {0}, Len(f.recs) \in Nat, Durable(f, w, k, p)
  PROVE  /\ p <= Len(f.recs) /\ f.recs[p] # TornLog
         /\ w \in f.recs[p] \/ Durable(f, w, k, p + 1)
<1>1. PICK i \in p .. Len(f.recs) :
          /\ w \in f.recs[i]
          /\ \A j \in 1 .. i - 1 : f.recs[j] # TornLog
          /\ k = "sync" => i <= f.synced
 BY DEF Durable
<1>2. i \in Nat /\ p <= i /\ i <= Len(f.recs) BY <1>1
<1>3. CASE i = p BY <1>1, <1>2, <1>3 DEF TornLog
<1>4. CASE i # p
 <2>1. p \in 1 .. i - 1 /\ i \in p + 1 .. Len(f.recs) BY <1>2, <1>4
 <2> QED BY <1>1, <1>2, <2>1 DEF Durable
<1> QED BY <1>3, <1>4

\* A record that is read is kept, and none is skipped but after a torn one.
LEMMA AckRecovering ==
  ASSUME Base, Base', Immutable, Acknowledged, Recovering, RecoverRecord \/ RecoverLogDone
  PROVE Acknowledged'
<1>0. OpeningStep /\ Shape /\ Quiet /\ Replaying BY BaseIs, AckIs DEF OpeningStep
<1>1. /\ UNCHANGED <<logs, manifest, up>> /\ up = "recovering" /\ Same(version', version)
      /\ rec.logs # {}
 BY DEF Recovering
<1>2. AckedKept /\ Acked' = Acked /\ UNCHANGED req /\ flush'.pc = "none" BY <1>0, OpeningAcked
<1>3. OnDisk' BY <1>0, <1>1, <1>2, AckIs, LogsGrowSame, OnDiskGrows
<1>4. ~Running' BY <1>1 DEF Running
<1>5. Ahead' BY <1>2, <1>4 DEF Ahead
<1>6. In(tables', Live(version')) = In(tables, Live(version)) BY <1>1, SameLive, SameTables DEF Base
<1> DEFINE m == Min(rec.logs)
<1>7. /\ m \in rec.logs /\ m \in DOMAIN logs /\ Len(logs[m].recs) \in Nat /\ rec.pos \in Nat \ {0}
      /\ Oldest = logs[m].recs
 BY <1>0, <1>1, OldestLog, RecIs, LogLengths DEF Oldest
<1>8. ReplaysTorn \/ ReplaysRead \/ ReplaysDone BY ReplayRecord, ReplayLogDone
<1>9. ASSUME NEW w \in Acked PROVE ToRead(w)'
 <2> DEFINE k == req[w].kind
 <2>0. ToRead(w) BY <1>0, <1>1, <1>9 DEF Replaying
 <2>1. Rebuilt \subseteq Rebuilt' BY <1>8 DEF ReplaysTorn, ReplaysRead, ReplaysDone
 <2>2. CASE w \in In(tables, Live(version)) BY <1>6, <2>2 DEF ToRead
 <2>3. CASE w \in Rebuilt BY <2>1, <2>3 DEF ToRead
 <2>4. ASSUME NEW L \in rec.logs, Durable(logs[L], w, k, StartAt(rec, L)) PROVE ToRead(w)'
  <3>1. CASE L # m
   <4>1. Durable(logs[L], w, k, 1) BY <2>4, <3>1 DEF StartAt
   <4>2. L \in rec'.logs /\ (rec'.pos = 1 \/ rec'.logs = rec.logs)
    BY <1>8, <2>4, <3>1 DEF ReplaysTorn, ReplaysRead, ReplaysDone, Reads
   <4>3. StartAt(rec', L) = 1 BY <3>1, <4>2 DEF StartAt
   <4> QED BY <1>1, <1>2, <4>1, <4>2, <4>3 DEF ToRead
  <3>2. CASE L = m
   <4> DEFINE f == logs[m]
              p == rec.pos
   <4>1. Durable(f, w, k, p) /\ Len(f.recs) \in Nat /\ p \in Nat \ {0}
    BY <1>7, <2>4, <3>2 DEF StartAt
   <4> HIDE DEF f, p, k
   <4>2. p <= Len(f.recs) /\ f.recs[p] # TornLog /\ (w \in f.recs[p] \/ Durable(f, w, k, p + 1))
    BY <4>1, DurablePast
   <4>3. /\ rec'.logs = rec.logs /\ rec'.pos = p + 1 /\ Rebuilt' = Rebuilt \cup f.recs[p]
    <5>1. ~ReplaysTorn BY <1>7, <4>2 DEF ReplaysTorn, f, p
    <5>2. ~ReplaysDone BY <1>7, <4>1, <4>2 DEF ReplaysDone, f, p
    <5> QED BY <1>7, <1>8, <5>1, <5>2 DEF ReplaysRead, Reads, f, p
   <4>4. CASE w \in f.recs[p] BY <4>3, <4>4 DEF ToRead
   <4>5. CASE Durable(f, w, k, p + 1)
    <5>1. m \in rec'.logs /\ StartAt(rec', m) = p + 1 BY <1>7, <4>3 DEF StartAt
    <5> QED BY <1>1, <1>2, <4>5, <5>1 DEF ToRead, f, k
   <4> QED BY <4>2, <4>4, <4>5
  <3> QED BY <3>1, <3>2
 <2> QED BY <2>0, <2>2, <2>3, <2>4 DEF ToRead
<1>10. rec'.logs = {} => rec'.mem = {}
 BY <1>1, <1>8 DEF ReplaysTorn, ReplaysRead, ReplaysDone, Reads
<1>11. Replaying' BY <1>1, <1>2, <1>9, <1>10 DEF Replaying
<1> QED BY <1>0, <1>3, <1>4, <1>5, <1>11, AckOpening

LEMMA AckOpenedLog ==
  ASSUME Base, Base', Immutable, Acknowledged, OpenedLog PROVE Acknowledged'
<1>0. OpeningStep /\ Shape /\ Replaying BY BaseIs, AckIs DEF OpeningStep
<1>1. /\ UNCHANGED <<tables, manifest, rec>> /\ up = "recovering" /\ up' = "new_manifest"
      /\ Same(version', version) /\ rec.logs = {}
      /\ DOMAIN logs' = DOMAIN logs \cup {logfile'} /\ \A k \in DOMAIN logs : logs'[k] = logs[k]
 BY OpenedLogNew DEF OpenedLog
<1>2. AckedKept /\ Acked' = Acked /\ UNCHANGED req /\ flush'.pc = "none" BY <1>0, OpeningAcked
<1>3. LogsGrow BY <1>0, <1>1, GrowsSelf DEF LogsGrow
<1>4. OnDisk' BY <1>1, <1>2, <1>3, AckIs, OnDiskGrows
<1>5. ~Running' BY <1>1 DEF Running
<1>6. Ahead' BY <1>2, <1>5 DEF Ahead
<1>7. Live(version') = Live(version) BY <1>1, SameLive
<1>8. Rebuilt' = Rebuilt BY <1>1 DEF Rebuilt
<1>9. \A w \in Acked : ToRead(w) BY <1>0, <1>1 DEF Replaying
<1>10. \A w \in Acked : ToRead(w)' BY <1>1, <1>7, <1>8, <1>9 DEF ToRead
<1>11. Replaying' BY <1>0, <1>1, <1>2, <1>10 DEF Replaying
<1> QED BY <1>0, <1>4, <1>5, <1>6, <1>11, AckOpening

\* Everything read is in the version of the new manifest.
LEMMA AckOpenedManifest ==
  ASSUME Base, Base', Immutable, Acknowledged, OpenedManifest PROVE Acknowledged'
<1>0. OpeningStep /\ Replaying BY AckIs DEF OpeningStep
<1>1. /\ UNCHANGED <<tables, logs, rec>> /\ up = "new_manifest" /\ up' = "cleanup"
      /\ version'.l0 = version.l0 \cup rec.added /\ version'.l1 = version.l1
      /\ Disk(manifest') = {Newest(manifest')} /\ Same(Newest(manifest'), version')
 BY DEF OpenedManifest
<1>2. AckedKept /\ Acked' = Acked /\ UNCHANGED req /\ flush'.pc = "none" BY <1>0, OpeningAcked
<1>3. Live(Newest(manifest')) = Live(version') BY <1>1, SameLive
<1>4. In(tables', Live(version')) = In(tables, Live(version)) \cup In(tables, rec.added)
 <2> DEFINE S == Live(version)
            A == rec.added
 <2>1. Live(version') = S \cup A BY <1>1 DEF Live
 <2> HIDE DEF S, A
 <2>2. In(tables, S \cup A) = In(tables, S) \cup In(tables, A) BY InUnion
 <2> QED BY <1>1, <2>1, <2>2 DEF S, A
<1>5. rec.logs = {} /\ rec.mem = {} BY <1>0, <1>1 DEF Replaying
<1>6. \A w \in Acked : w \in In(tables', Live(version'))
 <2>1. \A w \in Acked : ToRead(w) BY <1>0, <1>1 DEF Replaying
 <2> QED BY <1>4, <1>5, <2>1 DEF ToRead, Rebuilt
<1>7. OnDisk' BY <1>1, <1>2, <1>3, <1>6 DEF OnDisk, Safe
<1>8. Acked' \subseteq Visible'
 <2>1. In(tables', Live(version')) \subseteq Visible' BY DEF Visible, InTables, In
 <2> QED BY <1>2, <1>6, <2>1
<1>9. Ahead' BY <1>2, <1>3 DEF Ahead
<1>10. Replaying' BY <1>1, <1>5 DEF Replaying
<1> QED BY <1>0, <1>7, <1>8, <1>9, <1>10, AckOpening

LEMMA AckOpenCleanup ==
  ASSUME Base, Base', Immutable, Acknowledged, OpenCleanup PROVE Acknowledged'
<1>0. OpeningStep /\ Shape /\ Shape' /\ Quiet /\ Files /\ Files' BY DEF OpeningStep, Base
<1> DEFINE p == {}
<1>1. /\ UNCHANGED <<manifest, version, mem, imm>> /\ up = "cleanup" /\ up' = "open"
      /\ rec' = NoRec /\ Deleted(version, p)
 BY <1>0, OpenCleanupDoes
<1> HIDE DEF p
<1>2. AckedKept /\ Acked' = Acked /\ UNCHANGED req /\ flush'.pc = "none" /\ flush.pc = "none"
 BY <1>0, OpeningAcked
<1>3. Running /\ Running' BY <1>1 DEF Running
<1>4. OnlyNewest(manifest) /\ Same(Newest(manifest), version)
 <2>1. comp.pc = "none" BY <1>0, OpeningCallers
 <2>2. ~bgError BY <1>0, <1>1 DEF Quiet
 <2>3. NoError BY <1>2, <1>3, <2>1, <2>2 DEF NoError
 <2>4. Target(version, flush, comp) = version BY <1>2, <2>1 DEF Target
 <2> QED BY <1>0, <2>3, <2>4 DEF Files, Exact
<1>5. Deleted(version', p) /\ Same(Newest(manifest), version') BY <1>1, <1>4
<1>6. \A v \in Disk(manifest) : LogsFrom(v.log) BY <1>0, <1>4, <1>5, LogsDeleted
<1>7. OnDisk' BY <1>1, <1>2, <1>6, AckIs, OnDiskStays
<1>8. Acked' \subseteq Visible'
 <2>1. In(tables', Live(version')) = In(tables, Live(version)) BY <1>0, <1>1, SameTables
 <2>2. Visible = InMemory \cup In(tables, Live(version)) BY VisibleIs
 <2>3. Visible' = InMemory' \cup In(tables', Live(version')) BY DEF Visible, InTables, In
 <2>4. InMemory' = InMemory BY <1>1 DEF InMemory
 <2> QED BY <1>2, <1>3, <2>1, <2>2, <2>3, <2>4, AckIs
<1>9. Ahead'
 <2>1. Live(Newest(manifest')) = Live(version') BY <1>1, <1>5, SameLive
 <2> QED BY <1>2, <2>1 DEF Ahead
<1>10. Replaying' BY <1>1, NoRecType DEF Replaying
<1> QED BY <1>0, <1>7, <1>8, <1>9, <1>10, AckOpening

\* Every step keeps Acknowledged.
LEMMA AckStep == ASSUME Base, Acknowledged, [Next]_vars PROVE Acknowledged'
<1>1. Base' /\ Immutable /\ Shape BY BaseStep, BaseIs
<1> QED BY <1>1, NextCases, AckCallStep, AckFileStep, AckDown, AckOpenRecover, AckRecovering,
     AckOpenedLog, AckOpenedManifest, AckOpenCleanup

\* Initially.
LEMMA InitAcknowledged == Init => Acknowledged
<1> SUFFICES ASSUME Init PROVE Acknowledged OBVIOUS
<1>1. /\ up = "closed" /\ flush.pc = "none" /\ lead.pc = "none" /\ mem = {} /\ imm = Nil /\ rec = NoRec
      /\ \A w \in Writers : req[w].st = "idle"
 BY NoFlushType, NoLeadType DEF Init
<1>2. Acked = {} BY <1>1 DEF Acked
<1>3. OnDisk BY <1>2 DEF OnDisk
<1>4. Readers BY <1>1 DEF Readers, Running
<1>5. Ahead BY <1>1 DEF Ahead, Running
<1>6. Replaying BY <1>1, NoRecType DEF Replaying
<1>7. Leading BY <1>1 DEF Leading, Logging
<1> QED BY <1>3, <1>4, <1>5, <1>6, <1>7 DEF Acknowledged

\* Acknowledged implies the property.
LEMMA AckReadable == Acknowledged => AcknowledgedIsReadable
<1> SUFFICES ASSUME Acknowledged, up = "open" PROVE AcknowledgedIsReadable
 BY DEF AcknowledgedIsReadable
<1>1. Acked \subseteq Visible BY AckIs DEF Running
<1> QED BY <1>1, AckedIs DEF AcknowledgedIsReadable

\* Whenever the database is open, every acknowledged batch that is still promised can be
\* read, whatever flush, compaction, collection of files, failing I/O, crash at any point
\* (also during recovery) and recovery came between.
THEOREM AcknowledgedAlwaysReadable == Spec => []AcknowledgedIsReadable
<1>1. Init => Base /\ Acknowledged BY InitBase, InitAcknowledged
<1>2. Base /\ Acknowledged /\ [Next]_vars => Base' /\ Acknowledged' BY BaseStep, AckStep
<1>3. Base /\ Acknowledged => AcknowledgedIsReadable BY AckReadable
<1> QED BY <1>1, <1>2, <1>3, PTL DEF Spec
=============================================================================
