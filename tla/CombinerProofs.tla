--------------------------- MODULE CombinerProofs ---------------------------
(***************************************************************************)
(* The proofs about gRPC-Core's combiner and its queue.  The invariant     *)
(* IInv of Combiner is kept by every step (NextIInv).  Its parts: the turn *)
(* of a combiner is in one place at most, and the list of every exec_ctx   *)
(* is a list (TurnsInv); the nodes of a queue make a chain, broken only    *)
(* where a push has yet to link it, with the stub somewhere in it or about *)
(* to be pushed (ChainInv); state counts what is added, queued and run     *)
(* (CountInv).  From it follow mutual exclusion, the order of the queue,   *)
(* that a combiner is freed only when nothing holds it, and that the final *)
(* list runs before the combiner is unlocked.                              *)
(***************************************************************************)
EXTENDS Combiner, FiniteSetTheorems, SequenceTheorems, TLAPS

(* state counts items by twos above the bit of the references. *)
LEMMA Halves ==
    ASSUME NEW n \in Nat
    PROVE  /\ n \div 2 \in Nat /\ (n + 2) \div 2 = n \div 2 + 1 /\ (n + 2) % 2 = n % 2
           /\ n >= 2 <=> n \div 2 >= 1
           /\ n >= 4 <=> n \div 2 >= 2
           /\ n >= 2 => (n - 2) \div 2 = n \div 2 - 1 /\ (n - 2) % 2 = n % 2 /\ n - 2 \in Nat
           /\ n % 2 = 1 => (n - 1) \div 2 = n \div 2 /\ n - 1 \in Nat /\ (n - 1) % 2 = 0
           /\ n % 2 \in {0, 1}
           /\ n \div 2 = 1 => n \in {2, 3}
           /\ n \div 2 = 0 => n \in {0, 1}
  OBVIOUS

(* A place is known by what it is and whose it is. *)
LEMMA AtFacts ==
    ASSUME NEW a, NEW t, NEW b, NEW u
    PROVE  At(a, t).how = a /\ At(a, t).by = t /\ (At(a, t) = At(b, u) => a = b /\ t = u)
<1>1. At(a, t).how = a /\ At(a, t).by = t /\ At(b, u).how = b /\ At(b, u).by = u
  BY DEF At
<1> QED BY <1>1

(* push_last_on_exec_ctx keeps the list a list. *)
LEMMA PushLastKeeps ==
    ASSUME NEW place \in [Combiners -> Places], NEW p \in [Combiners -> Places],
           NEW t \in Workers, NEW l \in Combiners,
           active \in [Workers -> Combiners \cup {Null}],
           lastOf \in [Workers -> Combiners \cup {Null}],
           nextCombiner \in [Combiners -> Combiners \cup {Null}],
           ListInv(place), place[l].how # "list", PushLast(t, l),
           p[l] = At("list", t), \A k \in Combiners : k # l => p[k] = place[k]
    PROVE  ListInv(p)'
<1>0. Null \notin Combiners
  BY CombinerAssumption
<1>1. \A u \in Workers : At("list", u).how = "list" /\ (At("list", u) = At("list", t) => u = t)
  BY AtFacts
<1>2. \A u \in Workers : l # active[u] /\ l # lastOf[u] /\ place[l] # At("list", u)
  BY <1>0, <1>1 DEF ListInv
<1>3. \A k \in Combiners, u \in Workers :
         place[k] = At("list", u) /\ k # lastOf[u] => nextCombiner[k] # l
  BY <1>1 DEF ListInv
<1>4. \A u \in Workers : u # t => /\ active'[u] = active[u] /\ lastOf'[u] = lastOf[u]
                                  /\ l # lastOf[u] /\ (lastOf[u] # Null => lastOf[u] # lastOf[t])
  BY <1>0, <1>1, <1>2, AtFacts DEF ListInv, PushLast
<1>5. CASE active[t] = Null
  BY <1>0, <1>1, <1>2, <1>3, <1>4, <1>5 DEF ListInv, PushLast
<1>6. CASE active[t] # Null
  BY <1>0, <1>1, <1>2, <1>3, <1>4, <1>6 DEF ListInv, PushLast
<1> QED BY <1>5, <1>6

(* push_first_on_exec_ctx does, too. *)
LEMMA PushFirstKeeps ==
    ASSUME NEW place \in [Combiners -> Places], NEW p \in [Combiners -> Places],
           NEW t \in Workers, NEW l \in Combiners,
           active \in [Workers -> Combiners \cup {Null}],
           lastOf \in [Workers -> Combiners \cup {Null}],
           nextCombiner \in [Combiners -> Combiners \cup {Null}],
           ListInv(place), place[l].how # "list", PushFirst(t, l),
           p[l] = At("list", t), \A k \in Combiners : k # l => p[k] = place[k]
    PROVE  ListInv(p)'
<1>0. Null \notin Combiners
  BY CombinerAssumption
<1>1. \A u \in Workers : At("list", u).how = "list" /\ (At("list", u) = At("list", t) => u = t)
  BY AtFacts
<1>2. \A u \in Workers : l # active[u] /\ l # lastOf[u] /\ place[l] # At("list", u)
  BY <1>0, <1>1 DEF ListInv
<1>3. \A k \in Combiners, u \in Workers :
         place[k] = At("list", u) /\ k # lastOf[u] => nextCombiner[k] # l
  BY <1>1 DEF ListInv
<1>4. \A u \in Workers : u # t => active'[u] = active[u] /\ lastOf'[u] = lastOf[u]
  BY DEF PushFirst
<1>5. CASE active[t] = Null
  BY <1>0, <1>1, <1>2, <1>3, <1>4, <1>5 DEF ListInv, PushFirst
<1>6. CASE active[t] # Null
  BY <1>0, <1>1, <1>2, <1>3, <1>4, <1>6 DEF ListInv, PushFirst
<1> QED BY <1>5, <1>6

(* move_next takes the first combiner off the list. *)
LEMMA MoveNextKeeps ==
    ASSUME NEW place \in [Combiners -> Places], NEW p \in [Combiners -> Places],
           NEW t \in Workers, NEW l \in Combiners, l = active[t],
           active \in [Workers -> Combiners \cup {Null}],
           lastOf \in [Workers -> Combiners \cup {Null}],
           nextCombiner \in [Combiners -> Combiners \cup {Null}],
           ListInv(place), MoveNext(t),
           p[l].how # "list", \A k \in Combiners : k # l => p[k] = place[k]
    PROVE  /\ ListInv(p)' /\ place[l] = At("list", t)
           /\ active' \in [Workers -> Combiners \cup {Null}]
           /\ lastOf' \in [Workers -> Combiners \cup {Null}]
           /\ nextCombiner' = nextCombiner /\ \A u \in Workers : u # t => active'[u] = active[u]
<1>0. Null \notin Combiners
  BY CombinerAssumption
<1>1. \A u \in Workers : At("list", u).how = "list" /\ (At("list", u) = At("list", t) => u = t)
  BY AtFacts
<1>2. place[l] = At("list", t) /\ \A u \in Workers : p[l] # At("list", u)
  BY <1>0, <1>1 DEF ListInv
<1>3. \A u \in Workers : u # t => /\ active'[u] = active[u] /\ lastOf'[u] = lastOf[u]
                                  /\ active[u] # l /\ lastOf[u] # l
  BY <1>0, <1>1, <1>2 DEF MoveNext, ListInv
<1>4. active'[t] = nextCombiner[l] /\ nextCombiner' = nextCombiner
  BY DEF MoveNext
<1>5. \A k \in Combiners, u \in Workers :
         place[k] = At("list", u) /\ k # lastOf[u] => nextCombiner[k] # l
  BY <1>1, <1>2 DEF ListInv
<1>6. CASE nextCombiner[l] = Null
  <2>1. l = lastOf[t] /\ lastOf'[t] = Null
    BY <1>0, <1>2, <1>6 DEF ListInv, MoveNext
  <2> QED BY <1>0, <1>1, <1>2, <1>3, <1>4, <1>5, <1>6, <2>1 DEF ListInv, MoveNext
<1>7. CASE nextCombiner[l] # Null
  <2>1. l # lastOf[t] /\ lastOf'[t] = lastOf[t]
    BY <1>0, <1>2, <1>7 DEF ListInv, MoveNext
  <2>2. /\ place[nextCombiner[l]] = At("list", t)
        /\ nextCombiner[l] # l /\ nextCombiner[l] \in Combiners
    BY <1>0, <1>2, <1>7, <2>1 DEF ListInv
  <2> QED BY <1>0, <1>1, <1>2, <1>3, <1>4, <1>5, <1>7, <2>1, <2>2 DEF ListInv, MoveNext
<1> QED BY <1>6, <1>7

(* Where no turn changes hands. *)
LEMMA TurnFrame ==
    ASSUME TurnsInv, UNCHANGED <<ctxVars, offloads>>,
           state \in [Combiners -> Nat],
           \A l \in Combiners : state[l] >= 2 => state'[l] >= 2,
           \A t \in Workers :
              /\ th'[t].pc = "initiate" => th[t].pc = "initiate" /\ th'[t].target = th[t].target
              /\ th'[t].pc = "repush" => th[t].pc = "repush" /\ th'[t].lock = th[t].lock
    PROVE  TurnsInv'
<1>1. PICK place \in [Combiners -> Places] : TurnInv(place) /\ ListInv(place)
  BY DEF TurnsInv
<1>2. TurnInv(place)'
  BY <1>1 DEF TurnInv, OffloadInv
<1>3. ListInv(place)'
  BY <1>1 DEF ListInv, ctxVars
<1> QED BY <1>2, <1>3 DEF TurnsInv

(* The turn of a combiner is that of the thread that runs it. *)
LEMMA TurnOf ==
    ASSUME TypeOK, PcInv, NEW place \in [Combiners -> Places], TurnInv(place), ListInv(place),
           NEW t \in Workers, th[t].lock # Null
    PROVE  /\ place[th[t].lock] \in {At("list", t), At("repush", t)}
           /\ state[th[t].lock] >= 2
<1>1. th[t].lock \in Combiners
  BY DEF TypeOK, ThreadType
<1>2. place[th[t].lock] \in {At("list", t), At("repush", t)}
  BY DEF TurnInv, ListInv, PcInv
<1> QED BY <1>1, <1>2, AtFacts DEF TurnInv

(* Two threads never have the turn of one combiner. *)
LEMMA Alone ==
    ASSUME TypeOK, PcInv, TurnsInv
    PROVE  OneThreadInside
<1> SUFFICES ASSUME NEW l \in Combiners, NEW t \in Workers, NEW u \in Workers,
                    th[t].lock = l, th[u].lock = l
             PROVE  t = u
  BY DEF OneThreadInside
<1>1. PICK place \in [Combiners -> Places] : TurnInv(place) /\ ListInv(place)
  BY DEF TurnsInv
<1>2. l # Null
  BY CombinerAssumption
<1>3. place[l] \in {At("list", t), At("repush", t)} /\ place[l] \in {At("list", u), At("repush", u)}
  BY <1>1, <1>2, TurnOf
<1> QED BY <1>3, AtFacts

-----------------------------------------------------------------------------
(* The queue *)

Distinct(s) == \A i, j \in 1 .. Len(s) : s[i] = s[j] => i = j

(* The nodes of a chain. *)
LEMMA ChainFacts ==
    ASSUME NEW f \in Seq(Closures), NEW q \in Combiners, NEW k \in 0 .. Len(f) + 1
    PROVE  /\ Chain(f, q, k) \in Seq(Slots)
           /\ Len(Chain(f, q, k)) = IF k = 0 THEN Len(f) ELSE Len(f) + 1
           /\ k # 0 => Chain(f, q, k)[k] = q
           /\ \A i \in 1 .. Len(f) : /\ k = 0 \/ i < k => Chain(f, q, k)[i] = f[i]
                                     /\ k # 0 /\ i >= k => Chain(f, q, k)[i + 1] = f[i]
<1> DEFINE m == IF k = 0 THEN Len(f) ELSE Len(f) + 1
<1>1. m \in Nat /\ Len(f) \in Nat /\ \A i \in 1 .. Len(f) : f[i] \in Closures
  OBVIOUS
<1>2. \A i \in 1 .. m :
         Chain(f, q, k)[i] = IF k = 0 \/ i < k THEN f[i] ELSE IF i = k THEN q ELSE f[i - 1]
  BY DEF Chain
<1>3. \A i \in 1 .. m : Chain(f, q, k)[i] \in Slots
  BY <1>1, <1>2 DEF Slots
<1>4. Chain(f, q, k) \in [1 .. m -> Slots]
  BY <1>3 DEF Chain
<1>5. Chain(f, q, k) \in Seq(Slots) /\ Len(Chain(f, q, k)) = m
  <2> HIDE DEF m
  <2> QED BY <1>1, <1>4
<1>6. k # 0 => Chain(f, q, k)[k] = q
  BY <1>1, <1>2
<1>7. ASSUME NEW i \in 1 .. Len(f)
      PROVE  /\ k = 0 \/ i < k => Chain(f, q, k)[i] = f[i]
             /\ k # 0 /\ i >= k => Chain(f, q, k)[i + 1] = f[i]
  <2>1. i \in 1 .. m /\ (k # 0 => i + 1 \in 1 .. m) /\ (i + 1) - 1 = i
    BY <1>1
  <2> QED BY <1>1, <1>2, <2>1
<1> QED BY <1>5, <1>6, <1>7

(* They are as distinct as the closures. *)
LEMMA ChainDistinct ==
    ASSUME NEW f \in Seq(Closures), NEW q \in Combiners, NEW k \in 0 .. Len(f) + 1, Distinct(f)
    PROVE  Distinct(Chain(f, q, k))
<1> DEFINE s == Chain(f, q, k)
<1>1. /\ Len(s) = IF k = 0 THEN Len(f) ELSE Len(f) + 1
      /\ Len(f) \in Nat /\ \A i \in 1 .. Len(f) : f[i] # q
  BY ChainFacts, CombinerAssumption
<1>2. \A i \in 1 .. Len(s) : s[i] = IF k = 0 \/ i < k THEN f[i] ELSE IF i = k THEN q ELSE f[i - 1]
  BY <1>1 DEF Chain
<1> HIDE DEF s
<1>3. ASSUME NEW i \in 1 .. Len(s)
      PROVE  \/ s[i] = q /\ i = k /\ k # 0
             \/ \E a \in 1 .. Len(f) : s[i] = f[a] /\ s[i] # q
                                         /\ i = IF k = 0 \/ a < k THEN a ELSE a + 1
  <2>1. CASE k = 0 \/ i < k
    <3>1. i \in 1 .. Len(f) /\ s[i] = f[i]
      BY <1>1, <1>2, <2>1
    <3> QED BY <1>1, <2>1, <3>1
  <2>2. CASE ~(k = 0 \/ i < k) /\ i = k
    BY <1>2, <2>2
  <2>3. CASE ~(k = 0 \/ i < k) /\ i # k
    <3>1. PICK a \in 1 .. Len(f) : a = i - 1
      BY <1>1, <2>3
    <3>2. s[i] = f[a] /\ i = a + 1 /\ ~(a < k)
      BY <1>1, <1>2, <2>3, <3>1
    <3> QED BY <1>1, <2>3, <3>1, <3>2
  <2> QED BY <2>1, <2>2, <2>3
<1>4. Distinct(s)
  <2> SUFFICES ASSUME NEW i \in 1 .. Len(s), NEW j \in 1 .. Len(s), s[i] = s[j] PROVE i = j
    BY DEF Distinct
  <2>1. CASE s[i] = q
    BY <1>3, <2>1
  <2>2. CASE s[i] # q
    <3>1. PICK a \in 1 .. Len(f) : s[i] = f[a] /\ i = IF k = 0 \/ a < k THEN a ELSE a + 1
      BY <1>3, <2>2
    <3>2. PICK b \in 1 .. Len(f) : s[j] = f[b] /\ j = IF k = 0 \/ b < k THEN b ELSE b + 1
      BY <1>3, <2>2
    <3>3. a = b
      BY <3>1, <3>2 DEF Distinct
    <3> QED BY <3>1, <3>2, <3>3
  <2> QED BY <2>1, <2>2
<1> QED BY <1>4 DEF s

(* A push behind the last node. *)
LEMMA ChainPush ==
    ASSUME QTypeOK, NEW q \in Combiners, NEW t \in Workers, NEW n \in Slots,
           NEW s \in Seq(Slots), NEW s2 \in Seq(Slots), Distinct(s), ChainOf(q, s),
           Len(s2) = Len(s) + 1, \A i \in 1 .. Len(s) : s2[i] = s[i], s2[Len(s2)] = n,
           \A i \in 1 .. Len(s) : s[i] # n,
           op[t].pc # "link", tail' = tail, head' = [head EXCEPT ![q] = n],
           next' = [next EXCEPT ![n] = Null],
           op'[t].pc = "link", op'[t].q = q, op'[t].n = n, op'[t].prev = head[q],
           \A u \in Workers : u # t => op'[u] = op[u]
    PROVE  ChainOf(q, s2)'
<1>1. /\ Len(s) \in Nat /\ Len(s) >= 1 /\ head[q] = s[Len(s)] /\ next[s[Len(s)]] = Null
      /\ \A i \in 1 .. Len(s) : s[i] \in Slots
  BY DEF ChainOf
<1>2. \A i \in 1 .. Len(s) : next'[s[i]] = next[s[i]]
  BY <1>1 DEF QTypeOK
<1>3. tail'[q] = s2[1] /\ head'[q] = s2[Len(s2)] /\ next'[n] = Null
  BY <1>1 DEF ChainOf, QTypeOK
<1>4. ASSUME NEW i \in 1 .. Len(s2) - 1
      PROVE  \/ next'[s2[i]] = s2[i + 1]
             \/ next'[s2[i]] = Null /\ \E u \in Workers : Linking(u, q, s2[i], s2[i + 1])'
  <2>1. CASE i = Len(s)
    <3>1. Linking(t, q, s2[i], s2[i + 1])'
      BY <1>1, <2>1 DEF Linking
    <3> QED BY <1>1, <1>2, <2>1, <3>1
  <2>2. CASE i # Len(s)
    <3>1. i \in 1 .. Len(s) - 1 /\ i \in 1 .. Len(s) /\ i + 1 \in 1 .. Len(s)
      BY <1>1, <2>2
    <3>2. \A u \in Workers : Linking(u, q, s[i], s[i + 1]) => Linking(u, q, s[i], s[i + 1])'
      BY DEF Linking
    <3> QED BY <1>2, <3>1, <3>2 DEF ChainOf
  <2> QED BY <2>1, <2>2
<1>5. ASSUME NEW u \in Workers, op'[u].pc = "link", op'[u].q = q
      PROVE  /\ \E i \in 1 .. Len(s2) - 1 : Linking(u, q, s2[i], s2[i + 1])' /\ next'[s2[i]] = Null
             /\ u # t => \E i \in 1 .. Len(s) - 1 : op'[u].prev = s[i]
  <2>1. CASE u = t
    <3>1. Linking(t, q, s2[Len(s)], s2[Len(s) + 1])'
      BY <1>1 DEF Linking
    <3> QED BY <1>1, <1>2, <2>1, <3>1
  <2>2. CASE u # t
    <3>1. PICK i \in 1 .. Len(s) - 1 : Linking(u, q, s[i], s[i + 1]) /\ next[s[i]] = Null
      BY <1>5, <2>2 DEF ChainOf
    <3>2. Linking(u, q, s2[i], s2[i + 1])' /\ next'[s2[i]] = Null /\ op'[u].prev = s[i]
      BY <1>1, <1>2, <2>2, <3>1 DEF Linking
    <3> QED BY <1>1, <3>2
  <2> QED BY <2>1, <2>2
<1>6. ASSUME NEW u \in Workers, NEW v \in Workers, op'[u].pc = "link", op'[u].q = q,
             op'[v].pc = "link", op'[v].q = q, op'[u].prev = op'[v].prev
      PROVE  u = v
  <2>1. CASE u # t /\ v # t
    BY <1>6, <2>1 DEF ChainOf
  <2>2. ASSUME NEW w \in Workers, w # t, op'[w].pc = "link", op'[w].q = q
        PROVE  op'[w].prev # op'[t].prev
    BY <1>1, <1>5, <2>2 DEF Distinct
  <2> QED BY <1>6, <2>1, <2>2
<1> QED BY <1>1, <1>3, <1>4, <1>5, <1>6 DEF ChainOf

(* The store that links a node. *)
LEMMA ChainLink ==
    ASSUME QTypeOK, NEW q \in Combiners, NEW t \in Workers,
           NEW s \in Seq(Slots), Distinct(s), ChainOf(q, s),
           op[t].pc = "link", op[t].q = q, tail' = tail, head' = head,
           next' = [next EXCEPT ![op[t].prev] = op[t].n],
           op'[t].pc # "link", \A u \in Workers : u # t => op'[u] = op[u]
    PROVE  ChainOf(q, s)'
<1>1. PICK i \in 1 .. Len(s) - 1 : Linking(t, q, s[i], s[i + 1]) /\ next[s[i]] = Null
  BY DEF ChainOf
<1>2. /\ Len(s) \in Nat /\ Len(s) >= 1 /\ head[q] = s[Len(s)] /\ next[s[Len(s)]] = Null
      /\ \A j \in 1 .. Len(s) : s[j] \in Slots
  BY DEF ChainOf
<1>3. /\ next'[s[i]] = s[i + 1]
      /\ \A j \in 1 .. Len(s) : j # i => next'[s[j]] = next[s[j]] /\ s[j] # s[i]
  BY <1>1, <1>2 DEF QTypeOK, Linking, Distinct
<1>4. ASSUME NEW j \in 1 .. Len(s) - 1
      PROVE  \/ next'[s[j]] = s[j + 1]
             \/ next'[s[j]] = Null /\ \E u \in Workers : Linking(u, q, s[j], s[j + 1])'
  <2>1. CASE j = i
    BY <1>3, <2>1
  <2>2. CASE j # i
    <3>1. \A u \in Workers : Linking(u, q, s[j], s[j + 1]) => Linking(u, q, s[j], s[j + 1])'
      BY <1>1, <1>2, <1>3, <2>2 DEF Linking
    <3>2. j \in 1 .. Len(s) /\ next'[s[j]] = next[s[j]]
      BY <1>2, <1>3, <2>2
    <3> QED BY <3>1, <3>2 DEF ChainOf
  <2> QED BY <2>1, <2>2
<1>5. ASSUME NEW u \in Workers, op'[u].pc = "link", op'[u].q = q
      PROVE  /\ \E j \in 1 .. Len(s) - 1 : Linking(u, q, s[j], s[j + 1])' /\ next'[s[j]] = Null
             /\ \A v \in Workers :
                   op'[v].pc = "link" /\ op'[v].q = q /\ op'[v].prev = op'[u].prev => v = u
  <2>1. u # t /\ op[u].pc = "link" /\ op[u].q = q /\ op[u].prev # op[t].prev
    BY <1>5 DEF ChainOf
  <2>2. PICK j \in 1 .. Len(s) - 1 : Linking(u, q, s[j], s[j + 1]) /\ next[s[j]] = Null
    BY <2>1 DEF ChainOf
  <2>3. j # i /\ Linking(u, q, s[j], s[j + 1])'
    BY <1>1, <2>1, <2>2 DEF Linking
  <2>4. next'[s[j]] = Null
    BY <1>2, <1>3, <2>2, <2>3
  <2>5. \A v \in Workers :
           op'[v].pc = "link" /\ op'[v].q = q /\ op'[v].prev = op'[u].prev => v = u
    BY <2>1, SMTT(30) DEF ChainOf
  <2> QED BY <2>3, <2>4, <2>5
<1>6. next'[head'[q]] = Null
  BY <1>2, <1>3
<1> QED BY <1>2, <1>4, <1>5, <1>6 DEF ChainOf

(* The first node leaves, once it is linked. *)
LEMMA ChainPop ==
    ASSUME QTypeOK, NEW q \in Combiners, NEW t \in Workers,
           NEW s \in Seq(Slots), NEW s2 \in Seq(Slots), ChainOf(q, s), next[tail[q]] # Null,
           Len(s2) = Len(s) - 1, \A i \in 1 .. Len(s2) : s2[i] = s[i + 1],
           tail' = [tail EXCEPT ![q] = next[tail[q]]], head' = head, next' = next,
           op[t].pc # "link", op'[t].pc # "link", \A u \in Workers : u # t => op'[u] = op[u]
    PROVE  ChainOf(q, s2)'
<1>1. /\ Len(s) \in Nat /\ tail[q] = s[1] /\ head[q] = s[Len(s)] /\ next[head[q]] = Null
      /\ Len(s) >= 1
  BY DEF ChainOf
<1>2. Len(s) > 1 /\ next[s[1]] = s[2]
  BY <1>1 DEF ChainOf
<1>3. Len(s2) >= 1 /\ tail'[q] = s2[1] /\ head'[q] = s2[Len(s2)] /\ next'[head'[q]] = Null
  BY <1>1, <1>2, SMTT(30) DEF QTypeOK
<1>4. \A u \in Workers, a, b \in Slots : Linking(u, q, a, b)' <=> Linking(u, q, a, b)
  BY DEF Linking
<1>5. \A i \in 1 .. Len(s) : s[i] \in Slots
  OBVIOUS
<1>6. ASSUME NEW i \in 1 .. Len(s2) - 1
      PROVE  \/ next'[s2[i]] = s2[i + 1]
             \/ next'[s2[i]] = Null /\ \E u \in Workers : Linking(u, q, s2[i], s2[i + 1])'
  <2>1. /\ i + 1 \in 1 .. Len(s) - 1 /\ s2[i] = s[i + 1] /\ s2[i + 1] = s[i + 1 + 1]
        /\ i + 1 \in 1 .. Len(s) /\ i + 1 + 1 \in 1 .. Len(s)
    BY <1>1, <1>2
  <2> QED BY <1>4, <1>5, <2>1 DEF ChainOf
<1>7. ASSUME NEW u \in Workers, op'[u].pc = "link", op'[u].q = q
      PROVE  /\ \E j \in 1 .. Len(s2) - 1 : Linking(u, q, s2[j], s2[j + 1])' /\ next'[s2[j]] = Null
             /\ \A v \in Workers :
                   op'[v].pc = "link" /\ op'[v].q = q /\ op'[v].prev = op'[u].prev => v = u
  <2>1. u # t /\ op[u].pc = "link" /\ op[u].q = q
    BY <1>7
  <2>2. PICK j \in 1 .. Len(s) - 1 : Linking(u, q, s[j], s[j + 1]) /\ next[s[j]] = Null
    BY <2>1 DEF ChainOf
  <2>3. j # 1
    BY <1>1, <1>2, <2>2
  <2>4. PICK i \in 1 .. Len(s2) - 1 : j = i + 1 /\ s2[i] = s[j] /\ s2[i + 1] = s[j + 1]
    <3> DEFINE i == j - 1
    <3>1. i \in 1 .. Len(s2) - 1 /\ j = i + 1 /\ i \in 1 .. Len(s2) /\ i + 1 \in 1 .. Len(s2)
      BY <1>1, <1>2, <2>3
    <3> QED BY <3>1
  <2>5. Linking(u, q, s2[i], s2[i + 1])' /\ next'[s2[i]] = Null
    BY <2>1, <2>2, <2>4 DEF Linking
  <2>6. \A v \in Workers :
           op'[v].pc = "link" /\ op'[v].q = q /\ op'[v].prev = op'[u].prev => v = u
    BY <2>1 DEF ChainOf
  <2> QED BY <2>5, <2>6
<1> QED BY <1>3, <1>6, <1>7 DEF ChainOf

(* What does not touch a queue. *)
LEMMA ChainFrame ==
    ASSUME NEW q \in Combiners, NEW s \in Seq(Slots), ChainOf(q, s),
           tail'[q] = tail[q], head'[q] = head[q],
           \A i \in 1 .. Len(s) : next'[s[i]] = next[s[i]],
           \A u \in Workers :
              \/ op'[u] = op[u]
              \/ /\ ~(op[u].pc = "link" /\ op[u].q = q)
                 /\ ~(op'[u].pc = "link" /\ op'[u].q = q)
    PROVE  ChainOf(q, s)'
<1>1. \A u \in Workers : \A a, b : Linking(u, q, a, b)' <=> Linking(u, q, a, b)
  BY DEF Linking
<1>2. Len(s) \in Nat /\ Len(s) >= 1 /\ head[q] = s[Len(s)] /\ next'[s[Len(s)]] = Null
  BY DEF ChainOf
<1>3. ASSUME NEW i \in 1 .. Len(s) - 1
      PROVE  \/ next'[s[i]] = s[i + 1]
             \/ next'[s[i]] = Null /\ \E u \in Workers : Linking(u, q, s[i], s[i + 1])'
  <2>1. i \in 1 .. Len(s)
    BY <1>2
  <2> QED BY <1>1, <2>1 DEF ChainOf
<1>4. ASSUME NEW u \in Workers, op'[u].pc = "link", op'[u].q = q
      PROVE  /\ \E j \in 1 .. Len(s) - 1 : Linking(u, q, s[j], s[j + 1])' /\ next'[s[j]] = Null
             /\ \A v \in Workers :
                   op'[v].pc = "link" /\ op'[v].q = q /\ op'[v].prev = op'[u].prev => v = u
  <2>1. op'[u] = op[u]
    BY <1>4
  <2>2. PICK j \in 1 .. Len(s) - 1 : Linking(u, q, s[j], s[j + 1]) /\ next[s[j]] = Null
    BY <1>4, <2>1 DEF ChainOf
  <2>3. Linking(u, q, s[j], s[j + 1])' /\ next'[s[j]] = Null
    BY <1>1, <1>2, <2>2
  <2>4. \A v \in Workers :
           op'[v].pc = "link" /\ op'[v].q = q /\ op'[v].prev = op'[u].prev => v = u
    BY <1>4, <2>1 DEF ChainOf
  <2> QED BY <2>3, <2>4
<1> QED BY <1>2, <1>3, <1>4 DEF ChainOf

(* The chain with one more closure, with the stub put behind it, and with the first node
   gone: the stub, or a closure. *)
LEMMA ChainShapes ==
    ASSUME NEW f \in Seq(Closures), NEW q \in Combiners, NEW k \in 0 .. Len(f) + 1
    PROVE  /\ \A n \in Closures :
                LET s == Chain(f, q, k)  s2 == Chain(Append(f, n), q, k)
                IN  /\ Len(s2) = Len(s) + 1 /\ s2[Len(s2)] = n
                    /\ \A i \in 1 .. Len(s) : s2[i] = s[i]
           /\ LET s == Chain(f, q, 0)  s2 == Chain(f, q, Len(f) + 1)
              IN  /\ Len(s2) = Len(s) + 1 /\ s2[Len(s2)] = q
                  /\ \A i \in 1 .. Len(s) : s2[i] = s[i]
           /\ LET s == Chain(f, q, 1)  s2 == Chain(f, q, 0)
              IN  Len(s2) = Len(s) - 1 /\ \A i \in 1 .. Len(s2) : s2[i] = s[i + 1]
           /\ f # <<>> /\ k # 1 =>
                LET s == Chain(f, q, k)  s2 == Chain(Tail(f), q, IF k = 0 THEN 0 ELSE k - 1)
                IN  Len(s2) = Len(s) - 1 /\ \A i \in 1 .. Len(s2) : s2[i] = s[i + 1]
<1>1. ASSUME NEW n \in Closures
      PROVE  LET s == Chain(f, q, k)  s2 == Chain(Append(f, n), q, k)
             IN  /\ Len(s2) = Len(s) + 1 /\ s2[Len(s2)] = n
                 /\ \A i \in 1 .. Len(s) : s2[i] = s[i]
  <2> DEFINE s == Chain(f, q, k)
             g == Append(f, n)
             s2 == Chain(g, q, k)
  <2>1. /\ g \in Seq(Closures) /\ Len(g) = Len(f) + 1 /\ g[Len(f) + 1] = n
        /\ \A i \in 1 .. Len(f) : g[i] = f[i]
    OBVIOUS
  <2> HIDE DEF g
  <2>2. /\ Len(s) = IF k = 0 THEN Len(f) ELSE Len(f) + 1
        /\ Len(s2) = IF k = 0 THEN Len(g) ELSE Len(g) + 1
        /\ Len(f) \in Nat
    BY <2>1, ChainFacts
  <2>3. \A i \in 1 .. Len(s) : s[i] = IF k = 0 \/ i < k THEN f[i] ELSE IF i = k THEN q ELSE f[i - 1]
    BY <2>2 DEF Chain
  <2>4. \A i \in 1 .. Len(s2) :
           s2[i] = IF k = 0 \/ i < k THEN g[i] ELSE IF i = k THEN q ELSE g[i - 1]
    BY <2>2 DEF Chain
  <2> HIDE DEF s, s2
  <2>5. Len(s2) = Len(s) + 1
    BY <2>1, <2>2
  <2>6. s2[Len(s2)] = n
    <3>1. CASE k = 0
      BY <2>1, <2>2, <2>4, <3>1
    <3>2. CASE k # 0
      <4>1. Len(s2) - 1 = Len(f) + 1 /\ Len(s2) \in 1 .. Len(s2) /\ Len(s2) > k
        BY <2>1, <2>2, <3>2
      <4> QED BY <2>1, <2>4, <3>2, <4>1
    <3> QED BY <3>1, <3>2
  <2>7. ASSUME NEW i \in 1 .. Len(s)
        PROVE  s2[i] = s[i]
    <3>1. i \in 1 .. Len(s2)
      BY <2>1, <2>2
    <3>2. CASE k = 0 \/ i < k
      BY <2>1, <2>2, <2>3, <2>4, <3>1, <3>2
    <3>3. CASE k # 0 /\ i = k
      BY <2>3, <2>4, <3>1, <3>3
    <3>4. CASE k # 0 /\ i > k
      <4>1. i - 1 \in 1 .. Len(f)
        BY <2>2, <3>4
      <4>2. ~(k = 0 \/ i < k) /\ i # k
        BY <2>2, <3>4
      <4>3. s[i] = f[i - 1] /\ s2[i] = g[i - 1]
        BY <2>3, <2>4, <3>1, <4>2
      <4> QED BY <2>1, <4>1, <4>3
    <3> QED BY <2>2, <3>2, <3>3, <3>4
  <2> QED BY <2>5, <2>6, <2>7 DEF s, s2, g
<1>2. LET s == Chain(f, q, 0)  s2 == Chain(f, q, Len(f) + 1)
      IN  /\ Len(s2) = Len(s) + 1 /\ s2[Len(s2)] = q
          /\ \A i \in 1 .. Len(s) : s2[i] = s[i]
  <2>1. Len(f) \in Nat /\ Len(f) + 1 # 0
    OBVIOUS
  <2> QED BY <2>1, ChainFacts
<1>3. LET s == Chain(f, q, 1)  s2 == Chain(f, q, 0)
      IN  Len(s2) = Len(s) - 1 /\ \A i \in 1 .. Len(s2) : s2[i] = s[i + 1]
  <2>1. Len(f) \in Nat
    OBVIOUS
  <2> QED BY <2>1, ChainFacts
<1>4. ASSUME f # <<>>, k # 1
      PROVE  LET s == Chain(f, q, k)  s2 == Chain(Tail(f), q, IF k = 0 THEN 0 ELSE k - 1)
             IN  Len(s2) = Len(s) - 1 /\ \A i \in 1 .. Len(s2) : s2[i] = s[i + 1]
  <2> DEFINE s == Chain(f, q, k)
             g == Tail(f)
             j == IF k = 0 THEN 0 ELSE k - 1
             s2 == Chain(g, q, j)
  <2>1. /\ g \in Seq(Closures) /\ Len(g) = Len(f) - 1 /\ Len(f) \in Nat /\ Len(f) >= 1
        /\ \A i \in 1 .. Len(g) : g[i] = f[i + 1]
    BY <1>4
  <2> HIDE DEF g
  <2>2. j \in 0 .. Len(g) + 1 /\ (j = 0 <=> k = 0) /\ (k # 0 => k = j + 1)
    BY <1>4, <2>1
  <2> HIDE DEF j
  <2>3. /\ Len(s) = IF k = 0 THEN Len(f) ELSE Len(f) + 1
        /\ Len(s2) = IF j = 0 THEN Len(g) ELSE Len(g) + 1
    BY <2>1, <2>2, ChainFacts
  <2>4. \A i \in 1 .. Len(s) : s[i] = IF k = 0 \/ i < k THEN f[i] ELSE IF i = k THEN q ELSE f[i - 1]
    BY <2>3 DEF Chain
  <2>5. \A i \in 1 .. Len(s2) :
           s2[i] = IF j = 0 \/ i < j THEN g[i] ELSE IF i = j THEN q ELSE g[i - 1]
    BY <2>3 DEF Chain
  <2> HIDE DEF s, s2
  <2>6. Len(s2) = Len(s) - 1
    BY <2>1, <2>2, <2>3
  <2>7. ASSUME NEW i \in 1 .. Len(s2)
        PROVE  s2[i] = s[i + 1]
    <3>1. i + 1 \in 1 .. Len(s)
      BY <2>1, <2>2, <2>3
    <3>2. CASE j = 0 \/ i < j
      BY <2>1, <2>2, <2>3, <2>4, <2>5, <3>1, <3>2
    <3>3. CASE j # 0 /\ i = j
      BY <2>1, <2>2, <2>3, <2>4, <2>5, <3>1, <3>3
    <3>4. CASE j # 0 /\ i > j
      <4>1. s2[i] = g[i - 1] /\ s[i + 1] = f[i] /\ i - 1 \in 1 .. Len(g) /\ (i - 1) + 1 = i
        BY <2>1, <2>2, <2>3, <2>4, <2>5, <3>1, <3>4
      <4> QED BY <2>1, <4>1
    <3> QED BY <2>1, <2>2, <3>2, <3>3, <3>4
  <2> QED BY <2>6, <2>7 DEF s, s2, g, j
<1> QED BY <1>1, <1>2, <1>3, <1>4

(* What pop has still to come to. *)
LEMMA QueuedFacts ==
    ASSUME IInv, NEW q \in Combiners
    PROVE  /\ Queued(q) \in Seq(Closures) /\ Distinct(Queued(q)) /\ Distinct(fifo[q])
           /\ PoppedFrom(q) => fifo[q] # <<>>
           /\ fifo[q] \in Seq(Closures)
           /\ \A i \in 1 .. Len(Queued(q)) : \E j \in DOMAIN fifo[q] : Queued(q)[i] = fifo[q][j]
<1>1. fifo[q] \in Seq(Closures)
  BY DEF IInv, TypeOK
<1>2. Distinct(fifo[q])
  BY <1>1 DEF IInv, ClosureInv, Distinct
<1>3. PoppedFrom(q) => fifo[q] # <<>>
  BY DEF IInv, PoppedFrom, OpInv
<1>4. CASE ~PoppedFrom(q)
  BY <1>1, <1>2, <1>3, <1>4 DEF Queued
<1>5. CASE PoppedFrom(q)
  <2> DEFINE f == fifo[q]
             g == Tail(f)
  <2>1. /\ g \in Seq(Closures) /\ Len(g) = Len(f) - 1 /\ Len(f) \in Nat
        /\ \A i \in 1 .. Len(g) : g[i] = f[i + 1] /\ i + 1 \in DOMAIN f
    BY <1>1, <1>3, <1>5
  <2>2. Queued(q) = g
    BY <1>5 DEF Queued
  <2> HIDE DEF f, g
  <2>3. Distinct(f)
    BY <1>2 DEF f
  <2>4. Distinct(g) /\ \A i \in 1 .. Len(g) : \E j \in DOMAIN f : g[i] = f[j]
    BY <2>1, <2>3 DEF Distinct
  <2> QED BY <1>1, <1>2, <1>3, <2>1, <2>2, <2>4 DEF f
<1> QED BY <1>4, <1>5

(* The nodes of the chain of a queue. *)
LEMMA ChainNodes ==
    ASSUME IInv, NEW q \in Combiners, NEW k \in 0 .. Len(Queued(q)) + 1
    PROVE  LET s == Chain(Queued(q), q, k)
           IN  /\ s \in Seq(Slots) /\ Distinct(s)
               /\ \A i \in 1 .. Len(s) : s[i] = q \/ \E j \in DOMAIN fifo[q] : s[i] = fifo[q][j]
<1> DEFINE f == Queued(q)
           s == Chain(f, q, k)
<1>0. k \in 0 .. Len(f) + 1
  OBVIOUS
<1>1. /\ f \in Seq(Closures) /\ Distinct(f) /\ Len(f) \in Nat
      /\ \A i \in 1 .. Len(f) : \E j \in DOMAIN fifo[q] : f[i] = fifo[q][j]
  BY QueuedFacts
<1> HIDE DEF f
<1>2. s \in Seq(Slots) /\ Distinct(s) /\ Len(s) = IF k = 0 THEN Len(f) ELSE Len(f) + 1
  BY <1>0, <1>1, ChainFacts, ChainDistinct
<1>3. \A i \in 1 .. Len(s) : s[i] = IF k = 0 \/ i < k THEN f[i] ELSE IF i = k THEN q ELSE f[i - 1]
  BY <1>2 DEF Chain
<1> HIDE DEF s
<1>4. \A i \in 1 .. Len(s) : s[i] = q \/ \E j \in 1 .. Len(f) : s[i] = f[j]
  <2> SUFFICES ASSUME NEW i \in 1 .. Len(s), s[i] # q
               PROVE  \E j \in 1 .. Len(f) : s[i] = f[j]
    OBVIOUS
  <2>1. CASE k = 0 \/ i < k
    <3>1. i \in 1 .. Len(f) /\ s[i] = f[i]
      BY <1>0, <1>1, <1>2, <1>3, <2>1
    <3> QED BY <3>1
  <2>2. CASE k # 0 /\ i > k
    <3>1. i - 1 \in 1 .. Len(f) /\ s[i] = f[i - 1]
      BY <1>0, <1>1, <1>2, <1>3, <2>2
    <3> QED BY <3>1
  <2> QED BY <1>0, <1>1, <1>3, <2>1, <2>2
<1>5. \A i \in 1 .. Len(s) : s[i] = q \/ \E j \in DOMAIN fifo[q] : s[i] = fifo[q][j]
  BY <1>1, <1>4
<1> QED BY <1>2, <1>5 DEF s, f

(* The chain of a queue after a step, from what it consists of by then. *)
LEMMA ChainedNext ==
    ASSUME NEW q \in Combiners, NEW f, Queued(q)' = f, NEW k \in 0 .. Len(f) + 1,
           ChainOf(q, Chain(f, q, k))',
           \A t \in Workers : op'[t].pc = "stub" /\ op'[t].q = q => k = 0
    PROVE  Chained(q)'
  BY DEF Chained

(* The chain before the step. *)
LEMMA ChainedNow ==
    ASSUME IInv, NEW q \in Combiners
    PROVE  \E f \in Seq(Closures), k \in Nat, s \in Seq(Slots) :
              /\ f = Queued(q) /\ k \in 0 .. Len(f) + 1 /\ s = Chain(f, q, k)
              /\ ChainOf(q, s) /\ Distinct(s)
              /\ \A t \in Workers : op[t].pc = "stub" /\ op[t].q = q => k = 0
              /\ \A i \in 1 .. Len(s) : s[i] = q \/ \E j \in DOMAIN fifo[q] : s[i] = fifo[q][j]
<1>1. PICK k \in 0 .. Len(Queued(q)) + 1 :
            /\ ChainOf(q, Chain(Queued(q), q, k))
            /\ \A t \in Workers : op[t].pc = "stub" /\ op[t].q = q => k = 0
  BY DEF IInv, ChainInv, Chained
<1>2. Queued(q) \in Seq(Closures) /\ k \in Nat
  BY QueuedFacts
<1> QED BY <1>1, <1>2, ChainNodes

(* A queue that a step does not touch. *)
LEMMA OtherQueue ==
    ASSUME IInv, NEW q \in Combiners, NEW p \in Combiners, p # q, NEW t \in Workers,
           tail'[p] = tail[p], head'[p] = head[p], fifo'[p] = fifo[p],
           \A n \in Slots : \/ next'[n] = next[n] \/ n = q
                            \/ n # p /\ \A j \in DOMAIN fifo[p] : n # fifo[p][j],
           \A u \in Workers : u # t => op'[u] = op[u],
           op[t].pc = "idle" \/ op[t].q = q, op'[t].pc = "idle" \/ op'[t].q = q
    PROVE  Chained(p)'
<1>1. PICK f \in Seq(Closures), k \in Nat, s \in Seq(Slots) :
              /\ f = Queued(p) /\ k \in 0 .. Len(f) + 1 /\ s = Chain(f, p, k)
              /\ ChainOf(p, s) /\ Distinct(s)
              /\ \A v \in Workers : op[v].pc = "stub" /\ op[v].q = p => k = 0
              /\ \A i \in 1 .. Len(s) : s[i] = p \/ \E j \in DOMAIN fifo[p] : s[i] = fifo[p][j]
  BY ChainedNow
<1>2. Queued(p)' = f
  BY <1>1 DEF Queued, PoppedFrom
<1>3. \A i \in 1 .. Len(s) : next'[s[i]] = next[s[i]]
  <2>1. \A j \in DOMAIN fifo[p] : fifo[p][j] # q
    BY CombinerAssumption DEF IInv, TypeOK
  <2>2. \A i \in 1 .. Len(s) : s[i] \in Slots /\ s[i] # q
    BY <1>1, <2>1
  <2> QED BY <1>1, <2>2
<1>4. ChainOf(p, s)'
  BY <1>1, <1>3, ChainFrame
<1>5. \A v \in Workers : op'[v].pc = "stub" /\ op'[v].q = p => k = 0
  BY <1>1
<1> QED BY <1>1, <1>2, <1>4, <1>5, ChainedNext

(* gpr_mpscq_push up to the exchange, by a thread that adds a closure. *)
LEMMA PushKeepsChains ==
    ASSUME IInv, NEW t \in Workers, NEW q \in Combiners, NEW n \in Closures,
           th[t].pc = "push", th[t].c = n, PushXchg(t, q, n),
           fifo' = [fifo EXCEPT ![q] = Append(@, n)]
    PROVE  ChainInv'
<1>1. /\ head \in [Combiners -> Slots] /\ next \in [Slots -> Slots \cup {Null}] /\ n \in Slots
      /\ QTypeOK /\ fifo \in [Combiners -> Seq(Closures)]
  BY DEF IInv, TypeOK, QTypeOK, Slots
<1>2. /\ op[t].pc = "idle" /\ next' = [next EXCEPT ![n] = Null] /\ tail' = tail
      /\ head' = [head EXCEPT ![q] = n] /\ \A u \in Workers : u # t => op'[u] = op[u]
      /\ op'[t].pc = "link" /\ op'[t].q = q /\ op'[t].n = n /\ op'[t].prev = head[q]
  <2> DEFINE o == [op[t] EXCEPT !.pc = "link", !.q = q, !.n = n, !.prev = head[q]]
  <2>1. o.pc = "link" /\ o.q = q /\ o.n = n /\ o.prev = head[q]
    BY <1>1 DEF QTypeOK
  <2>2. op' = [op EXCEPT ![t] = o]
        /\ op \in [Workers -> [pc : {"idle", "link", "reload", "head", "stub", "last", "popped"},
                           q : Combiners \cup {Null}, n : Slots \cup {Null},
                           prev : Slots \cup {Null}, tail : Slots \cup {Null}]]
    BY <1>1 DEF PushXchg, QTypeOK
  <2> HIDE DEF o
  <2> QED BY <2>1, <2>2 DEF PushXchg
<1>3. \A p \in Combiners : \A j \in DOMAIN fifo[p] : fifo[p][j] # n
  BY DEF IInv, ClosureInv, AddPcs
<1>4. ASSUME NEW p \in Combiners, p # q
      PROVE  Chained(p)'
  <2>1. n # p /\ fifo'[p] = fifo[p] /\ head'[p] = head[p] /\ tail'[p] = tail[p]
    BY <1>1, <1>2, <1>4, CombinerAssumption
  <2>2. \A x \in Slots : next'[x] = next[x] \/ x = n
    BY <1>1, <1>2
  <2> QED BY <1>2, <1>3, <1>4, <2>1, <2>2, OtherQueue
<1>5. Chained(q)'
  <2>1. PICK f \in Seq(Closures), k \in Nat, s \in Seq(Slots) :
              /\ f = Queued(q) /\ k \in 0 .. Len(f) + 1 /\ s = Chain(f, q, k)
              /\ ChainOf(q, s) /\ Distinct(s)
              /\ \A v \in Workers : op[v].pc = "stub" /\ op[v].q = q => k = 0
              /\ \A i \in 1 .. Len(s) : s[i] = q \/ \E j \in DOMAIN fifo[q] : s[i] = fifo[q][j]
    BY ChainedNow
  <2>2. PICK g \in Seq(Closures) : g = Append(f, n)
    <3>1. Append(f, n) \in Seq(Closures)
      OBVIOUS
    <3> QED BY <3>1
  <2>3. Queued(q)' = g
    <3>1. PoppedFrom(q)' <=> PoppedFrom(q)
      BY <1>2 DEF PoppedFrom
    <3>2. PoppedFrom(q) => fifo[q] # <<>>
      BY QueuedFacts
    <3>3. fifo'[q] = Append(fifo[q], n) /\ fifo[q] \in Seq(Closures)
      BY <1>1
    <3>4. fifo[q] # <<>> => Tail(Append(fifo[q], n)) = Append(Tail(fifo[q]), n)
      BY <3>3
    <3> QED BY <2>1, <2>2, <3>1, <3>2, <3>3, <3>4 DEF Queued
  <2>4. PICK s2 \in Seq(Slots) :
          /\ s2 = Chain(g, q, k) /\ Len(s2) = Len(s) + 1 /\ s2[Len(s2)] = n
          /\ \A i \in 1 .. Len(s) : s2[i] = s[i]
    <3>1. k \in 0 .. Len(g) + 1
      BY <2>1, <2>2
    <3>2. Chain(g, q, k) \in Seq(Slots)
      BY <3>1, ChainFacts
    <3> QED BY <2>1, <2>2, <3>2, ChainShapes
  <2>5. \A i \in 1 .. Len(s) : s[i] # n
    <3>1. n # q
      BY CombinerAssumption
    <3> QED BY <1>3, <2>1, <3>1
  <2>6. ChainOf(q, s2)'
    <3>1. op[t].pc # "link" /\ QTypeOK /\ n \in Slots /\ Distinct(s) /\ ChainOf(q, s)
      BY <1>1, <1>2, <2>1
    <3>2. Len(s2) = Len(s) + 1 /\ s2[Len(s2)] = n /\ \A i \in 1 .. Len(s) : s2[i] = s[i]
      BY <2>4
    <3> QED BY <1>2, <2>5, <3>1, <3>2, ChainPush
  <2>7. k \in 0 .. Len(g) + 1
    BY <2>1, <2>2
  <2>8. \A v \in Workers : op'[v].pc = "stub" /\ op'[v].q = q => k = 0
    BY <1>2, <2>1
  <2> QED BY <2>3, <2>4, <2>6, <2>7, <2>8, ChainedNext
<1> QED BY <1>4, <1>5 DEF ChainInv

(* gpr_mpscq_push after the exchange. *)
LEMMA LinkKeepsChains ==
    ASSUME IInv, NEW t \in Workers, op[t].pc = "link", PushLink(t), fifo' = fifo
    PROVE  ChainInv' /\ op'[t].pc \in {"idle", "last"} /\ (op'[t].pc = "last" => op'[t].q = op[t].q)
<1> DEFINE o == IF op[t].n \in Combiners THEN [op[t] EXCEPT !.pc = "last"] ELSE IdleOp
<1>1. QTypeOK /\ fifo \in [Combiners -> Seq(Closures)]
  BY DEF IInv, TypeOK
<1>2. o.pc \in {"idle", "last"} /\ (o.pc = "last" => o.q = op[t].q /\ o.tail = op[t].tail)
  BY <1>1 DEF QTypeOK, IdleOp
<1>3. /\ next' = [next EXCEPT ![op[t].prev] = op[t].n] /\ head' = head /\ tail' = tail
      /\ op' = [op EXCEPT ![t] = o]
  BY DEF PushLink
<1> HIDE DEF o
<1>4. op'[t] = o /\ \A u \in Workers : u # t => op'[u] = op[u]
  BY <1>1, <1>3 DEF QTypeOK
<1>5. PICK q \in Combiners : q = op[t].q
  <2>1. th[t] \in ThreadType /\ th[t].target \in Combiners \cup {Null}
        /\ th[t].lock \in Combiners \cup {Null}
    BY DEF IInv, TypeOK, ThreadType
  <2>2. \/ th[t].pc = "link" /\ op[t].q = th[t].target
        \/ th[t].pc = "popping" /\ op[t].q = th[t].lock
    BY DEF IInv, OpInv
  <2>3. op[t].q # Null
    BY <2>2 DEF IInv, PcInv, CallPcs, TurnPcs
  <2> QED BY <2>1, <2>2, <2>3
<1>6. PICK f \in Seq(Closures), k \in Nat, s \in Seq(Slots) :
              /\ f = Queued(q) /\ k \in 0 .. Len(f) + 1 /\ s = Chain(f, q, k)
              /\ ChainOf(q, s) /\ Distinct(s)
              /\ \A v \in Workers : op[v].pc = "stub" /\ op[v].q = q => k = 0
              /\ \A i \in 1 .. Len(s) : s[i] = q \/ \E j \in DOMAIN fifo[q] : s[i] = fifo[q][j]
  BY ChainedNow
<1>7. op[t].prev \in Slots /\ (op[t].prev = q \/ \E j \in DOMAIN fifo[q] : op[t].prev = fifo[q][j])
  <2>1. PICK i \in 1 .. Len(s) - 1 : Linking(t, q, s[i], s[i + 1])
    BY <1>5, <1>6 DEF ChainOf
  <2>2. i \in 1 .. Len(s) /\ op[t].prev = s[i]
    BY <1>6, <2>1 DEF Linking
  <2> QED BY <1>6, <2>2
<1>8. ASSUME NEW p \in Combiners, p # q
      PROVE  Chained(p)'
  <2>1. \A x \in Slots : next'[x] = next[x] \/ x = op[t].prev
    BY <1>1, <1>3 DEF QTypeOK
  <2>2. op[t].prev # q => op[t].prev # p /\ \A j \in DOMAIN fifo[p] : op[t].prev # fifo[p][j]
    <3>1. op[t].prev # q => op[t].prev \in Closures
      BY <1>1, <1>7
    <3> QED BY <1>7, <1>8, <3>1, CombinerAssumption DEF IInv, ClosureInv
  <2> QED BY <1>2, <1>3, <1>4, <1>5, <1>8, <2>1, <2>2, OtherQueue
<1>9. Chained(q)'
  <2>1. Queued(q)' = f
    BY <1>2, <1>4, <1>6 DEF Queued, PoppedFrom
  <2>2. ChainOf(q, s)'
    BY <1>1, <1>2, <1>3, <1>4, <1>5, <1>6, ChainLink
  <2>3. \A v \in Workers : op'[v].pc = "stub" /\ op'[v].q = q => k = 0
    BY <1>2, <1>4, <1>6
  <2> QED BY <1>6, <2>1, <2>2, <2>3, ChainedNext
<1> QED BY <1>2, <1>4, <1>8, <1>9 DEF ChainInv

(* Where the stub is. *)
LEMMA StubAt ==
    ASSUME NEW f \in Seq(Closures), NEW q \in Combiners, NEW k \in 0 .. Len(f) + 1,
           Len(Chain(f, q, k)) >= 1
    PROVE  /\ k = 1 <=> Chain(f, q, k)[1] = q
           /\ k # 1 => f # <<>> /\ Chain(f, q, k)[1] = Head(f) /\ Head(f) \in Closures
<1>1. /\ Len(Chain(f, q, k)) = IF k = 0 THEN Len(f) ELSE Len(f) + 1
      /\ k # 0 => Chain(f, q, k)[k] = q
      /\ \A i \in 1 .. Len(f) : k = 0 \/ i < k => Chain(f, q, k)[i] = f[i]
      /\ Len(f) \in Nat
  BY ChainFacts
<1>2. CASE k = 1
  BY <1>1, <1>2
<1>3. CASE k # 1
  <2>1. Len(f) >= 1
    BY <1>1, <1>3
  <2>2. f # <<>> /\ Head(f) = f[1] /\ f[1] \in Closures /\ f[1] # q
    BY <2>1, CombinerAssumption
  <2>3. Chain(f, q, k)[1] = f[1]
    BY <1>1, <1>3, <2>1
  <2> QED BY <1>3, <2>2, <2>3
<1> QED BY <1>2, <1>3

(* One thread at a time pops from a queue. *)
LEMMA OnePopper ==
    ASSUME IInv, NEW t \in Workers, NEW q \in Combiners, th[t].pc \in {"pop", "popping"},
           q = th[t].lock
    PROVE  \A u \in Workers : u # t /\ op[u].pc \notin {"idle", "link"} => op[u].q # q
<1>1. OneThreadInside
  BY Alone DEF IInv
<1>2. \A u \in Workers : op[u].pc \notin {"idle", "link"} => op[u].q = th[u].lock
  BY DEF IInv, OpInv
<1> QED BY <1>1, <1>2 DEF OneThreadInside

(* gpr_mpscq_pop returns the first node, which is linked to the next one. *)
LEMMA PopKeepsChains ==
    ASSUME IInv, NEW t \in Workers, NEW q \in Combiners, th[t].pc \in {"pop", "popping"},
           q = th[t].lock, tail[q] # q, next[tail[q]] # Null,
           op[t].pc \notin {"link", "popped"}, op[t].pc = "idle" \/ op[t].q = q,
           tail' = [tail EXCEPT ![q] = next[tail[q]]], head' = head, next' = next, fifo' = fifo,
           op'[t].pc = "popped", op'[t].q = q, op'[t].n = tail[q],
           \A u \in Workers : u # t => op'[u] = op[u]
    PROVE  ChainInv' /\ fifo[q] # <<>> /\ tail[q] = Head(fifo[q])
<1>1. QTypeOK /\ tail \in [Combiners -> Slots] /\ Null \notin Slots
  BY CombinerAssumption DEF IInv, TypeOK, QTypeOK, Slots
<1>2. PICK f \in Seq(Closures), k \in Nat, s \in Seq(Slots) :
              /\ f = Queued(q) /\ k \in 0 .. Len(f) + 1 /\ s = Chain(f, q, k)
              /\ ChainOf(q, s) /\ Distinct(s)
              /\ \A v \in Workers : op[v].pc = "stub" /\ op[v].q = q => k = 0
              /\ \A i \in 1 .. Len(s) : s[i] = q \/ \E j \in DOMAIN fifo[q] : s[i] = fifo[q][j]
  BY ChainedNow
<1>3. tail[q] = s[1] /\ Len(s) >= 1
  BY <1>2 DEF ChainOf
<1>4. k # 1 /\ f # <<>> /\ s[1] = Head(f)
  BY <1>2, <1>3, StubAt
<1>5. ~PoppedFrom(q) /\ f = fifo[q] /\ PoppedFrom(q)'
  <2>1. \A u \in Workers : u # t /\ op[u].pc = "popped" => op[u].q # q
    BY OnePopper
  <2>2. ~PoppedFrom(q)
    BY <2>1 DEF PoppedFrom
  <2>3. tail[q] # Null
    BY <1>1
  <2> QED BY <1>2, <2>2, <2>3 DEF PoppedFrom, Queued
<1>6. ASSUME NEW p \in Combiners, p # q
      PROVE  Chained(p)'
  <2>1. tail'[p] = tail[p]
    BY <1>1, <1>6
  <2> QED BY <1>6, <2>1, OtherQueue
<1>7. Chained(q)'
  <2>1. PICK g \in Seq(Closures) : g = Tail(f)
    <3>1. Tail(f) \in Seq(Closures)
      BY <1>4
    <3> QED BY <3>1
  <2>2. Queued(q)' = g
    BY <1>5, <2>1 DEF Queued
  <2>3. PICK j \in Nat : j = IF k = 0 THEN 0 ELSE k - 1
    BY <1>2
  <2>4. j \in 0 .. Len(g) + 1
    BY <1>2, <1>4, <2>1, <2>3
  <2>5. PICK s2 \in Seq(Slots) :
          /\ s2 = Chain(g, q, j) /\ Len(s2) = Len(s) - 1
          /\ \A i \in 1 .. Len(s2) : s2[i] = s[i + 1]
    <3>1. Chain(g, q, j) \in Seq(Slots)
      BY <2>4, ChainFacts
    <3> QED BY <1>2, <1>4, <2>1, <2>3, <3>1, ChainShapes, SMTT(30)
  <2>6. ChainOf(q, s2)'
    <3>1. op[t].pc # "link" /\ op'[t].pc # "link" /\ ChainOf(q, s)
      BY <1>2
    <3>2. Len(s2) = Len(s) - 1 /\ \A i \in 1 .. Len(s2) : s2[i] = s[i + 1]
      BY <2>5
    <3> QED BY <1>1, <3>1, <3>2, ChainPop
  <2>7. \A v \in Workers : op'[v].pc = "stub" /\ op'[v].q = q => j = 0
    BY <1>2, <2>3
  <2> QED BY <2>2, <2>4, <2>5, <2>6, <2>7, ChainedNext
<1> QED BY <1>3, <1>4, <1>5, <1>6, <1>7 DEF ChainInv

(* The stub is skipped. *)
LEMMA SkipKeepsChains ==
    ASSUME IInv, NEW t \in Workers, NEW q \in Combiners, th[t].pc = "pop", q = th[t].lock,
           tail[q] = q, next[q] # Null, op[t].pc = "idle",
           tail' = [tail EXCEPT ![q] = next[q]], head' = head, next' = next, fifo' = fifo,
           op'[t].pc = "reload", op'[t].q = q, \A u \in Workers : u # t => op'[u] = op[u]
    PROVE  ChainInv' /\ next[q] \in Closures
<1>1. QTypeOK /\ tail \in [Combiners -> Slots]
  BY DEF IInv, TypeOK, QTypeOK
<1>2. PICK f \in Seq(Closures), k \in Nat, s \in Seq(Slots) :
              /\ f = Queued(q) /\ k \in 0 .. Len(f) + 1 /\ s = Chain(f, q, k)
              /\ ChainOf(q, s) /\ Distinct(s)
              /\ \A v \in Workers : op[v].pc = "stub" /\ op[v].q = q => k = 0
              /\ \A i \in 1 .. Len(s) : s[i] = q \/ \E j \in DOMAIN fifo[q] : s[i] = fifo[q][j]
  BY ChainedNow
<1>3. tail[q] = s[1] /\ Len(s) >= 1 /\ head[q] = s[Len(s)] /\ next[head[q]] = Null
  BY <1>2 DEF ChainOf
<1>4. k = 1
  <2>1. Len(Chain(f, q, k)) >= 1 /\ Chain(f, q, k)[1] = q
    BY <1>2, <1>3
  <2> QED BY <1>2, <2>1, StubAt
<1>5. Queued(q)' = f
  BY <1>2 DEF Queued, PoppedFrom
<1>6. ASSUME NEW p \in Combiners, p # q
      PROVE  Chained(p)'
  <2>1. tail'[p] = tail[p]
    BY <1>1, <1>6
  <2> QED BY <1>6, <2>1, OtherQueue
<1>7. PICK s2 \in Seq(Slots) :
          /\ s2 = Chain(f, q, 0) /\ Len(s2) = Len(s) - 1
          /\ \A i \in 1 .. Len(s2) : s2[i] = s[i + 1]
  <2>1. 0 \in 0 .. Len(f) + 1
    BY <1>2
  <2>2. Chain(f, q, 0) \in Seq(Slots)
    BY <2>1, ChainFacts
  <2> QED BY <1>2, <1>4, <2>2, ChainShapes
<1>8. ChainOf(q, s2)'
  <2>1. op[t].pc # "link" /\ op'[t].pc # "link" /\ ChainOf(q, s) /\ next[tail[q]] # Null
        /\ tail' = [tail EXCEPT ![q] = next[tail[q]]]
    BY <1>2
  <2>2. Len(s2) = Len(s) - 1 /\ \A i \in 1 .. Len(s2) : s2[i] = s[i + 1]
    BY <1>7
  <2> QED BY <1>1, <2>1, <2>2, ChainPop
<1>9. next[q] \in Closures
  <2>1. Len(s) > 1 /\ next[s[1]] = s[2]
    <3>1. Len(s) \in Nat /\ s[1] = q
      BY <1>3
    <3>2. next[s[1]] # Null /\ Len(s) # 1
      BY <1>3, <3>1
    <3>3. ChainOf(q, s) /\ 1 \in 1 .. Len(s) - 1 /\ 1 + 1 = 2
      BY <1>2, <1>3, <3>1, <3>2
    <3>4. next[s[1]] = s[1 + 1] \/ next[s[1]] = Null
      BY <3>3 DEF ChainOf
    <3> QED BY <1>3, <3>1, <3>2, <3>3, <3>4
  <2>2. 1 \in 1 .. Len(f) /\ s[1 + 1] = f[1] /\ f[1] \in Closures
    <3>1. Len(s) = Len(f) + 1 /\ Len(f) \in Nat
      BY <1>2, <1>4, ChainFacts
    <3>2. 1 \in 1 .. Len(f)
      BY <2>1, <3>1
    <3> QED BY <1>2, <1>4, <3>2, ChainFacts
  <2> QED BY <1>3, <2>1, <2>2
<1>10. Chained(q)'
  <2>1. 0 \in 0 .. Len(f) + 1
    BY <1>2
  <2> QED BY <1>5, <1>7, <1>8, <2>1, ChainedNext
<1> QED BY <1>6, <1>9, <1>10 DEF ChainInv

(* The stub is pushed behind the closures. *)
LEMMA StubKeepsChains ==
    ASSUME IInv, NEW t \in Workers, NEW q \in Combiners, th[t].pc = "popping", q = th[t].lock,
           op[t].pc = "stub", op[t].q = q, tail' = tail, head' = [head EXCEPT ![q] = q],
           next' = [next EXCEPT ![q] = Null], fifo' = fifo,
           op'[t].pc = "link", op'[t].q = q, op'[t].n = q, op'[t].prev = head[q],
           \A u \in Workers : u # t => op'[u] = op[u]
    PROVE  ChainInv'
<1>1. QTypeOK /\ head \in [Combiners -> Slots] /\ next \in [Slots -> Slots \cup {Null}]
      /\ q \in Slots
  BY DEF IInv, TypeOK, QTypeOK, Slots
<1>2. PICK f \in Seq(Closures), k \in Nat, s \in Seq(Slots) :
              /\ f = Queued(q) /\ k \in 0 .. Len(f) + 1 /\ s = Chain(f, q, k)
              /\ ChainOf(q, s) /\ Distinct(s)
              /\ \A v \in Workers : op[v].pc = "stub" /\ op[v].q = q => k = 0
              /\ \A i \in 1 .. Len(s) : s[i] = q \/ \E j \in DOMAIN fifo[q] : s[i] = fifo[q][j]
  BY ChainedNow
<1>3. k = 0
  BY <1>2
<1>4. Queued(q)' = f
  BY <1>2 DEF Queued, PoppedFrom
<1>5. ASSUME NEW p \in Combiners, p # q
      PROVE  Chained(p)'
  <2>1. head'[p] = head[p] /\ \A n \in Slots : next'[n] = next[n] \/ n = q
    BY <1>1, <1>5
  <2> QED BY <1>5, <2>1, OtherQueue
<1>6. PICK j \in Nat : j = Len(f) + 1
  OBVIOUS
<1>7. PICK s2 \in Seq(Slots) :
          /\ s2 = Chain(f, q, j) /\ Len(s2) = Len(s) + 1 /\ s2[Len(s2)] = q
          /\ \A i \in 1 .. Len(s) : s2[i] = s[i]
  <2>1. j \in 0 .. Len(f) + 1
    BY <1>6
  <2>2. Chain(f, q, j) \in Seq(Slots)
    BY <2>1, ChainFacts
  <2> QED BY <1>2, <1>3, <1>6, <2>2, ChainShapes
<1>8. \A i \in 1 .. Len(s) : s[i] # q
  <2>1. Len(s) = Len(f) /\ \A i \in 1 .. Len(f) : s[i] = f[i] /\ f[i] \in Closures
    BY <1>2, <1>3, ChainFacts
  <2> QED BY <2>1, CombinerAssumption
<1>9. ChainOf(q, s2)'
  <2>1. op[t].pc # "link" /\ Distinct(s) /\ ChainOf(q, s)
    BY <1>2
  <2>2. Len(s2) = Len(s) + 1 /\ s2[Len(s2)] = q /\ \A i \in 1 .. Len(s) : s2[i] = s[i]
    BY <1>7
  <2> QED BY <1>1, <1>8, <2>1, <2>2, ChainPush
<1>10. \A v \in Workers : op'[v].pc = "stub" => op'[v].q # q
  <2>1. \A u \in Workers : u # t /\ op[u].pc = "stub" => op[u].q # q
    BY OnePopper
  <2> QED BY <2>1
<1>11. Chained(q)'
  <2>1. j \in 0 .. Len(f) + 1
    BY <1>6
  <2> QED BY <1>4, <1>7, <1>9, <1>10, <2>1, ChainedNext
<1> QED BY <1>5, <1>11 DEF ChainInv

(* Nothing but the program counter of pop. *)
LEMMA PopKeepsQueues ==
    ASSUME IInv, NEW t \in Workers, op[t].pc # "link", op'[t].pc # "link",
           UNCHANGED <<head, tail, next>>,
           \A u \in Workers : u # t => op'[u] = op[u],
           \A q \in Combiners : Queued(q)' = Queued(q),
           op'[t].pc = "stub" => tail[op'[t].q] = head[op'[t].q] /\ tail[op'[t].q] \in Closures
    PROVE  ChainInv'
<1> SUFFICES ASSUME NEW q \in Combiners PROVE Chained(q)'
  BY DEF ChainInv
<1>1. PICK f \in Seq(Closures), k \in Nat, s \in Seq(Slots) :
              /\ f = Queued(q) /\ k \in 0 .. Len(f) + 1 /\ s = Chain(f, q, k)
              /\ ChainOf(q, s) /\ Distinct(s)
              /\ \A v \in Workers : op[v].pc = "stub" /\ op[v].q = q => k = 0
              /\ \A i \in 1 .. Len(s) : s[i] = q \/ \E j \in DOMAIN fifo[q] : s[i] = fifo[q][j]
  BY ChainedNow
<1>2. ChainOf(q, s)'
  BY <1>1, ChainFrame
<1>3. ASSUME NEW v \in Workers, op'[v].pc = "stub", op'[v].q = q
      PROVE  k = 0
  <2>1. CASE v # t
    BY <1>1, <1>3, <2>1
  <2>2. CASE v = t
    <3>1. s[1] = s[Len(s)] /\ s[1] \in Closures /\ Len(s) \in Nat /\ Len(s) >= 1
      BY <1>1, <1>3, <2>2 DEF ChainOf
    <3>2. Len(s) = 1
      <4>1. Distinct(s) /\ 1 \in 1 .. Len(s) /\ Len(s) \in 1 .. Len(s)
        BY <1>1, <3>1
      <4> QED BY <3>1, <4>1 DEF Distinct
    <3>3. Len(Chain(f, q, k)) = IF k = 0 THEN Len(f) ELSE Len(f) + 1
      BY <1>1, ChainFacts
    <3>4. s[1] # q
      BY <3>1, CombinerAssumption
    <3>5. k # 1
      <4>1. Len(Chain(f, q, k)) >= 1 /\ Chain(f, q, k)[1] # q
        BY <1>1, <3>1, <3>4
      <4> QED BY <1>1, <4>1, StubAt
    <3> QED BY <1>1, <3>2, <3>3, <3>5
  <2> QED BY <2>1, <2>2
<1>4. Queued(q)' = f
  BY <1>1
<1> QED BY <1>1, <1>2, <1>3, <1>4, ChainedNext

-----------------------------------------------------------------------------
(* What a step leaves alone *)

(* Thread t alone moves, to pc, with the arguments, the turn and the closure given. *)
Goes(t, pc, target, c, back, lock, cur) ==
    /\ th' \in [Workers -> ThreadType]
    /\ th'[t].pc = pc /\ th'[t].target = target /\ th'[t].c = c /\ th'[t].back = back
    /\ th'[t].lock = lock /\ th'[t].cur = cur
    /\ \A u \in Workers : u # t => th'[u] = th[u]

(* A step that sets the record of one thread. *)
LEMMA Update ==
    ASSUME th \in [Workers -> ThreadType], NEW t \in Workers, NEW r \in ThreadType,
           th' = [th EXCEPT ![t] = r]
    PROVE  Goes(t, r.pc, r.target, r.c, r.back, r.lock, r.cur)
  BY DEF Goes

(* The record of a thread without a call and without a turn. *)
LEMMA RestFacts ==
    ASSUME NEW pc \in Pcs
    PROVE  /\ Rest(pc) \in ThreadType /\ Rest(pc).pc = pc /\ Rest(pc).target = Null
           /\ Rest(pc).c = Null /\ Rest(pc).back = Null /\ Rest(pc).lock = Null
           /\ Rest(pc).cur = Null
<1>1. <<>> \in Seq(Closures)
  OBVIOUS
<1> QED BY <1>1 DEF Rest, ThreadType

(* A step that touches no queue. *)
LEMMA QueueFrame ==
    ASSUME OpInv, ChainInv, UNCHANGED <<queue, fifo>>,
           \A u \in Workers : \/ th'[u] = th[u]
                              \/ /\ th[u].pc \notin {"link", "popping"}
                                 /\ th'[u].pc \notin {"link", "popping"}
    PROVE  OpInv' /\ ChainInv'
<1>1. OpInv'
  BY DEF OpInv, queue
<1>2. ChainInv'
  <2>1. head' = head /\ tail' = tail /\ next' = next /\ op' = op /\ fifo' = fifo
    BY DEF queue
  <2>2. \A q \in Combiners : Queued(q)' = Queued(q)
    BY <2>1 DEF Queued, PoppedFrom
  <2>3. \A q \in Combiners : \A s : ChainOf(q, s)' <=> ChainOf(q, s)
    BY <2>1 DEF ChainOf, Linking
  <2> QED BY <2>1, <2>2, <2>3 DEF ChainInv, Chained
<1> QED BY <1>1, <1>2

(* A step that pushes and pops nothing. *)
LEMMA ClosureFrame ==
    ASSUME ClosureInv, TypeOK, UNCHANGED fifo,
           \A c \in Closures : status[c] # "new" => status'[c] # "new",
           \A u \in Workers : th'[u].pc \in AddPcs => th[u].pc \in AddPcs /\ th'[u].c = th[u].c,
           PcInv
    PROVE  ClosureInv'
<1>1. \A q \in Combiners : \A i \in DOMAIN fifo[q] : fifo[q][i] \in Closures
  BY DEF TypeOK
<1>2. \A u \in Workers : th[u].pc \in AddPcs => th[u].c \in Closures
  BY DEF PcInv, TypeOK, ThreadType, AddPcs
<1> QED BY <1>1, <1>2 DEF ClosureInv

(* A step that counts nothing. *)
LEMMA CountFrame ==
    ASSUME CountInv, UNCHANGED <<fifo, finalList>>,
           \A l \in Combiners : state'[l] \div 2 = state[l] \div 2,
           \A u \in Workers :
              \/ th'[u] = th[u]
              \/ /\ th[u].pc \in AddPcs <=> th'[u].pc \in AddPcs
                 /\ th[u].pc \in AddPcs => th'[u].target = th[u].target
                 /\ \A l \in Combiners :
                      (th[u].lock = l /\ th[u].pc \notin {"peek", "pop", "popping", "repush"})
                      <=> (th'[u].lock = l /\ th'[u].pc \notin {"peek", "pop", "popping", "repush"})
    PROVE  CountInv'
<1>1. \A l \in Combiners : Adding(l)' = Adding(l)
  BY DEF Adding
<1>2. \A l \in Combiners : Running(l)' <=> Running(l)
  BY DEF Running
<1> QED BY <1>1, <1>2 DEF CountInv

(* A step that takes no final list. *)
LEMMA FinalFrame ==
    ASSUME FinalInv, UNCHANGED timeFinal,
           \A l \in Combiners : finalList[l] # <<>> => finalList'[l] # <<>>,
           \A l \in Combiners : state[l] >= 2 => state'[l] >= 2,
           \A u \in Workers :
              \/ th'[u] = th[u]
              \/ /\ th'[u].pc # "peek"
                 /\ \A l \in Combiners :
                      (th[u].lock = l /\ th[u].pc \notin {"peek", "pop", "popping", "repush"})
                      => (th'[u].lock = l /\ th'[u].pc \notin {"peek", "pop", "popping", "repush"})
    PROVE  FinalInv'
<1>1. \A l \in Combiners : Running(l) => Running(l)'
  BY DEF Running
<1> QED BY <1>1 DEF FinalInv

(* A step that frees nothing. *)
LEMMA FreedFrame ==
    ASSUME FreedInv, TypeOK, UNCHANGED <<freed, failed>>,
           \A l \in Combiners : state[l] = 0 => state'[l] = 0
    PROVE  FreedInv'
  BY DEF FreedInv, TypeOK

(* A step that takes no reference away. *)
LEMMA RefFrame ==
    ASSUME RefInv, TypeOK, PcInv, \A l \in Combiners : refs'[l] = {} <=> refs[l] = {},
           \A l \in Combiners : state'[l] % 2 = state[l] % 2,
           \A u \in Workers :
              th'[u].pc = "orphan" => th[u].pc = "orphan" /\ th'[u].target = th[u].target
    PROVE  RefInv'
<1>1. \A u \in Workers : th[u].pc = "orphan" => th[u].target \in Combiners
  BY DEF PcInv, TypeOK, ThreadType, CallPcs
<1> QED BY <1>1 DEF RefInv

-----------------------------------------------------------------------------
(* The steps *)

(* combiner_exec looks at who initiated the combiner. *)
LEMMA CheckInitiatorStep ==
    ASSUME IInv, NEW t \in Workers, CheckInitiator(t)
    PROVE  IInv'
<1>u. /\ th[t].pc = "check"
      /\ UNCHANGED <<queue, lockVars, ctxVars, finished, offloads, objVars, cb, ghost, failed>>
  BY DEF CheckInitiator
<1>p. PICK pc \in {"push", "contend"} :
        pc = IF initiating[th[t].target] \in {Null, t} THEN "push" ELSE "contend"
  OBVIOUS
<1>g. Goes(t, pc, th[t].target, th[t].c, th[t].back, th[t].lock, th[t].cur)
  <2> DEFINE r == [th[t] EXCEPT !.pc = pc]
  <2>1. /\ r \in ThreadType
        /\ r.pc = pc /\ r.target = th[t].target /\ r.c = th[t].c
             /\ r.back = th[t].back /\ r.lock = th[t].lock /\ r.cur = th[t].cur
    BY <1>u DEF IInv, TypeOK, ThreadType, Pcs
  <2>2. th' = [th EXCEPT ![t] = r] /\ th \in [Workers -> ThreadType]
    BY <1>p DEF IInv, TypeOK, CheckInitiator
  <2> HIDE DEF r
  <2>3. Goes(t, r.pc, r.target, r.c, r.back, r.lock, r.cur)
    BY <2>1, <2>2, Update
  <2> QED BY <2>1, <2>3
<1>1. TypeOK'
  BY <1>g, <1>u DEF IInv, TypeOK, QTypeOK, Goes, queue, ctxVars, lockVars, objVars, ghost
<1>2. PcInv'
  BY <1>g, <1>u, CombinerAssumption
     DEF IInv, PcInv, Goes, CallPcs, TurnPcs, queue, ctxVars, lockVars, objVars, ghost
<1>3. RefInv'
  BY <1>g, <1>u, RefFrame DEF IInv, Goes, queue, ctxVars, lockVars, objVars, ghost
<1>4. TurnsInv'
  BY <1>g, <1>u, TurnFrame DEF IInv, TypeOK, Goes, queue, ctxVars, lockVars, objVars, ghost
<1>5. OpInv' /\ ChainInv'
  BY <1>g, <1>u, QueueFrame DEF IInv, Goes, queue, ctxVars, lockVars, objVars, ghost
<1>6. ClosureInv'
  BY <1>g, <1>u, ClosureFrame DEF IInv, Goes, AddPcs, queue, ctxVars, lockVars, objVars, ghost
<1>7. CountInv'
  BY <1>g, <1>u, CountFrame DEF IInv, Goes, AddPcs, queue, ctxVars, lockVars, objVars, ghost
<1>8. FinalInv'
  BY <1>g, <1>u, FinalFrame DEF IInv, Goes, queue, ctxVars, lockVars, objVars, ghost
<1>9. FreedInv'
  BY <1>g, <1>u, FreedFrame DEF IInv, Goes, queue, ctxVars, lockVars, objVars, ghost
<1> QED BY <1>1, <1>2, <1>3, <1>4, <1>5, <1>6, <1>7, <1>8, <1>9 DEF IInv

(* It notes that threads contend. *)
LEMMA ContendStep ==
    ASSUME IInv, NEW t \in Workers, Contend(t)
    PROVE  IInv'
<1>u. /\ th[t].pc = "contend" /\ initiating' = [initiating EXCEPT ![th[t].target] = Null]
      /\ UNCHANGED <<queue, state, timeFinal, finalList, ctxVars, finished, offloads, objVars,
                     cb, ghost, failed>>
  BY DEF Contend
<1>g. Goes(t, "push", th[t].target, th[t].c, th[t].back, th[t].lock, th[t].cur)
  <2> DEFINE r == [th[t] EXCEPT !.pc = "push"]
  <2>1. /\ r \in ThreadType
        /\ r.pc = "push" /\ r.target = th[t].target /\ r.c = th[t].c
             /\ r.back = th[t].back /\ r.lock = th[t].lock /\ r.cur = th[t].cur
    BY <1>u DEF IInv, TypeOK, ThreadType, Pcs
  <2>2. th' = [th EXCEPT ![t] = r] /\ th \in [Workers -> ThreadType]
    BY DEF IInv, TypeOK, Contend
  <2> HIDE DEF r
  <2>3. Goes(t, r.pc, r.target, r.c, r.back, r.lock, r.cur)
    BY <2>1, <2>2, Update
  <2> QED BY <2>1, <2>3
<1>1. TypeOK'
  BY <1>g, <1>u DEF IInv, TypeOK, QTypeOK, Goes, queue, ctxVars, lockVars, objVars, ghost
<1>2. PcInv'
  BY <1>g, <1>u, CombinerAssumption
     DEF IInv, PcInv, Goes, CallPcs, TurnPcs, queue, ctxVars, lockVars, objVars, ghost
<1>3. RefInv'
  BY <1>g, <1>u, RefFrame DEF IInv, Goes, queue, ctxVars, lockVars, objVars, ghost
<1>4. TurnsInv'
  BY <1>g, <1>u, TurnFrame DEF IInv, TypeOK, Goes, queue, ctxVars, lockVars, objVars, ghost
<1>5. OpInv' /\ ChainInv'
  BY <1>g, <1>u, QueueFrame DEF IInv, Goes, queue, ctxVars, lockVars, objVars, ghost
<1>6. ClosureInv'
  BY <1>g, <1>u, ClosureFrame DEF IInv, Goes, AddPcs, queue, ctxVars, lockVars, objVars, ghost
<1>7. CountInv'
  BY <1>g, <1>u, CountFrame DEF IInv, Goes, AddPcs, queue, ctxVars, lockVars, objVars, ghost
<1>8. FinalInv'
  BY <1>g, <1>u, FinalFrame DEF IInv, Goes, queue, ctxVars, lockVars, objVars, ghost
<1>9. FreedInv'
  BY <1>g, <1>u, FreedFrame DEF IInv, Goes, queue, ctxVars, lockVars, objVars, ghost
<1> QED BY <1>1, <1>2, <1>3, <1>4, <1>5, <1>6, <1>7, <1>8, <1>9 DEF IInv

(* The application flushes its exec_ctx. *)
LEMMA FlushStep ==
    ASSUME IInv, NEW t \in Workers, Flush(t)
    PROVE  IInv'
<1>u. /\ th[t].pc = "api" /\ \E f \in {finished[t], TRUE} : finished' = [finished EXCEPT ![t] = f]
      /\ UNCHANGED <<queue, lockVars, ctxVars, offloads, objVars, cb, ghost, failed>>
  BY DEF Flush
<1>g. Goes(t, "flush", th[t].target, th[t].c, th[t].back, th[t].lock, th[t].cur)
  <2> DEFINE r == [th[t] EXCEPT !.pc = "flush"]
  <2>1. /\ r \in ThreadType
        /\ r.pc = "flush" /\ r.target = th[t].target /\ r.c = th[t].c
             /\ r.back = th[t].back /\ r.lock = th[t].lock /\ r.cur = th[t].cur
    BY <1>u, ZenonT(30) DEF IInv, TypeOK, ThreadType, Pcs
  <2>2. th' = [th EXCEPT ![t] = r] /\ th \in [Workers -> ThreadType]
    BY DEF IInv, TypeOK, Flush
  <2> HIDE DEF r
  <2>3. Goes(t, r.pc, r.target, r.c, r.back, r.lock, r.cur)
    BY <2>1, <2>2, Update
  <2> QED BY <2>1, <2>3
<1>1. TypeOK'
  BY <1>g, <1>u, ZenonT(30)
     DEF IInv, TypeOK, QTypeOK, Goes, queue, ctxVars, lockVars, objVars, ghost
<1>2. PcInv'
  BY <1>g, <1>u, CombinerAssumption
     DEF IInv, PcInv, Goes, CallPcs, TurnPcs, queue, ctxVars, lockVars, objVars, ghost
<1>3. RefInv'
  BY <1>g, <1>u, RefFrame DEF IInv, Goes, queue, ctxVars, lockVars, objVars, ghost
<1>4. TurnsInv'
  BY <1>g, <1>u, TurnFrame DEF IInv, TypeOK, Goes, queue, ctxVars, lockVars, objVars, ghost
<1>5. OpInv' /\ ChainInv'
  BY <1>g, <1>u, QueueFrame DEF IInv, Goes, queue, ctxVars, lockVars, objVars, ghost
<1>6. ClosureInv'
  BY <1>g, <1>u, ClosureFrame DEF IInv, Goes, AddPcs, queue, ctxVars, lockVars, objVars, ghost
<1>7. CountInv'
  BY <1>g, <1>u, CountFrame DEF IInv, Goes, AddPcs, queue, ctxVars, lockVars, objVars, ghost
<1>8. FinalInv'
  BY <1>g, <1>u, FinalFrame DEF IInv, Goes, queue, ctxVars, lockVars, objVars, ghost
<1>9. FreedInv'
  BY <1>g, <1>u, FreedFrame DEF IInv, Goes, queue, ctxVars, lockVars, objVars, ghost
<1> QED BY <1>1, <1>2, <1>3, <1>4, <1>5, <1>6, <1>7, <1>8, <1>9 DEF IInv

(* A closure returns. *)
LEMMA ReturnStep ==
    ASSUME IInv, NEW t \in Workers, Return(t)
    PROVE  IInv'
<1>u. /\ th[t].pc = "cb" /\ status' = [status EXCEPT ![th[t].cur] = "ran"]
      /\ UNCHANGED <<queue, lockVars, ctxVars, finished, offloads, objVars, cb, fifo, failed>>
  BY DEF Return
<1>p. PICK pc \in {"finals", "done"} : pc = IF th[t].inFinals THEN "finals" ELSE "done"
  OBVIOUS
<1>g. Goes(t, pc, th[t].target, th[t].c, th[t].back, th[t].lock, Null)
  <2> DEFINE r == [th[t] EXCEPT !.pc = pc, !.cur = Null]
  <2>1. /\ r \in ThreadType
        /\ r.pc = pc /\ r.target = th[t].target /\ r.c = th[t].c
             /\ r.back = th[t].back /\ r.lock = th[t].lock /\ r.cur = Null
    BY <1>u DEF IInv, TypeOK, ThreadType, Pcs
  <2>2. th' = [th EXCEPT ![t] = r] /\ th \in [Workers -> ThreadType]
    BY <1>p DEF IInv, TypeOK, Return
  <2> HIDE DEF r
  <2>3. Goes(t, r.pc, r.target, r.c, r.back, r.lock, r.cur)
    BY <2>1, <2>2, Update
  <2> QED BY <2>1, <2>3
<1>1. TypeOK'
  BY <1>g, <1>u DEF IInv, TypeOK, QTypeOK, Goes, queue, ctxVars, lockVars, objVars, ghost
<1>2. PcInv'
  BY <1>g, <1>u, CombinerAssumption
     DEF IInv, PcInv, Goes, CallPcs, TurnPcs, queue, ctxVars, lockVars, objVars, ghost
<1>3. RefInv'
  BY <1>g, <1>u, RefFrame DEF IInv, Goes, queue, ctxVars, lockVars, objVars, ghost
<1>4. TurnsInv'
  BY <1>g, <1>u, TurnFrame DEF IInv, TypeOK, Goes, queue, ctxVars, lockVars, objVars, ghost
<1>5. OpInv' /\ ChainInv'
  BY <1>g, <1>u, QueueFrame DEF IInv, Goes, queue, ctxVars, lockVars, objVars, ghost
<1>6. ClosureInv'
  BY <1>g, <1>u, ClosureFrame DEF IInv, Goes, AddPcs, queue, ctxVars, lockVars, objVars, ghost
<1>7. CountInv'
  BY <1>g, <1>u, CountFrame DEF IInv, Goes, AddPcs, queue, ctxVars, lockVars, objVars, ghost
<1>8. FinalInv'
  BY <1>g, <1>u, FinalFrame DEF IInv, Goes, queue, ctxVars, lockVars, objVars, ghost
<1>9. FreedInv'
  BY <1>g, <1>u, FreedFrame DEF IInv, Goes, queue, ctxVars, lockVars, objVars, ghost
<1> QED BY <1>1, <1>2, <1>3, <1>4, <1>5, <1>6, <1>7, <1>8, <1>9 DEF IInv

(* The next closure of the final list. *)
LEMMA NextFinalStep ==
    ASSUME IInv, NEW t \in Workers, NextFinal(t)
    PROVE  IInv'
<1>u. /\ th[t].pc = "finals"
      /\ UNCHANGED <<queue, lockVars, ctxVars, finished, offloads, objVars, cb, ghost, failed>>
  BY DEF NextFinal
<1>g. PICK pc \in {"done", "cb"}, cur \in Closures \cup {Null} :
        /\ Goes(t, pc, th[t].target, th[t].c, th[t].back, th[t].lock, cur)
        /\ pc = "done" => cur = th[t].cur
        /\ pc = "cb" => cur # Null
  <2>0. th[t] \in ThreadType /\ th \in [Workers -> ThreadType] /\ Null \notin Closures
    BY CombinerAssumption DEF IInv, TypeOK
  <2>1. CASE th[t].finals = <<>>
    <3> DEFINE r == [th[t] EXCEPT !.pc = "done", !.inFinals = FALSE]
    <3>1. /\ r \in ThreadType
          /\ r.pc = "done" /\ r.target = th[t].target /\ r.c = th[t].c
          /\ r.back = th[t].back /\ r.lock = th[t].lock /\ r.cur = th[t].cur
      BY <2>0 DEF ThreadType, Pcs
    <3>2. th' = [th EXCEPT ![t] = r]
      BY <2>1 DEF NextFinal
    <3> HIDE DEF r
    <3>3. Goes(t, r.pc, r.target, r.c, r.back, r.lock, r.cur)
      BY <2>0, <3>1, <3>2, Update
    <3>4. th[t].cur \in Closures \cup {Null}
      BY <2>0 DEF ThreadType
    <3> QED BY <3>1, <3>3, <3>4
  <2>2. CASE th[t].finals # <<>>
    <3> DEFINE r == [th[t] EXCEPT !.pc = "cb", !.cur = Head(th[t].finals),
                                  !.finals = Tail(th[t].finals), !.inFinals = TRUE]
    <3>0. Head(th[t].finals) \in Closures /\ Tail(th[t].finals) \in Seq(Closures)
      BY <2>0, <2>2 DEF ThreadType
    <3>1. /\ r \in ThreadType
          /\ r.pc = "cb" /\ r.target = th[t].target /\ r.c = th[t].c
          /\ r.back = th[t].back /\ r.lock = th[t].lock /\ r.cur = Head(th[t].finals)
      BY <2>0, <3>0 DEF ThreadType, Pcs
    <3>2. th' = [th EXCEPT ![t] = r]
      BY <2>2 DEF NextFinal
    <3> HIDE DEF r
    <3>3. Goes(t, r.pc, r.target, r.c, r.back, r.lock, r.cur)
      BY <2>0, <3>1, <3>2, Update
    <3> QED BY <2>0, <3>0, <3>1, <3>3
  <2> QED BY <2>1, <2>2
<1>1. TypeOK'
  BY <1>g, <1>u DEF IInv, TypeOK, QTypeOK, Goes, queue, ctxVars, lockVars, objVars, ghost
<1>2. PcInv'
  BY <1>g, <1>u, CombinerAssumption
     DEF IInv, PcInv, Goes, CallPcs, TurnPcs, queue, ctxVars, lockVars, objVars, ghost
<1>3. RefInv'
  BY <1>g, <1>u, RefFrame DEF IInv, Goes, queue, ctxVars, lockVars, objVars, ghost
<1>4. TurnsInv'
  BY <1>g, <1>u, TurnFrame DEF IInv, TypeOK, Goes, queue, ctxVars, lockVars, objVars, ghost
<1>5. OpInv' /\ ChainInv'
  BY <1>g, <1>u, QueueFrame DEF IInv, Goes, queue, ctxVars, lockVars, objVars, ghost
<1>6. ClosureInv'
  BY <1>g, <1>u, ClosureFrame DEF IInv, Goes, AddPcs, queue, ctxVars, lockVars, objVars, ghost
<1>7. CountInv'
  BY <1>g, <1>u, CountFrame DEF IInv, Goes, AddPcs, queue, ctxVars, lockVars, objVars, ghost
<1>8. FinalInv'
  BY <1>g, <1>u, FinalFrame DEF IInv, Goes, queue, ctxVars, lockVars, objVars, ghost
<1>9. FreedInv'
  BY <1>g, <1>u, FreedFrame DEF IInv, Goes, queue, ctxVars, lockVars, objVars, ghost
<1> QED BY <1>1, <1>2, <1>3, <1>4, <1>5, <1>6, <1>7, <1>8, <1>9 DEF IInv

(* combiner_finally_exec inside the combiner counts the final list once. *)
LEMMA FinallyFacts ==
    ASSUME state \in [Combiners -> Nat], finalList \in [Combiners -> Seq(Closures)],
           NEW l \in Combiners, NEW c \in Closures, FinallyAppend(l, c)
    PROVE  /\ state' \in [Combiners -> Nat] /\ finalList' \in [Combiners -> Seq(Closures)]
           /\ \A k \in Combiners : k # l => state'[k] = state[k] /\ finalList'[k] = finalList[k]
           /\ finalList'[l] # <<>>
           /\ state'[l] = IF finalList[l] = <<>> THEN state[l] + 2 ELSE state[l]
           /\ \A k \in Combiners : state'[k] >= state[k] /\ state'[k] % 2 = state[k] % 2
<1>1. Append(finalList[l], c) \in Seq(Closures) /\ Append(finalList[l], c) # <<>>
  <2>1. finalList[l] \in Seq(Closures)
    OBVIOUS
  <2> QED BY <2>1
<1>2. finalList' \in [Combiners -> Seq(Closures)] /\ finalList'[l] # <<>>
      /\ \A k \in Combiners : k # l => finalList'[k] = finalList[k]
  BY <1>1 DEF FinallyAppend
<1>3. /\ state' \in [Combiners -> Nat]
      /\ \A k \in Combiners : k # l => state'[k] = state[k]
      /\ state'[l] = IF finalList[l] = <<>> THEN state[l] + 2 ELSE state[l]
  BY DEF FinallyAppend
<1>4. \A k \in Combiners : state'[k] >= state[k] /\ state'[k] % 2 = state[k] % 2
  <2>1. state[l] \in Nat /\ (state[l] + 2) % 2 = state[l] % 2
    BY Halves
  <2> SUFFICES ASSUME NEW k \in Combiners
               PROVE  state'[k] >= state[k] /\ state'[k] % 2 = state[k] % 2
    OBVIOUS
  <2>2. CASE k = l
    BY <1>3, <2>1, <2>2
  <2>3. CASE k # l
    BY <1>3, <2>3
  <2> QED BY <2>2, <2>3
<1> QED BY <1>2, <1>3, <1>4

(* It keeps the count right. *)
LEMMA FinallyCounts ==
    ASSUME CountInv, NEW l \in Combiners, state \in [Combiners -> Nat],
           UNCHANGED fifo, IsFiniteSet(Workers), fifo \in [Combiners -> Seq(Closures)],
           \A k \in Combiners : Adding(k)' = Adding(k) /\ (Running(k)' <=> Running(k)),
           \A k \in Combiners : k # l => state'[k] = state[k] /\ finalList'[k] = finalList[k],
           finalList'[l] # <<>>,
           state'[l] = IF finalList[l] = <<>> THEN state[l] + 2 ELSE state[l]
    PROVE  CountInv'
<1>1. \A k \in Combiners : Cardinality(Adding(k)) \in Nat /\ Len(fifo[k]) \in Nat
  <2>1. \A k \in Combiners : IsFiniteSet(Adding(k))
    <3> SUFFICES ASSUME NEW k \in Combiners PROVE IsFiniteSet(Adding(k))
      OBVIOUS
    <3>1. Adding(k) \subseteq Workers
      BY DEF Adding
    <3> QED BY <3>1, FS_Subset
  <2> QED BY <2>1, FS_CardinalityType
<1>2. state'[l] \div 2 = IF finalList[l] = <<>> THEN state[l] \div 2 + 1 ELSE state[l] \div 2
  BY Halves
<1> SUFFICES ASSUME NEW k \in Combiners
             PROVE  state'[k] \div 2 = Cardinality(Adding(k)') + Len(fifo'[k])
                                       + (IF Running(k)' THEN 1 ELSE 0)
                                       + (IF finalList'[k] = <<>> THEN 0 ELSE 1)
  BY DEF CountInv
<1>3. CASE k = l
  BY <1>1, <1>2, <1>3 DEF CountInv
<1>4. CASE k # l
  BY <1>1, <1>4 DEF CountInv
<1> QED BY <1>3, <1>4

(* enqueue_finally appends to the final list. *)
LEMMA EnqueueFinallyStep ==
    ASSUME IInv, NEW t \in Workers, EnqueueFinally(t)
    PROVE  IInv'
<1>u. /\ th[t].pc = "cb" /\ FinallyAppend(th[t].lock, th[t].cur)
      /\ cb' = [cb EXCEPT ![th[t].cur] = "run"]
      /\ UNCHANGED <<queue, initiating, timeFinal, ctxVars, finished, offloads, objVars, ghost,
                     failed>>
  BY DEF EnqueueFinally
<1>g. Goes(t, "done", th[t].target, th[t].c, th[t].back, th[t].lock, Null)
  <2> DEFINE r == [th[t] EXCEPT !.pc = "done", !.cur = Null]
  <2>1. /\ r \in ThreadType
        /\ r.pc = "done" /\ r.target = th[t].target /\ r.c = th[t].c
             /\ r.back = th[t].back /\ r.lock = th[t].lock /\ r.cur = Null
    BY <1>u DEF IInv, TypeOK, ThreadType, Pcs
  <2>2. th' = [th EXCEPT ![t] = r] /\ th \in [Workers -> ThreadType]
    BY DEF IInv, TypeOK, EnqueueFinally
  <2> HIDE DEF r
  <2>3. Goes(t, r.pc, r.target, r.c, r.back, r.lock, r.cur)
    BY <2>1, <2>2, Update
  <2> QED BY <2>1, <2>3
<1>l. PICK l \in Combiners, c \in Closures : l = th[t].lock /\ c = th[t].cur /\ FinallyAppend(l, c)
  <2>1. th[t].lock \in Combiners \cup {Null} /\ th[t].cur \in Closures \cup {Null}
    BY DEF IInv, TypeOK, ThreadType
  <2>2. th[t].lock # Null /\ th[t].cur # Null
    BY <1>u DEF IInv, PcInv, TurnPcs
  <2> QED BY <1>u, <2>1, <2>2
<1>f. /\ state' \in [Combiners -> Nat] /\ finalList' \in [Combiners -> Seq(Closures)]
      /\ \A k \in Combiners : k # l => state'[k] = state[k] /\ finalList'[k] = finalList[k]
      /\ finalList'[l] # <<>> /\ state'[l] = IF finalList[l] = <<>> THEN state[l] + 2 ELSE state[l]
      /\ \A k \in Combiners : state'[k] >= state[k] /\ state'[k] % 2 = state[k] % 2
  BY <1>l, FinallyFacts DEF IInv, TypeOK
<1>s. state[l] >= 2
  BY <1>l, CombinerAssumption, TurnOf DEF IInv, TurnsInv
<1>1. TypeOK'
  <2>1. cb' \in [Closures -> {"run", "enqueue_finally"}]
    BY <1>u DEF IInv, TypeOK
  <2> QED BY <1>g, <1>u, <1>f, <2>1
             DEF IInv, TypeOK, QTypeOK, Goes, queue, ctxVars, lockVars, objVars, ghost
<1>2. PcInv'
  BY <1>g, <1>u, CombinerAssumption
     DEF IInv, PcInv, Goes, CallPcs, TurnPcs, queue, ctxVars, lockVars, objVars, ghost
<1>3. RefInv'
  BY <1>g, <1>u, <1>f, RefFrame DEF IInv, Goes, queue, ctxVars, lockVars, objVars, ghost
<1>4. TurnsInv'
  <2>1. \A k \in Combiners : state[k] >= 2 => state'[k] >= 2
    BY <1>f DEF IInv, TypeOK
  <2> QED BY <1>g, <1>u, <2>1, TurnFrame
             DEF IInv, TypeOK, Goes, queue, ctxVars, lockVars, objVars, ghost
<1>5. OpInv' /\ ChainInv'
  BY <1>g, <1>u, QueueFrame DEF IInv, Goes, queue, ctxVars, lockVars, objVars, ghost
<1>6. ClosureInv'
  BY <1>g, <1>u, ClosureFrame DEF IInv, Goes, AddPcs, queue, ctxVars, lockVars, objVars, ghost
<1>7. CountInv'
  <2>1. \A k \in Combiners : Adding(k)' = Adding(k)
    BY <1>g, <1>u DEF Adding, Goes, AddPcs
  <2>2. \A k \in Combiners : Running(k)' <=> Running(k)
    BY <1>g, <1>u DEF Running, Goes
  <2>3. IsFiniteSet(Workers) /\ fifo' = fifo
    BY <1>u, CombinerAssumption DEF Workers, ghost
  <2> QED BY <1>f, <2>1, <2>2, <2>3, FinallyCounts DEF IInv, TypeOK
<1>8. FinalInv'
  <2>1. \A k \in Combiners : finalList[k] # <<>> => finalList'[k] # <<>>
    BY <1>f
  <2>2. \A k \in Combiners : state[k] >= 2 => state'[k] >= 2
    BY <1>f DEF IInv, TypeOK
  <2> QED BY <1>g, <1>u, <2>1, <2>2, FinalFrame
             DEF IInv, Goes, queue, ctxVars, lockVars, objVars, ghost
<1>9. FreedInv'
  <2>1. \A k \in Combiners : state[k] = 0 => state'[k] = 0
    BY <1>f, <1>s
  <2> QED BY <1>g, <1>u, <2>1, FreedFrame
             DEF IInv, Goes, queue, ctxVars, lockVars, objVars, ghost
<1> QED BY <1>1, <1>2, <1>3, <1>4, <1>5, <1>6, <1>7, <1>8, <1>9 DEF IInv

(* The last item is the final list: take it. *)
LEMMA PeekStep ==
    ASSUME IInv, NEW t \in Workers, Peek(t)
    PROVE  IInv'
<1>u. /\ th[t].pc = "peek"
      /\ UNCHANGED <<queue, state, initiating, timeFinal, ctxVars, finished, offloads, objVars,
                     cb, ghost>>
  BY DEF Peek
<1>l. PICK l \in Combiners : l = th[t].lock
  BY <1>u DEF IInv, TypeOK, ThreadType, PcInv, TurnPcs
<1>g. PICK pc \in {"pop", "finals"} :
        /\ Goes(t, pc, th[t].target, th[t].c, th[t].back, th[t].lock, th[t].cur)
        /\ pc = "pop" => UNCHANGED <<finalList, failed>>
        /\ pc = "finals" => /\ state[l] \div 2 <= 1 /\ finalList' = [finalList EXCEPT ![l] = <<>>]
                            /\ failed' = (failed \/ finalList[l] = <<>>)
  <2>0. th[t] \in ThreadType /\ th \in [Workers -> ThreadType] /\ finalList[l] \in Seq(Closures)
    BY DEF IInv, TypeOK
  <2>1. CASE state[l] \div 2 > 1
    <3> DEFINE r == [th[t] EXCEPT !.pc = "pop"]
    <3>1. /\ r \in ThreadType
          /\ r.pc = "pop" /\ r.target = th[t].target /\ r.c = th[t].c
          /\ r.back = th[t].back /\ r.lock = th[t].lock /\ r.cur = th[t].cur
      BY <2>0 DEF ThreadType, Pcs
    <3>2. th' = [th EXCEPT ![t] = r] /\ UNCHANGED <<finalList, failed>>
      <4>1. state[l] \div 2 \in Nat
        BY Halves DEF IInv, TypeOK
      <4> QED BY <1>l, <2>1, <4>1 DEF Peek
    <3> HIDE DEF r
    <3>3. Goes(t, r.pc, r.target, r.c, r.back, r.lock, r.cur)
      BY <2>0, <3>1, <3>2, Update
    <3> QED BY <3>1, <3>2, <3>3
  <2>2. CASE ~(state[l] \div 2 > 1)
    <3> DEFINE r == [th[t] EXCEPT !.pc = "finals", !.finals = finalList[l]]
    <3>1. /\ r \in ThreadType
          /\ r.pc = "finals" /\ r.target = th[t].target /\ r.c = th[t].c
          /\ r.back = th[t].back /\ r.lock = th[t].lock /\ r.cur = th[t].cur
      BY <2>0 DEF ThreadType, Pcs
    <3>2. th' = [th EXCEPT ![t] = r] /\ finalList' = [finalList EXCEPT ![l] = <<>>]
          /\ failed' = (failed \/ finalList[l] = <<>>) /\ state[l] \div 2 <= 1
      BY <1>l, <2>2 DEF Peek
    <3> HIDE DEF r
    <3>3. Goes(t, r.pc, r.target, r.c, r.back, r.lock, r.cur)
      BY <2>0, <3>1, <3>2, Update
    <3> QED BY <3>1, <3>2, <3>3
  <2> QED BY <2>1, <2>2
<1>n. /\ ~Running(l) /\ finalList[l] # <<>> /\ (pc = "finals" => Running(l)')
      /\ \A k \in Combiners : k # l => (Running(k)' <=> Running(k))
  <2>1. ~Running(l)
    <3>1. OneThreadInside
      BY Alone DEF IInv
    <3> QED BY <1>u, <1>l, <3>1 DEF Running, OneThreadInside
  <2>2. finalList[l] # <<>>
    BY <1>u, <1>l, <2>1 DEF IInv, FinalInv
  <2>3. pc = "finals" => Running(l)'
    BY <1>g, <1>l DEF Running, Goes
  <2>4. \A k \in Combiners : k # l => (Running(k)' <=> Running(k))
    BY <1>g, <1>l DEF Running, Goes
  <2> QED BY <2>1, <2>2, <2>3, <2>4
<1>1. TypeOK'
  <2>1. finalList' \in [Combiners -> Seq(Closures)]
    <3>1. <<>> \in Seq(Closures)
      OBVIOUS
    <3> QED BY <1>g, <3>1 DEF IInv, TypeOK
  <2>2. failed' \in BOOLEAN
    BY <1>g DEF IInv, TypeOK
  <2> QED BY <1>g, <1>u, <2>1, <2>2
             DEF IInv, TypeOK, QTypeOK, Goes, queue, ctxVars, lockVars, objVars, ghost
<1>2. PcInv'
  BY <1>g, <1>u, CombinerAssumption
     DEF IInv, PcInv, Goes, CallPcs, TurnPcs, queue, ctxVars, lockVars, objVars, ghost
<1>3. RefInv'
  BY <1>g, <1>u, RefFrame DEF IInv, Goes, queue, ctxVars, lockVars, objVars, ghost
<1>4. TurnsInv'
  BY <1>g, <1>u, TurnFrame DEF IInv, TypeOK, Goes, queue, ctxVars, lockVars, objVars, ghost
<1>5. OpInv' /\ ChainInv'
  BY <1>g, <1>u, QueueFrame DEF IInv, Goes, queue, ctxVars, lockVars, objVars, ghost
<1>6. ClosureInv'
  BY <1>g, <1>u, ClosureFrame DEF IInv, Goes, AddPcs, queue, ctxVars, lockVars, objVars, ghost
<1>7. CountInv'
  <2>1. CASE pc = "pop"
    BY <1>g, <1>u, <2>1, CountFrame
       DEF IInv, Goes, AddPcs, queue, ctxVars, lockVars, objVars, ghost
  <2>2. CASE pc = "finals"
    <3>1. \A k \in Combiners : Adding(k)' = Adding(k)
      BY <1>g, <1>u DEF Adding, Goes, AddPcs
    <3>2. fifo' = fifo /\ state' = state /\ finalList'[l] = <<>>
          /\ \A k \in Combiners : k # l => finalList'[k] = finalList[k]
      BY <1>g, <1>u, <2>2 DEF IInv, TypeOK, queue, ctxVars, lockVars, objVars, ghost
    <3> SUFFICES ASSUME NEW k \in Combiners
                 PROVE  state'[k] \div 2 = Cardinality(Adding(k)') + Len(fifo'[k])
                                           + (IF Running(k)' THEN 1 ELSE 0)
                                           + (IF finalList'[k] = <<>> THEN 0 ELSE 1)
      BY DEF CountInv
    <3>3. CASE k = l
      <4>1. state[l] \div 2 = Cardinality(Adding(l)) + Len(fifo[l]) + 0 + 1
        BY <1>n DEF IInv, CountInv
      <4>2. Cardinality(Adding(l)) \in Nat /\ Len(fifo[l]) \in Nat
        <5>1. Adding(l) \subseteq Workers /\ IsFiniteSet(Workers)
          BY CombinerAssumption DEF Adding, Workers
        <5>2. IsFiniteSet(Adding(l))
          BY <5>1, FS_Subset
        <5> QED BY <5>2, FS_CardinalityType DEF IInv, TypeOK
      <4> QED BY <1>n, <2>2, <3>1, <3>2, <3>3, <4>1, <4>2
    <3>4. CASE k # l
      BY <1>n, <3>1, <3>2, <3>4 DEF IInv, CountInv
    <3> QED BY <3>3, <3>4
  <2> QED BY <2>1, <2>2
<1>8. FinalInv'
  <2>1. CASE pc = "pop"
    BY <1>g, <1>u, <2>1, FinalFrame DEF IInv, Goes, queue, ctxVars, lockVars, objVars, ghost
  <2>2. CASE pc = "finals"
    <3>1. \A k \in Combiners : k # l => finalList'[k] = finalList[k]
      BY <1>g, <2>2 DEF IInv, TypeOK
    <3> QED BY <1>g, <1>u, <1>n, <2>2, <3>1
               DEF IInv, FinalInv, Goes, queue, ctxVars, lockVars, objVars, ghost
  <2> QED BY <2>1, <2>2
<1>9. FreedInv'
  <2>1. freed' = freed /\ state' = state
    BY <1>u DEF queue, ctxVars, lockVars, objVars, ghost
  <2>2. failed' = failed
    <3>1. CASE pc = "pop"
      BY <1>g, <3>1
    <3>2. CASE pc = "finals"
      BY <1>g, <1>n, <3>2 DEF IInv, TypeOK
    <3> QED BY <3>1, <3>2
  <2> QED BY <2>1, <2>2 DEF IInv, FreedInv
<1> QED BY <1>1, <1>2, <1>3, <1>4, <1>5, <1>6, <1>7, <1>8, <1>9 DEF IInv

(* A list does not depend on turns that are elsewhere. *)
LEMMA ListFrame ==
    ASSUME NEW place \in [Combiners -> Places], NEW p \in [Combiners -> Places], ListInv(place),
           active \in [Workers -> Combiners \cup {Null}],
           lastOf \in [Workers -> Combiners \cup {Null}],
           nextCombiner \in [Combiners -> Combiners \cup {Null}],
           UNCHANGED ctxVars,
           \A k \in Combiners : p[k] = place[k] \/ (p[k].how # "list" /\ place[k].how # "list")
    PROVE  ListInv(p)'
<1>1. \A t \in Workers : At("list", t).how = "list"
  BY AtFacts
<1>2. \A k \in Combiners, t \in Workers : p[k] = At("list", t) <=> place[k] = At("list", t)
  BY <1>1
<1>3. active' = active /\ lastOf' = lastOf /\ nextCombiner' = nextCombiner
  BY DEF ctxVars
<1>4. \A k \in Combiners, t \in Workers :
         place[k] = At("list", t) /\ k # lastOf[t] => nextCombiner[k] \in Combiners
  BY DEF ListInv
<1> QED BY <1>2, <1>3, <1>4 DEF ListInv

(* The turn of one combiner changes hands, by a step of the thread that has it. *)
LEMMA TurnChange ==
    ASSUME TypeOK, PcInv, NEW place \in [Combiners -> Places], NEW p \in [Combiners -> Places],
           TurnInv(place), NEW l \in Combiners, NEW t \in Workers,
           \A k \in Combiners : k # l => p[k] = place[k],
           p[l].how # "none" => state'[l] >= 2,
           \A k \in Combiners : k # l => (state[k] >= 2 => state'[k] >= 2),
           \A u \in Workers : u # t => th'[u] = th[u],
           \A u \in Workers : u # t => place[l] # At("initiate", u) /\ place[l] # At("repush", u),
           th'[t].pc = "initiate" => th'[t].target = l /\ p[l] = At("initiate", t),
           th'[t].pc = "repush" => th'[t].lock = l /\ p[l] = At("repush", t),
           OffloadInv(p)'
    PROVE  TurnInv(p)'
<1>1. \A k \in Combiners : p[k].how # "none" => state'[k] >= 2
  BY DEF TurnInv
<1>2. ASSUME NEW u \in Workers
      PROVE  /\ th'[u].pc = "initiate" => p[th'[u].target] = At("initiate", u)
             /\ th'[u].pc = "repush" => p[th'[u].lock] = At("repush", u)
  <2>1. CASE u = t
    BY <2>1
  <2>2. CASE u # t
    <3>1. th[u].target \in Combiners \cup {Null} /\ th[u].lock \in Combiners \cup {Null}
      BY DEF TypeOK, ThreadType
    <3>2. /\ th[u].pc = "initiate" => th[u].target \in Combiners
          /\ th[u].pc = "repush" => th[u].lock \in Combiners
      BY <3>1 DEF PcInv, CallPcs, TurnPcs
    <3> QED BY <2>2, <3>2 DEF TurnInv
  <2> QED BY <2>1, <2>2
<1> QED BY <1>1, <1>2 DEF TurnInv

(* A place for one combiner. *)
LEMMA NewPlace ==
    ASSUME NEW place \in [Combiners -> Places], NEW l \in Combiners, NEW x \in Places
    PROVE  \E p \in [Combiners -> Places] :
              p[l] = x /\ \A k \in Combiners : k # l => p[k] = place[k]
<1>1. [place EXCEPT ![l] = x] \in [Combiners -> Places]
  OBVIOUS
<1> QED BY <1>1

(* combiner_exec adds an item; with the first one the turn begins. *)
LEMMA ExecStep ==
    ASSUME IInv, NEW t \in Workers, NEW l \in Combiners, NEW c \in Closures,
           MayCall(t), Holder(t) \in refs[l], status[c] = "new", CombinerExec(t, l, c),
           TakeRefs(t, c), status' = [status EXCEPT ![c] = "scheduled"],
           cb' \in [Closures -> {"run", "enqueue_finally"}],
           UNCHANGED <<queue, initiating, timeFinal, finalList, ctxVars, finished, offloads,
                       freed, setup, fifo>>
    PROVE  IInv'
<1>u. /\ th[t].pc \in {"api", "cb"} /\ state' = [state EXCEPT ![l] = @ + 2]
      /\ failed' = (failed \/ state[l] % 2 = 0)
      /\ UNCHANGED <<queue, initiating, timeFinal, finalList, ctxVars, finished, offloads,
                     freed, setup, fifo>>
  BY DEF MayCall, CombinerExec
<1>p. PICK pc \in {"initiate", "check"} : pc = IF state[l] = 1 THEN "initiate" ELSE "check"
  OBVIOUS
<1>g. Goes(t, pc, l, c, th[t].pc, th[t].lock, th[t].cur)
  <2> DEFINE r == [th[t] EXCEPT !.pc = pc, !.target = l, !.c = c, !.back = th[t].pc]
  <2>1. /\ r \in ThreadType
        /\ r.pc = pc /\ r.target = l /\ r.c = c
        /\ r.back = th[t].pc /\ r.lock = th[t].lock /\ r.cur = th[t].cur
    BY <1>u, ZenonT(30) DEF IInv, TypeOK, ThreadType, Pcs
  <2>2. th' = [th EXCEPT ![t] = r] /\ th \in [Workers -> ThreadType]
    BY <1>p DEF IInv, TypeOK, CombinerExec
  <2> HIDE DEF r
  <2>3. Goes(t, r.pc, r.target, r.c, r.back, r.lock, r.cur)
    BY <2>1, <2>2, Update
  <2> QED BY <2>1, <2>3
<1>s. /\ state \in [Combiners -> Nat] /\ state[l] % 2 = 1 /\ state'[l] = state[l] + 2
      /\ \A k \in Combiners : k # l => state'[k] = state[k]
      /\ state' \in [Combiners -> Nat] /\ state[l] \in Nat /\ state[l] >= 1
      /\ \A k \in Combiners : state'[k] % 2 = state[k] % 2 /\ (state[k] >= 2 => state'[k] >= 2)
  <2>1. /\ state \in [Combiners -> Nat] /\ state[l] % 2 = 1 /\ state'[l] = state[l] + 2
        /\ \A k \in Combiners : k # l => state'[k] = state[k]
        /\ state' \in [Combiners -> Nat] /\ state[l] \in Nat
    BY <1>u DEF IInv, TypeOK, RefInv
  <2>2. (state[l] + 2) % 2 = state[l] % 2 /\ state[l] >= 1
    BY <2>1, Halves
  <2>3. \A k \in Combiners : state'[k] % 2 = state[k] % 2 /\ (state[k] >= 2 => state'[k] >= 2)
    <3> SUFFICES ASSUME NEW k \in Combiners
                 PROVE  state'[k] % 2 = state[k] % 2 /\ (state[k] >= 2 => state'[k] >= 2)
      OBVIOUS
    <3>1. CASE k = l
      BY <2>1, <2>2, <3>1
    <3>2. CASE k # l
      BY <2>1, <3>2
    <3> QED BY <3>1, <3>2
  <2> QED BY <2>1, <2>2, <2>3
<1>1. TypeOK'
  <2>1. refs' \in [Combiners -> SUBSET (Apps \cup Closures)]
    BY DEF TakeRefs, IInv, TypeOK
  <2>2. failed' \in BOOLEAN
    BY <1>u
  <2>3. status' \in [Closures -> {"new", "scheduled", "ran"}]
    BY DEF IInv, TypeOK
  <2> QED BY <1>g, <1>u, <1>s, <2>1, <2>2, <2>3
          DEF IInv, TypeOK, QTypeOK, Goes, queue, ctxVars
<1>2. PcInv'
  BY <1>g, <1>u, CombinerAssumption DEF IInv, PcInv, Goes, CallPcs, TurnPcs, ctxVars
<1>3. RefInv'
  <2>1. \A k \in Combiners : refs'[k] = {} <=> refs[k] = {}
    BY DEF TakeRefs
  <2>2. \A u \in Workers :
           th'[u].pc = "orphan" => th[u].pc = "orphan" /\ th'[u].target = th[u].target
    BY <1>g DEF Goes
  <2> QED BY <1>s, <2>1, <2>2, RefFrame DEF IInv
<1>4. TurnsInv'
  <2>1. CASE state[l] # 1
    <3>1. pc = "check"
      BY <1>p, <2>1
    <3> QED BY <1>g, <1>u, <1>s, <3>1, TurnFrame DEF IInv, Goes
  <2>2. CASE state[l] = 1
    <3>1. PICK place \in [Combiners -> Places] : TurnInv(place) /\ ListInv(place)
      BY DEF IInv, TurnsInv
    <3>2. place[l].how = "none"
      BY <2>2, <3>1 DEF TurnInv
    <3>3. PICK p \in [Combiners -> Places] :
            p[l] = At("initiate", t) /\ \A k \in Combiners : k # l => p[k] = place[k]
      <4>1. At("initiate", t) \in Places
        BY DEF At, Places
      <4> QED BY <4>1, NewPlace
    <3>4. ListInv(p)'
      <4>1. p[l].how # "list" /\ place[l].how # "list"
        BY <3>2, <3>3, AtFacts
      <4> QED BY <1>u, <3>1, <3>3, <4>1, ListFrame DEF IInv, TypeOK
    <3>5. OffloadInv(p)'
      <4>1. \A x : At("offload", x).how = "offload"
        BY AtFacts
      <4>2. \A x \in Executors : \A i \in DOMAIN offloads[x] : offloads[x][i] \in Combiners
        BY DEF IInv, TypeOK
      <4> QED BY <1>u, <3>1, <3>2, <3>3, <4>1, <4>2 DEF TurnInv, OffloadInv
    <3>6. TurnInv(p)'
      <4>1. state'[l] >= 2 /\ \A k \in Combiners : state[k] >= 2 => state'[k] >= 2
        BY <1>s, <2>2
      <4>2. \A u \in Workers : place[l] # At("initiate", u) /\ place[l] # At("repush", u)
        BY <3>2, AtFacts
      <4>3. /\ \A u \in Workers : u # t => th'[u] = th[u]
            /\ th'[t].pc = "initiate" => th'[t].target = l /\ p[l] = At("initiate", t)
            /\ th'[t].pc = "repush" => th'[t].lock = l /\ p[l] = At("repush", t)
        BY <1>g, <3>3 DEF Goes
      <4> QED BY <3>1, <3>3, <3>5, <4>1, <4>2, <4>3, TurnChange DEF IInv
    <3> QED BY <3>4, <3>6 DEF TurnsInv
  <2> QED BY <2>1, <2>2
<1>5. OpInv' /\ ChainInv'
  BY <1>g, <1>u, QueueFrame DEF IInv, Goes
<1>6. ClosureInv'
  <2>1. /\ \A q \in Combiners : \A i \in DOMAIN fifo[q] : fifo[q][i] \in Closures
        /\ \A u \in Workers : th[u].pc \in AddPcs => th[u].c \in Closures
    BY DEF IInv, PcInv, TypeOK, ThreadType, AddPcs
  <2>2. \A d \in Closures : status[d] # "new" => status'[d] # "new"
    BY DEF IInv, TypeOK
  <2>3. /\ status'[c] # "new" /\ \A q \in Combiners : \A i \in DOMAIN fifo[q] : fifo[q][i] # c
        /\ \A u \in Workers : th[u].pc \in AddPcs => th[u].c # c
    BY DEF IInv, TypeOK, ClosureInv
  <2>4. ASSUME NEW u \in Workers, th'[u].pc \in AddPcs
        PROVE  \/ u = t /\ th'[u].c = c
               \/ u # t /\ th[u].pc \in AddPcs /\ th'[u].c = th[u].c
    BY <1>g, <2>4 DEF Goes
  <2> QED BY <1>u, <2>1, <2>2, <2>3, <2>4 DEF IInv, ClosureInv
<1>7. CountInv'
  <2>1. \A k \in Combiners : k # l => Adding(k)' = Adding(k)
    BY <1>g, <1>u DEF Adding, Goes, AddPcs
  <2>2. Adding(l)' = Adding(l) \cup {t} /\ t \notin Adding(l)
    BY <1>g, <1>u DEF Adding, Goes, AddPcs
  <2>3. \A k \in Combiners : Running(k)' <=> Running(k)
    BY <1>g, <1>u DEF Running, Goes
  <2>4. IsFiniteSet(Adding(l)) /\ Cardinality(Adding(l)) \in Nat /\ Len(fifo[l]) \in Nat
    <3>1. Adding(l) \subseteq Workers /\ IsFiniteSet(Workers)
      BY CombinerAssumption DEF Adding, Workers
    <3>2. IsFiniteSet(Adding(l))
      BY <3>1, FS_Subset
    <3> QED BY <3>2, FS_CardinalityType DEF IInv, TypeOK
  <2>5. Cardinality(Adding(l)') = Cardinality(Adding(l)) + 1
    BY <2>2, <2>4, FS_AddElement
  <2>6. state'[l] \div 2 = state[l] \div 2 + 1
    BY <1>s, Halves
  <2> SUFFICES ASSUME NEW k \in Combiners
               PROVE  state'[k] \div 2 = Cardinality(Adding(k)') + Len(fifo'[k])
                                         + (IF Running(k)' THEN 1 ELSE 0)
                                         + (IF finalList'[k] = <<>> THEN 0 ELSE 1)
    BY DEF CountInv
  <2>7. CASE k = l
    BY <1>u, <2>3, <2>4, <2>5, <2>6, <2>7 DEF IInv, CountInv
  <2>8. CASE k # l
    BY <1>u, <1>s, <2>1, <2>3, <2>8 DEF IInv, CountInv
  <2> QED BY <2>7, <2>8
<1>8. FinalInv'
  BY <1>g, <1>u, <1>s, FinalFrame DEF IInv, Goes
<1>9. FreedInv'
  <2>1. failed' = failed
    BY <1>u, <1>s DEF IInv, TypeOK
  <2>2. \A k \in Combiners : state[k] = 0 => state'[k] = 0
    BY <1>s
  <2> QED BY <1>u, <2>1, <2>2, FreedFrame DEF IInv
<1> QED BY <1>1, <1>2, <1>3, <1>4, <1>5, <1>6, <1>7, <1>8, <1>9 DEF IInv

(* A closure for grpc_combiner_scheduler. *)
LEMMA ScheduleStep ==
    ASSUME IInv, NEW t \in Workers, NEW l \in Combiners, NEW c \in Closures, Schedule(t, l, c)
    PROVE  IInv'
<1>1. cb' \in [Closures -> {"run", "enqueue_finally"}]
  BY DEF Schedule, IInv, TypeOK
<1> QED BY <1>1, ExecStep DEF Schedule

(* What is counted. *)
LEMMA CountedFacts ==
    ASSUME IInv, NEW l \in Combiners
    PROVE  /\ IsFiniteSet(Adding(l)) /\ Cardinality(Adding(l)) \in Nat /\ Len(fifo[l]) \in Nat
           /\ state[l] \in Nat /\ state[l] \div 2 \in Nat
           /\ Cardinality(Adding(l)) = 0 <=> Adding(l) = {}
           /\ Len(fifo[l]) = 0 <=> fifo[l] = <<>>
<1>1. Adding(l) \subseteq Workers /\ IsFiniteSet(Workers)
  BY CombinerAssumption DEF Adding, Workers
<1>2. IsFiniteSet(Adding(l))
  BY <1>1, FS_Subset
<1>3. Cardinality(Adding(l)) \in Nat /\ (Cardinality(Adding(l)) = 0 <=> Adding(l) = {})
  BY <1>2, FS_CardinalityType, FS_EmptySet
<1>4. fifo[l] \in Seq(Closures) /\ state[l] \in Nat
  BY DEF IInv, TypeOK
<1>5. state[l] \div 2 \in Nat
  BY <1>4, Halves
<1> QED BY <1>2, <1>3, <1>4, <1>5

(* A queue without closures is as gpr_mpscq_destroy wants it. *)
LEMMA EmptyQueue ==
    ASSUME IInv, NEW q \in Combiners, fifo[q] = <<>>
    PROVE  QDestroyable(q) /\ \A t \in Workers : ~(op[t].pc = "link" /\ op[t].q = q)
<1>1. PICK f \in Seq(Closures), k \in Nat, s \in Seq(Slots) :
              /\ f = Queued(q) /\ k \in 0 .. Len(f) + 1 /\ s = Chain(f, q, k)
              /\ ChainOf(q, s) /\ Distinct(s)
              /\ \A v \in Workers : op[v].pc = "stub" /\ op[v].q = q => k = 0
              /\ \A i \in 1 .. Len(s) : s[i] = q \/ \E j \in DOMAIN fifo[q] : s[i] = fifo[q][j]
  BY ChainedNow
<1>2. f = <<>>
  <2>1. ~PoppedFrom(q)
    BY QueuedFacts
  <2> QED BY <1>1, <2>1 DEF Queued
<1>3. Len(s) = IF k = 0 THEN Len(f) ELSE Len(f) + 1
  BY <1>1, ChainFacts
<1>4. Len(s) >= 1 /\ tail[q] = s[1] /\ head[q] = s[Len(s)]
  BY <1>1 DEF ChainOf
<1>5. Len(s) = 1
  BY <1>2, <1>3, <1>4
<1>6. s[1] = q
  <2>1. 1 \in 1 .. Len(s)
    BY <1>5
  <2>2. DOMAIN fifo[q] = {}
    OBVIOUS
  <2> QED BY <1>1, <2>1, <2>2
<1>7. \A t \in Workers : ~(op[t].pc = "link" /\ op[t].q = q)
  BY <1>1, <1>5 DEF ChainOf
<1> QED BY <1>4, <1>5, <1>6, <1>7 DEF QDestroyable

(* A closure for grpc_combiner_finally_scheduler. *)
LEMMA ScheduleFinallyStep ==
    ASSUME IInv, NEW t \in Workers, NEW l \in Combiners, NEW c \in Closures,
           ScheduleFinally(t, l, c)
    PROVE  IInv'
<1>1. CASE active[t] # l
  <2>1. cb' \in [Closures -> {"run", "enqueue_finally"}]
    BY <1>1 DEF ScheduleFinally, IInv, TypeOK
  <2>2. CombinerExec(t, l, c) /\ UNCHANGED finalList
    BY <1>1 DEF ScheduleFinally
  <2> QED BY <2>1, <2>2, ExecStep DEF ScheduleFinally
<1>2. CASE active[t] = l
  <2>u. /\ FinallyAppend(l, c) /\ Holder(t) \in refs[l] /\ TakeRefs(t, c)
        /\ status' = [status EXCEPT ![c] = "scheduled"]
        /\ UNCHANGED <<th, cb, failed, queue, initiating, timeFinal, ctxVars, finished, offloads,
                       freed, setup, fifo>>
    BY <1>2 DEF ScheduleFinally
  <2>f. /\ state' \in [Combiners -> Nat] /\ finalList' \in [Combiners -> Seq(Closures)]
        /\ \A k \in Combiners : k # l => state'[k] = state[k] /\ finalList'[k] = finalList[k]
        /\ finalList'[l] # <<>>
        /\ state'[l] = IF finalList[l] = <<>> THEN state[l] + 2 ELSE state[l]
        /\ \A k \in Combiners : state'[k] >= state[k] /\ state'[k] % 2 = state[k] % 2
    BY <2>u, FinallyFacts DEF IInv, TypeOK
  <2>s. \A k \in Combiners : state[k] >= 2 => state'[k] >= 2
    BY <2>f DEF IInv, TypeOK
  <2>1. TypeOK'
    <3>1. refs' \in [Combiners -> SUBSET (Apps \cup Closures)]
      BY <2>u DEF TakeRefs, IInv, TypeOK
    <3>2. status' \in [Closures -> {"new", "scheduled", "ran"}]
      BY <2>u DEF IInv, TypeOK
    <3> QED BY <2>u, <2>f, <3>1, <3>2 DEF IInv, TypeOK, QTypeOK, queue, ctxVars
  <2>2. PcInv'
    BY <2>u DEF IInv, PcInv, ctxVars
  <2>3. RefInv'
    <3>1. \A k \in Combiners : refs'[k] = {} <=> refs[k] = {}
      BY <2>u DEF TakeRefs
    <3> QED BY <2>u, <2>f, <3>1, RefFrame DEF IInv
  <2>4. TurnsInv'
    BY <2>u, <2>s, TurnFrame DEF IInv, TypeOK
  <2>5. OpInv' /\ ChainInv'
    BY <2>u, QueueFrame DEF IInv
  <2>6. ClosureInv'
    <3>1. \A d \in Closures : status[d] # "new" => status'[d] # "new"
      BY <2>u DEF IInv, TypeOK
    <3> QED BY <2>u, <3>1, ClosureFrame DEF IInv
  <2>7. CountInv'
    <3>1. \A k \in Combiners : Adding(k)' = Adding(k) /\ (Running(k)' <=> Running(k))
      BY <2>u DEF Adding, Running
    <3>2. IsFiniteSet(Workers)
      BY CombinerAssumption DEF Workers
    <3> QED BY <2>u, <2>f, <3>1, <3>2, FinallyCounts DEF IInv, TypeOK
  <2>8. FinalInv'
    <3>1. \A k \in Combiners : finalList[k] # <<>> => finalList'[k] # <<>>
      BY <2>f
    <3> QED BY <2>u, <2>s, <3>1, FinalFrame DEF IInv
  <2>9. FreedInv'
    <3>1. state[l] # 0
      <4>1. state[l] % 2 = 1 /\ state[l] \in Nat
        BY <2>u DEF IInv, RefInv, TypeOK
      <4> QED BY <4>1
    <3>2. \A k \in Combiners : state[k] = 0 => state'[k] = 0
      BY <2>f, <3>1
    <3> QED BY <2>u, <3>2, FreedFrame DEF IInv
  <2> QED BY <2>1, <2>2, <2>3, <2>4, <2>5, <2>6, <2>7, <2>8, <2>9 DEF IInv
<1> QED BY <1>1, <1>2

(* grpc_combiner_unref *)
LEMMA UnrefStep ==
    ASSUME IInv, NEW t \in Workers, NEW l \in Combiners, Unref(t, l)
    PROVE  IInv'
<1>u. /\ th[t].pc \in {"api", "cb"} /\ refs[l] # {}
      /\ UNCHANGED <<queue, lockVars, ctxVars, finished, offloads, freed, setup, cb, ghost, failed>>
  BY DEF Unref, MayCall
<1>r. /\ refs' \in [Combiners -> SUBSET (Apps \cup Closures)]
      /\ \A k \in Combiners : k # l => refs'[k] = refs[k]
  BY DEF Unref, IInv, TypeOK
<1>s. state[l] % 2 = 1
  BY <1>u DEF IInv, RefInv
<1>o. \A u \in Workers : th[u].pc = "orphan" => th[u].target \in Combiners \ {l}
  <2>1. \A u \in Workers : th[u].pc = "orphan" => th[u].target \in Combiners
    BY DEF IInv, PcInv, TypeOK, ThreadType, CallPcs
  <2>2. \A u \in Workers : th[u].pc = "orphan" => refs[th[u].target] = {}
    BY DEF IInv, RefInv
  <2> QED BY <1>u, <2>1, <2>2
<1>1. CASE refs'[l] # {}
  <2>1. th' = th
    BY <1>1 DEF Unref
  <2>2. TypeOK'
    BY <1>u, <1>r, <2>1 DEF IInv, TypeOK, QTypeOK, queue, ctxVars, lockVars, ghost
  <2>3. PcInv'
    BY <1>u, <2>1 DEF IInv, PcInv, ctxVars
  <2>4. RefInv'
    <3>1. \A k \in Combiners : refs'[k] = {} <=> refs[k] = {}
      BY <1>1, <1>u, <1>r
    <3> QED BY <1>u, <2>1, <3>1, RefFrame DEF IInv, lockVars
  <2>5. TurnsInv'
    BY <1>u, <2>1, TurnFrame DEF IInv, TypeOK, lockVars
  <2>6. OpInv' /\ ChainInv'
    BY <1>u, <2>1, QueueFrame DEF IInv, ghost
  <2>7. ClosureInv'
    BY <1>u, <2>1, ClosureFrame DEF IInv, ghost
  <2>8. CountInv'
    BY <1>u, <2>1, CountFrame DEF IInv, ghost, lockVars
  <2>9. FinalInv'
    BY <1>u, <2>1, FinalFrame DEF IInv, lockVars
  <2>10. FreedInv'
    BY <1>u, FreedFrame DEF IInv, lockVars
  <2> QED BY <2>2, <2>3, <2>4, <2>5, <2>6, <2>7, <2>8, <2>9, <2>10 DEF IInv
<1>2. CASE refs'[l] = {}
  <2>g. Goes(t, "orphan", l, th[t].c, th[t].pc, th[t].lock, th[t].cur)
    <3> DEFINE r == [th[t] EXCEPT !.pc = "orphan", !.target = l, !.back = th[t].pc]
    <3>1. /\ r \in ThreadType
          /\ r.pc = "orphan" /\ r.target = l /\ r.c = th[t].c
          /\ r.back = th[t].pc /\ r.lock = th[t].lock /\ r.cur = th[t].cur
      BY <1>u DEF IInv, TypeOK, ThreadType, Pcs
    <3>2. th' = [th EXCEPT ![t] = r] /\ th \in [Workers -> ThreadType]
      BY <1>2 DEF IInv, TypeOK, Unref
    <3> HIDE DEF r
    <3>3. Goes(t, r.pc, r.target, r.c, r.back, r.lock, r.cur)
      BY <3>1, <3>2, Update
    <3> QED BY <3>1, <3>3
  <2>1. TypeOK'
    BY <1>u, <1>r, <2>g DEF IInv, TypeOK, QTypeOK, Goes, queue, ctxVars, lockVars, ghost
  <2>2. PcInv'
    BY <1>u, <2>g, CombinerAssumption DEF IInv, PcInv, Goes, CallPcs, TurnPcs, ctxVars
  <2>3. RefInv'
    <3>1. state' = state
      BY <1>u DEF lockVars
    <3>2. \A u \in Workers : th'[u].pc = "orphan" =>
             \/ u = t /\ th'[u].target = l
             \/ u # t /\ th[u].pc = "orphan" /\ th'[u].target = th[u].target
      BY <2>g DEF Goes
    <3> QED BY <1>r, <1>s, <1>o, <1>2, <3>1, <3>2 DEF IInv, RefInv
  <2>4. TurnsInv'
    BY <1>u, <2>g, TurnFrame DEF IInv, TypeOK, Goes, lockVars
  <2>5. OpInv' /\ ChainInv'
    BY <1>u, <2>g, QueueFrame DEF IInv, Goes, ghost
  <2>6. ClosureInv'
    BY <1>u, <2>g, ClosureFrame DEF IInv, Goes, AddPcs, ghost
  <2>7. CountInv'
    BY <1>u, <2>g, CountFrame DEF IInv, Goes, AddPcs, ghost, lockVars
  <2>8. FinalInv'
    BY <1>u, <2>g, FinalFrame DEF IInv, Goes, lockVars
  <2>9. FreedInv'
    BY <1>u, FreedFrame DEF IInv, lockVars
  <2> QED BY <2>1, <2>2, <2>3, <2>4, <2>5, <2>6, <2>7, <2>8, <2>9 DEF IInv
<1> QED BY <1>1, <1>2

(* start_destroy *)
LEMMA StartDestroyStep ==
    ASSUME IInv, NEW t \in Workers, StartDestroy(t)
    PROVE  IInv'
<1>u. /\ th[t].pc = "orphan"
      /\ UNCHANGED <<queue, initiating, timeFinal, finalList, ctxVars, finished, offloads,
                     refs, setup, cb, ghost>>
  BY DEF StartDestroy
<1>l. PICK l \in Combiners : l = th[t].target
  BY <1>u DEF IInv, TypeOK, ThreadType, PcInv, CallPcs
<1>b. th[t].back \in {"api", "cb"} /\ th[t].c = Null
  BY <1>u DEF IInv, TypeOK, ThreadType, PcInv, CallPcs
<1>p. PICK pc \in {"api", "cb"} : pc = th[t].back
  BY <1>b
<1>g. Goes(t, pc, Null, th[t].c, Null, th[t].lock, th[t].cur)
  <2> DEFINE r == [th[t] EXCEPT !.pc = pc, !.target = Null, !.back = Null]
  <2>1. /\ r \in ThreadType
        /\ r.pc = pc /\ r.target = Null /\ r.c = th[t].c
             /\ r.back = Null /\ r.lock = th[t].lock /\ r.cur = th[t].cur
    <3>1. th[t] \in ThreadType
      BY DEF IInv, TypeOK
    <3> QED BY <1>p, <3>1 DEF ThreadType, Pcs
  <2>2. th' = [th EXCEPT ![t] = r] /\ th \in [Workers -> ThreadType]
    BY <1>p DEF IInv, TypeOK, StartDestroy
  <2> HIDE DEF r
  <2>3. Goes(t, r.pc, r.target, r.c, r.back, r.lock, r.cur)
    BY <2>1, <2>2, Update
  <2> QED BY <2>1, <2>3
<1>s. /\ state \in [Combiners -> Nat] /\ state[l] \in Nat /\ state[l] % 2 = 1 /\ refs[l] = {}
      /\ state' = [state EXCEPT ![l] = @ - 1]
      /\ \A u \in Workers : th[u].pc = "orphan" /\ th[u].target = l => u = t
  BY <1>u, <1>l DEF StartDestroy, IInv, TypeOK, RefInv
<1>t. /\ state' \in [Combiners -> Nat] /\ state'[l] = state[l] - 1 /\ state[l] # 2
      /\ state[l] - 1 \in Nat
      /\ \A k \in Combiners : k # l => state'[k] = state[k]
      /\ \A k \in Combiners : state'[k] \div 2 = state[k] \div 2
      /\ \A k \in Combiners : state[k] >= 2 => state'[k] >= 2
  <2>1. (state[l] - 1) \div 2 = state[l] \div 2 /\ state[l] - 1 \in Nat /\ state[l] # 2
    BY <1>s, Halves
  <2>2. /\ state' \in [Combiners -> Nat] /\ state'[l] = state[l] - 1
        /\ \A k \in Combiners : k # l => state'[k] = state[k]
    BY <1>s, <2>1
  <2>3. \A k \in Combiners : state'[k] \div 2 = state[k] \div 2
    <3> SUFFICES ASSUME NEW k \in Combiners PROVE state'[k] \div 2 = state[k] \div 2
      OBVIOUS
    <3>1. CASE k = l
      BY <2>1, <2>2, <3>1
    <3>2. CASE k # l
      BY <2>2, <3>2
    <3> QED BY <3>1, <3>2
  <2>4. \A k \in Combiners : state[k] >= 2 => state'[k] >= 2
    BY <1>s, <2>1, <2>2
  <2> QED BY <2>1, <2>2, <2>3, <2>4
<1>d. /\ state[l] = 1 => freed' = freed \cup {l} /\ QDestroyable(l) /\ failed' = failed
      /\ state[l] # 1 => UNCHANGED <<freed, failed>>
  <2>1. state[l] # 1 => UNCHANGED <<freed, failed>>
    BY <1>l DEF StartDestroy
  <2>2. ASSUME state[l] = 1
        PROVE  freed' = freed \cup {l} /\ QDestroyable(l) /\ failed' = failed
    <3>1. state[l] \div 2 = 0
      BY <2>2
    <3>2. fifo[l] = <<>>
      BY <3>1, CountedFacts DEF IInv, CountInv
    <3>3. QDestroyable(l)
      BY <3>2, EmptyQueue
    <3>4. /\ freed' = freed \cup {l} /\ failed' = (failed \/ state'[l] # 0 \/ ~QDestroyable(l))
          /\ state' = [state EXCEPT ![l] = @ - 1]
      BY <1>l, <2>2 DEF StartDestroy, ReallyDestroy
    <3>6. state'[l] = 0
      BY <2>2, <3>4 DEF IInv, TypeOK
    <3>5. failed \in BOOLEAN
      BY DEF IInv, TypeOK
    <3> QED BY <3>3, <3>4, <3>5, <3>6
  <2> QED BY <2>1, <2>2
<1>1. TypeOK'
  <2>1. freed' \subseteq Combiners /\ failed' \in BOOLEAN
    BY <1>d DEF IInv, TypeOK
  <2> QED BY <1>g, <1>u, <1>t, <2>1
             DEF IInv, TypeOK, QTypeOK, Goes, queue, ctxVars, lockVars, objVars, ghost
<1>2. PcInv'
  BY <1>g, <1>u, <1>b, <1>p, CombinerAssumption
     DEF IInv, PcInv, Goes, CallPcs, TurnPcs, queue, ctxVars, lockVars, objVars, ghost
<1>3. RefInv'
  <2>1. \A u \in Workers : th'[u].pc = "orphan" => u # t /\ th'[u] = th[u] /\ th[u].pc = "orphan"
    BY <1>g, <1>p DEF Goes
  <2>2. \A u \in Workers : th'[u].pc = "orphan" => th[u].target \in Combiners /\ th[u].target # l
    <3>1. \A u \in Workers : th[u].pc = "orphan" => th[u].target \in Combiners
      BY DEF IInv, PcInv, TypeOK, ThreadType, CallPcs
    <3> QED BY <1>s, <2>1, <3>1
  <2>3. \A k \in Combiners : refs'[k] # {} => state'[k] % 2 = 1
    BY <1>u, <1>s, <1>t DEF IInv, RefInv
  <2>4. ASSUME NEW u \in Workers, th'[u].pc = "orphan"
        PROVE  state'[th'[u].target] % 2 = 1 /\ refs'[th'[u].target] = {}
    <3>1. th'[u] = th[u] /\ th[u].pc = "orphan" /\ th[u].target \in Combiners \ {l}
      BY <2>1, <2>2, <2>4
    <3>2. state[th[u].target] % 2 = 1 /\ refs[th[u].target] = {}
      BY <3>1 DEF IInv, RefInv
    <3> QED BY <1>u, <1>t, <3>1, <3>2
  <2>5. ASSUME NEW u \in Workers, th'[u].pc = "orphan",
               NEW v \in Workers, th'[v].pc = "orphan", th'[v].target = th'[u].target
        PROVE  v = u
    <3>1. th'[u] = th[u] /\ th[u].pc = "orphan" /\ th'[v] = th[v] /\ th[v].pc = "orphan"
      BY <2>1, <2>5
    <3> QED BY <2>5, <3>1 DEF IInv, RefInv
  <2> QED BY <2>3, <2>4, <2>5 DEF RefInv
<1>4. TurnsInv'
  BY <1>g, <1>u, <1>b, <1>p, <1>t, TurnFrame
     DEF IInv, TypeOK, Goes, queue, ctxVars, lockVars, objVars, ghost
<1>5. OpInv' /\ ChainInv'
  BY <1>g, <1>u, <1>b, <1>p, QueueFrame DEF IInv, Goes, queue, ctxVars, lockVars, objVars, ghost
<1>6. ClosureInv'
  BY <1>g, <1>u, <1>b, <1>p, ClosureFrame
     DEF IInv, Goes, AddPcs, queue, ctxVars, lockVars, objVars, ghost
<1>7. CountInv'
  BY <1>g, <1>u, <1>b, <1>p, <1>t, CountFrame
     DEF IInv, Goes, AddPcs, queue, ctxVars, lockVars, objVars, ghost
<1>8. FinalInv'
  BY <1>g, <1>u, <1>b, <1>p, <1>t, FinalFrame
     DEF IInv, Goes, queue, ctxVars, lockVars, objVars, ghost
<1>9. FreedInv'
  <2>1. l \notin freed /\ freed \subseteq Combiners
    <3>1. state[l] # 0
      BY <1>t, <1>s
    <3> QED BY <3>1 DEF IInv, FreedInv, TypeOK
  <2>2. ~failed' /\ freed' \subseteq freed \cup {l} /\ (l \in freed' => state[l] = 1)
    BY <1>d, <2>1 DEF IInv, FreedInv
  <2>3. \A k \in freed : state'[k] = 0
    BY <1>t, <2>1 DEF IInv, FreedInv
  <2> QED BY <1>t, <2>1, <2>2, <2>3 DEF FreedInv
<1> QED BY <1>1, <1>2, <1>3, <1>4, <1>5, <1>6, <1>7, <1>8, <1>9 DEF IInv

(* The queues of the executor do not depend on turns that are elsewhere. *)
LEMMA OffloadFrame ==
    ASSUME TypeOK, NEW place \in [Combiners -> Places], NEW p \in [Combiners -> Places],
           OffloadInv(place), UNCHANGED offloads, NEW l \in Combiners,
           place[l].how # "offload", \A k \in Combiners : k # l => p[k] = place[k]
    PROVE  OffloadInv(p)'
<1>1. \A x : At("offload", x).how = "offload"
  BY AtFacts
<1>2. \A x \in Executors : \A i \in DOMAIN offloads[x] : offloads[x][i] \in Combiners
  BY DEF TypeOK
<1> QED BY <1>1, <1>2 DEF OffloadInv

(* An executor thread takes the first one. *)
LEMMA OffloadTail ==
    ASSUME TypeOK, NEW place \in [Combiners -> Places], NEW p \in [Combiners -> Places],
           OffloadInv(place), NEW x \in Executors, offloads[x] # <<>>, NEW l \in Combiners,
           l = Head(offloads[x]), offloads' = [offloads EXCEPT ![x] = Tail(@)],
           \A k \in Combiners : k # l => p[k] = place[k]
    PROVE  /\ OffloadInv(p)' /\ place[l] = At("offload", x)
           /\ offloads' \in [Executors -> Seq(Combiners)]
<1>1. \A y \in Executors : offloads[y] \in Seq(Combiners)
  BY DEF TypeOK
<1>2. /\ Tail(offloads[x]) \in Seq(Combiners) /\ offloads[x][1] = l /\ 1 \in DOMAIN offloads[x]
      /\ \A i \in DOMAIN Tail(offloads[x]) :
            i + 1 \in DOMAIN offloads[x] /\ i # 0 /\ Tail(offloads[x])[i] = offloads[x][i + 1]
  BY <1>1
<1>3. /\ offloads' \in [Executors -> Seq(Combiners)] /\ offloads'[x] = Tail(offloads[x])
      /\ \A y \in Executors : y # x => offloads'[y] = offloads[y]
  BY <1>2 DEF TypeOK
<1>4. place[l] = At("offload", x)
  BY <1>2 DEF OffloadInv
<1> SUFFICES ASSUME NEW y \in Executors, NEW i \in DOMAIN offloads'[y]
             PROVE  /\ p[offloads'[y][i]] = At("offload", y)
                    /\ \A j \in DOMAIN offloads'[y] : offloads'[y][i] = offloads'[y][j] => i = j
  BY <1>3, <1>4 DEF OffloadInv
<1>5. CASE y # x
  <2>1. offloads'[y] = offloads[y] /\ offloads[y][i] \in Combiners
    BY <1>1, <1>3, <1>5
  <2>2. place[offloads[y][i]] = At("offload", y)
    BY <2>1 DEF OffloadInv
  <2>3. offloads[y][i] # l
    BY <1>4, <1>5, <2>2, AtFacts
  <2> QED BY <2>1, <2>2, <2>3 DEF OffloadInv
<1>6. CASE y = x
  <2>1. /\ i + 1 \in DOMAIN offloads[x] /\ i + 1 # 1 /\ offloads'[x][i] = offloads[x][i + 1]
        /\ offloads[x][i + 1] \in Combiners
    BY <1>1, <1>2, <1>3, <1>6
  <2>2. place[offloads[x][i + 1]] = At("offload", x) /\ offloads[x][i + 1] # l
    BY <1>2, <2>1 DEF OffloadInv
  <2>3. ASSUME NEW j \in DOMAIN offloads'[x], offloads'[x][i] = offloads'[x][j] PROVE i = j
    <3>1. j + 1 \in DOMAIN offloads[x] /\ offloads'[x][j] = offloads[x][j + 1]
          /\ j \in Nat /\ i \in Nat
      BY <1>1, <1>2, <1>3, <1>6
    <3>2. i + 1 = j + 1
      BY <2>1, <2>3, <3>1 DEF OffloadInv
    <3> QED BY <3>1, <3>2
  <2> QED BY <1>6, <2>1, <2>2, <2>3
<1> QED BY <1>5, <1>6

(* queue_offload appends combiner l to the queue of thread x. *)
Offloads(x, l) == offloads' = [offloads EXCEPT ![x] = Append(@, l)]

(* The new one is nowhere else in the queues of the executor. *)
LEMMA OffloadAppend ==
    ASSUME TypeOK, NEW place \in [Combiners -> Places], NEW p \in [Combiners -> Places],
           OffloadInv(place), NEW x \in Executors, NEW l \in Combiners, place[l].how # "offload",
           Offloads(x, l), p[l] = At("offload", x),
           \A k \in Combiners : k # l => p[k] = place[k]
    PROVE  OffloadInv(p)' /\ offloads' \in [Executors -> Seq(Combiners)]
<1>1. \A y \in Executors : offloads[y] \in Seq(Combiners)
  BY DEF TypeOK
<1>2. Append(offloads[x], l) \in Seq(Combiners)
  BY <1>1
<1>3. /\ offloads' \in [Executors -> Seq(Combiners)] /\ offloads'[x] = Append(offloads[x], l)
      /\ \A y \in Executors : y # x => offloads'[y] = offloads[y]
  BY <1>2 DEF TypeOK, Offloads
<1>4. \A y \in Executors : \A i \in DOMAIN offloads[y] :
         offloads[y][i] # l /\ offloads[y][i] \in Combiners
  BY <1>1, AtFacts DEF OffloadInv
<1>5. \A i \in DOMAIN offloads'[x] :
         \/ i \in DOMAIN offloads[x] /\ offloads'[x][i] = offloads[x][i]
         \/ i = Len(offloads[x]) + 1 /\ offloads'[x][i] = l
  BY <1>1, <1>3
<1> SUFFICES ASSUME NEW y \in Executors, NEW i \in DOMAIN offloads'[y]
             PROVE  /\ p[offloads'[y][i]] = At("offload", y)
                    /\ \A j \in DOMAIN offloads'[y] : offloads'[y][i] = offloads'[y][j] => i = j
  BY <1>3 DEF OffloadInv
<1>6. CASE y # x
  BY <1>3, <1>4, <1>6 DEF OffloadInv
<1>7. CASE y = x
  BY <1>4, <1>5, <1>7 DEF OffloadInv
<1> QED BY <1>6, <1>7

(* What the list operations do to the threads. *)
LEMMA PushTypes ==
    ASSUME TypeOK, NEW t \in Workers, NEW l \in Combiners, PushLast(t, l) \/ PushFirst(t, l)
    PROVE  /\ active' \in [Workers -> Combiners \cup {Null}]
           /\ lastOf' \in [Workers -> Combiners \cup {Null}]
           /\ nextCombiner' \in [Combiners -> Combiners \cup {Null}]
           /\ \A u \in Workers : u # t => active'[u] = active[u]
           /\ PushLast(t, l) /\ active[t] # Null => active'[t] = active[t]
<1>1. CASE PushLast(t, l)
  <2>1. CASE active[t] = Null
    BY <1>1, <2>1 DEF PushLast, TypeOK
  <2>2. CASE active[t] # Null
    <3>1. active' = active
      BY <1>1, <2>2 DEF PushLast
    <3>2. lastOf' \in [Workers -> Combiners \cup {Null}]
      BY <1>1 DEF PushLast, TypeOK
    <3>3. nextCombiner' = [nextCombiner EXCEPT ![l] = Null, ![lastOf[t]] = l]
      BY <1>1, <2>2 DEF PushLast
    <3>4. nextCombiner' \in [Combiners -> Combiners \cup {Null}]
      BY <3>3 DEF TypeOK
    <3> QED BY <3>1, <3>2, <3>4 DEF TypeOK
  <2> QED BY <2>1, <2>2
<1>2. CASE PushFirst(t, l) /\ ~PushLast(t, l)
  BY <1>2 DEF PushFirst, TypeOK
<1> QED BY <1>1, <1>2

(* The thread that adds the first item puts the combiner on its list. *)
LEMMA InitiateStep ==
    ASSUME IInv, NEW t \in Workers, Initiate(t)
    PROVE  IInv'
<1>u. /\ th[t].pc = "initiate" /\ initiating' = [initiating EXCEPT ![th[t].target] = t]
      /\ PushLast(t, th[t].target)
      /\ UNCHANGED <<queue, state, timeFinal, finalList, finished, offloads, objVars, cb,
                     ghost, failed>>
  BY DEF Initiate
<1>l. PICK l \in Combiners : l = th[t].target
  BY <1>u DEF IInv, TypeOK, ThreadType, PcInv, CallPcs
<1>g. Goes(t, "push", th[t].target, th[t].c, th[t].back, th[t].lock, th[t].cur)
  <2> DEFINE r == [th[t] EXCEPT !.pc = "push"]
  <2>1. /\ r \in ThreadType
        /\ r.pc = "push" /\ r.target = th[t].target /\ r.c = th[t].c
             /\ r.back = th[t].back /\ r.lock = th[t].lock /\ r.cur = th[t].cur
    BY <1>u DEF IInv, TypeOK, ThreadType, Pcs
  <2>2. th' = [th EXCEPT ![t] = r] /\ th \in [Workers -> ThreadType]
    BY DEF IInv, TypeOK, Initiate
  <2> HIDE DEF r
  <2>3. Goes(t, r.pc, r.target, r.c, r.back, r.lock, r.cur)
    BY <2>1, <2>2, Update
  <2> QED BY <2>1, <2>3
<1>a. /\ active' \in [Workers -> Combiners \cup {Null}]
      /\ lastOf' \in [Workers -> Combiners \cup {Null}]
      /\ nextCombiner' \in [Combiners -> Combiners \cup {Null}]
      /\ \A u \in Workers : u # t => active'[u] = active[u]
      /\ active[t] # Null => active'[t] = active[t]
  BY <1>u, <1>l, PushTypes DEF IInv
<1>1. TypeOK'
  <2>1. initiating' \in [Combiners -> Workers \cup {Null}]
    BY <1>u DEF IInv, TypeOK
  <2> QED BY <1>g, <1>u, <1>a, <2>1
             DEF IInv, TypeOK, QTypeOK, Goes, queue, ctxVars, lockVars, objVars, ghost
<1>2. PcInv'
  BY <1>g, <1>u, <1>a, CombinerAssumption DEF IInv, PcInv, Goes, CallPcs, TurnPcs
<1>3. RefInv'
  BY <1>g, <1>u, RefFrame DEF IInv, Goes, queue, ctxVars, lockVars, objVars, ghost
<1>4. TurnsInv'
  <2>1. PICK place \in [Combiners -> Places] : TurnInv(place) /\ ListInv(place)
    BY DEF IInv, TurnsInv
  <2>2. place[l] = At("initiate", t)
    BY <1>u, <1>l, <2>1 DEF TurnInv
  <2>3. PICK p \in [Combiners -> Places] :
          p[l] = At("list", t) /\ \A k \in Combiners : k # l => p[k] = place[k]
    <3>1. At("list", t) \in Places
      BY DEF At, Places
    <3> QED BY <3>1, NewPlace, ZenonT(30)
  <2>4. place[l].how \notin {"list", "none"}
    BY <2>2, AtFacts
  <2>5. ListInv(p)'
    <3>1. /\ active \in [Workers -> Combiners \cup {Null}]
          /\ lastOf \in [Workers -> Combiners \cup {Null}]
          /\ nextCombiner \in [Combiners -> Combiners \cup {Null}]
      BY DEF IInv, TypeOK
    <3> QED BY <1>l, <1>u, <2>1, <2>3, <2>4, <3>1, PushLastKeeps
  <2>6. OffloadInv(p)'
    <3>1. place[l].how # "offload" /\ offloads' = offloads
      BY <1>u, <2>2, AtFacts
    <3> QED BY <2>1, <2>3, <3>1, OffloadFrame DEF IInv, TurnInv
  <2>7. TurnInv(p)'
    <3>1. \A k \in Combiners : state'[k] = state[k]
      BY <1>u DEF lockVars
    <3>2. state[l] >= 2
      BY <2>1, <2>4 DEF TurnInv
    <3>3. \A u \in Workers : u # t => place[l] # At("initiate", u) /\ place[l] # At("repush", u)
      BY <2>2, AtFacts
    <3>4. /\ \A u \in Workers : u # t => th'[u] = th[u]
          /\ th'[t].pc \notin {"initiate", "repush"}
      BY <1>g DEF Goes
    <3>5. TypeOK /\ PcInv
      BY DEF IInv
    <3> QED BY <2>1, <2>3, <2>6, <3>1, <3>2, <3>3, <3>4, <3>5, TurnChange
  <2> QED BY <2>5, <2>7 DEF TurnsInv
<1>5. OpInv' /\ ChainInv'
  BY <1>g, <1>u, QueueFrame DEF IInv, Goes, queue, ctxVars, lockVars, objVars, ghost
<1>6. ClosureInv'
  BY <1>g, <1>u, ClosureFrame DEF IInv, Goes, AddPcs, queue, ctxVars, lockVars, objVars, ghost
<1>7. CountInv'
  BY <1>g, <1>u, CountFrame DEF IInv, Goes, AddPcs, queue, ctxVars, lockVars, objVars, ghost
<1>8. FinalInv'
  BY <1>g, <1>u, FinalFrame DEF IInv, Goes, queue, ctxVars, lockVars, objVars, ghost
<1>9. FreedInv'
  BY <1>g, <1>u, FreedFrame DEF IInv, Goes, queue, ctxVars, lockVars, objVars, ghost
<1> QED BY <1>1, <1>2, <1>3, <1>4, <1>5, <1>6, <1>7, <1>8, <1>9 DEF IInv

(* push_first_on_exec_ctx *)
LEMMA RepushStep ==
    ASSUME IInv, NEW t \in Workers, Repush(t)
    PROVE  IInv'
<1>u. /\ th[t].pc = "repush" /\ PushFirst(t, th[t].lock)
      /\ UNCHANGED <<queue, lockVars, finished, offloads, objVars, cb, ghost, failed>>
  BY DEF Repush
<1>l. PICK l \in Combiners : l = th[t].lock
  BY <1>u DEF IInv, TypeOK, ThreadType, PcInv, TurnPcs
<1>g. Goes(t, "flush", Null, Null, Null, Null, Null)
  <2>1. th' = [th EXCEPT ![t] = Rest("flush")] /\ th \in [Workers -> ThreadType]
    BY DEF IInv, TypeOK, Repush
  <2>2. "flush" \in Pcs
    BY DEF Pcs
  <2> QED BY <2>1, <2>2, RestFacts, Update
<1>a. /\ active' \in [Workers -> Combiners \cup {Null}]
      /\ lastOf' \in [Workers -> Combiners \cup {Null}]
      /\ nextCombiner' \in [Combiners -> Combiners \cup {Null}]
      /\ \A u \in Workers : u # t => active'[u] = active[u]
  BY <1>u, <1>l, PushTypes DEF IInv
<1>1. TypeOK'
  BY <1>g, <1>u, <1>a DEF IInv, TypeOK, QTypeOK, Goes, queue, lockVars, objVars, ghost
<1>2. PcInv'
  BY <1>g, <1>u, <1>a, CombinerAssumption DEF IInv, PcInv, Goes, CallPcs, TurnPcs
<1>3. RefInv'
  BY <1>g, <1>u, RefFrame DEF IInv, Goes, queue, ctxVars, lockVars, objVars, ghost
<1>4. TurnsInv'
  <2>1. PICK place \in [Combiners -> Places] : TurnInv(place) /\ ListInv(place)
    BY DEF IInv, TurnsInv
  <2>2. place[l] = At("repush", t)
    BY <1>u, <1>l, <2>1 DEF TurnInv
  <2>3. PICK p \in [Combiners -> Places] :
          p[l] = At("list", t) /\ \A k \in Combiners : k # l => p[k] = place[k]
    <3>1. At("list", t) \in Places
      BY DEF At, Places
    <3> QED BY <3>1, NewPlace, ZenonT(30)
  <2>4. place[l].how \notin {"list", "none"}
    BY <2>2, AtFacts
  <2>5. ListInv(p)'
    <3>1. /\ active \in [Workers -> Combiners \cup {Null}]
          /\ lastOf \in [Workers -> Combiners \cup {Null}]
          /\ nextCombiner \in [Combiners -> Combiners \cup {Null}]
      BY DEF IInv, TypeOK
    <3> QED BY <1>l, <1>u, <2>1, <2>3, <2>4, <3>1, PushFirstKeeps
  <2>6. OffloadInv(p)'
    <3>1. place[l].how # "offload" /\ offloads' = offloads
      BY <1>u, <2>2, AtFacts
    <3> QED BY <2>1, <2>3, <3>1, OffloadFrame DEF IInv, TurnInv
  <2>7. TurnInv(p)'
    <3>1. \A k \in Combiners : state'[k] = state[k]
      BY <1>u DEF lockVars
    <3>2. state[l] >= 2
      BY <2>1, <2>4 DEF TurnInv
    <3>3. \A u \in Workers : u # t => place[l] # At("initiate", u) /\ place[l] # At("repush", u)
      BY <2>2, AtFacts
    <3>4. /\ \A u \in Workers : u # t => th'[u] = th[u]
          /\ th'[t].pc \notin {"initiate", "repush"}
      BY <1>g DEF Goes
    <3>5. TypeOK /\ PcInv
      BY DEF IInv
    <3> QED BY <2>1, <2>3, <2>6, <3>1, <3>2, <3>3, <3>4, <3>5, TurnChange
  <2> QED BY <2>5, <2>7 DEF TurnsInv
<1>5. OpInv' /\ ChainInv'
  BY <1>g, <1>u, QueueFrame DEF IInv, Goes, queue, ctxVars, lockVars, objVars, ghost
<1>6. ClosureInv'
  BY <1>g, <1>u, ClosureFrame DEF IInv, Goes, AddPcs, queue, ctxVars, lockVars, objVars, ghost
<1>7. CountInv'
  BY <1>g, <1>u, CombinerAssumption, CountFrame
     DEF IInv, Goes, AddPcs, queue, ctxVars, lockVars, objVars, ghost
<1>8. FinalInv'
  BY <1>g, <1>u, FinalFrame DEF IInv, Goes, queue, ctxVars, lockVars, objVars, ghost
<1>9. FreedInv'
  BY <1>g, <1>u, FreedFrame DEF IInv, Goes, queue, ctxVars, lockVars, objVars, ghost
<1> QED BY <1>1, <1>2, <1>3, <1>4, <1>5, <1>6, <1>7, <1>8, <1>9 DEF IInv

(* A thread of the executor takes a combiner over. *)
LEMMA OffloadStep ==
    ASSUME IInv, NEW t \in Workers, Offload(t)
    PROVE  IInv'
<1>u. /\ t \in Executors /\ th[t].pc = "wait" /\ offloads[t] # <<>>
      /\ PushLast(t, Head(offloads[t])) /\ offloads' = [offloads EXCEPT ![t] = Tail(@)]
      /\ UNCHANGED <<queue, lockVars, finished, objVars, cb, ghost, failed>>
  BY DEF Offload
<1>l. PICK l \in Combiners : l = Head(offloads[t])
  <2>1. offloads[t] \in Seq(Combiners)
    BY <1>u DEF IInv, TypeOK
  <2> QED BY <1>u, <2>1
<1>g. Goes(t, "flush", th[t].target, th[t].c, th[t].back, th[t].lock, th[t].cur)
  <2> DEFINE r == [th[t] EXCEPT !.pc = "flush"]
  <2>1. /\ r \in ThreadType
        /\ r.pc = "flush" /\ r.target = th[t].target /\ r.c = th[t].c
             /\ r.back = th[t].back /\ r.lock = th[t].lock /\ r.cur = th[t].cur
    BY <1>u DEF IInv, TypeOK, ThreadType, Pcs
  <2>2. th' = [th EXCEPT ![t] = r] /\ th \in [Workers -> ThreadType]
    BY DEF IInv, TypeOK, Offload
  <2> HIDE DEF r
  <2>3. Goes(t, r.pc, r.target, r.c, r.back, r.lock, r.cur)
    BY <2>1, <2>2, Update
  <2> QED BY <2>1, <2>3
<1>a. /\ active' \in [Workers -> Combiners \cup {Null}]
      /\ lastOf' \in [Workers -> Combiners \cup {Null}]
      /\ nextCombiner' \in [Combiners -> Combiners \cup {Null}]
      /\ \A u \in Workers : u # t => active'[u] = active[u]
  BY <1>u, <1>l, PushTypes DEF IInv
<1>o. offloads' \in [Executors -> Seq(Combiners)]
  <2>1. Tail(offloads[t]) \in Seq(Combiners)
    BY <1>u DEF IInv, TypeOK
  <2> QED BY <1>u, <2>1 DEF IInv, TypeOK
<1>1. TypeOK'
  BY <1>g, <1>u, <1>a, <1>o DEF IInv, TypeOK, QTypeOK, Goes, queue, lockVars, objVars, ghost
<1>2. PcInv'
  BY <1>g, <1>u, <1>a, CombinerAssumption DEF IInv, PcInv, Goes, CallPcs, TurnPcs
<1>3. RefInv'
  BY <1>g, <1>u, RefFrame DEF IInv, Goes, queue, ctxVars, lockVars, objVars, ghost
<1>4. TurnsInv'
  <2>1. PICK place \in [Combiners -> Places] : TurnInv(place) /\ ListInv(place)
    BY DEF IInv, TurnsInv
  <2>2. place[l] = At("offload", t)
    <3>1. 1 \in DOMAIN offloads[t] /\ Head(offloads[t]) = offloads[t][1]
      BY <1>u DEF IInv, TypeOK
    <3> QED BY <1>u, <1>l, <2>1, <3>1 DEF TurnInv, OffloadInv
  <2>3. PICK p \in [Combiners -> Places] :
          p[l] = At("list", t) /\ \A k \in Combiners : k # l => p[k] = place[k]
    <3>1. At("list", t) \in Places
      BY DEF At, Places
    <3> QED BY <3>1, NewPlace, ZenonT(30)
  <2>4. place[l].how \notin {"list", "none"}
    BY <2>2, AtFacts
  <2>5. ListInv(p)'
    <3>1. /\ active \in [Workers -> Combiners \cup {Null}]
          /\ lastOf \in [Workers -> Combiners \cup {Null}]
          /\ nextCombiner \in [Combiners -> Combiners \cup {Null}]
      BY DEF IInv, TypeOK
    <3> QED BY <1>l, <1>u, <2>1, <2>3, <2>4, <3>1, PushLastKeeps
  <2>6. OffloadInv(p)'
    BY <1>u, <1>l, <2>1, <2>3, OffloadTail DEF IInv, TurnInv
  <2>7. TurnInv(p)'
    <3>1. \A k \in Combiners : state'[k] = state[k]
      BY <1>u DEF lockVars
    <3>2. state[l] >= 2
      BY <2>1, <2>4 DEF TurnInv
    <3>3. \A u \in Workers : u # t => place[l] # At("initiate", u) /\ place[l] # At("repush", u)
      BY <2>2, AtFacts
    <3>4. /\ \A u \in Workers : u # t => th'[u] = th[u]
          /\ th'[t].pc \notin {"initiate", "repush"}
      BY <1>g DEF Goes
    <3>5. TypeOK /\ PcInv
      BY DEF IInv
    <3> QED BY <2>1, <2>3, <2>6, <3>1, <3>2, <3>3, <3>4, <3>5, TurnChange
  <2> QED BY <2>5, <2>7 DEF TurnsInv
<1>5. OpInv' /\ ChainInv'
  BY <1>g, <1>u, QueueFrame DEF IInv, Goes, queue, ctxVars, lockVars, objVars, ghost
<1>6. ClosureInv'
  BY <1>g, <1>u, ClosureFrame DEF IInv, Goes, AddPcs, queue, ctxVars, lockVars, objVars, ghost
<1>7. CountInv'
  BY <1>g, <1>u, CountFrame DEF IInv, Goes, AddPcs, queue, ctxVars, lockVars, objVars, ghost
<1>8. FinalInv'
  BY <1>g, <1>u, FinalFrame DEF IInv, Goes, queue, ctxVars, lockVars, objVars, ghost
<1>9. FreedInv'
  BY <1>g, <1>u, FreedFrame DEF IInv, Goes, queue, ctxVars, lockVars, objVars, ghost
<1> QED BY <1>1, <1>2, <1>3, <1>4, <1>5, <1>6, <1>7, <1>8, <1>9 DEF IInv

(* queue_offload hands the turn to the executor. *)
LEMMA QueueOffloadTurns ==
    ASSUME IInv, NEW t \in Workers, NEW l \in Combiners, l = active[t], QueueOffload(t),
           UNCHANGED state, \A u \in Workers : u # t => th'[u] = th[u],
           th'[t].pc \notin {"initiate", "repush"}
    PROVE  /\ TurnsInv' /\ active' \in [Workers -> Combiners \cup {Null}]
           /\ lastOf' \in [Workers -> Combiners \cup {Null}]
           /\ nextCombiner' \in [Combiners -> Combiners \cup {Null}]
           /\ offloads' \in [Executors -> Seq(Combiners)]
           /\ \A u \in Workers : u # t => active'[u] = active[u]
<1>1. PICK place \in [Combiners -> Places] : TurnInv(place) /\ ListInv(place)
  BY DEF IInv, TurnsInv
<1>2. PICK x \in Executors : offloads' = [offloads EXCEPT ![x] = Append(@, l)]
  BY DEF QueueOffload
<1>3. PICK p \in [Combiners -> Places] :
        p[l] = At("offload", x) /\ \A k \in Combiners : k # l => p[k] = place[k]
  <2>1. At("offload", x) \in Places
    BY DEF At, Places, Workers
  <2>2. \E p \in [Combiners -> Places] :
           p[l] = At("offload", x) /\ \A k \in Combiners : k # l => p[k] = place[k]
    BY ONLY <2>1, NewPlace, place \in [Combiners -> Places], l \in Combiners, ZenonT(30)
  <2> QED BY <2>2
<1>4. /\ ListInv(p)' /\ place[l] = At("list", t)
      /\ active' \in [Workers -> Combiners \cup {Null}]
      /\ lastOf' \in [Workers -> Combiners \cup {Null}]
      /\ nextCombiner' = nextCombiner /\ \A u \in Workers : u # t => active'[u] = active[u]
  <2>1. /\ active \in [Workers -> Combiners \cup {Null}]
        /\ lastOf \in [Workers -> Combiners \cup {Null}]
        /\ nextCombiner \in [Combiners -> Combiners \cup {Null}]
    BY DEF IInv, TypeOK
  <2>2. p[l].how # "list" /\ MoveNext(t)
    BY <1>3, AtFacts DEF QueueOffload
  <2> QED BY <1>1, <1>3, <2>1, <2>2, MoveNextKeeps
<1>5. place[l].how = "list"
  BY <1>4, AtFacts
<1>6. OffloadInv(p)' /\ offloads' \in [Executors -> Seq(Combiners)]
  <2>1. TypeOK /\ OffloadInv(place) /\ place[l].how # "offload"
    BY <1>1, <1>5 DEF IInv, TurnInv
  <2>2. x \in Executors /\ Offloads(x, l)
    BY <1>2 DEF Offloads
  <2> QED BY <1>3, <2>1, <2>2, OffloadAppend
<1>7. TurnInv(p)'
  <2>1. \A k \in Combiners : state'[k] = state[k]
    OBVIOUS
  <2>2. state[l] >= 2
    BY <1>1, <1>5 DEF TurnInv
  <2>3. \A u \in Workers : u # t => place[l] # At("initiate", u) /\ place[l] # At("repush", u)
    BY <1>4, AtFacts
  <2>4. TypeOK /\ PcInv
    BY DEF IInv
  <2> QED BY <1>1, <1>3, <1>6, <2>1, <2>2, <2>3, <2>4, TurnChange
<1> QED BY <1>4, <1>6, <1>7 DEF TurnsInv, IInv, TypeOK

(* grpc_combiner_continue_exec_ctx: nothing to do, a turn begins, or it goes to the executor. *)
LEMMA ContinueStep ==
    ASSUME IInv, NEW t \in Workers, Continue(t)
    PROVE  IInv'
<1>u. th[t].pc = "flush" /\ UNCHANGED <<queue, lockVars, objVars, cb, ghost, failed>>
  BY DEF Continue
<1>n. th[t].lock = Null /\ th[t].back = Null /\ th[t].cur = Null
  BY <1>u, CombinerAssumption DEF IInv, PcInv, CallPcs, TurnPcs
<1>f. finished' \in [Workers -> BOOLEAN]
  BY DEF Continue, ReadyToFinish, IInv, TypeOK
<1>c. /\ RefInv /\ ClosureInv /\ CountInv /\ FinalInv /\ FreedInv /\ OpInv /\ ChainInv
      /\ TurnsInv /\ TypeOK /\ PcInv
  BY DEF IInv
<1>1. ASSUME UNCHANGED <<ctxVars, offloads>>,
             NEW pc \in {"api", "wait", "peek", "pop"}, NEW l \in Combiners \cup {Null},
             th' = [th EXCEPT ![t] = [th[t] EXCEPT !.pc = pc, !.lock = l]],
             l = Null <=> pc \in {"api", "wait"}, l = active[t],
             pc = "peek" => timeFinal[l]
      PROVE  IInv'
  <2>g. Goes(t, pc, th[t].target, th[t].c, th[t].back, l, th[t].cur)
    <3> DEFINE r == [th[t] EXCEPT !.pc = pc, !.lock = l]
    <3>0. th[t] \in ThreadType /\ th \in [Workers -> ThreadType]
      BY DEF IInv, TypeOK
    <3>1. /\ r \in ThreadType
          /\ r.pc = pc /\ r.target = th[t].target /\ r.c = th[t].c
          /\ r.back = th[t].back /\ r.lock = l /\ r.cur = th[t].cur
      BY <3>0 DEF ThreadType, Pcs
    <3>2. th' = [th EXCEPT ![t] = r]
      BY <1>1
    <3> HIDE DEF r
    <3>3. Goes(t, r.pc, r.target, r.c, r.back, r.lock, r.cur)
      BY <3>0, <3>1, <3>2, Update
    <3> QED BY <3>1, <3>3
  <2>1. TypeOK'
    BY <1>1, <1>u, <1>f, <2>g
       DEF IInv, TypeOK, QTypeOK, Goes, queue, ctxVars, lockVars, objVars, ghost
  <2>2. PcInv'
    BY <1>1, <1>u, <1>n, <2>g, CombinerAssumption
       DEF IInv, PcInv, Goes, CallPcs, TurnPcs, ctxVars
  <2>3. RefInv'
    BY <1>u, <1>c, <2>g, RefFrame DEF Goes, lockVars, objVars
  <2>4. TurnsInv'
    BY <1>1, <1>u, <1>c, <2>g, TurnFrame DEF TypeOK, Goes, lockVars
  <2>5. OpInv' /\ ChainInv'
    BY <1>u, <1>c, <2>g, QueueFrame DEF Goes, ghost
  <2>6. ClosureInv'
    BY <1>u, <1>c, <2>g, ClosureFrame DEF Goes, AddPcs, ghost
  <2>7. CountInv'
    <3>1. \A k \in Combiners : k # Null
      BY CombinerAssumption
    <3> QED BY <1>1, <1>u, <1>c, <1>n, <2>g, <3>1, CountFrame DEF Goes, AddPcs, ghost, lockVars
  <2>8. FinalInv'
    <3>1. \A k \in Combiners : Running(k) => Running(k)'
      <4>1. \A k \in Combiners : k # Null
        BY CombinerAssumption
      <4> QED BY <1>u, <1>n, <2>g, <4>1 DEF Running, Goes
    <3>2. \A u \in Workers : th'[u].pc = "peek" => timeFinal'[th'[u].lock]
      BY <1>1, <1>u, <1>c, <2>g DEF FinalInv, Goes, lockVars
    <3> QED BY <1>u, <1>c, <3>1, <3>2 DEF FinalInv, lockVars
  <2>9. FreedInv'
    BY <1>u, <1>c, FreedFrame DEF lockVars, objVars
  <2> QED BY <2>1, <2>2, <2>3, <2>4, <2>5, <2>6, <2>7, <2>8, <2>9 DEF IInv
<1>2. CASE active[t] = Null
  <2>1. /\ UNCHANGED <<ctxVars, offloads>>
        /\ th' = [th EXCEPT ![t].pc = IF t \in Apps THEN "api" ELSE "wait"]
    BY <1>2 DEF Continue
  <2>2. PICK pc \in {"api", "wait"} : pc = IF t \in Apps THEN "api" ELSE "wait"
    OBVIOUS
  <2>3. th' = [th EXCEPT ![t] = [th[t] EXCEPT !.pc = pc, !.lock = Null]]
    <3>1. th[t] \in ThreadType /\ th \in [Workers -> ThreadType]
      BY DEF IInv, TypeOK
    <3>2. [th[t] EXCEPT !.pc = pc] = [th[t] EXCEPT !.pc = pc, !.lock = Null]
      BY <1>n, <3>1 DEF ThreadType
    <3>3. th' = [th EXCEPT ![t] = [th[t] EXCEPT !.pc = pc]]
      BY <2>1, <2>2, <3>1
    <3> QED BY <3>2, <3>3
  <2> QED BY <1>1, <1>2, <2>1, <2>3
<1>3. CASE active[t] # Null
  <2>l. PICK l \in Combiners : l = active[t]
    BY <1>3 DEF IInv, TypeOK
  <2>1. CASE th' # th
    <3>1. /\ th' = [th EXCEPT ![t] = [@ EXCEPT !.pc = IF timeFinal[l] THEN "peek" ELSE "pop",
                                               !.lock = l]]
          /\ UNCHANGED <<ctxVars, offloads>>
      BY <1>3, <2>1, <2>l DEF Continue
    <3>2. PICK pc \in {"peek", "pop"} : pc = IF timeFinal[l] THEN "peek" ELSE "pop"
      OBVIOUS
    <3>3. l # Null
      BY CombinerAssumption
    <3>4. th' = [th EXCEPT ![t] = [th[t] EXCEPT !.pc = pc, !.lock = l]]
      BY <3>1, <3>2
    <3> QED BY <1>1, <2>l, <3>1, <3>2, <3>3, <3>4
  <2>2. CASE th' = th
    <3>1. QueueOffload(t)
      <4>1. ASSUME NEW pc \in {"peek", "pop"},
                   th' = [th EXCEPT ![t] = [@ EXCEPT !.pc = pc, !.lock = l]]
            PROVE  FALSE
        <5>1. th[t] \in ThreadType /\ th \in [Workers -> ThreadType]
          BY DEF IInv, TypeOK
        <5>2. [th[t] EXCEPT !.pc = pc, !.lock = l].pc = pc
          BY <5>1 DEF ThreadType
        <5>3. th'[t] = [th[t] EXCEPT !.pc = pc, !.lock = l]
          BY <4>1, <5>1
        <5> QED BY <1>u, <2>2, <5>2, <5>3
      <4>2. PICK pc \in {"peek", "pop"} : pc = IF timeFinal[l] THEN "peek" ELSE "pop"
        OBVIOUS
      <4>3. th' # [th EXCEPT ![t] = [@ EXCEPT !.pc = pc, !.lock = l]]
        BY <4>1
      <4> QED BY <1>3, <2>l, <4>2, <4>3 DEF Continue
    <3>2. /\ TurnsInv' /\ active' \in [Workers -> Combiners \cup {Null}]
          /\ lastOf' \in [Workers -> Combiners \cup {Null}]
          /\ nextCombiner' \in [Combiners -> Combiners \cup {Null}]
          /\ offloads' \in [Executors -> Seq(Combiners)]
          /\ \A u \in Workers : u # t => active'[u] = active[u]
      <4>1. UNCHANGED state
        BY <1>u DEF lockVars
      <4> QED BY <1>u, <2>2, <2>l, <3>1, <4>1, QueueOffloadTurns
    <3>3. TypeOK'
      BY <1>u, <1>f, <2>2, <3>2 DEF IInv, TypeOK, QTypeOK, queue, lockVars, objVars, ghost
    <3>4. PcInv'
      BY <1>n, <2>2, <3>2 DEF IInv, PcInv
    <3>5. RefInv'
      BY <1>u, <1>c, <2>2, RefFrame DEF lockVars, objVars
    <3>6. OpInv' /\ ChainInv'
      BY <1>u, <1>c, <2>2, QueueFrame DEF ghost
    <3>7. ClosureInv'
      BY <1>u, <1>c, <2>2, ClosureFrame DEF ghost
    <3>8. CountInv'
      BY <1>u, <1>c, <2>2, CountFrame DEF ghost, lockVars
    <3>9. FinalInv'
      BY <1>u, <1>c, <2>2, FinalFrame DEF lockVars
    <3>10. FreedInv'
      BY <1>u, <1>c, FreedFrame DEF lockVars, objVars
    <3> QED BY <3>2, <3>3, <3>4, <3>5, <3>6, <3>7, <3>8, <3>9, <3>10 DEF IInv
  <2> QED BY <2>1, <2>2
<1> QED BY <1>2, <1>3

(* What push and pop are doing, after a step of one thread. *)
LEMMA OpOthers ==
    ASSUME IInv, NEW t \in Workers,
           \A u \in Workers : u # t => th'[u] = th[u] /\ op'[u] = op[u],
           \A u \in Workers : u # t /\ th[u].pc = "popping" =>
              /\ tail'[th[u].lock] = tail[th[u].lock]
              /\ fifo[th[u].lock] # <<>> => /\ fifo'[th[u].lock] # <<>>
                                            /\ Head(fifo'[th[u].lock]) = Head(fifo[th[u].lock]),
           th'[t].pc = "link" =>
              op'[t].pc = "link" /\ op'[t].q = th'[t].target /\ op'[t].n = th'[t].c,
           th'[t].pc = "popping" =>
              /\ op'[t].q = th'[t].lock
              /\ \/ /\ op'[t].pc \in {"reload", "head", "stub", "link", "last"}
                    /\ op'[t].tail = tail'[op'[t].q] /\ op'[t].tail \in Closures
                    /\ op'[t].pc = "link" => op'[t].n = op'[t].q
                 \/ /\ op'[t].pc = "popped"
                    /\ op'[t].n # Null => /\ fifo'[op'[t].q] # <<>>
                                          /\ op'[t].n = Head(fifo'[op'[t].q]),
           th'[t].pc \notin {"link", "popping"} => op'[t].pc = "idle"
    PROVE  OpInv'
<1> SUFFICES ASSUME NEW u \in Workers
             PROVE  /\ th'[u].pc = "link" =>
                          op'[u].pc = "link" /\ op'[u].q = th'[u].target /\ op'[u].n = th'[u].c
                    /\ th'[u].pc = "popping" =>
                          /\ op'[u].q = th'[u].lock
                          /\ \/ /\ op'[u].pc \in {"reload", "head", "stub", "link", "last"}
                                /\ op'[u].tail = tail'[op'[u].q] /\ op'[u].tail \in Closures
                                /\ op'[u].pc = "link" => op'[u].n = op'[u].q
                             \/ /\ op'[u].pc = "popped"
                                /\ op'[u].n # Null => /\ fifo'[op'[u].q] # <<>>
                                                      /\ op'[u].n = Head(fifo'[op'[u].q])
                    /\ th'[u].pc \notin {"link", "popping"} => op'[u].pc = "idle"
  BY DEF OpInv
<1>1. CASE u = t
  BY <1>1
<1>2. CASE u # t
  BY <1>2 DEF IInv, OpInv
<1> QED BY <1>1, <1>2

(* pop found nothing: the turn goes to the executor. *)
LEMMA PopFailedStep ==
    ASSUME IInv, NEW t \in Workers, PopFailed(t)
    PROVE  IInv'
<1>u. /\ th[t].pc = "popping" /\ op[t].pc = "popped" /\ op[t].n = Null /\ QueueOffload(t)
      /\ op' = [op EXCEPT ![t] = IdleOp]
      /\ UNCHANGED <<head, tail, next, lockVars, finished, objVars, cb, ghost, failed>>
  BY DEF PopFailed
<1>l. PICK l \in Combiners : l = th[t].lock /\ l = active[t]
  BY <1>u DEF IInv, TypeOK, ThreadType, PcInv, TurnPcs
<1>g. Goes(t, "flush", Null, Null, Null, Null, Null)
  <2>1. th' = [th EXCEPT ![t] = Rest("flush")] /\ th \in [Workers -> ThreadType]
    BY DEF IInv, TypeOK, PopFailed
  <2>2. "flush" \in Pcs
    BY DEF Pcs
  <2> QED BY <2>1, <2>2, RestFacts, Update
<1>i. /\ op' \in [Workers -> [pc : {"idle", "link", "reload", "head", "stub", "last", "popped"},
                           q : Combiners \cup {Null}, n : Slots \cup {Null},
                           prev : Slots \cup {Null}, tail : Slots \cup {Null}]]
      /\ op'[t].pc = "idle" /\ \A u \in Workers : u # t => op'[u] = op[u]
  <2>1. /\ IdleOp \in [pc : {"idle", "link", "reload", "head", "stub", "last", "popped"},
                       q : Combiners \cup {Null}, n : Slots \cup {Null},
                       prev : Slots \cup {Null}, tail : Slots \cup {Null}]
        /\ IdleOp.pc = "idle"
    BY DEF IdleOp
  <2>2. op' = [op EXCEPT ![t] = IdleOp]
        /\ op \in [Workers -> [pc : {"idle", "link", "reload", "head", "stub", "last", "popped"},
                           q : Combiners \cup {Null}, n : Slots \cup {Null},
                           prev : Slots \cup {Null}, tail : Slots \cup {Null}]]
    BY <1>u DEF IInv, TypeOK, QTypeOK
  <2> QED BY <2>1, <2>2
<1>a. /\ TurnsInv' /\ active' \in [Workers -> Combiners \cup {Null}]
      /\ lastOf' \in [Workers -> Combiners \cup {Null}]
      /\ nextCombiner' \in [Combiners -> Combiners \cup {Null}]
      /\ offloads' \in [Executors -> Seq(Combiners)]
      /\ \A u \in Workers : u # t => active'[u] = active[u]
  <2>1. /\ UNCHANGED state /\ \A u \in Workers : u # t => th'[u] = th[u]
        /\ th'[t].pc \notin {"initiate", "repush"}
    BY <1>u, <1>g DEF Goes, lockVars
  <2> QED BY <1>u, <1>l, <2>1, QueueOffloadTurns
<1>k. \A k \in Combiners : k # Null
  BY CombinerAssumption
<1>1. TypeOK'
  BY <1>g, <1>u, <1>a, <1>i DEF IInv, TypeOK, QTypeOK, Goes, lockVars, objVars, ghost
<1>2. PcInv'
  BY <1>g, <1>u, <1>a, CombinerAssumption DEF IInv, PcInv, Goes, CallPcs, TurnPcs
<1>3. RefInv'
  BY <1>g, <1>u, RefFrame DEF IInv, Goes, queue, ctxVars, lockVars, objVars, ghost
<1>4. TurnsInv'
  BY <1>a
<1>5. OpInv'
  <2>1. \A u \in Workers : u # t => th'[u] = th[u] /\ op'[u] = op[u]
    BY <1>g, <1>i DEF Goes
  <2>2. tail' = tail /\ fifo' = fifo
    BY <1>u DEF ghost
  <2>3. th'[t].pc = "flush"
    BY <1>g DEF Goes
  <2> QED BY <1>i, <2>1, <2>2, <2>3, OpOthers
<1>6. ClosureInv'
  BY <1>g, <1>u, ClosureFrame DEF IInv, Goes, AddPcs, queue, ctxVars, lockVars, objVars, ghost
<1>7. ChainInv'
  <2>1. \A q \in Combiners : PoppedFrom(q)' <=> PoppedFrom(q)
    BY <1>u, <1>i DEF PoppedFrom
  <2>2. \A q \in Combiners : Queued(q)' = Queued(q)
    BY <1>u, <2>1 DEF Queued, ghost
  <2> QED BY <1>u, <1>i, <2>2, PopKeepsQueues
<1>8. CountInv'
  BY <1>g, <1>u, <1>k, CountFrame DEF IInv, Goes, AddPcs, lockVars, ghost
<1>9. FinalInv'
  BY <1>g, <1>u, FinalFrame DEF IInv, Goes, queue, ctxVars, lockVars, objVars, ghost
<1>10. FreedInv'
  BY <1>g, <1>u, FreedFrame DEF IInv, Goes, queue, ctxVars, lockVars, objVars, ghost
<1> QED BY <1>1, <1>2, <1>3, <1>4, <1>5, <1>6, <1>7, <1>8, <1>9, <1>10 DEF IInv

(* gpr_mpscq_push up to the exchange *)
LEMMA PushStep ==
    ASSUME IInv, NEW t \in Workers, Push(t)
    PROVE  IInv'
<1>u. /\ th[t].pc = "push" /\ PushXchg(t, th[t].target, th[t].c)
      /\ fifo' = [fifo EXCEPT ![th[t].target] = Append(@, th[t].c)]
      /\ UNCHANGED <<lockVars, ctxVars, finished, offloads, objVars, cb, status, failed>>
  BY DEF Push
<1>l. PICK l \in Combiners, n \in Closures : l = th[t].target /\ n = th[t].c
  BY <1>u DEF IInv, TypeOK, ThreadType, PcInv, CallPcs
<1>g. Goes(t, "link", th[t].target, th[t].c, th[t].back, th[t].lock, th[t].cur)
  <2> DEFINE r == [th[t] EXCEPT !.pc = "link"]
  <2>1. /\ r \in ThreadType
        /\ r.pc = "link" /\ r.target = th[t].target /\ r.c = th[t].c
             /\ r.back = th[t].back /\ r.lock = th[t].lock /\ r.cur = th[t].cur
    BY <1>u DEF IInv, TypeOK, ThreadType, Pcs
  <2>2. th' = [th EXCEPT ![t] = r] /\ th \in [Workers -> ThreadType]
    BY DEF IInv, TypeOK, Push
  <2> HIDE DEF r
  <2>3. Goes(t, r.pc, r.target, r.c, r.back, r.lock, r.cur)
    BY <2>1, <2>2, Update
  <2> QED BY <2>1, <2>3
<1>x. PushXchg(t, l, n) /\ fifo' = [fifo EXCEPT ![l] = Append(@, n)]
  BY <1>u, <1>l
<1>f. /\ fifo' \in [Combiners -> Seq(Closures)] /\ fifo[l] \in Seq(Closures)
      /\ fifo'[l] = Append(fifo[l], n) /\ Len(fifo'[l]) = Len(fifo[l]) + 1
      /\ \A i \in DOMAIN fifo'[l] : \/ i \in DOMAIN fifo[l] /\ fifo'[l][i] = fifo[l][i]
                                    \/ i = Len(fifo[l]) + 1 /\ fifo'[l][i] = n
      /\ fifo[l] # <<>> => fifo'[l] # <<>> /\ Head(fifo'[l]) = Head(fifo[l])
      /\ \A k \in Combiners : k # l => fifo'[k] = fifo[k]
  <2>1. fifo[l] \in Seq(Closures) /\ Append(fifo[l], n) \in Seq(Closures)
    BY DEF IInv, TypeOK
  <2>2. fifo' \in [Combiners -> Seq(Closures)] /\ fifo'[l] = Append(fifo[l], n)
        /\ \A k \in Combiners : k # l => fifo'[k] = fifo[k]
    BY <1>x, <2>1 DEF IInv, TypeOK
  <2> QED BY <2>1, <2>2
<1>i. /\ QTypeOK' /\ tail' = tail /\ op[t].pc = "idle"
      /\ op'[t].pc = "link" /\ op'[t].q = l /\ op'[t].n = n
      /\ \A u \in Workers : u # t => op'[u] = op[u]
  <2> DEFINE r == [op[t] EXCEPT !.pc = "link", !.q = l, !.n = n, !.prev = head[l]]
  <2>0. QTypeOK /\ n \in Slots /\ head[l] \in Slots
    BY DEF IInv, TypeOK, QTypeOK, Slots
  <2>1. /\ r \in [pc : {"idle", "link", "reload", "head", "stub", "last", "popped"},
                  q : Combiners \cup {Null}, n : Slots \cup {Null},
                  prev : Slots \cup {Null}, tail : Slots \cup {Null}]
        /\ r.pc = "link" /\ r.q = l /\ r.n = n
    BY <2>0 DEF QTypeOK
  <2>2. op' = [op EXCEPT ![t] = r] /\ tail' = tail /\ op[t].pc = "idle"
        /\ head' = [head EXCEPT ![l] = n] /\ next' = [next EXCEPT ![n] = Null]
    BY <1>x DEF PushXchg
  <2> HIDE DEF r
  <2>3. QTypeOK'
    BY <2>0, <2>1, <2>2 DEF QTypeOK
  <2> QED BY <2>0, <2>1, <2>2, <2>3 DEF QTypeOK
<1>1. TypeOK'
  BY <1>g, <1>u, <1>f, <1>i DEF IInv, TypeOK, Goes, lockVars, objVars, ctxVars
<1>2. PcInv'
  BY <1>g, <1>u, CombinerAssumption DEF IInv, PcInv, Goes, CallPcs, TurnPcs, ctxVars
<1>3. RefInv'
  BY <1>g, <1>u, RefFrame DEF IInv, Goes, queue, ctxVars, lockVars, objVars, ghost
<1>4. TurnsInv'
  BY <1>g, <1>u, TurnFrame DEF IInv, TypeOK, Goes, queue, ctxVars, lockVars, objVars, ghost
<1>5. OpInv'
  <2>1. \A u \in Workers : u # t => th'[u] = th[u] /\ op'[u] = op[u]
    BY <1>g, <1>i DEF Goes
  <2>2. \A k \in Combiners : fifo[k] # <<>> => fifo'[k] # <<>> /\ Head(fifo'[k]) = Head(fifo[k])
    BY <1>f
  <2>3. \A u \in Workers : th[u].pc = "popping" => th[u].lock \in Combiners
    BY DEF IInv, TypeOK, ThreadType, PcInv, TurnPcs
  <2>4. th'[t].pc = "link" /\ th'[t].target = l /\ th'[t].c = n
    BY <1>g, <1>l DEF Goes
  <2> QED BY <1>i, <2>1, <2>2, <2>3, <2>4, OpOthers
<1>6. ClosureInv'
  <2>1. \A u \in Workers : th'[u].pc \in AddPcs => u # t /\ th'[u] = th[u]
    BY <1>g DEF Goes, AddPcs
  <2>2. /\ status[n] # "new"
        /\ \A u \in Workers : th[u].pc \in AddPcs /\ th[u].c = n => u = t
        /\ \A q \in Combiners : \A i \in DOMAIN fifo[q] : fifo[q][i] # n
    BY <1>u, <1>l DEF IInv, ClosureInv, AddPcs
  <2>3. \A q \in Combiners : \A i \in DOMAIN fifo'[q] :
           \/ i \in DOMAIN fifo[q] /\ fifo'[q][i] = fifo[q][i]
           \/ q = l /\ i = Len(fifo[l]) + 1 /\ fifo'[q][i] = n
    BY <1>f
  <2>4. ASSUME NEW q \in Combiners, NEW i \in DOMAIN fifo'[q]
        PROVE  /\ status[fifo'[q][i]] # "new"
               /\ \A p \in Combiners : \A j \in DOMAIN fifo'[p] :
                     fifo'[q][i] = fifo'[p][j] => q = p /\ i = j
    <3>1. status[fifo'[q][i]] # "new"
      BY <2>2, <2>3, <2>4 DEF IInv, ClosureInv
    <3>2. ASSUME NEW p \in Combiners, NEW j \in DOMAIN fifo'[p], fifo'[q][i] = fifo'[p][j]
          PROVE  q = p /\ i = j
      <4>1. CASE i \in DOMAIN fifo[q] /\ fifo'[q][i] = fifo[q][i]
        <5>1. fifo'[p][j] # n
          BY <2>2, <3>2, <4>1
        <5>2. j \in DOMAIN fifo[p] /\ fifo'[p][j] = fifo[p][j]
          BY <2>3, <5>1
        <5>3. fifo[q][i] = fifo[p][j]
          BY <3>2, <4>1, <5>2
        <5>4. ClosureInv
          BY DEF IInv
        <5> QED BY <4>1, <5>2, <5>3, <5>4 DEF ClosureInv
      <4>2. CASE q = l /\ i = Len(fifo[l]) + 1 /\ fifo'[q][i] = n
        <5>1. ~(j \in DOMAIN fifo[p] /\ fifo'[p][j] = fifo[p][j])
          BY <2>2, <3>2, <4>2
        <5> QED BY <2>3, <4>2, <5>1
      <4> QED BY <2>3, <4>1, <4>2
    <3> QED BY <3>1, <3>2
  <2>5. ASSUME NEW u \in Workers, th'[u].pc \in AddPcs
        PROVE  /\ status[th'[u].c] # "new"
               /\ \A v \in Workers : th'[v].pc \in AddPcs /\ th'[v].c = th'[u].c => v = u
               /\ \A q \in Combiners : \A i \in DOMAIN fifo'[q] : fifo'[q][i] # th'[u].c
    <3>1. u # t /\ th'[u] = th[u] /\ th[u].pc \in AddPcs /\ th[u].c # n
      BY <2>1, <2>2, <2>5
    <3>2. status[th[u].c] # "new"
          /\ \A q \in Combiners : \A i \in DOMAIN fifo'[q] : fifo'[q][i] # th[u].c
      BY <2>3, <3>1 DEF IInv, ClosureInv
    <3>3. \A v \in Workers : th'[v].pc \in AddPcs /\ th'[v].c = th'[u].c => v = u
      BY <2>1, <3>1 DEF IInv, ClosureInv
    <3> QED BY <3>1, <3>2, <3>3
  <2> QED BY <1>u, <2>4, <2>5 DEF ClosureInv
<1>7. ChainInv'
  BY <1>u, <1>l, <1>x, PushKeepsChains
<1>8. CountInv'
  <2>1. \A k \in Combiners : k # l => Adding(k)' = Adding(k)
    BY <1>g, <1>u, <1>l DEF Adding, Goes, AddPcs
  <2>2. Adding(l)' = Adding(l) \ {t} /\ t \in Adding(l)
    BY <1>g, <1>u, <1>l DEF Adding, Goes, AddPcs
  <2>3. \A k \in Combiners : Running(k)' <=> Running(k)
    BY <1>g, <1>u DEF Running, Goes
  <2>4. IsFiniteSet(Adding(l)) /\ Cardinality(Adding(l)) \in Nat /\ Len(fifo[l]) \in Nat
    BY CountedFacts
  <2>5. Cardinality(Adding(l)') = Cardinality(Adding(l)) - 1
    BY <2>2, <2>4, FS_RemoveElement
  <2>6. state' = state /\ finalList' = finalList
    BY <1>u DEF lockVars
  <2> SUFFICES ASSUME NEW k \in Combiners
               PROVE  state'[k] \div 2 = Cardinality(Adding(k)') + Len(fifo'[k])
                                         + (IF Running(k)' THEN 1 ELSE 0)
                                         + (IF finalList'[k] = <<>> THEN 0 ELSE 1)
    BY DEF CountInv
  <2>7. CASE k = l
    BY <1>f, <2>3, <2>4, <2>5, <2>6, <2>7 DEF IInv, CountInv
  <2>8. CASE k # l
    BY <1>f, <2>1, <2>3, <2>6, <2>8 DEF IInv, CountInv
  <2> QED BY <2>7, <2>8
<1>9. FinalInv'
  BY <1>g, <1>u, FinalFrame DEF IInv, Goes, queue, ctxVars, lockVars, objVars, ghost
<1>10. FreedInv'
  BY <1>g, <1>u, FreedFrame DEF IInv, Goes, queue, ctxVars, lockVars, objVars, ghost
<1> QED BY <1>1, <1>2, <1>3, <1>4, <1>5, <1>6, <1>7, <1>8, <1>9, <1>10 DEF IInv

(* gpr_mpscq_push after the exchange; the call returns. *)
LEMMA LinkStep ==
    ASSUME IInv, NEW t \in Workers, Link(t)
    PROVE  IInv'
<1>u. /\ th[t].pc = "link" /\ PushLink(t)
      /\ UNCHANGED <<lockVars, ctxVars, finished, offloads, objVars, cb, ghost, failed>>
  BY DEF Link
<1>b. th[t].back \in {"api", "cb"}
  BY <1>u DEF IInv, TypeOK, ThreadType, PcInv, CallPcs
<1>p. PICK pc \in {"api", "cb"} : pc = th[t].back
  BY <1>b
<1>g. Goes(t, pc, Null, Null, Null, th[t].lock, th[t].cur)
  <2> DEFINE r == [th[t] EXCEPT !.pc = pc, !.target = Null, !.c = Null, !.back = Null]
  <2>1. /\ r \in ThreadType
        /\ r.pc = pc /\ r.target = Null /\ r.c = Null
             /\ r.back = Null /\ r.lock = th[t].lock /\ r.cur = th[t].cur
    <3>1. th[t] \in ThreadType
      BY DEF IInv, TypeOK
    <3> QED BY <1>p, <3>1 DEF ThreadType, Pcs
  <2>2. th' = [th EXCEPT ![t] = r] /\ th \in [Workers -> ThreadType]
    BY <1>p DEF IInv, TypeOK, Link
  <2> HIDE DEF r
  <2>3. Goes(t, r.pc, r.target, r.c, r.back, r.lock, r.cur)
    BY <2>1, <2>2, Update
  <2> QED BY <2>1, <2>3
<1>o. op[t].pc = "link" /\ op[t].n \in Closures /\ op[t].n \notin Combiners
  BY <1>u, CombinerAssumption DEF IInv, OpInv, TypeOK, ThreadType, PcInv
<1>x. op' = [op EXCEPT ![t] = IdleOp] /\ UNCHANGED <<head, tail>>
      /\ next' = [next EXCEPT ![op[t].prev] = op[t].n]
  BY <1>u, <1>o DEF PushLink
<1>i. /\ op' \in [Workers -> [pc : {"idle", "link", "reload", "head", "stub", "last", "popped"},
                           q : Combiners \cup {Null}, n : Slots \cup {Null},
                           prev : Slots \cup {Null}, tail : Slots \cup {Null}]]
      /\ op'[t].pc = "idle" /\ \A u \in Workers : u # t => op'[u] = op[u]
  <2>1. /\ IdleOp \in [pc : {"idle", "link", "reload", "head", "stub", "last", "popped"},
                       q : Combiners \cup {Null}, n : Slots \cup {Null},
                       prev : Slots \cup {Null}, tail : Slots \cup {Null}]
        /\ IdleOp.pc = "idle"
    BY DEF IdleOp
  <2>2. op' = [op EXCEPT ![t] = IdleOp]
        /\ op \in [Workers -> [pc : {"idle", "link", "reload", "head", "stub", "last", "popped"},
                           q : Combiners \cup {Null}, n : Slots \cup {Null},
                           prev : Slots \cup {Null}, tail : Slots \cup {Null}]]
    BY <1>x DEF IInv, TypeOK, QTypeOK
  <2> QED BY <2>1, <2>2
<1>t. QTypeOK'
  <2>1. next' \in [Slots -> Slots \cup {Null}]
    <3>1. op[t].n \in Slots
      BY <1>o DEF Slots
    <3> QED BY <1>x, <3>1 DEF IInv, TypeOK, QTypeOK
  <2> QED BY <1>i, <1>x, <2>1 DEF IInv, TypeOK, QTypeOK
<1>1. TypeOK'
  BY <1>g, <1>u, <1>t DEF IInv, TypeOK, Goes, lockVars, objVars, ctxVars, ghost
<1>2. PcInv'
  BY <1>g, <1>u, <1>p, CombinerAssumption DEF IInv, PcInv, Goes, CallPcs, TurnPcs, ctxVars
<1>3. RefInv'
  BY <1>g, <1>u, <1>p, RefFrame DEF IInv, Goes, lockVars, objVars
<1>4. TurnsInv'
  BY <1>g, <1>u, <1>p, TurnFrame DEF IInv, TypeOK, Goes, lockVars
<1>5. OpInv'
  <2>1. \A u \in Workers : u # t => th'[u] = th[u] /\ op'[u] = op[u]
    BY <1>g, <1>i DEF Goes
  <2>2. tail' = tail /\ fifo' = fifo
    BY <1>u, <1>x DEF ghost
  <2>3. th'[t].pc \notin {"link", "popping"}
    BY <1>g, <1>p DEF Goes
  <2> QED BY <1>i, <2>1, <2>2, <2>3, OpOthers
<1>6. ClosureInv'
  BY <1>g, <1>u, <1>p, ClosureFrame DEF IInv, Goes, AddPcs, ghost
<1>7. ChainInv'
  BY <1>u, <1>o, LinkKeepsChains DEF ghost
<1>8. CountInv'
  BY <1>g, <1>u, <1>p, CountFrame DEF IInv, Goes, AddPcs, lockVars, ghost
<1>9. FinalInv'
  BY <1>g, <1>u, <1>p, FinalFrame DEF IInv, Goes, lockVars
<1>10. FreedInv'
  BY <1>g, <1>u, FreedFrame DEF IInv, Goes, queue, ctxVars, lockVars, objVars, ghost
<1> QED BY <1>1, <1>2, <1>3, <1>4, <1>5, <1>6, <1>7, <1>8, <1>9, <1>10 DEF IInv

(* pop returned a closure: it runs. *)
LEMMA PopSucceededStep ==
    ASSUME IInv, NEW t \in Workers, PopSucceeded(t)
    PROVE  IInv'
<1>u. /\ th[t].pc = "popping" /\ op[t].pc = "popped" /\ op[t].n # Null
      /\ op' = [op EXCEPT ![t] = IdleOp] /\ fifo' = [fifo EXCEPT ![th[t].lock] = Tail(@)]
      /\ UNCHANGED <<head, tail, next, lockVars, ctxVars, finished, offloads, objVars, cb,
                     status, failed>>
  BY DEF PopSucceeded
<1>l. PICK l \in Combiners : l = th[t].lock
  BY <1>u DEF IInv, TypeOK, ThreadType, PcInv, TurnPcs
<1>h. op[t].q = l /\ fifo[l] # <<>> /\ op[t].n = Head(fifo[l])
  BY <1>u, <1>l DEF IInv, OpInv
<1>f. /\ fifo' \in [Combiners -> Seq(Closures)] /\ fifo[l] \in Seq(Closures)
      /\ fifo'[l] = Tail(fifo[l]) /\ Len(fifo'[l]) = Len(fifo[l]) - 1 /\ Len(fifo[l]) >= 1
      /\ \A i \in DOMAIN fifo'[l] : /\ i + 1 \in DOMAIN fifo[l] /\ i \in Nat
                                    /\ fifo'[l][i] = fifo[l][i + 1]
      /\ \A k \in Combiners : k # l => fifo'[k] = fifo[k]
      /\ op[t].n \in Closures
  <2>1. fifo[l] \in Seq(Closures)
    BY DEF IInv, TypeOK
  <2>2. Tail(fifo[l]) \in Seq(Closures)
    BY <1>h, <2>1
  <2>3. fifo' \in [Combiners -> Seq(Closures)] /\ fifo'[l] = Tail(fifo[l])
        /\ \A k \in Combiners : k # l => fifo'[k] = fifo[k]
    BY <1>u, <1>l, <2>2 DEF IInv, TypeOK
  <2> QED BY <1>h, <2>1, <2>3
<1>n. PICK n \in Closures : n = op[t].n
  BY <1>f
<1>g. Goes(t, "cb", th[t].target, th[t].c, th[t].back, th[t].lock, n)
  <2> DEFINE r == [th[t] EXCEPT !.pc = "cb", !.cur = n]
  <2>1. /\ r \in ThreadType
        /\ r.pc = "cb" /\ r.target = th[t].target /\ r.c = th[t].c
             /\ r.back = th[t].back /\ r.lock = th[t].lock /\ r.cur = n
    <3>1. th[t] \in ThreadType
      BY DEF IInv, TypeOK
    <3> QED BY <1>n, <3>1 DEF ThreadType, Pcs
  <2>2. th' = [th EXCEPT ![t] = r] /\ th \in [Workers -> ThreadType]
    BY <1>n DEF IInv, TypeOK, PopSucceeded
  <2> HIDE DEF r
  <2>3. Goes(t, r.pc, r.target, r.c, r.back, r.lock, r.cur)
    BY <2>1, <2>2, Update
  <2> QED BY <2>1, <2>3
<1>i. /\ op' \in [Workers -> [pc : {"idle", "link", "reload", "head", "stub", "last", "popped"},
                           q : Combiners \cup {Null}, n : Slots \cup {Null},
                           prev : Slots \cup {Null}, tail : Slots \cup {Null}]]
      /\ op'[t].pc = "idle" /\ \A u \in Workers : u # t => op'[u] = op[u]
  <2>1. /\ IdleOp \in [pc : {"idle", "link", "reload", "head", "stub", "last", "popped"},
                       q : Combiners \cup {Null}, n : Slots \cup {Null},
                       prev : Slots \cup {Null}, tail : Slots \cup {Null}]
        /\ IdleOp.pc = "idle"
    BY DEF IdleOp
  <2>2. op' = [op EXCEPT ![t] = IdleOp]
        /\ op \in [Workers -> [pc : {"idle", "link", "reload", "head", "stub", "last", "popped"},
                           q : Combiners \cup {Null}, n : Slots \cup {Null},
                           prev : Slots \cup {Null}, tail : Slots \cup {Null}]]
    BY <1>u DEF IInv, TypeOK, QTypeOK
  <2> QED BY <2>1, <2>2
<1>q. \A u \in Workers : u # t /\ th[u].pc = "popping" => th[u].lock \in Combiners \ {l}
  <2>1. OneThreadInside
    BY Alone DEF IInv
  <2>2. \A u \in Workers : th[u].pc = "popping" => th[u].lock \in Combiners
    BY DEF IInv, TypeOK, ThreadType, PcInv, TurnPcs
  <2> QED BY <1>l, <2>1, <2>2 DEF OneThreadInside
<1>1. TypeOK'
  BY <1>g, <1>u, <1>f, <1>i DEF IInv, TypeOK, QTypeOK, Goes, ctxVars, lockVars, objVars
<1>2. PcInv'
  <2>1. n # Null
    BY CombinerAssumption
  <2> QED BY <1>g, <1>u, <2>1, CombinerAssumption
             DEF IInv, PcInv, Goes, CallPcs, TurnPcs, ctxVars
<1>3. RefInv'
  BY <1>g, <1>u, RefFrame DEF IInv, Goes, queue, ctxVars, lockVars, objVars, ghost
<1>4. TurnsInv'
  BY <1>g, <1>u, TurnFrame DEF IInv, TypeOK, Goes, queue, ctxVars, lockVars, objVars, ghost
<1>5. OpInv'
  <2>1. \A u \in Workers : u # t => th'[u] = th[u] /\ op'[u] = op[u]
    BY <1>g, <1>i DEF Goes
  <2>2. tail' = tail
    BY <1>u
  <2>3. th'[t].pc = "cb"
    BY <1>g DEF Goes
  <2> QED BY <1>f, <1>i, <1>q, <2>1, <2>2, <2>3, OpOthers
<1>6. ClosureInv'
  <2>0. ClosureInv
    BY DEF IInv
  <2>1. \A u \in Workers : th'[u].pc \in AddPcs => th[u].pc \in AddPcs /\ th'[u].c = th[u].c
    BY <1>g DEF Goes, AddPcs
  <2>2. \A q \in Combiners : q # l => fifo'[q] = fifo[q]
    BY <1>f
  <2>3. ASSUME NEW q \in Combiners, NEW i \in DOMAIN fifo'[q]
        PROVE  \E k \in DOMAIN fifo[q] : /\ fifo'[q][i] = fifo[q][k]
                                         /\ q = l => k = i + 1 /\ i \in Nat
                                         /\ q # l => k = i
    BY <1>f, <2>2
  <2>4. ASSUME NEW q \in Combiners, NEW i \in DOMAIN fifo'[q],
               NEW p \in Combiners, NEW j \in DOMAIN fifo'[p], fifo'[q][i] = fifo'[p][j]
        PROVE  q = p /\ i = j
    <3>1. PICK a \in DOMAIN fifo[q] : /\ fifo'[q][i] = fifo[q][a]
                                      /\ q = l => a = i + 1 /\ i \in Nat
                                      /\ q # l => a = i
      BY <2>3
    <3>2. PICK b \in DOMAIN fifo[p] : /\ fifo'[p][j] = fifo[p][b]
                                      /\ p = l => b = j + 1 /\ j \in Nat
                                      /\ p # l => b = j
      BY <2>3
    <3>3. fifo[q][a] = fifo[p][b]
      BY <2>4, <3>1, <3>2
    <3>4. q = p /\ a = b
      <4>1. a \in DOMAIN fifo[q] /\ b \in DOMAIN fifo[p]
        BY <3>1, <3>2
      <4> QED BY <2>0, <3>3, <4>1 DEF ClosureInv
    <3> QED BY <3>1, <3>2, <3>4
  <2>5. ASSUME NEW q \in Combiners, NEW i \in DOMAIN fifo'[q]
        PROVE  /\ status[fifo'[q][i]] # "new"
               /\ \A u \in Workers : th'[u].pc \in AddPcs => fifo'[q][i] # th'[u].c
    BY <2>0, <2>1, <2>3 DEF ClosureInv
  <2>6. ASSUME NEW u \in Workers, th'[u].pc \in AddPcs
        PROVE  /\ status[th'[u].c] # "new"
               /\ \A v \in Workers : th'[v].pc \in AddPcs /\ th'[v].c = th'[u].c => v = u
    BY <2>0, <2>1, <2>6 DEF ClosureInv
  <2>7. status' = status
    BY <1>u
  <2> QED BY <2>4, <2>5, <2>6, <2>7 DEF ClosureInv
<1>7. ChainInv'
  <2>1. PoppedFrom(l) /\ ~PoppedFrom(l)'
    <3>1. PoppedFrom(l)
      BY <1>u, <1>h DEF PoppedFrom
    <3>2. \A u \in Workers : u # t /\ op[u].pc \notin {"idle", "link"} => op[u].q # l
      BY <1>u, <1>l, OnePopper
    <3> QED BY <1>i, <3>1, <3>2 DEF PoppedFrom
  <2>2. \A q \in Combiners : q # l => (PoppedFrom(q)' <=> PoppedFrom(q))
    BY <1>h, <1>i DEF PoppedFrom
  <2>3. \A q \in Combiners : Queued(q)' = Queued(q)
    BY <1>f, <2>1, <2>2 DEF Queued
  <2> QED BY <1>u, <1>i, <2>3, PopKeepsQueues
<1>8. CountInv'
  <2>1. \A k \in Combiners : Adding(k)' = Adding(k)
    BY <1>g, <1>u DEF Adding, Goes, AddPcs
  <2>2. \A k \in Combiners : k # l => (Running(k)' <=> Running(k))
    BY <1>g, <1>u, <1>l DEF Running, Goes
  <2>3. ~Running(l) /\ Running(l)'
    <3>1. OneThreadInside
      BY Alone DEF IInv
    <3>2. ~Running(l)
      BY <1>u, <1>l, <3>1 DEF Running, OneThreadInside
    <3> QED BY <1>g, <1>l, <3>2 DEF Running, Goes
  <2>4. Cardinality(Adding(l)) \in Nat /\ Len(fifo[l]) \in Nat
    BY CountedFacts
  <2>5. state' = state /\ finalList' = finalList
    BY <1>u DEF lockVars
  <2> SUFFICES ASSUME NEW k \in Combiners
               PROVE  state'[k] \div 2 = Cardinality(Adding(k)') + Len(fifo'[k])
                                         + (IF Running(k)' THEN 1 ELSE 0)
                                         + (IF finalList'[k] = <<>> THEN 0 ELSE 1)
    BY DEF CountInv
  <2>7. CASE k = l
    BY <1>f, <2>1, <2>3, <2>4, <2>5, <2>7 DEF IInv, CountInv
  <2>8. CASE k # l
    BY <1>f, <2>1, <2>2, <2>5, <2>8 DEF IInv, CountInv
  <2> QED BY <2>7, <2>8
<1>9. FinalInv'
  BY <1>g, <1>u, FinalFrame DEF IInv, Goes, queue, ctxVars, lockVars, objVars, ghost
<1>10. FreedInv'
  BY <1>g, <1>u, FreedFrame DEF IInv, Goes, queue, ctxVars, lockVars, objVars, ghost
<1> QED BY <1>1, <1>2, <1>3, <1>4, <1>5, <1>6, <1>7, <1>8, <1>9, <1>10 DEF IInv

(* The locals of push and pop. *)
OpType == [pc : {"idle", "link", "reload", "head", "stub", "last", "popped"},
           q : Combiners \cup {Null}, n : Slots \cup {Null},
           prev : Slots \cup {Null}, tail : Slots \cup {Null}]

(* A step that sets the operation of one thread. *)
LEMMA OpUpdate ==
    ASSUME QTypeOK, NEW t \in Workers, NEW r \in OpType, op' = [op EXCEPT ![t] = r]
    PROVE  /\ op' \in [Workers -> OpType] /\ op'[t] = r
           /\ \A u \in Workers : u # t => op'[u] = op[u]
BY DEF QTypeOK, OpType

(* The first node of a queue. *)
LEMMA TailNode ==
    ASSUME IInv, NEW q \in Combiners
    PROVE  tail[q] = q \/ tail[q] \in Closures
<1>1. PICK f \in Seq(Closures), k \in Nat, s \in Seq(Slots) :
              /\ f = Queued(q) /\ k \in 0 .. Len(f) + 1 /\ s = Chain(f, q, k)
              /\ ChainOf(q, s) /\ Distinct(s)
              /\ \A v \in Workers : op[v].pc = "stub" /\ op[v].q = q => k = 0
              /\ \A i \in 1 .. Len(s) : s[i] = q \/ \E j \in DOMAIN fifo[q] : s[i] = fifo[q][j]
  BY ChainedNow
<1>2. Len(s) >= 1 /\ tail[q] = s[1]
  BY <1>1 DEF ChainOf
<1>3. \A j \in DOMAIN fifo[q] : fifo[q][j] \in Closures
  BY DEF IInv, TypeOK
<1>4. 1 \in 1 .. Len(s)
  BY <1>2
<1> QED BY <1>1, <1>2, <1>3, <1>4

(* pop finds nothing, or nothing yet. *)
LEMMA PopsNothing ==
    ASSUME IInv, NEW t \in Workers, op[t].pc \notin {"link", "popped"}, op'[t].pc # "link",
           op'[t].pc = "popped" => op'[t].n = Null, UNCHANGED <<head, tail, next, fifo>>,
           \A u \in Workers : u # t => op'[u] = op[u],
           op'[t].pc = "stub" => tail[op'[t].q] = head[op'[t].q] /\ tail[op'[t].q] \in Closures
    PROVE  ChainInv'
<1>1. \A q \in Combiners : PoppedFrom(q)' <=> PoppedFrom(q)
  BY DEF PoppedFrom
<1>2. \A q \in Combiners : Queued(q)' = Queued(q)
  BY <1>1 DEF Queued
<1> QED BY <1>2, PopKeepsQueues

(* A step of pop. *)
LEMMA PoppingStep ==
    ASSUME IInv, NEW t \in Workers, NEW l \in Combiners, l = th[t].lock,
           th[t].pc \in {"pop", "popping"},
           Goes(t, "popping", th[t].target, th[t].c, th[t].back, th[t].lock, th[t].cur),
           UNCHANGED <<lockVars, ctxVars, finished, offloads, objVars, cb, ghost, failed>>,
           QTypeOK', ChainInv', \A k \in Combiners : k # l => tail'[k] = tail[k],
           \A u \in Workers : u # t => op'[u] = op[u], op'[t].q = l,
           \/ /\ op'[t].pc \in {"reload", "head", "stub", "link", "last"}
              /\ op'[t].tail = tail'[l] /\ op'[t].tail \in Closures
              /\ op'[t].pc = "link" => op'[t].n = l
           \/ /\ op'[t].pc = "popped"
              /\ op'[t].n # Null => fifo[l] # <<>> /\ op'[t].n = Head(fifo[l])
    PROVE  IInv'
<1>1. TypeOK'
  BY DEF IInv, TypeOK, Goes, lockVars, ctxVars, objVars, ghost
<1>2. PcInv'
  BY CombinerAssumption DEF IInv, PcInv, Goes, CallPcs, TurnPcs, ctxVars
<1>3. RefInv'
  BY RefFrame DEF IInv, Goes, lockVars, objVars
<1>4. TurnsInv'
  BY TurnFrame DEF IInv, TypeOK, Goes, lockVars
<1>5. OpInv'
  <2>1. \A u \in Workers : u # t => th'[u] = th[u] /\ op'[u] = op[u]
    BY DEF Goes
  <2>2. th'[t].pc = "popping" /\ th'[t].lock = l
    BY DEF Goes
  <2>3. fifo' = fifo
    BY DEF ghost
  <2>4. \A u \in Workers : u # t /\ th[u].pc = "popping" => th[u].lock \in Combiners \ {l}
    <3>1. OneThreadInside
      BY Alone DEF IInv
    <3>2. \A u \in Workers : th[u].pc = "popping" => th[u].lock \in Combiners
      BY DEF IInv, TypeOK, ThreadType, PcInv, TurnPcs
    <3> QED BY <3>1, <3>2 DEF OneThreadInside
  <2>5. \A u \in Workers : u # t /\ th[u].pc = "popping" => tail'[th[u].lock] = tail[th[u].lock]
    BY <2>4
  <2> QED BY <2>1, <2>2, <2>3, <2>5, OpOthers
<1>6. ClosureInv'
  BY ClosureFrame DEF IInv, Goes, AddPcs, ghost
<1>7. CountInv'
  BY CountFrame DEF IInv, Goes, AddPcs, lockVars, ghost
<1>8. FinalInv'
  BY FinalFrame DEF IInv, Goes, lockVars
<1>9. FreedInv'
  BY FreedFrame DEF IInv, lockVars, objVars
<1> QED BY <1>1, <1>2, <1>3, <1>4, <1>5, <1>6, <1>7, <1>8, <1>9 DEF IInv

(* pop begins. *)
LEMMA StartPopStep ==
    ASSUME IInv, NEW t \in Workers, StartPop(t)
    PROVE  IInv'
<1>u. /\ th[t].pc = "pop" /\ PopStart(t, th[t].lock)
      /\ UNCHANGED <<lockVars, ctxVars, finished, offloads, objVars, cb, ghost, failed>>
  BY DEF StartPop
<1>l. PICK l \in Combiners : l = th[t].lock
  BY <1>u DEF IInv, TypeOK, ThreadType, PcInv, TurnPcs
<1>g. Goes(t, "popping", th[t].target, th[t].c, th[t].back, th[t].lock, th[t].cur)
  <2> DEFINE r == [th[t] EXCEPT !.pc = "popping"]
  <2>1. /\ r \in ThreadType
        /\ r.pc = "popping" /\ r.target = th[t].target /\ r.c = th[t].c
             /\ r.back = th[t].back /\ r.lock = th[t].lock /\ r.cur = th[t].cur
    BY <1>u DEF IInv, TypeOK, ThreadType, Pcs
  <2>2. th' = [th EXCEPT ![t] = r] /\ th \in [Workers -> ThreadType]
    BY DEF IInv, TypeOK, StartPop
  <2> HIDE DEF r
  <2>3. Goes(t, r.pc, r.target, r.c, r.back, r.lock, r.cur)
    BY <2>1, <2>2, Update
  <2> QED BY <2>1, <2>3
<1>0. /\ QTypeOK /\ op[t].pc = "idle" /\ head' = head /\ next' = next /\ fifo' = fifo
      /\ tail[l] \in Slots /\ next[tail[l]] \in Slots \cup {Null} /\ l \in Slots
      /\ tail[l] = l \/ tail[l] \in Closures
  <2>1. QTypeOK /\ tail[l] \in Slots /\ next[tail[l]] \in Slots \cup {Null} /\ l \in Slots
    BY DEF IInv, TypeOK, QTypeOK, Slots
  <2>2. op[t].pc = "idle" /\ head' = head /\ next' = next /\ fifo' = fifo
    BY <1>u DEF PopStart, ghost
  <2> QED BY <2>1, <2>2, TailNode
<1>1. CASE tail[l] = l /\ next[tail[l]] = Null
  <2> DEFINE r == [[IdleOp EXCEPT !.q = l, !.tail = tail[l]] EXCEPT !.pc = "popped"]
  <2>1. r \in OpType /\ r.pc = "popped" /\ r.q = l /\ r.n = Null
    BY <1>0 DEF OpType, IdleOp
  <2>2. op' = [op EXCEPT ![t] = r] /\ tail' = tail
    BY <1>u, <1>l, <1>1 DEF PopStart
  <2> HIDE DEF r
  <2>3. op' \in [Workers -> OpType] /\ op'[t] = r /\ \A u \in Workers : u # t => op'[u] = op[u]
    BY <1>0, <2>1, <2>2, OpUpdate
  <2>4. QTypeOK'
    BY <1>0, <2>2, <2>3 DEF QTypeOK, OpType
  <2>5. ChainInv'
    BY <1>0, <2>1, <2>2, <2>3, PopsNothing
  <2> QED BY <1>u, <1>l, <1>g, <2>1, <2>2, <2>3, <2>4, <2>5, PoppingStep
<1>2. CASE tail[l] = l /\ next[tail[l]] # Null
  <2>n. PICK nx \in Slots : nx = next[tail[l]]
    BY <1>0, <1>2
  <2> DEFINE r == [[IdleOp EXCEPT !.q = l, !.tail = tail[l]] EXCEPT !.pc = "reload", !.tail = nx]
  <2>1. r \in OpType /\ r.pc = "reload" /\ r.q = l /\ r.tail = nx
    BY <1>0 DEF OpType, IdleOp
  <2>2. op' = [op EXCEPT ![t] = r] /\ tail' = [tail EXCEPT ![l] = nx]
    BY <1>u, <1>l, <1>2, <2>n DEF PopStart
  <2> HIDE DEF r
  <2>3. op' \in [Workers -> OpType] /\ op'[t] = r /\ \A u \in Workers : u # t => op'[u] = op[u]
    BY <1>0, <2>1, <2>2, OpUpdate
  <2>4. QTypeOK'
    BY <1>0, <2>2, <2>3 DEF QTypeOK, OpType
  <2>5. ChainInv' /\ nx \in Closures
    <3>1. tail[l] = l /\ next[l] = nx /\ next[l] # Null
      BY <1>2, <2>n
    <3>2. op'[t].pc = "reload" /\ op'[t].q = l /\ tail' = [tail EXCEPT ![l] = next[l]]
      BY <2>1, <2>2, <2>3, <3>1
    <3> QED BY <1>u, <1>l, <1>0, <2>3, <3>1, <3>2, SkipKeepsChains
  <2>6. tail'[l] = nx /\ \A k \in Combiners : k # l => tail'[k] = tail[k]
    BY <1>0, <2>2 DEF QTypeOK
  <2> QED BY <1>u, <1>l, <1>g, <2>1, <2>3, <2>4, <2>5, <2>6, PoppingStep
<1>3. CASE tail[l] # l /\ next[tail[l]] # Null
  <2>n. PICK nx \in Slots : nx = next[tail[l]]
    BY <1>0, <1>3
  <2> DEFINE r == [[IdleOp EXCEPT !.q = l, !.tail = tail[l]] EXCEPT !.pc = "popped", !.n = tail[l]]
  <2>1. r \in OpType /\ r.pc = "popped" /\ r.q = l /\ r.n = tail[l]
    BY <1>0 DEF OpType, IdleOp
  <2>2. op' = [op EXCEPT ![t] = r] /\ tail' = [tail EXCEPT ![l] = nx]
    BY <1>u, <1>l, <1>3, <2>n DEF PopStart
  <2> HIDE DEF r
  <2>3. op' \in [Workers -> OpType] /\ op'[t] = r /\ \A u \in Workers : u # t => op'[u] = op[u]
    BY <1>0, <2>1, <2>2, OpUpdate
  <2>4. QTypeOK'
    BY <1>0, <2>2, <2>3 DEF QTypeOK, OpType
  <2>5. ChainInv' /\ fifo[l] # <<>> /\ tail[l] = Head(fifo[l])
    <3>1. op'[t].pc = "popped" /\ op'[t].q = l /\ op'[t].n = tail[l]
          /\ tail' = [tail EXCEPT ![l] = next[tail[l]]]
      BY <2>1, <2>2, <2>3, <2>n
    <3> QED BY <1>u, <1>l, <1>0, <1>3, <2>3, <3>1, PopKeepsChains
  <2>6. \A k \in Combiners : k # l => tail'[k] = tail[k]
    BY <1>0, <2>2 DEF QTypeOK
  <2> QED BY <1>u, <1>l, <1>g, <2>1, <2>3, <2>4, <2>5, <2>6, PoppingStep
<1>4. CASE tail[l] # l /\ next[tail[l]] = Null
  <2> DEFINE r == [[IdleOp EXCEPT !.q = l, !.tail = tail[l]] EXCEPT !.pc = "head"]
  <2>1. r \in OpType /\ r.pc = "head" /\ r.q = l /\ r.tail = tail[l]
    BY <1>0 DEF OpType, IdleOp
  <2>2. op' = [op EXCEPT ![t] = r] /\ tail' = tail
    BY <1>u, <1>l, <1>4 DEF PopStart
  <2> HIDE DEF r
  <2>3. op' \in [Workers -> OpType] /\ op'[t] = r /\ \A u \in Workers : u # t => op'[u] = op[u]
    BY <1>0, <2>1, <2>2, OpUpdate
  <2>4. QTypeOK'
    BY <1>0, <2>2, <2>3 DEF QTypeOK, OpType
  <2>5. ChainInv'
    BY <1>0, <2>1, <2>2, <2>3, PopsNothing
  <2> QED BY <1>u, <1>l, <1>g, <1>0, <1>4, <2>1, <2>2, <2>3, <2>4, <2>5, PoppingStep
<1> QED BY <1>1, <1>2, <1>3, <1>4

(* pop goes on. *)
LEMMA GoOnPoppingStep ==
    ASSUME IInv, NEW t \in Workers, GoOnPopping(t)
    PROVE  IInv'
<1>u. /\ th[t].pc = "popping" /\ PopStep(t)
      /\ UNCHANGED <<th, lockVars, ctxVars, finished, offloads, objVars, cb, ghost, failed>>
  BY DEF GoOnPopping
<1>l. PICK l \in Combiners : l = th[t].lock
  BY <1>u DEF IInv, TypeOK, ThreadType, PcInv, TurnPcs
<1>g. Goes(t, "popping", th[t].target, th[t].c, th[t].back, th[t].lock, th[t].cur)
  BY <1>u DEF Goes, IInv, TypeOK
<1>0. /\ QTypeOK /\ op[t] \in OpType /\ op[t].pc \in {"reload", "head", "stub", "link", "last"}
      /\ op[t].q = l /\ op[t].tail = tail[l] /\ tail[l] \in Closures /\ tail[l] # l
      /\ (op[t].pc = "link" => op[t].n = l) /\ fifo' = fifo
      /\ l \in Slots /\ tail[l] \in Slots /\ next[op[t].tail] \in Slots \cup {Null}
      /\ head[l] \in Slots
  <2>1. op[t].pc \in {"reload", "head", "stub", "link", "last"}
    BY <1>u DEF PopStep, PopReload, PopHead, PopStub, PopLast, PushLink
  <2>2. /\ op[t].q = l /\ op[t].tail = tail[l] /\ tail[l] \in Closures
        /\ (op[t].pc = "link" => op[t].n = l)
    BY <1>u, <1>l, <2>1 DEF IInv, OpInv
  <2>3. QTypeOK /\ op[t] \in OpType /\ l \in Slots /\ tail[l] \in Slots /\ head[l] \in Slots
    BY <2>2 DEF IInv, TypeOK, QTypeOK, OpType, Slots
  <2>4. next[op[t].tail] \in Slots \cup {Null}
    BY <2>2, <2>3 DEF QTypeOK
  <2> QED BY <1>u, <2>1, <2>2, <2>3, <2>4, CombinerAssumption DEF ghost
<1>1. CASE (PopReload(t) \/ PopLast(t)) /\ next[op[t].tail] # Null
  <2>n. PICK nx \in Slots : nx = next[op[t].tail]
    BY <1>1, <1>0
  <2> DEFINE r == [op[t] EXCEPT !.pc = "popped", !.n = op[t].tail]
  <2>1. r \in OpType /\ r.pc = "popped" /\ r.q = l /\ r.n = tail[l]
    BY <1>0 DEF OpType
  <2>2. op' = [op EXCEPT ![t] = r] /\ tail' = [tail EXCEPT ![l] = nx]
        /\ head' = head /\ next' = next
    BY <1>1, <1>0, <2>n DEF PopReload, PopLast, Popped
  <2> HIDE DEF r
  <2>3. op' \in [Workers -> OpType] /\ op'[t] = r /\ \A u \in Workers : u # t => op'[u] = op[u]
    BY <1>0, <2>1, <2>2, OpUpdate
  <2>4. QTypeOK'
    BY <1>0, <2>2, <2>3 DEF QTypeOK, OpType
  <2>5. ChainInv' /\ fifo[l] # <<>> /\ tail[l] = Head(fifo[l])
    <3>1. op'[t].pc = "popped" /\ op'[t].q = l /\ op'[t].n = tail[l] /\ next[tail[l]] # Null
          /\ tail' = [tail EXCEPT ![l] = next[tail[l]]]
      BY <1>1, <1>0, <2>1, <2>2, <2>3, <2>n
    <3>2. op[t].pc \notin {"link", "popped"} /\ tail[l] # l
      BY <1>1, <1>0 DEF PopReload, PopLast
    <3> QED BY <1>u, <1>l, <1>0, <2>2, <2>3, <3>1, <3>2, PopKeepsChains
  <2>6. \A k \in Combiners : k # l => tail'[k] = tail[k]
    BY <1>0, <2>2 DEF QTypeOK
  <2> QED BY <1>u, <1>l, <1>g, <2>1, <2>3, <2>4, <2>5, <2>6, PoppingStep
<1>2. CASE PopReload(t) /\ next[op[t].tail] = Null
  <2> DEFINE r == [op[t] EXCEPT !.pc = "head"]
  <2>1. r \in OpType /\ r.pc = "head" /\ r.q = l /\ r.tail = tail[l]
    BY <1>0 DEF OpType
  <2>2. op' = [op EXCEPT ![t] = r] /\ tail' = tail /\ head' = head /\ next' = next
    BY <1>2, <1>0 DEF PopReload
  <2> HIDE DEF r
  <2>3. op' \in [Workers -> OpType] /\ op'[t] = r /\ \A u \in Workers : u # t => op'[u] = op[u]
    BY <1>0, <2>1, <2>2, OpUpdate
  <2>4. QTypeOK'
    BY <1>0, <2>2, <2>3 DEF QTypeOK, OpType
  <2>5. ChainInv'
    <3>1. op[t].pc \notin {"link", "popped"}
      BY <1>2 DEF PopReload, PopHead, PopLast
    <3> QED BY <1>0, <2>1, <2>2, <2>3, <3>1, PopsNothing
  <2> QED BY <1>u, <1>l, <1>g, <1>0, <2>1, <2>2, <2>3, <2>4, <2>5, PoppingStep
<1>3. CASE PopHead(t) /\ head[op[t].q] # op[t].tail
  <2> DEFINE r == [op[t] EXCEPT !.pc = "popped", !.n = Null]
  <2>1. r \in OpType /\ r.pc = "popped" /\ r.q = l /\ r.n = Null
    BY <1>0 DEF OpType
  <2>2. op' = [op EXCEPT ![t] = r] /\ tail' = tail /\ head' = head /\ next' = next
    BY <1>3, <1>0 DEF PopHead, Popped
  <2> HIDE DEF r
  <2>3. op' \in [Workers -> OpType] /\ op'[t] = r /\ \A u \in Workers : u # t => op'[u] = op[u]
    BY <1>0, <2>1, <2>2, OpUpdate
  <2>4. QTypeOK'
    BY <1>0, <2>2, <2>3 DEF QTypeOK, OpType
  <2>5. ChainInv'
    <3>1. op[t].pc \notin {"link", "popped"}
      BY <1>3 DEF PopReload, PopHead, PopLast
    <3> QED BY <1>0, <2>1, <2>2, <2>3, <3>1, PopsNothing
  <2> QED BY <1>u, <1>l, <1>g, <1>0, <2>1, <2>2, <2>3, <2>4, <2>5, PoppingStep
<1>4. CASE PopHead(t) /\ head[op[t].q] = op[t].tail
  <2> DEFINE r == [op[t] EXCEPT !.pc = "stub"]
  <2>1. r \in OpType /\ r.pc = "stub" /\ r.q = l /\ r.tail = tail[l]
    BY <1>0 DEF OpType
  <2>2. op' = [op EXCEPT ![t] = r] /\ tail' = tail /\ head' = head /\ next' = next
    BY <1>4, <1>0 DEF PopHead
  <2> HIDE DEF r
  <2>3. op' \in [Workers -> OpType] /\ op'[t] = r /\ \A u \in Workers : u # t => op'[u] = op[u]
    BY <1>0, <2>1, <2>2, OpUpdate
  <2>4. QTypeOK'
    BY <1>0, <2>2, <2>3 DEF QTypeOK, OpType
  <2>5. ChainInv'
    <3>1. op[t].pc \notin {"link", "popped"}
      BY <1>4 DEF PopReload, PopHead, PopLast
    <3> QED BY <1>0, <1>4, <2>1, <2>2, <2>3, <3>1, PopsNothing
  <2> QED BY <1>u, <1>l, <1>g, <1>0, <2>1, <2>2, <2>3, <2>4, <2>5, PoppingStep
<1>5. CASE PopStub(t)
  <2> DEFINE r == [op[t] EXCEPT !.pc = "link", !.n = l, !.prev = head[l]]
  <2>1. r \in OpType /\ r.pc = "link" /\ r.q = l /\ r.n = l /\ r.tail = tail[l] /\ r.prev = head[l]
    BY <1>0 DEF OpType
  <2>2. op' = [op EXCEPT ![t] = r] /\ tail' = tail
        /\ head' = [head EXCEPT ![l] = l] /\ next' = [next EXCEPT ![l] = Null]
    BY <1>5, <1>0 DEF PopStub
  <2> HIDE DEF r
  <2>3. op' \in [Workers -> OpType] /\ op'[t] = r /\ \A u \in Workers : u # t => op'[u] = op[u]
    BY <1>0, <2>1, <2>2, OpUpdate
  <2>4. QTypeOK'
    BY <1>0, <2>2, <2>3 DEF QTypeOK, OpType
  <2>5. ChainInv'
    <3>1. op[t].pc = "stub"
      BY <1>5 DEF PopStub
    <3>2. op'[t].pc = "link" /\ op'[t].q = l /\ op'[t].n = l /\ op'[t].prev = head[l]
      BY <2>1, <2>3
    <3> QED BY <1>u, <1>l, <1>0, <2>2, <2>3, <3>1, <3>2, StubKeepsChains
  <2> QED BY <1>u, <1>l, <1>g, <1>0, <2>1, <2>2, <2>3, <2>4, <2>5, PoppingStep
<1>6. CASE PopLast(t) /\ next[op[t].tail] = Null
  <2> DEFINE r == [op[t] EXCEPT !.pc = "popped", !.n = Null]
  <2>1. r \in OpType /\ r.pc = "popped" /\ r.q = l /\ r.n = Null
    BY <1>0 DEF OpType
  <2>2. op' = [op EXCEPT ![t] = r] /\ tail' = tail /\ head' = head /\ next' = next
    BY <1>6, <1>0 DEF PopLast, Popped
  <2> HIDE DEF r
  <2>3. op' \in [Workers -> OpType] /\ op'[t] = r /\ \A u \in Workers : u # t => op'[u] = op[u]
    BY <1>0, <2>1, <2>2, OpUpdate
  <2>4. QTypeOK'
    BY <1>0, <2>2, <2>3 DEF QTypeOK, OpType
  <2>5. ChainInv'
    <3>1. op[t].pc \notin {"link", "popped"}
      BY <1>6 DEF PopReload, PopHead, PopLast
    <3> QED BY <1>0, <2>1, <2>2, <2>3, <3>1, PopsNothing
  <2> QED BY <1>u, <1>l, <1>g, <1>0, <2>1, <2>2, <2>3, <2>4, <2>5, PoppingStep
<1>7. CASE PushLink(t)
  <2> DEFINE r == [op[t] EXCEPT !.pc = "last"]
  <2>1. r \in OpType /\ r.pc = "last" /\ r.q = l /\ r.tail = tail[l]
    BY <1>0 DEF OpType
  <2>2. op' = [op EXCEPT ![t] = r] /\ tail' = tail /\ head' = head
        /\ next' = [next EXCEPT ![op[t].prev] = op[t].n]
    BY <1>7, <1>0 DEF PushLink
  <2> HIDE DEF r
  <2>3. op' \in [Workers -> OpType] /\ op'[t] = r /\ \A u \in Workers : u # t => op'[u] = op[u]
    BY <1>0, <2>1, <2>2, OpUpdate
  <2>4. QTypeOK'
    BY <1>0, <2>2, <2>3 DEF QTypeOK, OpType
  <2>5. ChainInv'
    <3>1. op[t].pc = "link"
      BY <1>7 DEF PushLink
    <3> QED BY <1>7, <1>0, <3>1, LinkKeepsChains
  <2> QED BY <1>u, <1>l, <1>g, <1>0, <2>1, <2>2, <2>3, <2>4, <2>5, PoppingStep
<1> QED BY <1>u, <1>1, <1>2, <1>3, <1>4, <1>5, <1>6, <1>7 DEF PopStep, PopHead

(* One item less. *)
LEMMA UnlockStep ==
    ASSUME IInv, NEW t \in Workers, Unlock(t)
    PROVE  IInv'
<1>u. /\ th[t].pc = "done" /\ MoveNext(t)
      /\ UNCHANGED <<queue, initiating, finalList, finished, offloads, refs, setup, cb, ghost>>
  BY DEF Unlock
<1>l. PICK l \in Combiners : l = th[t].lock /\ l = active[t]
  BY <1>u DEF IInv, TypeOK, ThreadType, PcInv, TurnPcs
<1>n. th[t].target = Null /\ th[t].c = Null /\ th[t].back = Null /\ th[t].cur = Null
  BY <1>u, CombinerAssumption DEF IInv, PcInv, CallPcs
<1>s. /\ state \in [Combiners -> Nat] /\ state[l] \in Nat /\ state[l] >= 2
      /\ state' \in [Combiners -> Nat] /\ state'[l] = state[l] - 2
      /\ \A k \in Combiners : k # l => state'[k] = state[k]
      /\ \A k \in Combiners : state'[k] % 2 = state[k] % 2
      /\ state[l] \div 2 >= 1 /\ state'[l] \div 2 = state[l] \div 2 - 1 /\ state[l] \div 2 \in Nat
      /\ (state[l] \div 2 >= 2 => state'[l] >= 2)
  <2>1. state \in [Combiners -> Nat] /\ state[l] \in Nat /\ state' = [state EXCEPT ![l] = @ - 2]
    BY <1>l DEF IInv, TypeOK, Unlock
  <2>2. state[l] >= 2
    <3>1. l # Null
      BY CombinerAssumption
    <3>2. PICK place \in [Combiners -> Places] : TurnInv(place) /\ ListInv(place)
      BY DEF IInv, TurnsInv
    <3> QED BY <1>l, <3>1, <3>2, TurnOf DEF IInv
  <2>3. /\ state[l] \div 2 >= 1 /\ (state[l] - 2) \div 2 = state[l] \div 2 - 1
        /\ (state[l] - 2) % 2 = state[l] % 2 /\ state[l] - 2 \in Nat /\ state[l] \div 2 \in Nat
        /\ (state[l] \div 2 >= 2 => state[l] >= 4)
    BY <2>1, <2>2, Halves
  <2>4. /\ state' \in [Combiners -> Nat] /\ state'[l] = state[l] - 2
        /\ \A k \in Combiners : k # l => state'[k] = state[k]
    BY <2>1, <2>3
  <2>5. \A k \in Combiners : state'[k] % 2 = state[k] % 2
    <3> SUFFICES ASSUME NEW k \in Combiners PROVE state'[k] % 2 = state[k] % 2
      OBVIOUS
    <3>1. CASE k = l
      BY <2>3, <2>4, <3>1
    <3>2. CASE k # l
      BY <2>4, <3>2
    <3> QED BY <3>1, <3>2
  <2> QED BY <2>1, <2>2, <2>3, <2>4, <2>5
<1>c. \/ /\ state[l] \div 2 >= 2 /\ th' = [th EXCEPT ![t].pc = "repush"]
         /\ UNCHANGED <<freed, failed>>
      \/ state[l] = 3 /\ th' = [th EXCEPT ![t] = Rest("flush")] /\ UNCHANGED <<freed, failed>>
      \/ state[l] = 2 /\ th' = [th EXCEPT ![t] = Rest("flush")] /\ ReallyDestroy(l)
  <2>1. failed \in BOOLEAN /\ state[l] \in Nat /\ state[l] >= 2
    BY <1>s DEF IInv, TypeOK
  <2>2. /\ th' = [th EXCEPT ![t] = IF state[l] \div 2 >= 2 THEN [@ EXCEPT !.pc = "repush"]
                                   ELSE Rest("flush")]
        /\ IF state[l] = 2 THEN ReallyDestroy(l)
           ELSE failed' = (failed \/ state[l] \div 2 = 0) /\ freed' = freed
    BY <1>l DEF Unlock
  <2>3. CASE state[l] \div 2 >= 2
    <3>1. state[l] # 2 /\ state[l] \div 2 # 0
      BY <2>1, <2>3, Halves
    <3>2. failed' = failed /\ freed' = freed
      BY <2>1, <2>2, <3>1
    <3>3. th' = [th EXCEPT ![t].pc = "repush"]
      BY <2>2, <2>3
    <3> QED BY <2>3, <3>2, <3>3
  <2>4. CASE ~(state[l] \div 2 >= 2)
    <3>1. state[l] \in {2, 3} /\ 3 \div 2 # 0
      BY <2>1, <2>4, Halves
    <3>2. th' = [th EXCEPT ![t] = Rest("flush")]
      BY <2>2, <2>4
    <3>3. state[l] = 3 => failed' = failed /\ freed' = freed
      BY <2>1, <2>2, <3>1
    <3> QED BY <2>2, <3>1, <3>2, <3>3
  <2> QED BY <2>3, <2>4
<1>t. timeFinal' = [timeFinal EXCEPT ![l] = state[l] \div 2 = 2 /\ finalList[l] # <<>>]
  BY <1>l DEF Unlock
<1>g. PICK pc \in {"repush", "flush"}, k \in {l, Null} :
        /\ Goes(t, pc, Null, Null, Null, k, Null)
        /\ pc = "repush" => k = l /\ state[l] \div 2 >= 2 /\ UNCHANGED <<freed, failed>>
        /\ pc = "flush" => k = Null /\ state[l] \in {2, 3}
  <2>0. th[t] \in ThreadType /\ th \in [Workers -> ThreadType] /\ "flush" \in Pcs
    BY DEF IInv, TypeOK, Pcs
  <2>1. CASE state[l] \div 2 >= 2
    <3> DEFINE r == [th[t] EXCEPT !.pc = "repush"]
    <3>1. /\ r \in ThreadType
          /\ r.pc = "repush" /\ r.target = Null /\ r.c = Null
          /\ r.back = Null /\ r.lock = l /\ r.cur = Null
      BY <2>0, <1>n, <1>l DEF ThreadType, Pcs
    <3>2. th' = [th EXCEPT ![t] = r] /\ UNCHANGED <<freed, failed>>
      <4>1. ~(state[l] = 3) /\ ~(state[l] = 2)
        BY <2>1, <1>s, Halves
      <4> QED BY <1>c, <4>1
    <3> HIDE DEF r
    <3>3. Goes(t, r.pc, r.target, r.c, r.back, r.lock, r.cur)
      BY <2>0, <3>1, <3>2, Update
    <3> QED BY <2>1, <3>1, <3>2, <3>3
  <2>2. CASE ~(state[l] \div 2 >= 2)
    <3>1. th' = [th EXCEPT ![t] = Rest("flush")] /\ state[l] \in {2, 3}
      BY <1>c, <2>2
    <3>2. Goes(t, "flush", Null, Null, Null, Null, Null)
      BY <2>0, <3>1, RestFacts, Update
    <3> QED BY <3>1, <3>2
  <2> QED BY <2>1, <2>2
<1>k. \A m \in Combiners : m # Null
  BY CombinerAssumption
<1>o. \A u \in Workers : th[u].lock = l => u = t
  BY <1>l, Alone DEF IInv, OneThreadInside
<1>r. /\ Running(l) /\ ~Running(l)'
      /\ \A m \in Combiners : m # l => (Running(m)' <=> Running(m))
  <2>1. Running(l)
    BY <1>u, <1>l DEF Running
  <2>2. ~Running(l)'
    BY <1>g, <1>k, <1>o DEF Running, Goes
  <2>3. \A m \in Combiners : m # l => (Running(m)' <=> Running(m))
    BY <1>l, <1>g, <1>k DEF Running, Goes
  <2> QED BY <2>1, <2>2, <2>3
<1>d. failed' = failed /\ (freed' = freed \/ (freed' = freed \cup {l} /\ state[l] = 2))
  <2>1. CASE state[l] = 2 /\ ReallyDestroy(l)
    <3>1. state[l] \div 2 = 1
      BY <2>1
    <3>2. Len(fifo[l]) = 0
      <4>1. /\ state[l] \div 2 = Cardinality(Adding(l)) + Len(fifo[l])
                          + (IF Running(l) THEN 1 ELSE 0)
                          + (IF finalList[l] = <<>> THEN 0 ELSE 1)
        BY DEF IInv, CountInv
      <4>2. Cardinality(Adding(l)) \in Nat /\ Len(fifo[l]) \in Nat
        BY CountedFacts
      <4> QED BY <1>r, <3>1, <4>1, <4>2
    <3>3. QDestroyable(l)
      BY <3>2, CountedFacts, EmptyQueue
    <3>4. freed' = freed \cup {l} /\ failed' = (failed \/ state'[l] # 0 \/ ~QDestroyable(l))
      BY <2>1 DEF ReallyDestroy
    <3>5. failed \in BOOLEAN /\ state'[l] = 0
      BY <2>1, <1>s DEF IInv, TypeOK
    <3> QED BY <2>1, <3>3, <3>4, <3>5
  <2>2. CASE freed' = freed /\ failed' = failed
    BY <2>2
  <2> QED BY <1>c, <2>1, <2>2
<1>a. PICK place \in [Combiners -> Places], p \in [Combiners -> Places] :
        /\ TurnInv(place) /\ ListInv(place) /\ ListInv(p)' /\ place[l] = At("list", t)
        /\ p[l] = (IF pc = "repush" THEN At("repush", t) ELSE At("none", Null))
        /\ \A m \in Combiners : m # l => p[m] = place[m]
        /\ active' \in [Workers -> Combiners \cup {Null}]
        /\ lastOf' \in [Workers -> Combiners \cup {Null}]
        /\ nextCombiner' = nextCombiner /\ \A u \in Workers : u # t => active'[u] = active[u]
  <2>1. PICK place \in [Combiners -> Places] : TurnInv(place) /\ ListInv(place)
    BY DEF IInv, TurnsInv
  <2>2. PICK y \in Places : y = IF pc = "repush" THEN At("repush", t) ELSE At("none", Null)
    BY DEF At, Places
  <2>3. PICK p \in [Combiners -> Places] :
          p[l] = y /\ \A m \in Combiners : m # l => p[m] = place[m]
    BY <2>1, <2>2, NewPlace, ZenonT(30)
  <2>4. p[l].how # "list"
    BY <2>2, <2>3, AtFacts
  <2>5. /\ active \in [Workers -> Combiners \cup {Null}]
        /\ lastOf \in [Workers -> Combiners \cup {Null}]
        /\ nextCombiner \in [Combiners -> Combiners \cup {Null}]
    BY DEF IInv, TypeOK
  <2>6. /\ ListInv(p)' /\ place[l] = At("list", t)
        /\ active' \in [Workers -> Combiners \cup {Null}]
        /\ lastOf' \in [Workers -> Combiners \cup {Null}]
        /\ nextCombiner' = nextCombiner /\ \A u \in Workers : u # t => active'[u] = active[u]
    BY <1>u, <1>l, <2>1, <2>3, <2>4, <2>5, MoveNextKeeps
  <2> QED BY <2>1, <2>2, <2>3, <2>6
<1>1. TypeOK'
  <2>1. timeFinal' \in [Combiners -> BOOLEAN]
    BY <1>t DEF IInv, TypeOK
  <2>2. freed' \subseteq Combiners /\ failed' \in BOOLEAN
    BY <1>d DEF IInv, TypeOK
  <2>3. nextCombiner' \in [Combiners -> Combiners \cup {Null}]
    BY <1>a DEF IInv, TypeOK
  <2> QED BY <1>u, <1>g, <1>s, <1>a, <2>1, <2>2, <2>3
          DEF IInv, TypeOK, QTypeOK, Goes, queue, ghost
<1>2. PcInv'
  BY <1>u, <1>g, <1>k, <1>a, CombinerAssumption DEF IInv, PcInv, Goes, CallPcs, TurnPcs
<1>3. RefInv'
  BY <1>u, <1>g, <1>s, RefFrame DEF IInv, Goes
<1>4. TurnsInv'
  <2>1. OffloadInv(p)'
    <3>1. place[l].how # "offload" /\ offloads' = offloads
      BY <1>u, <1>a, AtFacts
    <3>2. TypeOK /\ OffloadInv(place)
      BY <1>a DEF IInv, TurnInv
    <3> QED BY <1>a, <3>1, <3>2, OffloadFrame
  <2>2. p[l].how # "none" => state'[l] >= 2
    BY <1>a, <1>g, <1>s, AtFacts
  <2>3. \A m \in Combiners : m # l => (state[m] >= 2 => state'[m] >= 2)
    BY <1>s
  <2>4. \A u \in Workers : u # t => place[l] # At("initiate", u) /\ place[l] # At("repush", u)
    BY <1>a, AtFacts
  <2>5. /\ \A u \in Workers : u # t => th'[u] = th[u]
        /\ th'[t].pc # "initiate"
        /\ th'[t].pc = "repush" => th'[t].lock = l /\ p[l] = At("repush", t)
    BY <1>g, <1>a DEF Goes
  <2>6. TypeOK /\ PcInv
    BY DEF IInv
  <2>7. TurnInv(p)'
    BY <1>a, <2>1, <2>2, <2>3, <2>4, <2>5, <2>6, TurnChange
  <2> QED BY <1>a, <2>7 DEF TurnsInv
<1>5. OpInv' /\ ChainInv'
  BY <1>u, <1>g, QueueFrame DEF IInv, Goes, ghost
<1>6. ClosureInv'
  BY <1>u, <1>g, ClosureFrame DEF IInv, Goes, AddPcs, ghost
<1>7. CountInv'
  <2>1. \A m \in Combiners : Adding(m)' = Adding(m)
    BY <1>u, <1>g DEF Adding, Goes, AddPcs
  <2>2. fifo' = fifo /\ finalList' = finalList
    BY <1>u DEF ghost
  <2>3. Cardinality(Adding(l)) \in Nat /\ Len(fifo[l]) \in Nat
    BY CountedFacts
  <2> SUFFICES ASSUME NEW m \in Combiners
               PROVE  state'[m] \div 2 = Cardinality(Adding(m)') + Len(fifo'[m])
                                         + (IF Running(m)' THEN 1 ELSE 0)
                                         + (IF finalList'[m] = <<>> THEN 0 ELSE 1)
    BY DEF CountInv
  <2>4. CASE m = l
    <3>1. state[l] \div 2 = Cardinality(Adding(l)) + Len(fifo[l])
                            + (IF Running(l) THEN 1 ELSE 0)
                            + (IF finalList[l] = <<>> THEN 0 ELSE 1)
      BY DEF IInv, CountInv
    <3>f. PICK f \in Nat : f = IF finalList[l] = <<>> THEN 0 ELSE 1
      OBVIOUS
    <3>n. PICK a \in Nat, b \in Nat : a = Cardinality(Adding(l)) /\ b = Len(fifo[l])
      BY <2>3
    <3>2. state[l] \div 2 = a + b + 1 + f
      BY <1>r, <3>1, <3>f, <3>n
    <3>3. state'[l] \div 2 = a + b + f
      BY <1>s, <3>2
    <3> QED BY <1>r, <2>1, <2>2, <2>4, <3>3, <3>f, <3>n
  <2>5. CASE m # l
    BY <1>r, <1>s, <2>1, <2>2, <2>5 DEF IInv, CountInv
  <2> QED BY <2>4, <2>5
<1>8. FinalInv'
  <2>1. \A m \in Combiners : m # l => timeFinal'[m] = timeFinal[m]
    BY <1>t DEF IInv, TypeOK
  <2>2. timeFinal'[l] => state[l] \div 2 = 2 /\ finalList[l] # <<>>
    BY <1>t DEF IInv, TypeOK
  <2>3. \A u \in Workers : th'[u].pc = "peek" => th[u].pc = "peek" /\ th'[u] = th[u] /\ u # t
    BY <1>g DEF Goes
  <2>4. \A u \in Workers : th[u].pc = "peek" => th[u].lock \in Combiners
    BY DEF IInv, TypeOK, ThreadType, PcInv, TurnPcs
  <2>5. \A u \in Workers : th'[u].pc = "peek" => timeFinal'[th'[u].lock]
    BY <1>o, <2>1, <2>3, <2>4 DEF IInv, FinalInv
  <2>6. ASSUME NEW m \in Combiners, timeFinal'[m]
        PROVE  state'[m] >= 2 /\ (finalList'[m] # <<>> \/ Running(m)')
    <3>1. CASE m = l
      BY <1>u, <1>s, <2>2, <2>6, <3>1
    <3>2. CASE m # l
      BY <1>u, <1>s, <1>r, <2>1, <2>6, <3>2 DEF IInv, FinalInv
    <3> QED BY <3>1, <3>2
  <2> QED BY <2>5, <2>6 DEF FinalInv
<1>9. FreedInv'
  <2>1. l \notin freed /\ freed \subseteq Combiners
    BY <1>s DEF IInv, FreedInv, TypeOK
  <2>2. \A m \in freed : state'[m] = 0
    BY <1>s, <2>1 DEF IInv, FreedInv
  <2>3. state[l] = 2 => state'[l] = 0
    BY <1>s
  <2> QED BY <1>d, <2>2, <2>3 DEF IInv, FreedInv
<1> QED BY <1>1, <1>2, <1>3, <1>4, <1>5, <1>6, <1>7, <1>8, <1>9 DEF IInv

-----------------------------------------------------------------------------
(* The theorems *)

(* grpc_combiner_create: every combiner has an empty queue and no turn. *)
LEMMA InitIInv == Init => IInv
<1> SUFFICES ASSUME Init PROVE IInv
  OBVIOUS
<1>p. /\ \A t \in Workers : /\ th[t] \in ThreadType /\ th[t].pc \in {"api", "wait"}
                            /\ th[t].target = Null /\ th[t].c = Null /\ th[t].back = Null
                            /\ th[t].lock = Null /\ th[t].cur = Null
      /\ th \in [Workers -> ThreadType]
  <2>1. th = [t \in Workers |-> Rest(IF t \in Apps THEN "api" ELSE "wait")]
    BY DEF Init
  <2>2. ASSUME NEW t \in Workers
        PROVE  /\ th[t] \in ThreadType /\ th[t].pc \in {"api", "wait"}
               /\ th[t].target = Null /\ th[t].c = Null /\ th[t].back = Null
               /\ th[t].lock = Null /\ th[t].cur = Null
    <3>1. PICK pc \in {"api", "wait"} : pc = IF t \in Apps THEN "api" ELSE "wait"
      OBVIOUS
    <3>2. th[t] = Rest(pc) /\ pc \in Pcs
      BY <2>1, <3>1 DEF Pcs
    <3> QED BY <3>2, RestFacts
  <2> QED BY <2>1, <2>2
<1>k. \A l \in Combiners : l # Null
  BY CombinerAssumption
<1>q. /\ head = [q \in Combiners |-> q] /\ tail = [q \in Combiners |-> q]
      /\ next = [n \in Slots |-> Null] /\ op = [t \in Workers |-> IdleOp]
  BY DEF Init, QInit
<1>o. \A t \in Workers : op[t] \in OpType /\ op[t].pc = "idle"
  BY <1>q DEF IdleOp, OpType
<1>e. <<>> \in Seq(Closures) /\ <<>> \in Seq(Combiners) /\ Len(<<>>) = 0 /\ DOMAIN <<>> = {}
  OBVIOUS
<1>1. TypeOK
  <2>1. QTypeOK
    <3>1. Combiners \subseteq Slots
      BY DEF Slots
    <3>2. op \in [Workers -> OpType]
      BY <1>o, <1>q
    <3> QED BY <1>q, <3>1, <3>2 DEF QTypeOK, OpType
  <2>2. /\ state \in [Combiners -> Nat] /\ initiating \in [Combiners -> Workers \cup {Null}]
        /\ timeFinal \in [Combiners -> BOOLEAN] /\ finalList \in [Combiners -> Seq(Closures)]
        /\ nextCombiner \in [Combiners -> Combiners \cup {Null}]
        /\ active \in [Workers -> Combiners \cup {Null}]
        /\ lastOf \in [Workers -> Combiners \cup {Null}]
    BY <1>e DEF Init
  <2>3. /\ offloads \in [Executors -> Seq(Combiners)]
        /\ freed \subseteq Combiners /\ setup \in Setups
        /\ cb \in [Closures -> {"run", "enqueue_finally"}]
        /\ status \in [Closures -> {"new", "scheduled", "ran"}]
        /\ fifo \in [Combiners -> Seq(Closures)]
    BY <1>e DEF Init
  <2>5. finished \in [Workers -> BOOLEAN]
    BY DEF Init
  <2>6. failed \in BOOLEAN
    BY DEF Init
  <2>4. refs \in [Combiners -> SUBSET (Apps \cup Closures)]
    BY DEF Init
  <2> QED BY <1>p, <2>1, <2>2, <2>3, <2>4, <2>5, <2>6 DEF TypeOK
<1>2. PcInv
  BY <1>p, CombinerAssumption DEF PcInv, CallPcs, TurnPcs
<1>3. RefInv
  <2>1. \A l \in Combiners : state[l] % 2 = 1
    <3>1. 1 % 2 = 1
      OBVIOUS
    <3> QED BY <3>1 DEF Init
  <2> QED BY <1>p, <2>1 DEF RefInv
<1>4. TurnsInv
  <2> DEFINE place == [l \in Combiners |-> At("none", Null)]
  <2>1. place \in [Combiners -> Places] /\ \A l \in Combiners : place[l] = At("none", Null)
    BY DEF At, Places
  <2> HIDE DEF place
  <2>2. /\ \A l \in Combiners : place[l].how = "none"
        /\ \A l \in Combiners, t \in Workers : place[l] # At("list", t)
    BY <2>1, AtFacts
  <2>3. OffloadInv(place)
    BY <1>e DEF OffloadInv, Init
  <2>4. TurnInv(place)
    BY <1>p, <2>2, <2>3 DEF TurnInv
  <2>5. \A t \in Workers : active[t] = Null /\ lastOf[t] = Null
    BY DEF Init
  <2>6. ListInv(place)
    BY <2>2, <2>5 DEF ListInv
  <2> QED BY <2>1, <2>4, <2>6 DEF TurnsInv
<1>5. OpInv
  BY <1>p, <1>o DEF OpInv
<1>6. ClosureInv
  <2>1. \A q \in Combiners : fifo[q] = <<>>
    BY DEF Init
  <2> QED BY <1>p, <1>e, <2>1 DEF ClosureInv, AddPcs
<1>7. ChainInv
  <2> SUFFICES ASSUME NEW q \in Combiners PROVE Chained(q)
    BY DEF ChainInv
  <2>1. Queued(q) = <<>>
    BY <1>o DEF Queued, PoppedFrom, Init
  <2>2. PICK s : s = Chain(<<>>, q, 1)
    OBVIOUS
  <2>3. Len(s) = 1 /\ s[1] = q
    <3>1. ASSUME NEW f \in Seq(Closures), Len(f) = 0
          PROVE  Len(Chain(f, q, 1)) = 1 /\ Chain(f, q, 1)[1] = q
      <4>1. 1 \in 0 .. Len(f) + 1 /\ 1 # 0
        BY <3>1
      <4>2. Len(Chain(f, q, 1)) = Len(f) + 1 /\ Chain(f, q, 1)[1] = q
        BY <4>1, ChainFacts
      <4> QED BY <3>1, <4>2
    <3> QED BY <1>e, <2>2, <3>1
  <2>4. tail[q] = q /\ head[q] = q /\ next[q] = Null
    BY <1>q DEF Slots
  <2>5. ChainOf(q, s)
    BY <1>o, <2>3, <2>4 DEF ChainOf
  <2>6. 1 \in 0 .. Len(Queued(q)) + 1
    BY <1>e, <2>1
  <2> QED BY <1>o, <2>1, <2>2, <2>5, <2>6 DEF Chained
<1>8. CountInv
  <2> SUFFICES ASSUME NEW l \in Combiners
               PROVE  state[l] \div 2 = Cardinality(Adding(l)) + Len(fifo[l])
                                        + (IF Running(l) THEN 1 ELSE 0)
                                        + (IF finalList[l] = <<>> THEN 0 ELSE 1)
    BY DEF CountInv
  <2>1. Adding(l) = {} /\ ~Running(l)
    BY <1>p, <1>k DEF Adding, Running, AddPcs
  <2>2. Cardinality(Adding(l)) = 0
    BY <2>1, FS_EmptySet
  <2>3. state[l] = 1 /\ fifo[l] = <<>> /\ finalList[l] = <<>>
    BY DEF Init
  <2> QED BY <1>e, <2>1, <2>2, <2>3
<1>9. FinalInv
  BY <1>p DEF FinalInv, Init
<1>10. FreedInv
  BY DEF FreedInv, Init
<1> QED BY <1>1, <1>2, <1>3, <1>4, <1>5, <1>6, <1>7, <1>8, <1>9, <1>10 DEF IInv

(* Every step keeps the invariant. *)
LEMMA NextIInv == IInv /\ [Next]_vars => IInv'
<1> SUFFICES ASSUME IInv, [Next]_vars PROVE IInv'
  OBVIOUS
<1>1. ASSUME NEW t \in Workers, Step(t) PROVE IInv'
  BY <1>1, InitiateStep, CheckInitiatorStep, ContendStep, PushStep, LinkStep, StartDestroyStep,
     FlushStep, OffloadStep, ContinueStep, PeekStep, StartPopStep, GoOnPoppingStep, PopFailedStep,
     PopSucceededStep, EnqueueFinallyStep, ReturnStep, NextFinalStep, UnlockStep, RepushStep,
     UnrefStep DEF Step
<1>2. ASSUME NEW t \in Workers, NEW l \in Combiners, NEW c \in Closures,
             Schedule(t, l, c) \/ ScheduleFinally(t, l, c)
      PROVE  IInv'
  BY <1>2, ScheduleStep, ScheduleFinallyStep
<1>3. ASSUME NEW t \in Apps, NEW l \in Combiners, Unref(t, l) PROVE IInv'
  <2>1. t \in Workers
    BY DEF Workers
  <2> QED BY <1>3, <2>1, UnrefStep
<1>4. CASE UNCHANGED vars
  <2>u. UNCHANGED <<queue, lockVars, ctxVars, finished, offloads, objVars, th, cb, ghost, failed>>
    BY <1>4 DEF vars
  <2>1. TypeOK'
    BY <2>u DEF IInv, TypeOK, QTypeOK, queue, lockVars, ctxVars, objVars, ghost
  <2>2. PcInv'
    BY <2>u DEF IInv, PcInv, ctxVars
  <2>3. RefInv'
    BY <2>u, RefFrame DEF IInv, lockVars, objVars
  <2>4. TurnsInv'
    BY <2>u, TurnFrame DEF IInv, TypeOK, lockVars
  <2>5. OpInv' /\ ChainInv'
    BY <2>u, QueueFrame DEF IInv, ghost
  <2>6. ClosureInv'
    BY <2>u, ClosureFrame DEF IInv, ghost
  <2>7. CountInv'
    BY <2>u, CountFrame DEF IInv, ghost, lockVars
  <2>8. FinalInv'
    BY <2>u, FinalFrame DEF IInv, lockVars
  <2>9. FreedInv'
    BY <2>u, FreedFrame DEF IInv, lockVars, objVars
  <2> QED BY <2>1, <2>2, <2>3, <2>4, <2>5, <2>6, <2>7, <2>8, <2>9 DEF IInv
<1> QED BY <1>1, <1>2, <1>3, <1>4 DEF Next

(* The invariant holds of every behaviour of the combiners. *)
LEMMA Invariance == Spec => []IInv
BY InitIInv, NextIInv, PTL DEF Spec

(* Every variable of combiner.cc, mpscq.cc and the exec_ctx keeps its type. *)
THEOREM TypeCorrect == Spec => []TypeOK
<1>1. IInv => TypeOK
  BY DEF IInv
<1> QED BY <1>1, Invariance, PTL

(* combiner.h: "closures are executed serially".  However the turn of a combiner wanders,
   from the thread that initiated it to the executor and back, two threads never have it. *)
THEOREM MutualExclusion == Spec => []OneThreadInside
<1>1. IInv => OneThreadInside
  BY Alone DEF IInv
<1> QED BY <1>1, Invariance, PTL

(* gpr_mpscq_pop returns the closures in the order of the exchanges of gpr_mpscq_push,
   whatever pushes are half done and wherever the stub is. *)
THEOREM FifoOrder == Spec => []PopsInOrder
<1>1. IInv => PopsInOrder
  BY DEF IInv, OpInv, PopsInOrder
<1> QED BY <1>1, Invariance, PTL

(* really_destroy frees a combiner that no thread, no list and no executor queue holds, with
   an empty queue, and no GPR_ASSERT of combiner.cc fails. *)
THEOREM FreedSafety == Spec => []FreedOnlyWhenUnused
<1>1. ASSUME IInv PROVE FreedOnlyWhenUnused
  <2>1. ~failed /\ freed \subseteq Combiners
    BY <1>1 DEF IInv, FreedInv, TypeOK
  <2>2. ASSUME NEW l \in freed
        PROVE  /\ fifo[l] = <<>> /\ finalList[l] = <<>>
               /\ \A t \in Workers : l \notin {th[t].lock, active[t], lastOf[t]}
               /\ \A t \in Workers : th[t].target = l => th[t].pc = "orphan"
               /\ \A t \in Workers : active[t] # lastOf[t] => nextCombiner[active[t]] # l
               /\ \A x \in Executors, i \in 1 .. Cardinality(Closures) + 1 :
                     i \in DOMAIN offloads[x] => offloads[x][i] # l
    <3>0. l \in Combiners /\ state[l] = 0 /\ l # Null /\ TypeOK /\ PcInv
      BY <1>1, <2>1, <2>2, CombinerAssumption DEF IInv, FreedInv
    <3>p. PICK place \in [Combiners -> Places] : TurnInv(place) /\ ListInv(place)
      BY <1>1 DEF IInv, TurnsInv
    <3>n. place[l].how = "none"
      BY <3>0, <3>p DEF TurnInv
    <3>m. \A a, t : a # "none" => place[l] # At(a, t)
      BY <3>n, AtFacts
    <3>c. /\ state[l] \div 2 = 0 /\ Cardinality(Adding(l)) \in Nat /\ Len(fifo[l]) \in Nat
          /\ (Cardinality(Adding(l)) = 0 <=> Adding(l) = {})
          /\ (Len(fifo[l]) = 0 <=> fifo[l] = <<>>)
      <4>1. 0 \div 2 = 0
        OBVIOUS
      <4> QED BY <1>1, <3>0, <4>1, CountedFacts
    <3>1. fifo[l] = <<>> /\ finalList[l] = <<>> /\ Adding(l) = {}
      <4>1. state[l] \div 2 = Cardinality(Adding(l)) + Len(fifo[l])
                              + (IF Running(l) THEN 1 ELSE 0)
                              + (IF finalList[l] = <<>> THEN 0 ELSE 1)
        BY <1>1, <3>0 DEF IInv, CountInv
      <4>2. PICK f \in Nat : f = IF finalList[l] = <<>> THEN 0 ELSE 1
        OBVIOUS
      <4>3. PICK r \in Nat : r = IF Running(l) THEN 1 ELSE 0
        OBVIOUS
      <4>4. Cardinality(Adding(l)) = 0 /\ Len(fifo[l]) = 0 /\ f = 0
        BY <3>c, <4>1, <4>2, <4>3
      <4> QED BY <3>c, <4>2, <4>4
    <3>2. ASSUME NEW t \in Workers PROVE l \notin {th[t].lock, active[t], lastOf[t]}
      <4>1. th[t].lock # l
        BY <3>0, <3>m, <3>p, TurnOf
      <4>2. active[t] # l /\ lastOf[t] # l
        BY <3>0, <3>m, <3>p DEF ListInv
      <4> QED BY <4>1, <4>2
    <3>3. ASSUME NEW t \in Workers, th[t].target = l PROVE th[t].pc = "orphan"
      <4>1. th[t].pc \in CallPcs
        BY <3>0, <3>3 DEF PcInv
      <4>2. th[t].pc \notin AddPcs
        BY <3>1, <3>3 DEF Adding
      <4>3. th[t].pc # "link"
        <5>1. ~(op[t].pc = "link" /\ op[t].q = l)
          BY <1>1, <3>0, <3>1, EmptyQueue
        <5> QED BY <1>1, <3>3, <5>1 DEF IInv, OpInv
      <4> QED BY <4>1, <4>2, <4>3 DEF CallPcs, AddPcs
    <3>4. ASSUME NEW t \in Workers, active[t] # lastOf[t] PROVE nextCombiner[active[t]] # l
      <4>1. active[t] # Null
        BY <3>4, <3>p DEF ListInv
      <4>2. active[t] \in Combiners /\ place[active[t]] = At("list", t)
        BY <3>0, <3>p, <4>1 DEF ListInv, TypeOK
      <4>3. place[nextCombiner[active[t]]] = At("list", t)
        BY <3>4, <3>p, <4>2 DEF ListInv
      <4> QED BY <3>m, <4>3
    <3>5. ASSUME NEW x \in Executors, NEW i \in DOMAIN offloads[x] PROVE offloads[x][i] # l
      <4>1. place[offloads[x][i]] = At("offload", x)
        BY <3>p, <3>5 DEF TurnInv, OffloadInv
      <4> QED BY <3>m, <4>1
    <3> QED BY <3>1, <3>2, <3>3, <3>4, <3>5
  <2> QED BY <2>1, <2>2 DEF FreedOnlyWhenUnused
<1> QED BY <1>1, Invariance, PTL

(* combiner.h: a finally closure runs "just prior to unlocking": an unlocked combiner has an
   empty final list and is not marked to run one. *)
THEOREM FinalBeforeUnlock == Spec => []FinalListRunsBeforeUnlock
<1>1. ASSUME IInv PROVE FinalListRunsBeforeUnlock
  <2> SUFFICES ASSUME NEW l \in Combiners, state[l] < 2
               PROVE  finalList[l] = <<>> /\ ~timeFinal[l]
    BY DEF FinalListRunsBeforeUnlock
  <2>1. state[l] \in Nat /\ Cardinality(Adding(l)) \in Nat /\ Len(fifo[l]) \in Nat
    BY <1>1, CountedFacts
  <2>2. state[l] \div 2 = 0
    BY <2>1, Halves
  <2>3. ~timeFinal[l]
    BY <1>1, <2>1 DEF IInv, FinalInv
  <2>4. state[l] \div 2 = Cardinality(Adding(l)) + Len(fifo[l])
                          + (IF Running(l) THEN 1 ELSE 0)
                          + (IF finalList[l] = <<>> THEN 0 ELSE 1)
    BY <1>1 DEF IInv, CountInv
  <2>5. PICK f \in Nat : f = IF finalList[l] = <<>> THEN 0 ELSE 1
    OBVIOUS
  <2>6. PICK r \in Nat : r = IF Running(l) THEN 1 ELSE 0
    OBVIOUS
  <2>7. f = 0
    BY <2>1, <2>2, <2>4, <2>5, <2>6
  <2> QED BY <2>3, <2>5, <2>7
<1> QED BY <1>1, Invariance, PTL
=============================================================================
