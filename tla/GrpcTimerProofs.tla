--------------------------- MODULE GrpcTimerProofs ---------------------------
(***************************************************************************)
(* The proofs about gRPC-Core's timers.  The invariant IInv of GrpcTimer   *)
(* is kept by every step (TimerStep): the locks and the counters say what  *)
(* the threads are doing, min_deadline covers the heap but for the timers  *)
(* that grpc_timer_init has yet to announce, and one thread is always      *)
(* Fresh, or a kick will make one.  From it follow that a closure is       *)
(* called once and in time, and when and for how long the threads may      *)
(* sleep over a timer.                                                     *)
(***************************************************************************)
EXTENDS GrpcTimer, FiniteSetTheorems, WellFoundedInduction, TLAPS

(* Min of a set of deadlines. *)
LEMMA MinNat ==
    ASSUME NEW T, T \subseteq Nat, T # {}
    PROVE  Min(T) \in T /\ \A x \in T : Min(T) <= x
<1>1. PICK m \in T : \A y \in T : <<y, m>> \notin OpToRel(<, Nat)
  BY NatLessThanWellFounded, WFMin
<1>2. \A y \in T : ~(y < m)
  <2> SUFFICES ASSUME NEW y \in T, y < m PROVE FALSE
    OBVIOUS
  <2>1. <<y, m>> \in Nat \X Nat /\ <<y, m>>[1] = y /\ <<y, m>>[2] = m
    OBVIOUS
  <2>2. <<y, m>> \in OpToRel(<, Nat)
    BY <2>1, Zenon DEF OpToRel
  <2> QED BY <1>1, <2>2
<1>3. \A y \in T : m <= y
  BY <1>2
<1> QED BY <1>3 DEF Min

(* Any set of threads is counted within the pool. *)
LEMMA CountBounds ==
    ASSUME NEW S, S \subseteq Pool
    PROVE  IsFiniteSet(S) /\ Cardinality(S) \in Nat /\ Cardinality(S) \in 0 .. Cardinality(Pool)
<1>1. IsFiniteSet(S) /\ Cardinality(S) <= Cardinality(Pool)
  BY GrpcTimerAssumption, FS_Subset
<1>2. Cardinality(S) \in Nat /\ Cardinality(Pool) \in Nat
  BY <1>1, GrpcTimerAssumption, FS_CardinalityType
<1> QED BY <1>1, <1>2

LEMMA ThreadTypes ==
    /\ \A pc \in Pcs : NewThread(pc) \in ThreadType
    /\ \A n \in 0 .. AtmMax : /\ WaitFor(n) \in ThreadType
                              /\ [NewThread("asleep") EXCEPT !.until = n] \in ThreadType
    /\ \A n \in 0 .. MaxNow : [NewThread("load") EXCEPT !.now = n] \in ThreadType
    /\ \A r \in ThreadType, pc \in Pcs : [r EXCEPT !.pc = pc] \in ThreadType
<1> USE GrpcTimerAssumption DEF ThreadType, Pcs
<1>1. \A n \in 0 .. MaxNow : n \in 0 .. AtmMax
  <2>1. PICK d \in Deltas : d \in Nat \ {0} /\ MaxNow + d < AtmMax
    OBVIOUS
  <2> QED BY <2>1
<1>2. 0 \in 0 .. AtmMax /\ AtmMax \in 0 .. AtmMax
  OBVIOUS
<1>3. \A pc \in Pcs : NewThread(pc) \in ThreadType
  BY <1>2 DEF NewThread
<1>4. \A n \in 0 .. AtmMax : /\ WaitFor(n) \in ThreadType
                             /\ [NewThread("asleep") EXCEPT !.until = n] \in ThreadType
  BY <1>2 DEF NewThread, WaitFor
<1>5. \A n \in 0 .. MaxNow : [NewThread("load") EXCEPT !.now = n] \in ThreadType
  BY <1>1, <1>2 DEF NewThread
<1>6. \A r \in ThreadType, pc \in Pcs : [r EXCEPT !.pc = pc] \in ThreadType
  OBVIOUS
<1> QED BY <1>3, <1>4, <1>5, <1>6

(* What pop_timers at time n makes of the shard: the window moves forward only;
   pending timers that are due are called, once each, with error e; others are
   put into the heap if they are in the window. *)
Popped(r, n, e) ==
    /\ r.tm \in [Timers -> TimerType] /\ r.cap \in cap .. AtmMax
    /\ \A t \in Timers :
          /\ r.tm[t].dl = timer[t].dl
          /\ \/ r.tm[t] = timer[t]
             \/ /\ timer[t].at \in {"heap", "list"} /\ r.tm[t].at = "done"
                /\ r.tm[t].calls = timer[t].calls + 1 /\ r.tm[t].err = e
                /\ timer[t].dl <= n
             \/ /\ timer[t].at = "list" /\ r.tm[t].at = "heap"
                /\ r.tm[t].calls = timer[t].calls
          /\ r.tm[t].at = "heap" => timer[t].dl < r.cap /\ timer[t].dl > n
          /\ r.tm[t].at = "list" => timer[t].dl >= r.cap
    /\ n = AtmMax => r.cap = AtmMax

LEMMA PopFacts ==
    ASSUME IInv, NEW n \in 0 .. AtmMax, NEW delta \in Deltas,
           NEW e \in {"none", "cancelled", "shutdown", "uninitialized"}
    PROVE  Popped(PopAll(timer, cap, n, delta, e), n, e)
<1> USE GrpcTimerAssumption
<1> DEFINE r      == PopAll(timer, cap, n, delta, e)
           heap   == {t \in Timers : timer[t].at = "heap"}
           refill == n >= cap /\ \A t \in heap : timer[t].dl <= n
           c2     == IF refill THEN SaturatingAdd(n, delta) ELSE cap
           moved  == {t \in Timers : refill /\ timer[t].at = "list" /\ timer[t].dl < c2}
           new(t) == IF t \notin heap \cup moved THEN timer[t]
                     ELSE IF timer[t].dl <= n THEN Called(timer, t, e)[t]
                     ELSE [timer[t] EXCEPT !.at = "heap"]
<1>1. r.cap = c2 /\ r.tm = [t \in Timers |-> new(t)]
  BY DEF PopAll
<1>2. cap \in 0 .. AtmMax /\ timer \in [Timers -> TimerType] /\ delta \in Nat /\ AtmMax \in Nat
  BY DEF IInv, TypeOK
<1>3. c2 \in cap .. AtmMax
  BY <1>2 DEF SaturatingAdd
<1>4. n = AtmMax => c2 = AtmMax
  <2>1. ASSUME n = AtmMax PROVE refill
    BY <1>2, <2>1 DEF TimerType
  <2> QED BY <1>2, <2>1 DEF SaturatingAdd
<1>5. \A t \in Timers : /\ timer[t].at = "heap" => timer[t].dl < cap
                        /\ timer[t].at = "list" => timer[t].dl >= cap
                        /\ timer[t].at # "done" => timer[t].calls \in 0 .. 1
  BY DEF IInv, ShardInv, CalledOnceAndInTime
<1>6. ASSUME NEW t \in Timers
      PROVE  /\ new(t) \in TimerType
             /\ new(t).dl = timer[t].dl
             /\ \/ new(t) = timer[t]
                \/ /\ timer[t].at \in {"heap", "list"} /\ new(t).at = "done"
                   /\ new(t).calls = timer[t].calls + 1 /\ new(t).err = e
                   /\ timer[t].dl <= n
                \/ /\ timer[t].at = "list" /\ new(t).at = "heap"
                   /\ new(t).calls = timer[t].calls
             /\ new(t).at = "heap" => timer[t].dl < c2 /\ timer[t].dl > n
             /\ new(t).at = "list" => timer[t].dl >= c2
  <2>1. /\ timer[t] \in TimerType /\ timer[t].dl \in Nat
        /\ refill => SaturatingAdd(n, delta) \in Nat
    BY <1>2, <1>3 DEF TimerType
  <2>2. CASE t \notin heap \cup moved
    <3>1. new(t) = timer[t] /\ timer[t].at # "heap"
      BY <2>2
    <3>2. timer[t].at = "list" => timer[t].dl >= c2
      BY <1>2, <1>3, <1>5, <2>1, <2>2
    <3> QED BY <2>1, <3>1, <3>2
  <2>3. CASE t \in heap \cup moved /\ timer[t].dl <= n
    <3>1. new(t) = Called(timer, t, e)[t] /\ timer[t].at \in {"heap", "list"}
      BY <2>3
    <3>2. timer[t].calls \in 0 .. 1
      BY <1>5, <3>1
    <3>3. timer[t].dl <= n
      BY <2>3
    <3> HIDE DEF heap, moved, new, c2, refill
    <3>4. /\ new(t) \in TimerType /\ new(t).dl = timer[t].dl /\ new(t).at = "done"
          /\ new(t).calls = timer[t].calls + 1 /\ new(t).err = e
      <4>1. Called(timer, t, e)[t] = [dl |-> timer[t].dl, at |-> "done",
                                      calls |-> timer[t].calls + 1, err |-> e]
        BY <1>2 DEF Called
      <4> QED BY <2>1, <3>1, <3>2, <4>1 DEF TimerType
    <3> QED BY <3>1, <3>3, <3>4
  <2>4. CASE t \in heap \cup moved /\ timer[t].dl > n
    <3>1. new(t) = [timer[t] EXCEPT !.at = "heap"]
      BY <2>1, <2>4
    <3>2. timer[t].at = "heap" => ~refill
      BY <2>1, <2>4
    <3>3. timer[t].dl < c2
      BY <1>2, <1>3, <1>5, <2>1, <2>4, <3>2
    <3>4. \/ timer[t].at = "heap"
          \/ timer[t].at = "list"
      BY <2>4
    <3> HIDE DEF heap, moved, new, c2, refill
    <3>5. /\ new(t) \in TimerType /\ new(t).dl = timer[t].dl /\ new(t).at = "heap"
          /\ new(t).calls = timer[t].calls
          /\ timer[t].at = "heap" => new(t) = timer[t]
      BY <2>1, <3>1 DEF TimerType
    <3> QED BY <2>4, <3>3, <3>4, <3>5
  <2>5. timer[t].dl <= n \/ timer[t].dl > n
    BY <2>1
  <2> QED BY <2>2, <2>3, <2>4, <2>5
<1> HIDE DEF new, c2, refill, heap, moved, r
<1>7. r.tm \in [Timers -> TimerType] /\ \A t \in Timers : r.tm[t] = new(t)
  BY <1>1, <1>6
<1>8. Popped(r, n, e)
  BY <1>1, <1>3, <1>4, <1>6, <1>7 DEF Popped
<1> QED BY <1>8 DEF r

(* The deadline that compute_min_deadline finds covers the heap. *)
LEMMA ComputedMin ==
    ASSUME NEW tm \in [Timers -> TimerType], NEW c \in 0 .. AtmMax,
           \A t \in Timers : tm[t].at = "heap" => tm[t].dl < c
    PROVE  /\ ComputeMinDeadline(tm, c) \in 0 .. AtmMax
           /\ ComputeMinDeadline(tm, c) <= SaturatingAdd(c, 1)
           /\ \A t \in Timers : tm[t].at = "heap" => ComputeMinDeadline(tm, c) <= tm[t].dl
<1> USE GrpcTimerAssumption
<1> DEFINE h == {t \in Timers : tm[t].at = "heap"}
           T == {tm[t].dl : t \in h}
<1>1. SaturatingAdd(c, 1) \in 0 .. AtmMax /\ c <= SaturatingAdd(c, 1)
  BY DEF SaturatingAdd
<1>2. CASE h = {}
  BY <1>1, <1>2 DEF ComputeMinDeadline
<1>3. CASE h # {}
  <2>1. T \subseteq Nat /\ T # {}
    BY <1>3 DEF TimerType
  <2>2. ComputeMinDeadline(tm, c) = Min(T)
    BY <1>3 DEF ComputeMinDeadline
  <2>3. Min(T) \in T /\ \A x \in T : Min(T) <= x
    BY <2>1, MinNat, Zenon
  <2>4. \A x \in T : x \in 0 .. AtmMax /\ x < c
    BY DEF TimerType
  <2> QED BY <1>1, <2>2, <2>3, <2>4
<1> QED BY <1>2, <1>3
(* One turn of run_some_expired_timers: nothing is due, or pop_timers. *)
LEMMA ScanFacts ==
    ASSUME IInv, NEW i \in Pool, Scan(i)
    PROVE  /\ th[i].pc = "scan" /\ \A j \in Pool : j # i => th'[j] = th[j]
           /\ th' \in [Pool -> ThreadType] /\ th'[i].now = th[i].now
           /\ timer' \in [Timers -> TimerType] /\ cap' \in 0 .. AtmMax /\ cap <= cap'
           /\ UNCHANGED <<now, adding, sharedVars, mu, checker, initialized, tls, waitVars,
                          poolVars, lost>>
           /\ \A t \in Timers :
                 /\ timer'[t].dl = timer[t].dl
                 /\ \/ timer'[t] = timer[t]
                    \/ /\ timer[t].at \in {"heap", "list"} /\ timer'[t].at = "done"
                       /\ timer'[t].calls = timer[t].calls + 1 /\ timer'[t].err = "none"
                       /\ timer[t].dl <= th[i].now
                    \/ /\ timer[t].at = "list" /\ timer'[t].at = "heap"
                       /\ timer'[t].calls = timer[t].calls
                 /\ timer'[t].at = "heap" => timer[t].dl < cap'
                 /\ timer'[t].at = "list" => timer[t].dl >= cap'
           /\ \/ /\ th'[i].pc = "finish" /\ minDeadline > th[i].now
                 /\ UNCHANGED shardVars
              \/ /\ th'[i].pc = "setmin" /\ th'[i].min <= SaturatingAdd(cap', 1)
                 /\ \A t \in Timers : timer'[t].at = "heap" => th'[i].min <= timer'[t].dl
<1> USE GrpcTimerAssumption
<1>1. /\ th[i].pc = "scan" /\ th \in [Pool -> ThreadType] /\ th[i] \in ThreadType
      /\ timer \in [Timers -> TimerType] /\ cap \in 0 .. AtmMax
      /\ UNCHANGED <<now, adding, sharedVars, mu, checker, initialized, tls, waitVars,
                     poolVars, lost>>
  BY DEF Scan, IInv, TypeOK
<1>2. CASE minDeadline > th[i].now /\ Step(i, "finish") /\ UNCHANGED shardVars
  <2>1. th' = [th EXCEPT ![i] = [th[i] EXCEPT !.pc = "finish"]]
    BY <1>1, <1>2 DEF Step
  <2> DEFINE r == [th[i] EXCEPT !.pc = "finish"]
  <2>2. r \in ThreadType /\ r.pc = "finish" /\ r.now = th[i].now
    BY <1>1 DEF ThreadType, Pcs
  <2> HIDE DEF r
  <2>3. /\ th' \in [Pool -> ThreadType] /\ th'[i] = r
        /\ \A j \in Pool : j # i => th'[j] = th[j]
    BY <1>1, <2>1, <2>2 DEF r
  <2> QED BY <1>1, <1>2, <2>2, <2>3 DEF IInv, ShardInv, shardVars
<1>3. CASE \E delta \in Deltas :
             LET r == PopAll(timer, cap, th[i].now, delta, "none")
             IN  /\ timer' = r.tm /\ cap' = r.cap
                 /\ th' = [th EXCEPT ![i] =
                             [th[i] EXCEPT !.pc = "setmin",
                                           !.min = ComputeMinDeadline(r.tm, r.cap),
                                           !.fired = th[i].fired \/ Fires(r.tm)]]
  <2>1. PICK delta \in Deltas :
          LET r == PopAll(timer, cap, th[i].now, delta, "none")
          IN  /\ timer' = r.tm /\ cap' = r.cap
              /\ th' = [th EXCEPT ![i] =
                          [th[i] EXCEPT !.pc = "setmin",
                                        !.min = ComputeMinDeadline(r.tm, r.cap),
                                        !.fired = th[i].fired \/ Fires(r.tm)]]
    BY <1>3
  <2> DEFINE q == PopAll(timer, cap, th[i].now, delta, "none")
             m == ComputeMinDeadline(q.tm, q.cap)
             f == th[i].fired \/ Fires(q.tm)
             r == [th[i] EXCEPT !.pc = "setmin", !.min = m, !.fired = f]
  <2>2. timer' = q.tm /\ cap' = q.cap /\ th' = [th EXCEPT ![i] = r]
    BY <1>1, <2>1
  <2>3. th[i].now \in 0 .. AtmMax
    BY <1>1 DEF ThreadType
  <2>10. Popped(q, th[i].now, "none")
    BY <2>3, PopFacts
  <2> HIDE DEF q
  <2>4. /\ q.tm \in [Timers -> TimerType] /\ q.cap \in cap .. AtmMax
        /\ \A t \in Timers :
              /\ q.tm[t].dl = timer[t].dl
              /\ \/ q.tm[t] = timer[t]
                 \/ /\ timer[t].at \in {"heap", "list"} /\ q.tm[t].at = "done"
                    /\ q.tm[t].calls = timer[t].calls + 1 /\ q.tm[t].err = "none"
                    /\ timer[t].dl <= th[i].now
                 \/ /\ timer[t].at = "list" /\ q.tm[t].at = "heap"
                    /\ q.tm[t].calls = timer[t].calls
              /\ q.tm[t].at = "heap" => timer[t].dl < q.cap
              /\ q.tm[t].at = "list" => timer[t].dl >= q.cap
    BY <2>10 DEF Popped
  <2>5. q.cap \in 0 .. AtmMax /\ cap <= q.cap
    BY <1>1, <2>4
  <2>6. /\ m \in 0 .. AtmMax /\ m <= SaturatingAdd(q.cap, 1)
        /\ \A t \in Timers : q.tm[t].at = "heap" => m <= q.tm[t].dl
    BY <2>4, <2>5, ComputedMin
  <2>7. f \in BOOLEAN
    BY <1>1 DEF ThreadType, Fires
  <2> HIDE DEF m, f
  <2>8. r \in ThreadType /\ r.pc = "setmin" /\ r.now = th[i].now /\ r.min = m
    BY <1>1, <2>6, <2>7 DEF ThreadType, Pcs
  <2> HIDE DEF r
  <2>9. /\ th' \in [Pool -> ThreadType] /\ th'[i] = r
        /\ \A j \in Pool : j # i => th'[j] = th[j]
    BY <1>1, <2>2, <2>8
  <2> QED BY <1>1, <2>2, <2>4, <2>5, <2>6, <2>8, <2>9
<1> QED BY <1>2, <1>3 DEF Scan

(* Steps that change neither the shard nor what announces its minimum. *)
LEMMA MinFrame ==
    ASSUME IInv, UNCHANGED <<timer, cap, minDeadline, minTimer>>,
           \A u \in Timers : adding'[u] = "first" <=> adding[u] = "first",
           \A i \in Pool :
              /\ th[i].pc \in ScanPcs => th'[i].pc \in ScanPcs
              /\ th'[i].pc = "setmin" <=> th[i].pc = "setmin"
              /\ th[i].pc = "setmin" => th'[i].min = th[i].min
              /\ th'[i].pc = "finish" => th[i].pc = "finish" /\ th'[i].now = th[i].now
    PROVE  MinInv'
<1>2. \A i \in Pool : th'[i].pc = "setmin" => Covers(th[i].min)
  BY DEF IInv, MinInv
<1>3. \A i \in Pool : th'[i].pc = "setmin" => Covers(th[i].min)'
  BY <1>2 DEF Covers, Heap
<1>4. (\A i \in Pool : th'[i].pc # "setmin") => Covers(minDeadline)'
  BY DEF IInv, MinInv, Covers, Heap
<1>5. (\A i \in Pool : th'[i].pc \notin ScanPcs) => minTimer' <= minDeadline'
  BY DEF IInv, MinInv
<1>6. \A i \in Pool : th'[i].pc = "finish" => minDeadline' > th'[i].now
  BY DEF IInv, MinInv
<1> QED BY <1>3, <1>4, <1>5, <1>6 DEF MinInv

(* Steps that start and end no thread and run no callbacks. *)
LEMMA CountFrame ==
    ASSUME IInv, UNCHANGED <<threadCount, waiterCount>>, threaded' => threaded,
           \A i \in Pool : /\ th'[i].pc \in LivePcs <=> th[i].pc \in LivePcs
                           /\ th'[i].pc = "flush" <=> th[i].pc = "flush"
                           /\ th'[i].pc = "exit" => ~threaded'
    PROVE  CountInv'
<1>1. Live' = Live /\ Waiters' = Waiters
  BY DEF Live, Waiters
<1> QED BY <1>1 DEF IInv, CountInv

(* Steps that leave the window and the checker between its two unlocks alone. *)
LEMMA LostFrame ==
    ASSUME IInv, UNCHANGED <<lost, cap>>,
           \A i \in Pool :
              th'[i].pc = "unlock" => th[i].pc = "unlock" /\ th'[i].next = th[i].next
    PROVE  LostInv'
  BY DEF IInv, LostInv, SaturatingAdd

LEMMA TimerStep == IInv /\ [Next]_vars => IInv'
<1> USE GrpcTimerAssumption DEF Pcs, ScanPcs, CheckPcs, shardVars, sharedVars, waitVars, poolVars
<1>1. ASSUME IInv, Tick
      PROVE  IInv'
  <2>1. TypeOK'
    BY <1>1 DEF IInv, TypeOK, Tick
  <2>2. CountInv'
    BY <1>1, CountFrame DEF IInv, TypeOK, CountInv, LivePcs, Tick
  <2>3. LockInv'
    BY <1>1 DEF IInv, TypeOK, TimerType, ThreadType, LockInv, Tick
  <2>4. ShardInv'
    BY <1>1 DEF IInv, TypeOK, TimerType, ThreadType, ShardInv, Tick
  <2>5. MinInv'
    BY <1>1
       DEF IInv, TypeOK, TimerType, ThreadType, LockInv, ShardInv, MinInv, Covers,
           Heap, Tick
  <2>6. SeenInv'
    BY <1>1 DEF IInv, TypeOK, TimerType, ThreadType, SeenInv, MinInv, Tick
  <2>7. TimedInv'
    BY <1>1 DEF IInv, TypeOK, TimerType, ThreadType, TimedInv, SeenInv, Tick
  <2>8. WakeInv'
    BY <1>1
       DEF IInv, TypeOK, TimerType, ThreadType, WakeInv, Fresh, InTime, SeenInv, TimedInv,
           LockInv, Live, LivePcs, Tick
  <2>9. CalledOnceAndInTime'
    BY <1>1 DEF IInv, TypeOK, TimerType, ThreadType, CalledOnceAndInTime, SeenInv, Tick
  <2>10. LostInv'
    BY <1>1, LostFrame DEF Tick
  <2> QED BY <2>1, <2>2, <2>3, <2>4, <2>5, <2>6, <2>7, <2>8, <2>9, <2>10 DEF IInv
<1>2. ASSUME IInv, NEW t \in Timers, NEW d \in Deadlines, TimerInit(t, d)
      PROVE  IInv'
  <2>a. timer[t].at = "unset" /\ timer[t].calls = 0 /\ adding[t] = "no" /\ d \in 0 .. AtmMax
    BY <1>2 DEF IInv, TypeOK, CalledOnceAndInTime, ShardInv, TimerInit
  <2>b. UNCHANGED <<now, cap, sharedVars, mu, checker, initialized, th, tls, waitVars,
                   poolVars, lost>>
    BY <1>2 DEF TimerInit
  <2>c. /\ timer' \in [Timers -> TimerType] /\ timer'[t].dl = d
        /\ \A u \in Timers : u # t => timer'[u] = timer[u] /\ adding'[u] = adding[u]
        /\ adding' \in [Timers -> {"no", "first", "kick"}]
        /\ \/ /\ timer'[t].at = "done" /\ timer'[t].calls = 1 /\ adding'[t] = "no"
              /\ timer'[t].err = "none" => d <= now
           \/ /\ timer'[t].at = "heap" /\ timer'[t].calls = 0 /\ d < cap
              /\ \/ adding'[t] = "first"
                 \/ adding'[t] = "no" /\ \E u \in Heap : timer[u].dl <= d
           \/ /\ timer'[t].at = "list" /\ timer'[t].calls = 0 /\ d >= cap
              /\ adding'[t] = "no"
    <3>2. /\ timer \in [Timers -> TimerType] /\ timer[t] \in TimerType
          /\ adding \in [Timers -> {"no", "first", "kick"}]
          /\ now \in Nat /\ cap \in Nat /\ \A u \in Timers : timer[u].dl \in Nat
      BY <1>2 DEF IInv, TypeOK, TimerType
    <3> DEFINE tm == [timer EXCEPT ![t].dl = d]
    <3>3. ASSUME NEW e \in {"none", "uninitialized"}, timer' = Called(tm, t, e),
                 UNCHANGED adding, e = "none" => d <= now
          PROVE  /\ timer' \in [Timers -> TimerType] /\ timer'[t].dl = d
                 /\ \A u \in Timers : u # t => timer'[u] = timer[u] /\ adding'[u] = adding[u]
                 /\ adding' \in [Timers -> {"no", "first", "kick"}]
                 /\ timer'[t].at = "done" /\ timer'[t].calls = 1 /\ adding'[t] = "no"
                 /\ timer'[t].err = "none" => d <= now
      <4>1. /\ tm \in [Timers -> TimerType] /\ tm[t].calls = 0 /\ tm[t].dl = d
            /\ \A u \in Timers : u # t => tm[u] = timer[u]
        BY <2>a, <3>2 DEF TimerType
      <4> HIDE DEF tm
      <4> DEFINE r == [dl |-> tm[t].dl, at |-> "done", calls |-> tm[t].calls + 1, err |-> e]
      <4>2. timer' = [tm EXCEPT ![t] = r]
        BY <3>3 DEF Called
      <4>3. r \in TimerType /\ r.at = "done" /\ r.calls = 1 /\ r.dl = d /\ r.err = e
        BY <2>a, <4>1 DEF TimerType
      <4> HIDE DEF r
      <4> QED BY <2>a, <3>2, <3>3, <4>1, <4>2, <4>3
    <3>5. CASE ~initialized /\ timer' = Called(tm, t, "uninitialized") /\ UNCHANGED adding
      BY <3>3, <3>5
    <3>6. CASE \E n \in 0 .. now :
                 IF d <= n
                 THEN /\ timer' = Called(tm, t, "none")
                      /\ UNCHANGED adding
                 ELSE /\ timer' = [timer EXCEPT ![t].dl = d,
                                                ![t].at = IF d < cap THEN "heap" ELSE "list"]
                      /\ adding' = IF d < cap /\ \A u \in Heap : d < timer[u].dl
                                   THEN [adding EXCEPT ![t] = "first"] ELSE adding
      <4>1. PICK n \in 0 .. now :
              IF d <= n
              THEN /\ timer' = Called(tm, t, "none")
                   /\ UNCHANGED adding
              ELSE /\ timer' = [timer EXCEPT ![t].dl = d,
                                             ![t].at = IF d < cap THEN "heap" ELSE "list"]
                   /\ adding' = IF d < cap /\ \A u \in Heap : d < timer[u].dl
                                THEN [adding EXCEPT ![t] = "first"] ELSE adding
        BY <3>6
      <4>2. CASE d <= n
        <5>1. timer' = Called(tm, t, "none") /\ UNCHANGED adding /\ d <= now
          BY <2>a, <3>2, <4>1, <4>2
        <5> QED BY <3>3, <5>1
      <4>3. CASE ~(d <= n)
        <5> DEFINE at == IF d < cap THEN "heap" ELSE "list"
                   r  == [timer[t] EXCEPT !.dl = d, !.at = at]
        <5>1. timer' = [timer EXCEPT ![t] = r]
          BY <4>1, <3>2, <4>3
        <5>2. r \in TimerType /\ r.dl = d /\ r.at = at /\ r.calls = 0
          BY <2>a, <3>2 DEF TimerType
        <5> HIDE DEF r
        <5>3. /\ timer' \in [Timers -> TimerType] /\ timer'[t] = r
              /\ \A u \in Timers : u # t => timer'[u] = timer[u]
          BY <3>2, <5>1, <5>2
        <5>4. /\ adding' \in [Timers -> {"no", "first", "kick"}]
              /\ \A u \in Timers : u # t => adding'[u] = adding[u]
              /\ \/ d < cap /\ adding'[t] = "first"
                 \/ d < cap /\ adding'[t] = "no" /\ \E u \in Heap : timer[u].dl <= d
                 \/ d >= cap /\ adding'[t] = "no"
          <6>1. CASE d < cap /\ \A u \in Heap : d < timer[u].dl
            BY <4>1, <3>2, <4>3, <6>1
          <6>2. CASE d < cap /\ ~\A u \in Heap : d < timer[u].dl
            <7>1. UNCHANGED adding
              BY <4>1, <4>3, <6>2
            <7>2. \E u \in Heap : timer[u].dl <= d
              BY <2>a, <3>2, <6>2 DEF Heap
            <7> QED BY <2>a, <3>2, <6>2, <7>1, <7>2
          <6>3. CASE ~(d < cap)
            <7>1. UNCHANGED adding /\ d >= cap
              BY <2>a, <4>1, <3>2, <4>3, <6>3
            <7> QED BY <2>a, <3>2, <7>1
          <6> QED BY <6>1, <6>2, <6>3
        <5> QED BY <2>a, <3>2, <5>2, <5>3, <5>4
      <4> QED BY <4>2, <4>3
    <3> QED BY <1>2, <3>5, <3>6 DEF TimerInit
  <2>1. TypeOK'
    BY <1>2, <2>b, <2>c DEF IInv, TypeOK
  <2>2. CountInv'
    BY <1>2, <2>b, CountFrame DEF IInv, CountInv
  <2>3. LockInv'
    BY <1>2, <2>a, <2>b, <2>c DEF IInv, LockInv
  <2>4. ShardInv'
    BY <1>2, <2>b, <2>c DEF IInv, ShardInv
  <2>5. MinInv'
    <3>1. ASSUME NEW m \in Nat, Covers(m), NEW v \in Heap'
          PROVE  m <= timer'[v].dl
                 \/ \E u \in Timers : adding'[u] = "first" /\ timer'[u].dl <= timer'[v].dl
      <4>1. /\ \A u \in Timers : timer[u].dl \in Nat /\ timer'[u].dl \in Nat
            /\ d \in Nat
        BY <1>2, <2>a, <2>c DEF IInv, TypeOK, TimerType
      <4>2. ASSUME NEW w \in Heap
            PROVE  m <= timer[w].dl
                   \/ \E u \in Timers : adding'[u] = "first" /\ timer'[u].dl <= timer[w].dl
        BY <2>a, <2>c, <3>1 DEF Covers
      <4>3. CASE v = t
        BY <2>c, <4>1, <4>2, <4>3, <3>1 DEF Heap
      <4>4. CASE v # t
        BY <2>c, <4>2, <4>4, <3>1 DEF Heap
      <4> QED BY <4>3, <4>4
    <3>2. \A i \in Pool : th[i].min \in Nat /\ minDeadline \in Nat
      BY <1>2 DEF IInv, TypeOK, ThreadType
    <3> QED BY <1>2, <2>b, <3>1, <3>2 DEF IInv, MinInv, Covers
  <2>6. SeenInv'
    BY <1>2, <2>b DEF IInv, SeenInv
  <2>7. TimedInv'
    BY <1>2, <2>b DEF IInv, TimedInv
  <2>8. WakeInv'
    <3>1. \A u \in Timers : adding[u] = "kick" => adding'[u] = "kick"
      BY <2>a, <2>c
    <3> QED BY <1>2, <2>b, <3>1 DEF IInv, WakeInv, Fresh, InTime, Live
  <2>9. CalledOnceAndInTime'
    BY <1>2, <2>b, <2>c DEF IInv, CalledOnceAndInTime
  <2>10. LostInv'
    BY <1>2, <2>b, LostFrame
  <2> QED BY <2>1, <2>2, <2>3, <2>4, <2>5, <2>6, <2>7, <2>8, <2>9, <2>10 DEF IInv
<1>3. ASSUME IInv, NEW t \in Timers, TimerInitAdjust(t)
      PROVE  IInv'
  <2>1. TypeOK'
    BY <1>3 DEF IInv, TypeOK, TimerType, TimerInitAdjust
  <2>2. CountInv'
    BY <1>3, CountFrame DEF IInv, TypeOK, CountInv, LivePcs, TimerInitAdjust
  <2>3. LockInv'
    BY <1>3 DEF IInv, TypeOK, TimerType, ThreadType, LockInv, TimerInitAdjust
  <2>4. ShardInv'
    BY <1>3 DEF IInv, TypeOK, TimerType, ThreadType, ShardInv, TimerInitAdjust
  <2>5. MinInv'
    <3>1. /\ adding[t] = "first" /\ UNCHANGED <<th, timer, cap>>
          /\ \A i \in Pool : th[i].pc \notin ScanPcs
      BY <1>3 DEF TimerInitAdjust, IInv, LockInv
    <3>2. /\ Covers(minDeadline) /\ minTimer <= minDeadline
          /\ minDeadline \in Nat /\ minTimer \in Nat /\ cap \in Nat
          /\ SaturatingAdd(cap, 1) \in Nat
          /\ \A u \in Timers : timer[u].dl \in Nat
      BY <1>3, <3>1 DEF IInv, TypeOK, TimerType, MinInv, SaturatingAdd
    <3>3. /\ \A u \in Timers : u # t => adding'[u] = adding[u]
          /\ minDeadline' <= timer[t].dl /\ minDeadline' <= minDeadline
          /\ minDeadline' \in Nat /\ minTimer' <= minDeadline'
      BY <1>3, <3>2 DEF IInv, TypeOK, TimerInitAdjust
    <3>4. \A v \in Heap :
            minDeadline' <= timer[v].dl
            \/ \E u \in Timers : adding'[u] = "first" /\ timer[u].dl <= timer[v].dl
      BY <3>2, <3>3 DEF Covers, Heap
    <3>5. Covers(minDeadline)'
      BY <3>1, <3>2, <3>3, <3>4 DEF Covers, Heap
    <3> QED BY <3>1, <3>3, <3>5 DEF MinInv
  <2>6. SeenInv'
    BY <1>3 DEF IInv, TypeOK, TimerType, ThreadType, SeenInv, MinInv, TimerInitAdjust
  <2>7. TimedInv'
    BY <1>3 DEF IInv, TypeOK, TimerType, ThreadType, TimedInv, SeenInv, TimerInitAdjust
  <2>8. WakeInv'
    BY <1>3
       DEF IInv, TypeOK, TimerType, ThreadType, WakeInv, Fresh, InTime, SeenInv, TimedInv,
           LockInv, Live, LivePcs, TimerInitAdjust
  <2>9. CalledOnceAndInTime'
    BY <1>3
       DEF IInv, TypeOK, TimerType, ThreadType, CalledOnceAndInTime, SeenInv,
           TimerInitAdjust
  <2>10. LostInv'
    BY <1>3, LostFrame DEF TimerInitAdjust
  <2> QED BY <2>1, <2>2, <2>3, <2>4, <2>5, <2>6, <2>7, <2>8, <2>9, <2>10 DEF IInv
<1>4. ASSUME IInv, NEW t \in Timers, KickPoller(t)
      PROVE  IInv'
  <2>a. /\ \/ th' = th /\ \A i \in Pool : th[i].pc # "asleep"
           \/ \E i \in Pool : th[i].pc = "asleep" /\ th' = [th EXCEPT ![i] = NewThread("awake")]
        /\ adding' = [adding EXCEPT ![t] = "no"] /\ mu' = Nobody
        /\ kicked' = TRUE /\ hasTimedWaiter' = FALSE /\ timedDeadline' = AtmMax
        /\ timedWaiter' = Nobody /\ adding[t] = "kick"
        /\ UNCHANGED <<now, shardVars, sharedVars, checker, initialized, tls, poolVars, lost>>
    BY <1>4 DEF KickPoller, Signal
  <2>b. \A i \in Pool : \/ th'[i] = th[i]
                        \/ th[i].pc = "asleep" /\ th'[i].pc = "awake" /\ th'[i].now = 0
    BY <1>4, <2>a DEF IInv, TypeOK, NewThread
  <2>1. TypeOK'
    <3>1. th' \in [Pool -> ThreadType]
      BY <1>4, <2>a, ThreadTypes DEF IInv, TypeOK
    <3>2. timedDeadline' \in 0 .. AtmMax /\ adding' \in [Timers -> {"no", "first", "kick"}]
      BY <1>4, <2>a DEF IInv, TypeOK
    <3>3. /\ kicked' \in BOOLEAN /\ hasTimedWaiter' \in BOOLEAN
          /\ timedWaiter' \in Pool \cup {Nobody}
          /\ mu' \in Pool \cup Timers \cup {Nobody}
      BY <2>a
    <3> QED BY <1>4, <2>a, <3>1, <3>2, <3>3 DEF IInv, TypeOK
  <2>2. CountInv'
    BY <1>4, <2>a, <2>b, CountFrame DEF IInv, CountInv, LivePcs
  <2>3. LockInv'
    BY <1>4, <2>a, <2>b DEF IInv, TypeOK, LockInv
  <2>4. ShardInv'
    BY <1>4
       DEF IInv, TypeOK, TimerType, ThreadType, ShardInv, KickPoller, Signal,
           NewThread
  <2>5. MinInv'
    <3>1. \A u \in Timers : adding'[u] = "first" <=> adding[u] = "first"
      BY <1>4, <2>a DEF IInv, TypeOK
    <3> QED BY <1>4, <2>a, <2>b, <3>1, MinFrame
  <2>6. SeenInv'
    BY <1>4
       DEF IInv, TypeOK, TimerType, ThreadType, SeenInv, MinInv, KickPoller, Signal,
           NewThread
  <2>7. TimedInv'
    BY <1>4
       DEF IInv, TypeOK, TimerType, ThreadType, TimedInv, SeenInv, KickPoller, Signal,
           NewThread
  <2>8. WakeInv'
    <3>1. ASSUME threaded PROVE \E j \in Live' : th'[j].pc # "asleep"
      <4>1. PICK j \in Pool : th[j].pc \in LivePcs
        BY <1>4, <3>1 DEF IInv, CountInv, Live
      <4>2. CASE \A l \in Pool : th[l].pc # "asleep"
        BY <2>a, <4>1, <4>2 DEF Live
      <4>3. CASE \E l \in Pool : th[l].pc = "asleep" /\ th' = [th EXCEPT ![l] = NewThread("awake")]
        <5>1. PICK l \in Pool : th' = [th EXCEPT ![l] = NewThread("awake")]
          BY <4>3
        <5>2. th'[l].pc = "awake"
          BY <1>4, <5>1 DEF IInv, TypeOK, NewThread
        <5> QED BY <5>2 DEF Live, LivePcs
      <4> QED BY <2>a, <4>2, <4>3
    <3> QED BY <2>a, <3>1 DEF WakeInv
  <2>9. CalledOnceAndInTime'
    BY <1>4
       DEF IInv, TypeOK, TimerType, ThreadType, CalledOnceAndInTime, SeenInv,
           KickPoller, Signal, NewThread
  <2>10. LostInv'
    BY <1>4, <2>a, <2>b, LostFrame
  <2> QED BY <2>1, <2>2, <2>3, <2>4, <2>5, <2>6, <2>7, <2>8, <2>9, <2>10 DEF IInv
<1>5. ASSUME IInv, NEW t \in Timers, TimerCancel(t)
      PROVE  IInv'
  <2>a. /\ timer[t].at \in {"heap", "list"} /\ adding[t] = "no"
        /\ timer' = Called(timer, t, "cancelled")
        /\ UNCHANGED <<now, cap, adding, sharedVars, mu, checker, initialized, th, tls,
                       waitVars, poolVars, lost>>
    BY <1>5 DEF TimerCancel
  <2>b. /\ timer' \in [Timers -> TimerType] /\ timer'[t].at = "done"
        /\ timer'[t].calls = 1 /\ timer'[t].err = "cancelled"
        /\ timer'[t].dl = timer[t].dl
        /\ \A u \in Timers : u # t => timer'[u] = timer[u]
    <3>1. timer \in [Timers -> TimerType] /\ timer[t].calls = 0
      BY <1>5, <2>a DEF IInv, TypeOK, CalledOnceAndInTime
    <3> DEFINE r == [dl |-> timer[t].dl, at |-> "done", calls |-> timer[t].calls + 1,
                     err |-> "cancelled"]
    <3>2. timer' = [timer EXCEPT ![t] = r]
      BY <2>a DEF Called
    <3>3. /\ r \in TimerType /\ r.at = "done" /\ r.calls = 1
          /\ r.dl = timer[t].dl /\ r.err = "cancelled"
      BY <3>1 DEF TimerType
    <3> HIDE DEF r
    <3> QED BY <3>1, <3>2, <3>3
  <2>1. TypeOK'
    BY <1>5, <2>a, <2>b DEF IInv, TypeOK
  <2>2. CountInv'
    BY <1>5, <2>a, CountFrame DEF IInv, CountInv
  <2>3. LockInv'
    BY <1>5 DEF IInv, TypeOK, TimerType, ThreadType, LockInv, TimerCancel, Called
  <2>4. ShardInv'
    BY <1>5, <2>a, <2>b DEF IInv, ShardInv
  <2>5. MinInv'
    <3>1. Heap' \subseteq Heap /\ \A u \in Timers : timer'[u].dl = timer[u].dl
      BY <2>b DEF Heap
    <3> QED BY <1>5, <2>a, <3>1 DEF IInv, MinInv, Covers, Heap
  <2>6. SeenInv'
    BY <1>5
       DEF IInv, TypeOK, TimerType, ThreadType, SeenInv, MinInv, TimerCancel, Called
  <2>7. TimedInv'
    BY <1>5
       DEF IInv, TypeOK, TimerType, ThreadType, TimedInv, SeenInv, TimerCancel, Called
  <2>8. WakeInv'
    BY <1>5
       DEF IInv, TypeOK, TimerType, ThreadType, WakeInv, Fresh, InTime, SeenInv, TimedInv,
           LockInv, Live, LivePcs, TimerCancel, Called
  <2>9. CalledOnceAndInTime'
    BY <1>5, <2>a, <2>b DEF IInv, CalledOnceAndInTime
  <2>10. LostInv'
    BY <1>5, <2>a, LostFrame
  <2> QED BY <2>1, <2>2, <2>3, <2>4, <2>5, <2>6, <2>7, <2>8, <2>9, <2>10 DEF IInv
<1>6. ASSUME IInv, NEW i \in Pool, CheckTls(i)
      PROVE  IInv'
  <2>1. TypeOK'
    <3>1. th' \in [Pool -> ThreadType]
      BY <1>6, ThreadTypes DEF IInv, TypeOK, CheckTls
    <3> QED BY <1>6, <3>1 DEF IInv, TypeOK, CheckTls
  <2>2. CountInv'
    BY <1>6, CountFrame
       DEF IInv, TypeOK, CountInv, LivePcs, CheckTls, WaitFor, NewThread
  <2>3. LockInv'
    BY <1>6
       DEF IInv, TypeOK, TimerType, ThreadType, LockInv, CheckTls, WaitFor, NewThread
  <2>4. ShardInv'
    BY <1>6
       DEF IInv, TypeOK, TimerType, ThreadType, ShardInv, CheckTls, WaitFor, NewThread
  <2>5. MinInv'
    BY <1>6, MinFrame DEF IInv, TypeOK, CheckTls, WaitFor, NewThread
  <2>6. SeenInv'
    BY <1>6
       DEF IInv, TypeOK, TimerType, ThreadType, SeenInv, MinInv, CheckTls, WaitFor,
           NewThread
  <2>7. TimedInv'
    BY <1>6
       DEF IInv, TypeOK, TimerType, ThreadType, TimedInv, SeenInv, CheckTls, WaitFor,
           NewThread
  <2>8. WakeInv'
    BY <1>6
       DEF IInv, TypeOK, TimerType, ThreadType, WakeInv, Fresh, InTime, SeenInv, TimedInv,
           LockInv, Live, LivePcs, CheckTls, WaitFor, NewThread
  <2>9. CalledOnceAndInTime'
    BY <1>6
       DEF IInv, TypeOK, TimerType, ThreadType, CalledOnceAndInTime, SeenInv,
           CheckTls, WaitFor, NewThread
  <2>10. LostInv'
    BY <1>6, LostFrame DEF IInv, TypeOK, CheckTls, Step, WaitFor, NewThread
  <2> QED BY <2>1, <2>2, <2>3, <2>4, <2>5, <2>6, <2>7, <2>8, <2>9, <2>10 DEF IInv
<1>7. ASSUME IInv, NEW i \in Pool, LoadMinTimer(i)
      PROVE  IInv'
  <2>1. TypeOK'
    <3>1. minTimer \in 0 .. AtmMax /\ th \in [Pool -> ThreadType]
      BY <1>7 DEF IInv, TypeOK
    <3>2. \/ th' = [th EXCEPT ![i] = WaitFor(minTimer)]
          \/ th' = [th EXCEPT ![i] = [th[i] EXCEPT !.pc = "trylock"]]
      BY <1>7, <3>1 DEF LoadMinTimer
    <3>3. /\ WaitFor(minTimer) \in ThreadType
          /\ [th[i] EXCEPT !.pc = "trylock"] \in ThreadType
      BY <3>1, ThreadTypes
    <3>4. th' \in [Pool -> ThreadType]
      BY <3>1, <3>2, <3>3
    <3> QED BY <1>7, <3>4 DEF IInv, TypeOK, LoadMinTimer
  <2>2. CountInv'
    BY <1>7, CountFrame
       DEF IInv, TypeOK, CountInv, LivePcs, LoadMinTimer, WaitFor, NewThread
  <2>3. LockInv'
    BY <1>7
       DEF IInv, TypeOK, TimerType, ThreadType, LockInv, LoadMinTimer, WaitFor,
           NewThread
  <2>4. ShardInv'
    BY <1>7
       DEF IInv, TypeOK, TimerType, ThreadType, ShardInv, LoadMinTimer, WaitFor,
           NewThread
  <2>5. MinInv'
    BY <1>7, MinFrame DEF IInv, TypeOK, LoadMinTimer, WaitFor, NewThread
  <2>6. SeenInv'
    BY <1>7
       DEF IInv, TypeOK, TimerType, ThreadType, SeenInv, MinInv, LoadMinTimer,
           WaitFor, NewThread
  <2>7. TimedInv'
    BY <1>7
       DEF IInv, TypeOK, TimerType, ThreadType, TimedInv, SeenInv, LoadMinTimer,
           WaitFor, NewThread
  <2>8. WakeInv'
    BY <1>7
       DEF IInv, TypeOK, TimerType, ThreadType, WakeInv, Fresh, InTime, SeenInv, TimedInv,
           LockInv, Live, LivePcs, LoadMinTimer, WaitFor, NewThread
  <2>9. CalledOnceAndInTime'
    BY <1>7
       DEF IInv, TypeOK, TimerType, ThreadType, CalledOnceAndInTime, SeenInv,
           LoadMinTimer, WaitFor, NewThread
  <2>10. LostInv'
    BY <1>7, LostFrame DEF IInv, TypeOK, LoadMinTimer, Step, WaitFor, NewThread
  <2> QED BY <2>1, <2>2, <2>3, <2>4, <2>5, <2>6, <2>7, <2>8, <2>9, <2>10 DEF IInv
<1>8. ASSUME IInv, NEW i \in Pool, TryLockChecker(i)
      PROVE  IInv'
  <2>a. /\ th[i].pc = "trylock"
        /\ \/ /\ checker = Nobody /\ checker' = i /\ lost' = lost
              /\ th' = [th EXCEPT ![i] = [th[i] EXCEPT !.pc = "lock"]]
           \/ /\ checker # Nobody /\ checker' = checker
              /\ th' = [th EXCEPT ![i] = WaitFor(AtmMax)]
              /\ lost' = IF checker \in Oversleeping THEN th[checker].next ELSE lost
        /\ UNCHANGED <<now, shardVars, adding, sharedVars, mu, initialized, tls, waitVars,
                       poolVars>>
    BY <1>8 DEF IInv, TypeOK, TryLockChecker, Step
  <2>b. /\ th \in [Pool -> ThreadType]
        /\ WaitFor(AtmMax) \in ThreadType /\ [th[i] EXCEPT !.pc = "lock"] \in ThreadType
    <3>1. AtmMax \in 0 .. AtmMax /\ th \in [Pool -> ThreadType]
      BY <1>8 DEF IInv, TypeOK
    <3> QED BY <3>1, ThreadTypes
  <2>c. /\ \A j \in Pool : j # i => th'[j] = th[j]
        /\ th'[i].pc \in {"lock", "wait"}
    <3>1. WaitFor(AtmMax).pc = "wait" /\ [th[i] EXCEPT !.pc = "lock"].pc = "lock"
      BY <2>b DEF WaitFor, NewThread, ThreadType
    <3> QED BY <2>a, <2>b, <3>1
  <2>1. TypeOK'
    <3>1. th' \in [Pool -> ThreadType]
      BY <2>a, <2>b
    <3>2. lost' \in 0 .. AtmMax
      BY <1>8, <2>a DEF IInv, TypeOK, ThreadType, Oversleeping
    <3> QED BY <1>8, <2>a, <3>1, <3>2 DEF IInv, TypeOK
  <2>2. CountInv'
    BY <1>8, <2>a, <2>c, CountFrame DEF IInv, CountInv, LivePcs
  <2>3. LockInv'
    BY <1>8, SMTT(30)
       DEF IInv, TypeOK, TimerType, ThreadType, LockInv, TryLockChecker, Step,
           WaitFor, NewThread
  <2>4. ShardInv'
    BY <1>8
       DEF IInv, TypeOK, TimerType, ThreadType, ShardInv, TryLockChecker, Step,
           WaitFor, NewThread
  <2>5. MinInv'
    BY <1>8, <2>a, <2>c, MinFrame
  <2>6. SeenInv'
    BY <1>8
       DEF IInv, TypeOK, TimerType, ThreadType, SeenInv, MinInv, TryLockChecker, Step,
           WaitFor, NewThread
  <2>7. TimedInv'
    BY <1>8
       DEF IInv, TypeOK, TimerType, ThreadType, TimedInv, SeenInv, TryLockChecker,
           Step, WaitFor, NewThread
  <2>8. WakeInv'
    <3>1. CASE checker = Nobody
      <4>1. th'[i].pc = "lock"
        BY <2>a, <2>b, <3>1 DEF ThreadType
      <4> QED BY <4>1 DEF WakeInv, Fresh
    <3>2. CASE checker # Nobody
      <4>1. /\ checker \in Pool /\ th[checker].pc \in CheckPcs
            /\ th'[checker] = th[checker] /\ minTimer' = minTimer
            /\ minTimer \in Nat /\ th[checker].next \in Nat
            /\ lost' = IF checker \in Oversleeping THEN th[checker].next ELSE lost
        BY <1>8, <2>a, <2>c, <3>2 DEF IInv, TypeOK, ThreadType, LockInv
      <4>2. th[checker].pc = "unlock" /\ ~th[checker].fired
              => th[checker].next <= minTimer \/ th[checker].next <= lost'
        BY <4>1 DEF Oversleeping
      <4>3. \/ th'[checker].pc \in ScanPcs \cup {"lock"}
            \/ /\ th'[checker].pc = "unlock"
               /\ \/ th'[checker].fired
                  \/ th'[checker].next <= minTimer' \/ th'[checker].next <= lost'
        BY <4>1, <4>2
      <4> QED BY <4>1, <4>3 DEF WakeInv, Fresh, InTime
    <3> QED BY <3>1, <3>2
  <2>9. CalledOnceAndInTime'
    BY <1>8
       DEF IInv, TypeOK, TimerType, ThreadType, CalledOnceAndInTime, SeenInv,
           TryLockChecker, Step, WaitFor, NewThread
  <2>10. LostInv'
    <3>1. lost' <= SaturatingAdd(cap, 1)
      BY <1>8, <2>a DEF IInv, LostInv, Oversleeping
    <3>2. \A j \in Pool : th'[j].pc = "unlock" => th[j].pc = "unlock" /\ th'[j] = th[j]
      BY <2>c
    <3> QED BY <1>8, <2>a, <3>1, <3>2 DEF IInv, LostInv, SaturatingAdd
  <2> QED BY <2>1, <2>2, <2>3, <2>4, <2>5, <2>6, <2>7, <2>8, <2>9, <2>10 DEF IInv
<1>9. ASSUME IInv, NEW i \in Pool, LockShared(i)
      PROVE  IInv'
  <2>1. TypeOK'
    <3>1. th' \in [Pool -> ThreadType]
      BY <1>9, ThreadTypes DEF IInv, TypeOK, LockShared, Step
    <3> QED BY <1>9, <3>1 DEF IInv, TypeOK, LockShared, Step
  <2>2. CountInv'
    BY <1>9, CountFrame DEF IInv, TypeOK, CountInv, LivePcs, LockShared, Step
  <2>3. LockInv'
    BY <1>9 DEF IInv, TypeOK, TimerType, ThreadType, LockInv, LockShared, Step
  <2>4. ShardInv'
    BY <1>9 DEF IInv, TypeOK, TimerType, ThreadType, ShardInv, LockShared, Step
  <2>5. MinInv'
    BY <1>9, MinFrame DEF IInv, TypeOK, LockShared, Step
  <2>6. SeenInv'
    BY <1>9 DEF IInv, TypeOK, TimerType, ThreadType, SeenInv, MinInv, LockShared, Step
  <2>7. TimedInv'
    BY <1>9 DEF IInv, TypeOK, TimerType, ThreadType, TimedInv, SeenInv, LockShared, Step
  <2>8. WakeInv'
    BY <1>9
       DEF IInv, TypeOK, TimerType, ThreadType, WakeInv, Fresh, InTime, SeenInv, TimedInv,
           LockInv, Live, LivePcs, LockShared, Step
  <2>9. CalledOnceAndInTime'
    BY <1>9
       DEF IInv, TypeOK, TimerType, ThreadType, CalledOnceAndInTime, SeenInv,
           LockShared, Step
  <2>10. LostInv'
    BY <1>9, LostFrame DEF IInv, TypeOK, LockShared, Step, WaitFor, NewThread
  <2> QED BY <2>1, <2>2, <2>3, <2>4, <2>5, <2>6, <2>7, <2>8, <2>9, <2>10 DEF IInv
<1>10. ASSUME IInv, NEW i \in Pool, Scan(i)
      PROVE  IInv'
  <2>a. /\ th[i].pc = "scan" /\ \A j \in Pool : j # i => th'[j] = th[j]
        /\ th'[i].pc \in {"setmin", "finish"} /\ th'[i].now = th[i].now
        /\ UNCHANGED <<now, adding, sharedVars, mu, checker, initialized, tls, waitVars,
                       poolVars, lost>>
    BY <1>10, ScanFacts
  <2>1. TypeOK'
    BY <1>10, <2>a, ScanFacts DEF IInv, TypeOK
  <2>2. CountInv'
    BY <1>10, <2>a, CountFrame DEF IInv, CountInv, LivePcs
  <2>3. LockInv'
    BY <1>10, <2>a DEF IInv, LockInv
  <2>4. ShardInv'
    <3>1. \A t \in Timers : /\ timer'[t].dl = timer[t].dl
                            /\ timer'[t].at = "heap" => timer[t].dl < cap'
                            /\ timer'[t].at = "list" => timer[t].dl >= cap'
                            /\ timer'[t].at = "unset" => timer[t].at = "unset"
      BY <1>10, ScanFacts
    <3> QED BY <1>10, <2>a, <3>1 DEF IInv, ShardInv
  <2>5. MinInv'
    <3>1. mu = i /\ \A j \in Pool : j # i => th'[j].pc \notin ScanPcs
      BY <1>10, <2>a DEF IInv, LockInv
    <3>2. CASE /\ th'[i].pc = "finish" /\ minDeadline > th[i].now /\ UNCHANGED shardVars
      <4>1. Covers(minDeadline)
        BY <1>10, <2>a, <3>1, <3>2 DEF IInv, MinInv
      <4>2. Covers(minDeadline)'
        BY <2>a, <3>2, <4>1 DEF Covers, Heap
      <4> QED BY <2>a, <3>1, <3>2, <4>2 DEF MinInv
    <3>3. CASE /\ th'[i].pc = "setmin" /\ th'[i].min <= SaturatingAdd(cap', 1)
               /\ \A t \in Timers : timer'[t].at = "heap" => th'[i].min <= timer'[t].dl
      <4>1. Covers(th[i].min)'
        BY <3>3 DEF Covers, Heap, SaturatingAdd
      <4> QED BY <2>a, <3>1, <3>3, <4>1 DEF MinInv
    <3> QED BY <1>10, <3>2, <3>3, ScanFacts
  <2>6. SeenInv'
    BY <1>10, <2>a DEF IInv, SeenInv
  <2>7. TimedInv'
    BY <1>10, <2>a DEF IInv, TypeOK, TimedInv
  <2>8. WakeInv'
    BY <2>a DEF WakeInv, Fresh, InTime
  <2>9. CalledOnceAndInTime'
    <3>1. /\ th[i].now \in Nat /\ now \in Nat /\ th[i].now <= now
          /\ \A t \in Timers : timer[t].dl \in Nat
      BY <1>10 DEF IInv, TypeOK, ThreadType, TimerType, SeenInv
    <3>2. \A t \in Timers :
            /\ timer'[t].dl = timer[t].dl
            /\ \/ timer'[t] = timer[t]
               \/ /\ timer[t].at \in {"heap", "list"} /\ timer'[t].at = "done"
                  /\ timer'[t].calls = timer[t].calls + 1
                  /\ timer[t].dl <= th[i].now
               \/ /\ timer[t].at = "list" /\ timer'[t].at = "heap"
                  /\ timer'[t].calls = timer[t].calls
      BY <1>10, ScanFacts
    <3> QED BY <1>10, <2>a, <3>1, <3>2 DEF IInv, CalledOnceAndInTime
  <2>10. LostInv'
    <3>1. \A j \in Pool : th'[j].pc # "unlock"
      BY <1>10, <2>a DEF IInv, LockInv
    <3>2. /\ lost \in Nat /\ lost' = lost /\ cap \in 0 .. AtmMax /\ cap' \in 0 .. AtmMax
          /\ cap <= cap'
          /\ lost <= SaturatingAdd(cap, 1)
      BY <1>10, <2>a, ScanFacts DEF IInv, TypeOK, LostInv
    <3>3. SaturatingAdd(cap, 1) <= SaturatingAdd(cap', 1)
      BY <3>2 DEF SaturatingAdd
    <3>4. SaturatingAdd(cap, 1) \in Int /\ SaturatingAdd(cap', 1) \in Int
      BY <3>2 DEF SaturatingAdd
    <3>5. lost' <= SaturatingAdd(cap', 1)
      BY <3>2, <3>3, <3>4
    <3> QED BY <3>1, <3>5 DEF LostInv, SaturatingAdd
  <2> QED BY <2>1, <2>2, <2>3, <2>4, <2>5, <2>6, <2>7, <2>8, <2>9, <2>10 DEF IInv
<1>11. ASSUME IInv, NEW i \in Pool, SetMinDeadline(i)
      PROVE  IInv'
  <2>1. TypeOK'
    <3>1. th \in [Pool -> ThreadType] /\ th[i] \in ThreadType
      BY <1>11 DEF IInv, TypeOK
    <3>2. /\ [th[i] EXCEPT !.pc = "scan", !.min = 0] \in ThreadType
          /\ th[i].min \in 0 .. AtmMax
      <4>1. 0 \in 0 .. AtmMax
        OBVIOUS
      <4> QED BY <3>1, <4>1 DEF ThreadType
    <3>3. th' = [th EXCEPT ![i] = [th[i] EXCEPT !.pc = "scan", !.min = 0]]
      BY <1>11, <3>1 DEF SetMinDeadline
    <3>4. th' \in [Pool -> ThreadType]
      BY <3>1, <3>2, <3>3
    <3> QED BY <1>11, <3>2, <3>4 DEF IInv, TypeOK, SetMinDeadline
  <2>2. CountInv'
    BY <1>11, CountFrame DEF IInv, TypeOK, CountInv, LivePcs, SetMinDeadline
  <2>3. LockInv'
    BY <1>11 DEF IInv, TypeOK, TimerType, ThreadType, LockInv, SetMinDeadline
  <2>4. ShardInv'
    BY <1>11 DEF IInv, TypeOK, TimerType, ThreadType, ShardInv, SetMinDeadline
  <2>5. MinInv'
    BY <1>11
       DEF IInv, TypeOK, TimerType, ThreadType, LockInv, ShardInv, MinInv, Covers,
           Heap, SetMinDeadline
  <2>6. SeenInv'
    BY <1>11 DEF IInv, TypeOK, TimerType, ThreadType, SeenInv, MinInv, SetMinDeadline
  <2>7. TimedInv'
    BY <1>11 DEF IInv, TypeOK, TimerType, ThreadType, TimedInv, SeenInv, SetMinDeadline
  <2>8. WakeInv'
    BY <1>11
       DEF IInv, TypeOK, TimerType, ThreadType, WakeInv, Fresh, InTime, SeenInv, TimedInv,
           LockInv, Live, LivePcs, SetMinDeadline
  <2>9. CalledOnceAndInTime'
    BY <1>11
       DEF IInv, TypeOK, TimerType, ThreadType, CalledOnceAndInTime, SeenInv,
           SetMinDeadline
  <2>10. LostInv'
    BY <1>11, LostFrame DEF IInv, TypeOK, SetMinDeadline, Step, WaitFor, NewThread
  <2> QED BY <2>1, <2>2, <2>3, <2>4, <2>5, <2>6, <2>7, <2>8, <2>9, <2>10 DEF IInv
<1>12. ASSUME IInv, NEW i \in Pool, FinishCheck(i)
      PROVE  IInv'
  <2> DEFINE r == [th[i] EXCEPT !.pc = "unlock", !.next = minDeadline]
  <2>a. /\ th[i].pc = "finish" /\ th' = [th EXCEPT ![i] = r]
        /\ minTimer' = minDeadline /\ mu' = Nobody /\ lost' = 0
        /\ UNCHANGED <<now, shardVars, adding, minDeadline, checker, initialized, tls,
                       waitVars, poolVars>>
    BY <1>12 DEF FinishCheck, IInv, TypeOK
  <2>b. /\ th \in [Pool -> ThreadType] /\ minDeadline \in 0 .. AtmMax
        /\ r \in ThreadType /\ r.pc = "unlock" /\ r.next = minDeadline /\ r.now = th[i].now
    <3>1. th \in [Pool -> ThreadType] /\ th[i] \in ThreadType /\ minDeadline \in 0 .. AtmMax
      BY <1>12 DEF IInv, TypeOK
    <3> QED BY <3>1 DEF ThreadType
  <2> HIDE DEF r
  <2>c. th'[i] = r /\ \A j \in Pool : j # i => th'[j] = th[j]
    BY <2>a, <2>b
  <2>d. /\ mu = i /\ checker = i /\ i # Nobody
        /\ \A j \in Pool : j # i => th[j].pc \notin CheckPcs
    BY <1>12, <2>a DEF IInv, LockInv
  <2>1. TypeOK'
    <3>1. th' \in [Pool -> ThreadType]
      BY <2>a, <2>b
    <3> QED BY <1>12, <2>a, <2>b, <3>1 DEF IInv, TypeOK
  <2>2. CountInv'
    BY <1>12, <2>a, <2>b, <2>c, CountFrame DEF IInv, CountInv, LivePcs
  <2>3. LockInv'
    BY <1>12, <2>a, <2>b, <2>c, <2>d DEF IInv, LockInv
  <2>4. ShardInv'
    BY <1>12, <2>a DEF IInv, ShardInv
  <2>5. MinInv'
    <3>1. Covers(minDeadline)
      BY <1>12, <2>a, <2>d DEF IInv, MinInv
    <3>2. Covers(minDeadline)'
      BY <2>a, <3>1 DEF Covers, Heap
    <3> QED BY <2>a, <2>b, <2>c, <2>d, <3>2 DEF MinInv
  <2>6. SeenInv'
    BY <1>12, <2>a, <2>b, <2>c DEF IInv, SeenInv, MinInv
  <2>7. TimedInv'
    BY <1>12, <2>a, <2>b, <2>c DEF IInv, TypeOK, TimedInv
  <2>8. WakeInv'
    BY <2>a, <2>b, <2>c DEF WakeInv, Fresh, InTime
  <2>9. CalledOnceAndInTime'
    BY <1>12, <2>a DEF IInv, CalledOnceAndInTime
  <2>10. LostInv'
    <3>1. minDeadline <= SaturatingAdd(cap, 1) /\ 0 <= SaturatingAdd(cap, 1)
      BY <1>12, <2>a, <2>d DEF IInv, MinInv, Covers, TypeOK, SaturatingAdd
    <3> QED BY <2>a, <2>b, <2>c, <2>d, <3>1 DEF LostInv, SaturatingAdd
  <2> QED BY <2>1, <2>2, <2>3, <2>4, <2>5, <2>6, <2>7, <2>8, <2>9, <2>10 DEF IInv
<1>13. ASSUME IInv, NEW i \in Pool, RunSomeTimers(i)
      PROVE  IInv'
  <2> DEFINE f == FreeThread
             starts == waiterCount = 1 /\ threaded
  <2>a. /\ th[i].pc = "fired" /\ th \in [Pool -> ThreadType] /\ tls \in [Pool -> 0 .. AtmMax]
        /\ UNCHANGED <<now, shardVars, adding, sharedVars, mu, checker, initialized, waitVars,
                       threaded, stopping, lost>>
    BY <1>13 DEF RunSomeTimers, IInv, TypeOK
  <2>b. starts => f \in Pool /\ th[f].pc = "none"
    BY <1>13 DEF RunSomeTimers, PoolLeft, FreeThread
  <2> HIDE DEF f
  <2>c. starts => /\ th' = [th EXCEPT ![i] = NewThread("flush"), ![f] = NewThread("loop")]
                  /\ tls' = [tls EXCEPT ![f] = 0] /\ threadCount' = threadCount + 1
                  /\ UNCHANGED waiterCount
    BY <1>13 DEF RunSomeTimers, f
  <2>d. ~starts => /\ waiterCount' = waiterCount - 1 /\ UNCHANGED <<threadCount, tls>>
                   /\ \/ th' = [th EXCEPT ![i] = NewThread("flush")]
                      \/ \E j \in Pool :
                            /\ [th EXCEPT ![i] = NewThread("flush")][j].pc = "asleep"
                            /\ th' = [[th EXCEPT ![i] = NewThread("flush")]
                                        EXCEPT ![j] = NewThread("awake")]
    BY <1>13 DEF RunSomeTimers, Signal
  <2>e. starts => /\ f # i /\ th'[i] = NewThread("flush") /\ th'[f] = NewThread("loop")
                  /\ \A j \in Pool : j # i /\ j # f => th'[j] = th[j]
                  /\ tls'[f] = 0 /\ \A j \in Pool : j # f => tls'[j] = tls[j]
    BY <2>a, <2>b, <2>c
  <2>f. ~starts => /\ th'[i] = NewThread("flush")
                   /\ \A j \in Pool :
                        j # i => \/ th'[j] = th[j]
                                 \/ th[j].pc = "asleep" /\ th'[j] = NewThread("awake")
    <3> DEFINE t2 == [th EXCEPT ![i] = NewThread("flush")]
    <3>1. t2[i].pc # "asleep" /\ t2[i] = NewThread("flush") /\ t2 \in [Pool -> ThreadType]
          /\ \A j \in Pool : j # i => t2[j] = th[j]
      <4>1. NewThread("flush") \in ThreadType /\ NewThread("flush").pc = "flush"
        BY ThreadTypes DEF NewThread
      <4> QED BY <2>a, <4>1
    <3>2. ~starts => \/ th' = t2
                     \/ \E j \in Pool : /\ t2[j].pc = "asleep"
                                        /\ th' = [t2 EXCEPT ![j] = NewThread("awake")]
      BY <2>d
    <3> HIDE DEF t2
    <3>3. CASE th' = t2
      BY <3>1, <3>3
    <3>4. ASSUME NEW j \in Pool, t2[j].pc = "asleep", th' = [t2 EXCEPT ![j] = NewThread("awake")]
          PROVE  /\ th'[i] = t2[i] /\ th'[j] = NewThread("awake") /\ th[j].pc = "asleep"
                 /\ \A l \in Pool : l # j => th'[l] = t2[l]
      BY <3>1, <3>4
    <3> QED BY <3>1, <3>2, <3>3, <3>4
  <2>g. \A pc \in Pcs : NewThread(pc).pc = pc /\ NewThread(pc).now = 0
    BY DEF NewThread
  <2>h. \A j \in Pool : \/ j = i /\ th'[j].pc = "flush"
                        \/ starts /\ j = f /\ j # i /\ th'[j].pc = "loop" /\ th[j].pc = "none"
                           /\ tls'[j] = 0 /\ th'[j].now = 0
                        \/ j # i /\ th'[j] = th[j] /\ tls'[j] = tls[j] /\ ~(starts /\ j = f)
                        \/ j # i /\ th[j].pc = "asleep" /\ th'[j].pc = "awake" /\ tls'[j] = tls[j]
                           /\ ~starts /\ th'[j].now = 0
    BY <2>b, <2>d, <2>e, <2>f, <2>g
  <2>i. tls'[i] = tls[i] /\ th'[i].now = 0 /\ th'[i].pc = "flush"
    BY <2>d, <2>e, <2>f, <2>g
  <2>1. CountInv'
    <3>1. /\ IsFiniteSet(Live) /\ IsFiniteSet(Waiters) /\ Cardinality(Waiters) \in Nat
          /\ IsFiniteSet(Waiters \ {i}) /\ Cardinality(Waiters \ {i}) \in Nat
      BY CountBounds DEF Live, Waiters
    <3>2. i \in Live /\ i \in Waiters
      BY <2>a DEF Live, Waiters, LivePcs
    <3>3. Cardinality(Waiters \ {i}) = Cardinality(Waiters) - 1
      BY <3>1, <3>2, FS_RemoveElement
    <3>4. threaded => Live' # {}
      BY <2>i DEF Live, LivePcs
    <3>5. \A j \in Pool : th'[j].pc = "exit" => ~threaded'
      BY <1>13, <2>a, <2>h DEF IInv, CountInv
    <3>6. CASE starts
      <4>1. f \notin Live /\ f \notin Waiters \ {i}
        BY <2>b, <3>6 DEF Live, Waiters, LivePcs
      <4>2. Live' = Live \cup {f} /\ Waiters' = (Waiters \ {i}) \cup {f}
        BY <2>a, <2>b, <2>h, <3>6 DEF Live, Waiters, LivePcs
      <4>3. Cardinality(Live') = Cardinality(Live) + 1
        BY <3>1, <4>1, <4>2, FS_AddElement
      <4>4. Cardinality(Waiters') = Cardinality(Waiters \ {i}) + 1
        BY <3>1, <4>1, <4>2, FS_AddElement
      <4> QED BY <1>13, <2>a, <2>c, <3>1, <3>3, <3>4, <3>5, <3>6, <4>3, <4>4 DEF IInv, CountInv
    <3>7. CASE ~starts
      <4>1. Live' = Live /\ Waiters' = Waiters \ {i}
        BY <2>a, <2>h, <3>7 DEF Live, Waiters, LivePcs
      <4> QED BY <1>13, <2>a, <2>d, <3>3, <3>4, <3>5, <3>7, <4>1 DEF IInv, CountInv
    <3> QED BY <3>6, <3>7
  <2>2. TypeOK'
    <3>1. th' \in [Pool -> ThreadType]
      <4>1. \A pc \in Pcs : NewThread(pc) \in ThreadType
        BY ThreadTypes
      <4>2. NewThread("flush") \in ThreadType /\ NewThread("loop") \in ThreadType
            /\ NewThread("awake") \in ThreadType
        BY <4>1
      <4> QED BY <2>a, <2>b, <2>c, <2>d, <4>2
    <3>2. tls' \in [Pool -> 0 .. AtmMax]
      BY <2>a, <2>c, <2>d
    <3>3. /\ threadCount' \in 0 .. Cardinality(Pool)
          /\ waiterCount' \in 0 .. Cardinality(Pool)
      <4>1. Live' \subseteq Pool /\ Waiters' \subseteq Pool
        BY DEF Live, Waiters
      <4> QED BY <2>1, <4>1, CountBounds DEF CountInv
    <3> QED BY <1>13, <2>a, <3>1, <3>2, <3>3 DEF IInv, TypeOK
  <2>3. LockInv'
    BY <1>13, <2>a, <2>h DEF IInv, LockInv
  <2>4. ShardInv'
    BY <1>13, <2>a DEF IInv, ShardInv
  <2>5. MinInv'
    BY <1>13, <2>a, <2>h, MinFrame
  <2>6. SeenInv'
    <3>1. /\ now \in Nat /\ \A j \in Pool : tls[j] \in 0 .. AtmMax
          /\ tls[i] <= now
      BY <1>13, <2>a DEF IInv, TypeOK, SeenInv
    <3> QED BY <1>13, <2>a, <2>h, <2>i, <3>1 DEF IInv, SeenInv
  <2>7. TimedInv'
    BY <1>13, <2>a, <2>h DEF IInv, TypeOK, TimedInv
  <2>8. WakeInv'
    BY <2>i DEF WakeInv, Fresh, InTime
  <2>9. CalledOnceAndInTime'
    BY <1>13, <2>a DEF IInv, CalledOnceAndInTime
  <2>10. LostInv'
    BY <1>13, <2>a, <2>h, LostFrame
  <2> QED BY <2>1, <2>2, <2>3, <2>4, <2>5, <2>6, <2>7, <2>8, <2>9, <2>10 DEF IInv
<1>14. ASSUME IInv, NEW i \in Pool, FlushedTimers(i)
      PROVE  IInv'
  <2>a. /\ th[i].pc = "flush" /\ waiterCount' = waiterCount + 1
        /\ UNCHANGED <<now, shardVars, adding, sharedVars, mu, checker, initialized, tls,
                       waitVars, threaded, threadCount, stopping, lost>>
    BY <1>14 DEF FlushedTimers
  <2>b. /\ th'[i].pc = "loop"
        /\ \A j \in Pool :
             j # i => \/ th'[j] = th[j]
                      \/ th[j].pc = "completed" /\ th'[j].pc = "none"
    <3>1. NewThread("loop").pc = "loop" /\ NewThread("none").pc = "none"
      BY DEF NewThread
    <3> QED BY <1>14, <3>1 DEF FlushedTimers
  <2>1. CountInv'
    <3>1. Live' = Live /\ Waiters' = Waiters \cup {i} /\ i \notin Waiters
      BY <2>a, <2>b DEF Live, Waiters, LivePcs
    <3>2. IsFiniteSet(Waiters)
      BY CountBounds DEF Waiters
    <3>3. Cardinality(Waiters') = Cardinality(Waiters) + 1
      BY <3>1, <3>2, FS_AddElement
    <3> QED BY <1>14, <2>a, <2>b, <3>1, <3>3 DEF IInv, CountInv
  <2>2. TypeOK'
    <3>1. th' \in [Pool -> ThreadType]
      BY <1>14, ThreadTypes DEF IInv, TypeOK, FlushedTimers
    <3>2. waiterCount' \in 0 .. Cardinality(Pool)
      <4>1. Waiters' \subseteq Pool
        BY DEF Waiters
      <4> QED BY <2>1, <4>1, CountBounds DEF CountInv
    <3> QED BY <1>14, <2>a, <3>1, <3>2 DEF IInv, TypeOK
  <2>3. LockInv'
    BY <1>14 DEF IInv, TypeOK, TimerType, ThreadType, LockInv, FlushedTimers, NewThread
  <2>4. ShardInv'
    BY <1>14 DEF IInv, TypeOK, TimerType, ThreadType, ShardInv, FlushedTimers, NewThread
  <2>5. MinInv'
    BY <1>14, MinFrame DEF IInv, TypeOK, FlushedTimers, NewThread
  <2>6. SeenInv'
    BY <1>14
       DEF IInv, TypeOK, TimerType, ThreadType, SeenInv, MinInv, FlushedTimers,
           NewThread
  <2>7. TimedInv'
    BY <1>14
       DEF IInv, TypeOK, TimerType, ThreadType, TimedInv, SeenInv, FlushedTimers,
           NewThread
  <2>8. WakeInv'
    BY <1>14
       DEF IInv, TypeOK, TimerType, ThreadType, WakeInv, Fresh, InTime, SeenInv, TimedInv,
           LockInv, Live, LivePcs, FlushedTimers, NewThread
  <2>9. CalledOnceAndInTime'
    BY <1>14
       DEF IInv, TypeOK, TimerType, ThreadType, CalledOnceAndInTime, SeenInv,
           FlushedTimers, NewThread
  <2>10. LostInv'
    BY <1>14, <2>a, <2>b, LostFrame
  <2> QED BY <2>1, <2>2, <2>3, <2>4, <2>5, <2>6, <2>7, <2>8, <2>9, <2>10 DEF IInv
<1>15. ASSUME IInv, NEW i \in Pool, WaitUntil(i)
      PROVE  IInv'
  <2>1. TypeOK'
    <3>1. th \in [Pool -> ThreadType] /\ th[i].next \in 0 .. AtmMax
      BY <1>15 DEF IInv, TypeOK, ThreadType
    <3>2. /\ NewThread("exit") \in ThreadType /\ NewThread("loop") \in ThreadType
          /\ NewThread("asleep") \in ThreadType
          /\ [NewThread("asleep") EXCEPT !.until = th[i].next] \in ThreadType
      BY <3>1, ThreadTypes
    <3>3. \/ th' = [th EXCEPT ![i] = NewThread("exit")]
          \/ th' = [th EXCEPT ![i] = NewThread("loop")]
          \/ th' = [th EXCEPT ![i] = NewThread("asleep")]
          \/ th' = [th EXCEPT ![i] = [NewThread("asleep") EXCEPT !.until = th[i].next]]
      BY <1>15 DEF WaitUntil
    <3>4. th' \in [Pool -> ThreadType]
      BY <3>1, <3>2, <3>3
    <3>5. tls' \in [Pool -> 0 .. AtmMax] /\ timedDeadline' \in 0 .. AtmMax
      BY <1>15, <3>1 DEF IInv, TypeOK, WaitUntil
    <3>6. kicked' \in BOOLEAN /\ hasTimedWaiter' \in BOOLEAN /\ timedWaiter' \in Pool \cup {Nobody}
      BY <1>15 DEF IInv, TypeOK, WaitUntil
    <3> QED BY <1>15, <3>4, <3>5, <3>6 DEF IInv, TypeOK, WaitUntil
  <2>2. CountInv'
    BY <1>15, CountFrame DEF IInv, TypeOK, CountInv, LivePcs, WaitUntil, NewThread
  <2>3. LockInv'
    BY <1>15, SMTT(30) DEF IInv, TypeOK, TimerType, ThreadType, LockInv, WaitUntil, NewThread
  <2>4. ShardInv'
    BY <1>15 DEF IInv, TypeOK, TimerType, ThreadType, ShardInv, WaitUntil, NewThread
  <2>5. MinInv'
    BY <1>15, MinFrame DEF IInv, TypeOK, WaitUntil, NewThread
  <2>6. SeenInv'
    BY <1>15, SMTT(30)
       DEF IInv, TypeOK, TimerType, ThreadType, SeenInv, MinInv, WaitUntil, NewThread
  <2>7. TimedInv'
    BY <1>15
       DEF IInv, TypeOK, TimerType, ThreadType, TimedInv, SeenInv, WaitUntil,
           NewThread
  <2>8. WakeInv'
    BY <1>15, SMTT(30)
       DEF IInv, TypeOK, TimerType, ThreadType, WakeInv, Fresh, InTime, SeenInv, TimedInv,
           LockInv, Live, LivePcs, WaitUntil, NewThread
  <2>9. CalledOnceAndInTime'
    BY <1>15
       DEF IInv, TypeOK, TimerType, ThreadType, CalledOnceAndInTime, SeenInv,
           WaitUntil, NewThread
  <2>10. LostInv'
    BY <1>15, LostFrame DEF IInv, TypeOK, WaitUntil, Step, WaitFor, NewThread
  <2> QED BY <2>1, <2>2, <2>3, <2>4, <2>5, <2>6, <2>7, <2>8, <2>9, <2>10 DEF IInv
<1>16. ASSUME IInv, NEW i \in Pool, TimeOut(i)
      PROVE  IInv'
  <2>1. TypeOK'
    <3>1. th' \in [Pool -> ThreadType]
      BY <1>16, ThreadTypes DEF IInv, TypeOK, TimeOut
    <3> QED BY <1>16, <3>1 DEF IInv, TypeOK, TimeOut
  <2>2. CountInv'
    BY <1>16, CountFrame DEF IInv, TypeOK, CountInv, LivePcs, TimeOut, NewThread
  <2>3. LockInv'
    BY <1>16 DEF IInv, TypeOK, TimerType, ThreadType, LockInv, TimeOut, NewThread
  <2>4. ShardInv'
    BY <1>16 DEF IInv, TypeOK, TimerType, ThreadType, ShardInv, TimeOut, NewThread
  <2>5. MinInv'
    BY <1>16, MinFrame DEF IInv, TypeOK, TimeOut, NewThread
  <2>6. SeenInv'
    BY <1>16
       DEF IInv, TypeOK, TimerType, ThreadType, SeenInv, MinInv, TimeOut, NewThread
  <2>7. TimedInv'
    BY <1>16
       DEF IInv, TypeOK, TimerType, ThreadType, TimedInv, SeenInv, TimeOut, NewThread
  <2>8. WakeInv'
    BY <1>16
       DEF IInv, TypeOK, TimerType, ThreadType, WakeInv, Fresh, InTime, SeenInv, TimedInv,
           LockInv, Live, LivePcs, TimeOut, NewThread
  <2>9. CalledOnceAndInTime'
    BY <1>16
       DEF IInv, TypeOK, TimerType, ThreadType, CalledOnceAndInTime, SeenInv, TimeOut,
           NewThread
  <2>10. LostInv'
    BY <1>16, LostFrame DEF IInv, TypeOK, TimeOut, Step, WaitFor, NewThread
  <2> QED BY <2>1, <2>2, <2>3, <2>4, <2>5, <2>6, <2>7, <2>8, <2>9, <2>10 DEF IInv
<1>17. ASSUME IInv, NEW i \in Pool, WaitOver(i)
      PROVE  IInv'
  <2>1. TypeOK'
    <3>1. th' \in [Pool -> ThreadType]
      BY <1>17, ThreadTypes DEF IInv, TypeOK, WaitOver
    <3>2. tls' \in [Pool -> 0 .. AtmMax] /\ timedDeadline' \in 0 .. AtmMax
      BY <1>17 DEF IInv, TypeOK, WaitOver
    <3>3. kicked' \in BOOLEAN /\ hasTimedWaiter' \in BOOLEAN /\ timedWaiter' \in Pool \cup {Nobody}
      BY <1>17 DEF IInv, TypeOK, WaitOver
    <3> QED BY <1>17, <3>1, <3>2, <3>3 DEF IInv, TypeOK, WaitOver
  <2>2. CountInv'
    BY <1>17, CountFrame DEF IInv, TypeOK, CountInv, LivePcs, WaitOver, NewThread
  <2>3. LockInv'
    BY <1>17 DEF IInv, TypeOK, TimerType, ThreadType, LockInv, WaitOver, NewThread
  <2>4. ShardInv'
    BY <1>17 DEF IInv, TypeOK, TimerType, ThreadType, ShardInv, WaitOver, NewThread
  <2>5. MinInv'
    BY <1>17, MinFrame DEF IInv, TypeOK, WaitOver, NewThread
  <2>6. SeenInv'
    BY <1>17
       DEF IInv, TypeOK, TimerType, ThreadType, SeenInv, MinInv, WaitOver, NewThread
  <2>7. TimedInv'
    BY <1>17
       DEF IInv, TypeOK, TimerType, ThreadType, TimedInv, SeenInv, WaitOver, NewThread
  <2>8. WakeInv'
    BY <1>17
       DEF IInv, TypeOK, TimerType, ThreadType, WakeInv, Fresh, InTime, SeenInv, TimedInv,
           LockInv, Live, LivePcs, WaitOver, NewThread
  <2>9. CalledOnceAndInTime'
    BY <1>17
       DEF IInv, TypeOK, TimerType, ThreadType, CalledOnceAndInTime, SeenInv,
           WaitOver, NewThread
  <2>10. LostInv'
    BY <1>17, LostFrame DEF IInv, TypeOK, WaitOver, Step, WaitFor, NewThread
  <2> QED BY <2>1, <2>2, <2>3, <2>4, <2>5, <2>6, <2>7, <2>8, <2>9, <2>10 DEF IInv
<1>18. ASSUME IInv, NEW i \in Pool, ThreadExit(i)
      PROVE  IInv'
  <2>a. /\ th[i].pc = "exit"
        /\ waiterCount' = waiterCount - 1 /\ threadCount' = threadCount - 1
        /\ UNCHANGED <<now, shardVars, adding, sharedVars, mu, checker, initialized, tls,
                       waitVars, threaded, stopping, lost>>
    BY <1>18 DEF ThreadExit
  <2>b. th \in [Pool -> ThreadType] /\ ~threaded
    BY <1>18, <2>a DEF IInv, TypeOK, CountInv
  <2>c. /\ th'[i].pc = "completed"
        /\ \A j \in Pool : j # i => th'[j] = th[j]
    BY <1>18, <2>b DEF ThreadExit, Step, ThreadType
  <2>1. CountInv'
    <3>1. /\ Live' = Live \ {i} /\ Waiters' = Waiters \ {i}
          /\ i \in Live /\ i \in Waiters
      BY <2>a, <2>c DEF Live, Waiters, LivePcs
    <3>2. IsFiniteSet(Live) /\ IsFiniteSet(Waiters)
      BY CountBounds DEF Live, Waiters
    <3>3. /\ Cardinality(Live') = Cardinality(Live) - 1
          /\ Cardinality(Waiters') = Cardinality(Waiters) - 1
      BY <3>1, <3>2, FS_RemoveElement
    <3> QED BY <1>18, <2>a, <2>b, <2>c, <3>3 DEF IInv, CountInv
  <2>2. TypeOK'
    <3>1. th' \in [Pool -> ThreadType]
      <4>1. [th[i] EXCEPT !.pc = "completed"] \in ThreadType
        BY <2>b, ThreadTypes
      <4>2. th' = [th EXCEPT ![i] = [th[i] EXCEPT !.pc = "completed"]]
        BY <1>18, <2>b DEF ThreadExit, Step
      <4> QED BY <2>b, <4>1, <4>2
    <3>2. /\ threadCount' \in 0 .. Cardinality(Pool)
          /\ waiterCount' \in 0 .. Cardinality(Pool)
      <4>1. Live' \subseteq Pool /\ Waiters' \subseteq Pool
        BY DEF Live, Waiters
      <4> QED BY <2>1, <4>1, CountBounds DEF CountInv
    <3> QED BY <1>18, <2>a, <3>1, <3>2 DEF IInv, TypeOK
  <2>3. LockInv'
    BY <1>18 DEF IInv, TypeOK, TimerType, ThreadType, LockInv, ThreadExit, Step
  <2>4. ShardInv'
    BY <1>18 DEF IInv, TypeOK, TimerType, ThreadType, ShardInv, ThreadExit, Step
  <2>5. MinInv'
    BY <1>18, MinFrame DEF IInv, TypeOK, ThreadExit, Step
  <2>6. SeenInv'
    BY <1>18, <2>a, <2>c DEF IInv, SeenInv, ThreadExit, Step, TypeOK, ThreadType
  <2>7. TimedInv'
    BY <1>18
       DEF IInv, TypeOK, TimerType, ThreadType, TimedInv, SeenInv, ThreadExit, Step
  <2>8. WakeInv'
    BY <2>a, <2>b DEF WakeInv
  <2>9. CalledOnceAndInTime'
    BY <1>18
       DEF IInv, TypeOK, TimerType, ThreadType, CalledOnceAndInTime, SeenInv,
           ThreadExit, Step
  <2>10. LostInv'
    BY <1>18, <2>a, <2>c, LostFrame
  <2> QED BY <2>1, <2>2, <2>3, <2>4, <2>5, <2>6, <2>7, <2>8, <2>9, <2>10 DEF IInv
<1>19. ASSUME IInv, StopThreads
      PROVE  IInv'
  <2>1. TypeOK'
    <3>1. th' \in [Pool -> ThreadType]
      BY <1>19, ThreadTypes DEF IInv, TypeOK, StopThreads
    <3> QED BY <1>19, <3>1 DEF IInv, TypeOK, StopThreads
  <2>2. CountInv'
    BY <1>19, CountFrame DEF IInv, TypeOK, CountInv, LivePcs, StopThreads, NewThread
  <2>3. LockInv'
    BY <1>19 DEF IInv, TypeOK, TimerType, ThreadType, LockInv, StopThreads, NewThread
  <2>4. ShardInv'
    BY <1>19 DEF IInv, TypeOK, TimerType, ThreadType, ShardInv, StopThreads, NewThread
  <2>5. MinInv'
    BY <1>19, MinFrame DEF IInv, TypeOK, StopThreads, NewThread
  <2>6. SeenInv'
    BY <1>19
       DEF IInv, TypeOK, TimerType, ThreadType, SeenInv, MinInv, StopThreads,
           NewThread
  <2>7. TimedInv'
    BY <1>19
       DEF IInv, TypeOK, TimerType, ThreadType, TimedInv, SeenInv, StopThreads,
           NewThread
  <2>8. WakeInv'
    BY <1>19
       DEF IInv, TypeOK, TimerType, ThreadType, WakeInv, Fresh, InTime, SeenInv, TimedInv,
           LockInv, Live, LivePcs, StopThreads, NewThread
  <2>9. CalledOnceAndInTime'
    BY <1>19
       DEF IInv, TypeOK, TimerType, ThreadType, CalledOnceAndInTime, SeenInv,
           StopThreads, NewThread
  <2>10. LostInv'
    BY <1>19, LostFrame DEF IInv, TypeOK, StopThreads, Step, WaitFor, NewThread
  <2> QED BY <2>1, <2>2, <2>3, <2>4, <2>5, <2>6, <2>7, <2>8, <2>9, <2>10 DEF IInv
<1>20. ASSUME IInv, StopThreadsReturns
      PROVE  IInv'
  <2>1. TypeOK'
    <3>1. th' \in [Pool -> ThreadType]
      BY <1>20, ThreadTypes DEF IInv, TypeOK, StopThreadsReturns
    <3> QED BY <1>20, <3>1 DEF IInv, TypeOK, StopThreadsReturns
  <2>2. CountInv'
    BY <1>20, CountFrame
       DEF IInv, TypeOK, CountInv, LivePcs, StopThreadsReturns, NewThread
  <2>3. LockInv'
    BY <1>20
       DEF IInv, TypeOK, TimerType, ThreadType, LockInv, StopThreadsReturns, NewThread
  <2>4. ShardInv'
    BY <1>20
       DEF IInv, TypeOK, TimerType, ThreadType, ShardInv, StopThreadsReturns,
           NewThread
  <2>5. MinInv'
    BY <1>20, MinFrame DEF IInv, TypeOK, StopThreadsReturns, NewThread
  <2>6. SeenInv'
    BY <1>20
       DEF IInv, TypeOK, TimerType, ThreadType, SeenInv, MinInv, StopThreadsReturns,
           NewThread
  <2>7. TimedInv'
    BY <1>20
       DEF IInv, TypeOK, TimerType, ThreadType, TimedInv, SeenInv, StopThreadsReturns,
           NewThread
  <2>8. WakeInv'
    BY <1>20
       DEF IInv, TypeOK, TimerType, ThreadType, WakeInv, Fresh, InTime, SeenInv, TimedInv,
           LockInv, Live, LivePcs, StopThreadsReturns, NewThread
  <2>9. CalledOnceAndInTime'
    BY <1>20
       DEF IInv, TypeOK, TimerType, ThreadType, CalledOnceAndInTime, SeenInv,
           StopThreadsReturns, NewThread
  <2>10. LostInv'
    BY <1>20, LostFrame DEF IInv, TypeOK, StopThreadsReturns, Step, WaitFor, NewThread
  <2> QED BY <2>1, <2>2, <2>3, <2>4, <2>5, <2>6, <2>7, <2>8, <2>9, <2>10 DEF IInv
<1>21. ASSUME IInv, CheckAtTheEnd, initialized' \in BOOLEAN
      PROVE  IInv'
  <2>a. UNCHANGED <<now, adding, mu, checker, th, tls, waitVars,
                   poolVars, lost>>
    BY <1>21 DEF CheckAtTheEnd
  <2>b. CASE minDeadline = AtmMax /\ minTimer' = AtmMax /\ UNCHANGED <<shardVars, minDeadline>>
    <3>1. minTimer \in 0 .. AtmMax /\ minTimer' \in 0 .. AtmMax
      BY <1>21, <2>b DEF IInv, TypeOK
    <3>2. TypeOK'
      BY <1>21, <2>a, <2>b, <3>1 DEF IInv, TypeOK
    <3>3. CountInv'
      BY <1>21, <2>a, CountFrame DEF IInv, CountInv
    <3>4. LockInv' /\ ShardInv' /\ SeenInv' /\ TimedInv' /\ CalledOnceAndInTime'
      BY <1>21, <2>a, <2>b DEF IInv, LockInv, ShardInv, SeenInv, TimedInv, CalledOnceAndInTime
    <3>5. MinInv'
      BY <1>21, <2>a, <2>b, <3>1 DEF IInv, MinInv, Covers, Heap
    <3>6. LostInv'
      BY <1>21, <2>a, <2>b, LostFrame
    <3>7. WakeInv'
      BY <1>21, <2>a, <2>b, <3>1
         DEF IInv, TypeOK, ThreadType, WakeInv, Fresh, InTime, Live
    <3> QED BY <3>2, <3>3, <3>4, <3>5, <3>6, <3>7 DEF IInv
  <2>c. CASE \E delta \in Deltas :
               LET r == PopAll(timer, cap, AtmMax, delta, "shutdown")
                   m == ComputeMinDeadline(r.tm, r.cap)
               IN  timer' = r.tm /\ cap' = r.cap /\ minDeadline' = m /\ minTimer' = m
    <3>a. /\ timer' \in [Timers -> TimerType] /\ cap' = AtmMax
          /\ \A t \in Timers :
                /\ timer'[t].dl = timer[t].dl /\ timer'[t].at # "heap"
                /\ \/ timer'[t] = timer[t]
                   \/ /\ timer[t].at \in {"heap", "list"} /\ timer'[t].at = "done"
                      /\ timer'[t].calls = timer[t].calls + 1 /\ timer'[t].err = "shutdown"
                /\ timer'[t].at = "list" => timer[t].dl >= cap'
          /\ minDeadline' = ComputeMinDeadline(timer', cap') /\ minTimer' = minDeadline'
      <4>1. PICK delta \in Deltas :
              LET r == PopAll(timer, cap, AtmMax, delta, "shutdown")
                  m == ComputeMinDeadline(r.tm, r.cap)
              IN  timer' = r.tm /\ cap' = r.cap /\ minDeadline' = m /\ minTimer' = m
        BY <2>c
      <4> DEFINE q == PopAll(timer, cap, AtmMax, delta, "shutdown")
      <4>2. /\ timer' = q.tm /\ cap' = q.cap
            /\ minDeadline' = ComputeMinDeadline(q.tm, q.cap) /\ minTimer' = minDeadline'
        BY <4>1
      <4>3. Popped(q, AtmMax, "shutdown")
        <5>1. AtmMax \in 0 .. AtmMax
          OBVIOUS
        <5> QED BY <1>21, <5>1, PopFacts
      <4> HIDE DEF q
      <4>4. /\ q.tm \in [Timers -> TimerType] /\ q.cap = AtmMax
            /\ \A t \in Timers :
                  /\ q.tm[t].dl = timer[t].dl
                  /\ \/ q.tm[t] = timer[t]
                     \/ /\ timer[t].at \in {"heap", "list"} /\ q.tm[t].at = "done"
                        /\ q.tm[t].calls = timer[t].calls + 1 /\ q.tm[t].err = "shutdown"
                     \/ timer[t].at = "list" /\ q.tm[t].at = "heap"
                  /\ q.tm[t].at = "heap" => timer[t].dl < q.cap /\ timer[t].dl > AtmMax
                  /\ q.tm[t].at = "list" => timer[t].dl >= q.cap
        BY <4>3 DEF Popped
      <4>5. \A t \in Timers : timer[t].dl \in 0 .. AtmMax
        BY <1>21 DEF IInv, TypeOK, TimerType
      <4>6. \A t \in Timers : q.tm[t].at # "heap"
        BY <4>4, <4>5
      <4> QED BY <4>2, <4>4, <4>6
    <3>b. minDeadline' = AtmMax /\ minTimer' = AtmMax /\ SaturatingAdd(AtmMax, 1) = AtmMax
      <4>1. {t \in Timers : timer'[t].at = "heap"} = {}
        BY <3>a
      <4> QED BY <3>a, <4>1 DEF ComputeMinDeadline, SaturatingAdd
    <3>1. TypeOK'
      <4>1. /\ cap' \in 0 .. AtmMax /\ minDeadline' \in 0 .. AtmMax
            /\ minTimer' \in 0 .. AtmMax
        BY <3>a, <3>b
      <4> QED BY <1>21, <2>a, <3>a, <4>1 DEF IInv, TypeOK
    <3>2. CountInv'
      BY <1>21, <2>a, CountFrame DEF IInv, CountInv
    <3>3. LockInv' /\ SeenInv' /\ TimedInv'
      BY <1>21, <2>a DEF IInv, LockInv, SeenInv, TimedInv
    <3>4. ShardInv'
      BY <1>21, <2>a, <3>a DEF IInv, ShardInv
    <3>5. MinInv'
      <4>1. Heap' = {} /\ SaturatingAdd(cap, 1)' = AtmMax
        BY <3>a, <3>b DEF Heap, SaturatingAdd
      <4>2. /\ \A i \in Pool : th[i].min <= AtmMax
            /\ \A i \in Pool : th[i].pc = "finish" => AtmMax > th[i].now
        <5>1. \A i \in Pool : /\ th[i].min \in 0 .. AtmMax /\ th[i].now \in Nat
                              /\ th[i].pc = "finish" => minDeadline > th[i].now
          BY <1>21 DEF IInv, TypeOK, ThreadType, MinInv
        <5>2. minDeadline \in 0 .. AtmMax
          BY <1>21 DEF IInv, TypeOK
        <5> QED BY <5>1, <5>2
      <4> QED BY <1>21, <2>a, <3>b, <4>1, <4>2 DEF IInv, MinInv, Covers
    <3>6. LostInv'
      <4>1. SaturatingAdd(cap, 1)' = AtmMax
        BY <3>a, <3>b DEF SaturatingAdd
      <4>2. lost <= AtmMax /\ \A i \in Pool : th[i].next <= AtmMax
        BY <1>21 DEF IInv, TypeOK, ThreadType
      <4> QED BY <2>a, <4>1, <4>2 DEF LostInv
    <3>7. WakeInv'
      <4>1. minTimer \in 0 .. AtmMax /\ minTimer' = AtmMax
        BY <1>21, <3>b DEF IInv, TypeOK
      <4> QED BY <1>21, <2>a, <4>1 DEF IInv, TypeOK, ThreadType, WakeInv, Fresh, InTime, Live
    <3>8. CalledOnceAndInTime'
      BY <1>21, <2>a, <3>a DEF IInv, CalledOnceAndInTime
    <3> QED BY <3>1, <3>2, <3>3, <3>4, <3>5, <3>6, <3>7, <3>8 DEF IInv
  <2> QED BY <1>21, <2>b, <2>c DEF CheckAtTheEnd
<1>22. ASSUME IInv, IomgrShutdownCheck \/ TimerListShutdown
      PROVE  IInv'
  <2>1. CheckAtTheEnd /\ initialized' \in BOOLEAN
    BY <1>22 DEF IomgrShutdownCheck, TimerListShutdown, IInv, TypeOK
  <2> QED BY <1>21, <1>22, <2>1
<1>23. ASSUME IInv, NEW i \in Pool, UnlockChecker(i)
      PROVE  IInv'
  <2> DEFINE r == IF th[i].fired THEN NewThread("fired") ELSE WaitFor(th[i].next)
  <2>a. /\ th[i].pc = "unlock" /\ th' = [th EXCEPT ![i] = r] /\ checker' = Nobody
        /\ UNCHANGED <<now, shardVars, adding, sharedVars, mu, initialized, tls, waitVars,
                       poolVars, lost>>
    BY <1>23 DEF UnlockChecker, IInv, TypeOK
  <2>b. /\ th \in [Pool -> ThreadType] /\ th[i] \in ThreadType /\ r \in ThreadType
        /\ r.now = 0
        /\ \/ r.pc = "fired" /\ th[i].fired
           \/ r.pc = "wait" /\ r.next = th[i].next /\ ~th[i].fired
    <3>1. th \in [Pool -> ThreadType] /\ th[i] \in ThreadType /\ th[i].next \in 0 .. AtmMax
      BY <1>23 DEF IInv, TypeOK, ThreadType
    <3>2. NewThread("fired") \in ThreadType /\ WaitFor(th[i].next) \in ThreadType
      BY <3>1, ThreadTypes
    <3> QED BY <3>1, <3>2 DEF NewThread, WaitFor
  <2> HIDE DEF r
  <2>c. th'[i] = r /\ \A j \in Pool : j # i => th'[j] = th[j]
    BY <2>a, <2>b
  <2>d. /\ checker = i /\ i # Nobody
        /\ \A j \in Pool : j # i => th[j].pc \notin CheckPcs
    BY <1>23, <2>a DEF IInv, LockInv
  <2>1. TypeOK'
    <3>1. th' \in [Pool -> ThreadType]
      BY <2>a, <2>b
    <3> QED BY <1>23, <2>a, <3>1 DEF IInv, TypeOK
  <2>2. CountInv'
    BY <1>23, <2>a, <2>b, <2>c, CountFrame DEF IInv, CountInv, LivePcs
  <2>3. LockInv'
    BY <1>23, <2>a, <2>b, <2>c, <2>d DEF IInv, LockInv
  <2>4. ShardInv'
    BY <1>23, <2>a DEF IInv, ShardInv
  <2>5. MinInv'
    BY <1>23, <2>a, <2>b, <2>c, MinFrame
  <2>6. SeenInv'
    <3>1. /\ tls[i] <= th[i].now /\ th[i].now < th[i].next /\ th[i].now <= now
          /\ tls[i] \in Nat /\ th[i].now \in Nat /\ th[i].next \in Nat /\ now \in Nat
      BY <1>23, <2>a DEF IInv, SeenInv, TypeOK, ThreadType
    <3>2. tls[i] <= now /\ tls[i] <= th[i].next /\ 0 <= now
      BY <3>1
    <3> QED BY <1>23, <2>a, <2>b, <2>c, <3>2 DEF IInv, SeenInv
  <2>7. TimedInv'
    BY <1>23, <2>a, <2>b, <2>c DEF IInv, TypeOK, TimedInv
  <2>8. WakeInv'
    <3>1. ASSUME Fresh(i) PROVE Fresh(i)'
      BY <2>a, <2>b, <2>c, <3>1 DEF Fresh, InTime
    <3>2. ASSUME NEW j \in Pool, j # i, Fresh(j) PROVE Fresh(j)'
      BY <2>a, <2>c, <3>2 DEF Fresh, InTime
    <3>3. i \in Live' /\ th'[i].pc # "asleep"
      BY <2>b, <2>c DEF Live, LivePcs
    <3> QED BY <1>23, <2>a, <3>1, <3>2, <3>3 DEF IInv, WakeInv
  <2>9. CalledOnceAndInTime'
    BY <1>23, <2>a DEF IInv, CalledOnceAndInTime
  <2>10. LostInv'
    BY <1>23, <2>a, <2>b, <2>c, LostFrame
  <2> QED BY <2>1, <2>2, <2>3, <2>4, <2>5, <2>6, <2>7, <2>8, <2>9, <2>10 DEF IInv
<1>24. ASSUME IInv, UNCHANGED vars
      PROVE  IInv'
  BY <1>24
     DEF IInv, vars, TypeOK, CountInv, LockInv, ShardInv, MinInv, SeenInv, TimedInv, LostInv,
         WakeInv, CalledOnceAndInTime, Covers, Heap, Live, Waiters, Fresh, InTime
<1> QED
  BY <1>1, <1>2, <1>3, <1>4, <1>5, <1>6, <1>7, <1>8, <1>9, <1>10, <1>11, <1>12,
     <1>13, <1>14, <1>15, <1>16, <1>17, <1>18, <1>19, <1>20, <1>22, <1>23, <1>24
     DEF Next, AddStep, ThreadStep

(* grpc_timer_list_init and grpc_timer_manager_init establish the invariant: one thread
   runs and will look at min_timer. *)
LEMMA Invariance == Spec => []IInv
<1>1. ASSUME Init
      PROVE  IInv
  <2> DEFINE first == CHOOSE i \in Pool : TRUE
  <2>a. first \in Pool
    BY GrpcTimerAssumption
  <2>b. /\ now = 0 /\ timer = [t \in Timers |-> Unset] /\ adding = [t \in Timers |-> "no"]
        /\ cap = 0 /\ minTimer = 0 /\ minDeadline = ComputeMinDeadline(timer, 0)
        /\ mu = Nobody /\ checker = Nobody /\ initialized = TRUE
        /\ th = [j \in Pool |-> NewThread(IF j = first THEN "loop" ELSE "none")]
        /\ tls = [i \in Pool |-> 0]
        /\ threaded = TRUE /\ threadCount = 1 /\ waiterCount = 1 /\ stopping = "no"
        /\ kicked = FALSE /\ hasTimedWaiter = FALSE /\ timedDeadline = AtmMax
        /\ timedWaiter = Nobody /\ lost = 0
    BY <1>1 DEF Init
  <2> HIDE DEF first
  <2>c. th[first].pc = "loop" /\ \A j \in Pool : j # first => th[j].pc = "none"
    BY <2>a, <2>b DEF NewThread
  <2>d. \A j \in Pool : th[j].now = 0 /\ th[j].pc \in {"loop", "none"} /\ th[j] \in ThreadType
    <3>1. \A pc \in Pcs : NewThread(pc) \in ThreadType /\ NewThread(pc).pc = pc
                          /\ NewThread(pc).now = 0
      BY ThreadTypes DEF NewThread
    <3> QED BY <2>b, <3>1 DEF Pcs
  <2>e. \A t \in Timers : timer[t] = Unset
    BY <2>b
  <2>f. AtmMax \in Nat /\ AtmMax > 0 /\ MaxNow \in Nat
    <3>1. PICK d \in Deltas : d \in Nat /\ MaxNow + d < AtmMax
      BY GrpcTimerAssumption
    <3>2. AtmMax \in Nat /\ MaxNow \in Nat
      BY GrpcTimerAssumption
    <3> QED BY <3>1, <3>2
  <2>g. minDeadline = 1 /\ SaturatingAdd(cap, 1) = 1 /\ Heap = {}
    BY <2>b, <2>e, <2>f DEF ComputeMinDeadline, SaturatingAdd, Unset, Heap
  <2>1. TypeOK
    <3>1. Unset \in TimerType
      BY <2>f DEF Unset, TimerType
    <3>2. timer \in [Timers -> TimerType] /\ th \in [Pool -> ThreadType]
      BY <2>b, <2>d, <3>1
    <3>3. now \in 0 .. MaxNow /\ tls \in [Pool -> 0 .. AtmMax]
      BY <2>b, <2>f
    <3>4. /\ cap \in 0 .. AtmMax /\ minDeadline \in 0 .. AtmMax /\ minTimer \in 0 .. AtmMax
          /\ timedDeadline \in 0 .. AtmMax /\ lost \in 0 .. AtmMax
      BY <2>b, <2>f, <2>g
    <3>5. 1 \in 0 .. Cardinality(Pool)
      <4>1. Cardinality({first}) = 1
        BY FS_Singleton
      <4> QED BY <2>a, <4>1, CountBounds
    <3>6. /\ adding \in [Timers -> {"no", "first", "kick"}]
          /\ mu \in Pool \cup Timers \cup {Nobody} /\ checker \in Pool \cup {Nobody}
          /\ timedWaiter \in Pool \cup {Nobody} /\ stopping \in {"no", "waiting", "stopped"}
          /\ initialized \in BOOLEAN /\ threaded \in BOOLEAN /\ kicked \in BOOLEAN
          /\ hasTimedWaiter \in BOOLEAN
      BY <2>b
    <3> QED BY <2>b, <3>2, <3>3, <3>4, <3>5, <3>6 DEF TypeOK
  <2>2. CountInv
    <3>1. Live = {first} /\ Waiters = {first}
      BY <2>a, <2>c DEF Live, Waiters, LivePcs, Pcs
    <3> QED BY <2>b, <2>d, <3>1, FS_Singleton DEF CountInv
  <2>3. LockInv
    BY <2>b, <2>d, GrpcTimerAssumption DEF LockInv, CheckPcs, ScanPcs
  <2>4. ShardInv
    BY <2>b, <2>e DEF ShardInv, Unset
  <2>5. MinInv
    BY <2>b, <2>d, <2>g DEF MinInv, Covers, ScanPcs
  <2>6. SeenInv
    BY <2>b, <2>d DEF SeenInv, CheckPcs, ScanPcs
  <2>7. TimedInv
    BY <2>b DEF TimedInv
  <2>8. WakeInv
    BY <2>a, <2>b, <2>c DEF WakeInv, Fresh, InTime
  <2>9. CalledOnceAndInTime
    BY <2>e DEF CalledOnceAndInTime, Unset
  <2>10. LostInv
    BY <2>b, <2>d, <2>g DEF LostInv
  <2> QED BY <2>1, <2>2, <2>3, <2>4, <2>5, <2>6, <2>7, <2>8, <2>9, <2>10 DEF IInv
<1> QED BY <1>1, TimerStep, PTL DEF Spec

(* Every variable keeps its type: in particular g_thread_count and g_waiter_count stay
   within the number of threads, so that neither goes below zero, and no deadline leaves
   the range of grpc_millis. *)
THEOREM TypeCorrect == Spec => []TypeOK
<1>1. IInv => TypeOK
  BY DEF IInv
<1> QED BY <1>1, Invariance, PTL

(* The closure of a timer is called once, whether it expires, is cancelled or is flushed
   by the shutdown, and an expired one not before its deadline: for any number of timers,
   threads and any deadlines. *)
THEOREM CalledOnce == Spec => []CalledOnceAndInTime
<1>1. IInv => CalledOnceAndInTime
  BY DEF IInv
<1> QED BY <1>1, Invariance, PTL

(* While threads run, they all sleep past a pending timer only after a thread gave up on
   a checker that was between its two unlocks, and no longer than that checker sleeps: for
   any number of timers and threads. *)
THEOREM NoOtherLostWakeup == Spec => []LateOnlyAfterALostWakeup
<1>1. ASSUME IInv
      PROVE  LateOnlyAfterALostWakeup
  <2> SUFFICES ASSUME threaded, Quiet, NEW t \in Timers, Pending(t)
               PROVE  timer[t].dl >= now \/ (now < lost /\ now <= cap)
    BY DEF LateOnlyAfterALostWakeup
  <2>1. /\ now \in Nat /\ minTimer \in Nat /\ minDeadline \in Nat /\ lost \in Nat
        /\ cap \in 0 .. AtmMax /\ timer[t].dl \in Nat
        /\ \A i \in Pool : th[i].until \in Nat
    BY <1>1, GrpcTimerAssumption DEF IInv, TypeOK, TimerType, ThreadType
  <2>2. PICK i \in Pool : Fresh(i)
    BY <1>1 DEF IInv, WakeInv, Quiet, Live, LivePcs
  <2>3. now < minTimer \/ now < lost
    BY <2>1, <2>2 DEF Fresh, InTime, Quiet, ScanPcs
  <2>4. minTimer <= minDeadline /\ Covers(minDeadline)
    BY <1>1 DEF IInv, MinInv, Quiet, ScanPcs
  <2>5. SaturatingAdd(cap, 1) <= cap + 1 /\ SaturatingAdd(cap, 1) \in Nat
    BY <2>1, GrpcTimerAssumption DEF SaturatingAdd
  <2>6. minDeadline <= SaturatingAdd(cap, 1) /\ lost <= SaturatingAdd(cap, 1)
    BY <1>1, <2>4 DEF IInv, LostInv, Covers
  <2>7. now <= cap
    BY <2>1, <2>3, <2>4, <2>5, <2>6
  <2>8. CASE timer[t].at = "heap"
    BY <2>1, <2>3, <2>4, <2>7, <2>8 DEF Covers, Heap, Quiet
  <2>9. CASE timer[t].at = "list"
    <3>1. timer[t].dl >= cap
      BY <1>1, <2>9 DEF IInv, ShardInv
    <3> QED BY <2>1, <2>7, <3>1
  <2> QED BY <2>8, <2>9 DEF Pending
<1> QED BY <1>1, Invariance, PTL
=============================================================================
