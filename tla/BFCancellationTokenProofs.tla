---------------------- MODULE BFCancellationTokenProofs ----------------------
(***************************************************************************)
(* Proofs about BFCancellationToken for any set of threads, registrations  *)
(* and builds.  None of the safety properties is inductive.  IInv adds: who *)
(* owns the token's lock (LockInv); that the list and the copies of it     *)
(* hold no registration twice (ListInv); that one thread at most notifies, *)
(* because the requested flag is set once, and has not yet called what it  *)
(* has still to visit (NotifierInv); and what disposing leaves behind      *)
(* (DisposerInv, RunningIsLive).                                           *)
(***************************************************************************)
EXTENDS BFCancellationToken, SequenceTheorems, TLAPS

(* What Tail leaves of a list without duplicates. *)
LEMMA TailFacts ==
    ASSUME NEW S, NEW s \in Seq(S), s # <<>>
    PROVE  /\ Tail(s) \in Seq(S) /\ Len(Tail(s)) = Len(s) - 1
           /\ Len(s) \in Nat \ {0} /\ Head(s) = s[1] /\ Head(s) \in S
           /\ \A i \in 1..Len(Tail(s)) : Tail(s)[i] = s[i + 1]
           /\ Distinct(s) => Distinct(Tail(s))
<1>1. /\ Tail(s) \in Seq(S) /\ Len(Tail(s)) = Len(s) - 1
      /\ Len(s) \in Nat \ {0} /\ Head(s) = s[1] /\ Head(s) \in S
      /\ \A i \in 1..Len(Tail(s)) : Tail(s)[i] = s[i + 1]
  OBVIOUS
<1> QED BY <1>1 DEF Distinct

(* removeObject: on a list without duplicates. *)
LEMMA RemoveFacts ==
    ASSUME NEW S, NEW s \in Seq(S), NEW e, Distinct(s)
    PROVE  /\ RemoveFirst(s, e) \in Seq(S)
           /\ Distinct(RemoveFirst(s, e))
           /\ \A i \in 1..Len(RemoveFirst(s, e)) :
                 \E j \in 1..Len(s) : RemoveFirst(s, e)[i] = s[j]
<1> DEFINE q == RemoveFirst(s, e)
<1>1. CASE \A i \in 1..Len(s) : s[i] # e
  <2>1. q = s
    BY <1>1 DEF RemoveFirst
  <2> QED BY <2>1
<1>2. CASE \E i \in 1..Len(s) : s[i] = e
  <2>1. PICK k \in 1..Len(s) : s[k] = e
    BY <1>2
  <2>2. {i \in 1..Len(s) : s[i] = e} = {k}
    BY <2>1 DEF Distinct
  <2>3. Min({k}) = k
    BY DEF Min
  <2> DEFINE a == SubSeq(s, 1, k - 1)
             b == SubSeq(s, k + 1, Len(s))
  <2>4. q = a \o b
    BY <1>2, <2>2, <2>3 DEF RemoveFirst, SelectInSeq, RemoveAt
  <2>5. a \in Seq(S) /\ Len(a) = k - 1 /\ \A i \in 1..Len(a) : a[i] = s[i]
    OBVIOUS
  <2>6. b \in Seq(S) /\ Len(b) = Len(s) - k /\ \A i \in 1..Len(b) : b[i] = s[i + k]
    OBVIOUS
  <2> HIDE DEF a, b, q
  <2>7. /\ q \in Seq(S) /\ Len(q) = Len(a) + Len(b)
        /\ \A i \in 1..Len(q) : q[i] = IF i <= Len(a) THEN a[i] ELSE b[i - Len(a)]
    <3>1. /\ a \o b \in Seq(S) /\ Len(a \o b) = Len(a) + Len(b)
          /\ \A i \in 1..(Len(a) + Len(b)) :
                (a \o b)[i] = IF i <= Len(a) THEN a[i] ELSE b[i - Len(a)]
      BY <2>5, <2>6, ConcatProperties, Zenon
    <3> QED BY <2>4, <3>1, Zenon
  <2>8. Len(s) \in Nat
    OBVIOUS
  <2>9. \A i \in 1..Len(q) : q[i] = s[IF i < k THEN i ELSE i + 1]
    <3> TAKE i \in 1..Len(q)
    <3>1. CASE i < k
      BY <2>5, <2>6, <2>7, <2>8, <3>1
    <3>2. CASE i >= k
      <4>1. i - Len(a) \in 1..Len(b) /\ q[i] = b[i - Len(a)]
        BY <2>5, <2>6, <2>7, <2>8, <3>2
      <4> QED BY <4>1, <2>5, <2>6, <3>2
    <3> QED BY <3>1, <3>2
  <2>10. Len(q) = Len(s) - 1
    BY <2>5, <2>6, <2>7, <2>8
  <2>11. \A i \in 1..Len(q) : \E j \in 1..Len(s) : q[i] = s[j]
    <3> TAKE i \in 1..Len(q)
    <3>1. (IF i < k THEN i ELSE i + 1) \in 1..Len(s)
      BY <2>8, <2>10
    <3> QED BY <2>9, <3>1
  <2>12. Distinct(q)
    <3> SUFFICES ASSUME NEW i \in 1..Len(q), NEW j \in 1..Len(q), q[i] = q[j]
                 PROVE  i = j
      BY DEF Distinct
    <3>1. (IF i < k THEN i ELSE i + 1) = (IF j < k THEN j ELSE j + 1)
      BY <2>8, <2>9, <2>10 DEF Distinct
    <3> QED BY <3>1, <2>8, <2>10
  <2> QED BY <2>7, <2>11, <2>12 DEF q
<1> QED BY <1>1, <1>2

(* A step that leaves everything but the timers and the exceptions seen. *)
LEMMA Frame ==
    ASSUME IInv, timers' \subseteq Threads,
           raised' \subseteq {"cancel", "timer", "delay", "unregister", "notify"},
           UNCHANGED <<build, tokLock, requested, tokDisposed, registrations,
                       regVars, ctlVars, notified, quiet, crashed>>
    PROVE  IInv'
<1> USE DEF regVars, ctlVars
<1>1. TypeOK'
  BY DEF IInv, TypeOK
<1>2. LockInv' /\ ListInv' /\ DisposerInv'
  BY DEF IInv, LockInv, ListInv, DisposerInv, Distinct
<1>3. NotifierInv' /\ NotifiedAtMostOnce'
  BY DEF IInv, NotifierInv, NotifiedAtMostOnce, Notifier, InBlock
<1>4. RunningIsLive'
  BY DEF IInv, RunningIsLive, AssertsEnabled, BlocksReenter
<1> QED BY <1>1, <1>2, <1>3, <1>4 DEF IInv

(* An exception takes the thread out of whatever it did. *)
LEMMA UnwindStep ==
    ASSUME IInv, NEW th \in Threads, pc[th] \in {"notify", "unregister"},
           NEW who \in {"unregister", "notify"}, Unwind(th, who),
           UNCHANGED <<build, tokenVars, created, regDisposed, hasBlock, mutated,
                       notified, quiet, crashed>>
    PROVE  IInv'
<1> USE ConstantsAssumption DEF Pcs, DisposePcs, tokenVars
<1>1. /\ pc' = [pc EXCEPT ![th] = "idle"]
      /\ todo' = [todo EXCEPT ![th] = <<>>]
      /\ cur' = [cur EXCEPT ![th] = Nil]
      /\ back' = [back EXCEPT ![th] = "idle"]
      /\ raised' = raised \cup {who}
      /\ regLock' = [r \in Regs |-> IF regLock[r] = th THEN Nil ELSE regLock[r]]
  BY DEF Unwind, Goto
<1>2. TypeOK'
  <2>1. raised' \subseteq {"cancel", "timer", "delay", "unregister", "notify"}
    BY <1>1 DEF IInv, TypeOK
  <2>2. pc' \in [Threads -> Pcs] /\ todo' \in [Threads -> Seq(Regs)]
    BY <1>1 DEF IInv, TypeOK
  <2>3. regLock' \in [Regs -> Threads \cup {Nil}]
    BY <1>1 DEF IInv, TypeOK
  <2>4. cur' \in [Threads -> Regs \cup {Nil}] /\ back' \in [Threads -> {"idle", "in_block"}]
    BY <1>1 DEF IInv, TypeOK
  <2> QED BY <2>1, <2>2, <2>3, <2>4 DEF IInv, TypeOK
<1>3. LockInv'
  BY <1>1 DEF IInv, TypeOK, LockInv
<1>4. ListInv'
  <2>1. Distinct(<<>>) /\ Len(<<>>) = 0
    BY DEF Distinct
  <2>2. \A t \in Threads : todo'[t] = IF t = th THEN <<>> ELSE todo[t]
    BY <1>1 DEF IInv, TypeOK
  <2> QED BY <2>1, <2>2 DEF IInv, ListInv
<1>5. NotifierInv' /\ NotifiedAtMostOnce'
  <2>1. \A t \in Threads : t # th => /\ pc'[t] = pc[t] /\ todo'[t] = todo[t]
                                     /\ back'[t] = back[t]
                                     /\ Notifier(t)' <=> Notifier(t)
                                     /\ InBlock(t)' <=> InBlock(t)
    BY <1>1 DEF IInv, TypeOK, Notifier, InBlock
  <2>2. ~Notifier(th)' /\ ~InBlock(th)' /\ pc'[th] = "idle"
    BY <1>1 DEF IInv, TypeOK, Notifier, InBlock
  <2>3. \A t \in Threads : t # th /\ (pc[t] = "calling" \/ InBlock(t)) =>
           regLock'[Head(todo[t])] = t
    <3> SUFFICES ASSUME NEW t \in Threads, t # th, pc[t] = "calling" \/ InBlock(t)
                 PROVE  regLock'[Head(todo[t])] = t
      OBVIOUS
    <3>1. todo[t] \in Seq(Regs) /\ todo[t] # <<>> /\ regLock[Head(todo[t])] = t
      BY DEF IInv, TypeOK, NotifierInv
    <3>2. Head(todo[t]) \in Regs
      BY <3>1
    <3> QED BY <1>1, <3>1, <3>2
  <2> QED BY <2>1, <2>2, <2>3 DEF IInv, NotifierInv, NotifiedAtMostOnce
<1>6. DisposerInv'
  BY <1>1 DEF IInv, TypeOK, DisposerInv
<1>7. RunningIsLive'
  BY <1>1 DEF IInv, TypeOK, RunningIsLive, AssertsEnabled, BlocksReenter
<1> QED BY <1>2, <1>3, <1>4, <1>5, <1>6, <1>7 DEF IInv

(* The end of the process leaves everything as it is. *)
LEMMA CrashStep ==
    ASSUME IInv, crashed' = TRUE,
           UNCHANGED <<build, tokenVars, regVars, ctlVars, notified, quiet, raised>>
    PROVE  IInv'
<1> USE DEF tokenVars, regVars, ctlVars
<1>1. TypeOK'
  BY DEF IInv, TypeOK
<1>2. LockInv' /\ ListInv' /\ DisposerInv'
  BY DEF IInv, LockInv, ListInv, DisposerInv, Distinct
<1>3. NotifierInv' /\ NotifiedAtMostOnce'
  BY DEF IInv, NotifierInv, NotifiedAtMostOnce, Notifier, InBlock
<1>4. RunningIsLive'
  BY DEF IInv, RunningIsLive, AssertsEnabled, BlocksReenter
<1> QED BY <1>1, <1>2, <1>3, <1>4 DEF IInv

(* cancel, by a caller or by a run loop's timer. *)
LEMMA CancelStep ==
    ASSUME IInv, NEW th \in Threads, pc[th] = "idle",
           NEW who \in {"cancel", "timer"}, CancelLocked(th, who), UNCHANGED build
    PROVE  IInv'
<1> USE ConstantsAssumption DEF Pcs, DisposePcs
<1>1. CASE tokDisposed \/ requested
  <2>1. timers' \subseteq Threads
    BY <1>1 DEF CancelLocked, IInv, TypeOK
  <2>2. raised' \subseteq raised \cup {who}
    BY <1>1 DEF CancelLocked
  <2>3. raised' \subseteq {"cancel", "timer", "delay", "unregister", "notify"}
    BY <2>2 DEF IInv, TypeOK
  <2>4. UNCHANGED <<tokLock, requested, tokDisposed, registrations, regVars,
                    ctlVars, notified, quiet, crashed>>
    BY <1>1 DEF CancelLocked, ctlVars
  <2> QED BY <2>1, <2>3, <2>4, Frame
<1>2. CASE ~tokDisposed /\ ~requested
  <2> USE DEF regVars
  <2>1. /\ requested' = TRUE /\ timers' = timers \ {th}
        /\ todo' = [todo EXCEPT ![th] = registrations]
        /\ pc' = [pc EXCEPT ![th] = "notify"]
        /\ UNCHANGED <<tokLock, tokDisposed, registrations, regVars, cur, back,
                       mutated, notified, quiet, crashed, raised>>
    BY <1>2 DEF CancelLocked, Goto
  <2>2. TypeOK'
    BY <2>1 DEF IInv, TypeOK
  <2>3. LockInv'
    BY <2>1 DEF IInv, TypeOK, LockInv
  <2>4. \A t \in Threads : todo'[t] = IF t = th THEN registrations ELSE todo[t]
    BY <2>1 DEF IInv, TypeOK
  <2>5. ListInv'
    BY <2>1, <2>4 DEF IInv, ListInv
  <2>6. \A t \in Threads : ~Notifier(t) /\ ~InBlock(t)
    BY <1>2 DEF IInv, NotifierInv, Notifier
  <2>7. \A r \in Regs : notified[r] = 0
    BY <1>2 DEF IInv, TypeOK, NotifiedAtMostOnce
  <2>8. \A t \in Threads : /\ ~InBlock(t)'
                           /\ pc'[t] \in {"notify", "calling"} => t = th
                           /\ Notifier(t)' => t = th
    BY <2>1, <2>6 DEF IInv, TypeOK, Notifier, InBlock
  <2>9. \A i \in 1..Len(registrations) : notified[registrations[i]] = 0
    BY <2>7 DEF IInv, TypeOK
  <2>10. NotifierInv' /\ NotifiedAtMostOnce'
    BY <2>1, <2>4, <2>7, <2>8, <2>9 DEF NotifierInv, NotifiedAtMostOnce
  <2>11. DisposerInv'
    BY <2>1 DEF IInv, TypeOK, DisposerInv
  <2>12. RunningIsLive'
    BY <2>1, <2>8
       DEF IInv, RunningIsLive, InBlock, AssertsEnabled, BlocksReenter
  <2> QED BY <2>2, <2>3, <2>5, <2>10, <2>11, <2>12 DEF IInv
<1> QED BY <1>1, <1>2

(* unregisterRegistration: leaves a list of handed-out registrations. *)
LEMMA ListShrinks ==
    ASSUME IInv, NEW r, registrations' = RemoveFirst(registrations, r)
    PROVE  /\ registrations' \in Seq(Regs) /\ Distinct(registrations')
           /\ \A i \in 1..Len(registrations') : registrations'[i] \in created
<1>1. registrations \in Seq(Regs) /\ Distinct(registrations)
  BY DEF IInv, TypeOK, ListInv
<1>2. \A i \in 1..Len(registrations) : registrations[i] \in created
  BY DEF IInv, ListInv
<1> QED BY <1>1, <1>2, RemoveFacts

(* Every step keeps IInv: one step per action, one sub-step per conjunct. *)
LEMMA Step == IInv /\ [Next]_vars => IInv'
<1> USE ConstantsAssumption DEF Pcs, DisposePcs
<1>1. ASSUME IInv, NEW th \in Threads, Cancel(th), UNCHANGED build
      PROVE  IInv'
  BY <1>1, CancelStep DEF Cancel
<1>2. ASSUME IInv, NEW th \in Threads, TimerFires(th), UNCHANGED build
      PROVE  IInv'
  BY <1>2, CancelStep DEF TimerFires
<1>3. ASSUME IInv, NEW th \in Threads, NEW millis \in {-1, 1},
             CancelAfterDelay(th, millis), UNCHANGED build
      PROVE  IInv'
  <2>1. timers' \subseteq Threads
    BY <1>3 DEF CancelAfterDelay, IInv, TypeOK
  <2>2. raised' \subseteq raised \cup {"delay"}
    BY <1>3 DEF CancelAfterDelay
  <2>3. raised' \subseteq {"cancel", "timer", "delay", "unregister", "notify"}
    BY <1>3, <2>2 DEF IInv, TypeOK
  <2> QED BY <1>3, <2>1, <2>3, Frame DEF CancelAfterDelay
<1>4. ASSUME IInv, NEW th \in Threads, NEW r \in Regs, Register(th, r), UNCHANGED build
      PROVE  IInv'
  <2>1. TypeOK'
    BY <1>4
       DEF IInv, TypeOK, DisposerInv, NotifierInv, InBlock, Register, TokFree,
           ctlVars, obsVars
  <2>2. LockInv'
    BY <1>4 DEF IInv, TypeOK, LockInv, Register, TokFree, ctlVars, obsVars
  <2>3. ListInv'
    <3>1. CASE tokDisposed
      BY <1>4, <3>1 DEF IInv, ListInv, Register, ctlVars
    <3>2. CASE ~tokDisposed
      <4>1. registrations \in Seq(Regs) /\ Len(registrations) \in Nat
        BY <1>4 DEF IInv, TypeOK
      <4>2. registrations' = Append(registrations, r)
        BY <1>4, <3>2 DEF Register
      <4>3. /\ Len(registrations') = Len(registrations) + 1
            /\ registrations'[Len(registrations) + 1] = r
            /\ \A i \in 1..Len(registrations) : registrations'[i] = registrations[i]
        BY <4>1, <4>2
      <4>4. \A i \in 1..Len(registrations) : registrations[i] # r
        BY <1>4 DEF IInv, ListInv, Register
      <4>5. Distinct(registrations')
        BY <1>4, <4>1, <4>3, <4>4 DEF IInv, ListInv, Distinct
      <4>6. \A i \in 1..Len(registrations') : registrations'[i] \in created'
        BY <1>4, <4>1, <4>3 DEF IInv, ListInv, Register
      <4> QED BY <1>4, <4>5, <4>6 DEF IInv, ListInv, Register, ctlVars
    <3> QED BY <3>1, <3>2
  <2>4. NotifierInv' /\ NotifiedAtMostOnce'
    BY <1>4
       DEF IInv, TypeOK, ListInv, NotifierInv, NotifiedAtMostOnce, Notifier,
           InBlock, Register, TokFree, ctlVars, obsVars
  <2>5. DisposerInv'
    BY <1>4
       DEF IInv, TypeOK, ListInv, DisposerInv, Register, TokFree, ctlVars,
           obsVars
  <2>6. RunningIsLive'
    BY <1>4
       DEF IInv, TypeOK, RunningIsLive, NotifierInv, InBlock, AssertsEnabled,
           BlocksReenter, Register, TokFree, ctlVars, obsVars
  <2> QED BY <2>1, <2>2, <2>3, <2>4, <2>5, <2>6 DEF IInv
<1>5. ASSUME IInv, NEW th \in Threads, NEW r \in Regs, RegDispose(th, r), UNCHANGED build
      PROVE  IInv'
  <2> USE DEF tokenVars
  <2>1. CASE regDisposed[r]
    <3>1. /\ quiet' = quiet \cup {r} /\ r \in created
          /\ UNCHANGED <<tokenVars, regLock, created, regDisposed, hasBlock, pc, todo,
                         cur, back, mutated, notified, raised, crashed>>
      BY <1>5, <2>1 DEF RegDispose
    <3>2. TypeOK' /\ DisposerInv'
      BY <1>5, <2>1, <3>1 DEF IInv, TypeOK, DisposerInv
    <3>3. LockInv' /\ ListInv'
      BY <1>5, <3>1 DEF IInv, LockInv, ListInv, Distinct
    <3>4. NotifierInv' /\ NotifiedAtMostOnce'
      BY <1>5, <3>1 DEF IInv, NotifierInv, NotifiedAtMostOnce, Notifier, InBlock
    <3>5. RunningIsLive'
      BY <1>5, <3>1 DEF IInv, RunningIsLive, AssertsEnabled, BlocksReenter
    <3> QED BY <3>2, <3>3, <3>4, <3>5 DEF IInv
  <2>2. CASE ~regDisposed[r]
    <3>1. /\ pc[th] \in {"idle", "in_block"} /\ r \in created /\ regLock[r] \in {Nil, th}
          /\ pc[th] = "in_block" => BlocksReenter
          /\ regDisposed' = [regDisposed EXCEPT ![r] = TRUE]
          /\ cur' = [cur EXCEPT ![th] = r]
          /\ back' = [back EXCEPT ![th] = pc[th]]
          /\ pc' = [pc EXCEPT ![th] = "unregister"]
          /\ UNCHANGED <<tokenVars, regLock, created, hasBlock, todo, mutated, quiet,
                         notified, raised, crashed>>
      BY <1>5, <2>2 DEF RegDispose, RegFree, Goto
    <3>2. TypeOK'
      BY <1>5, <3>1 DEF IInv, TypeOK
    <3>3. LockInv'
      BY <1>5, <3>1 DEF IInv, TypeOK, LockInv
    <3>4. ListInv'
      BY <1>5, <3>1 DEF IInv, ListInv
    <3>5. NotifierInv' /\ NotifiedAtMostOnce'
      <4>1. \A t \in Threads : /\ Notifier(t)' <=> Notifier(t)
                               /\ InBlock(t)' <=> InBlock(t)
                               /\ pc'[t] \in {"notify", "calling"} => pc'[t] = pc[t]
        BY <1>5, <3>1 DEF IInv, TypeOK, Notifier, InBlock
      <4> QED BY <1>5, <3>1, <4>1 DEF IInv, NotifierInv, NotifiedAtMostOnce
    <3>6. DisposerInv'
      BY <1>5, <3>1 DEF IInv, TypeOK, DisposerInv
    <3>7. RunningIsLive'
      <4> SUFFICES ASSUME AssertsEnabled, NEW t \in Threads
                   PROVE  /\ pc'[t] = "calling" => ~regDisposed'[Head(todo[t])]
                          /\ ~BlocksReenter =>
                                /\ pc'[t] = "in_block" => ~regDisposed'[Head(todo[t])]
                                /\ back'[t] = "idle"
        BY <1>5, <3>1 DEF RunningIsLive, AssertsEnabled, BlocksReenter
      <4>1. pc'[t] \in {"calling", "in_block"} =>
               /\ pc'[t] = pc[t] /\ t # th /\ regLock[Head(todo[t])] = t
               /\ todo[t] \in Seq(Regs) /\ todo[t] # <<>>
        BY <1>5, <3>1 DEF IInv, TypeOK, NotifierInv, InBlock
      <4>2. pc'[t] \in {"calling", "in_block"} => Head(todo[t]) \in Regs /\ Head(todo[t]) # r
        BY <3>1, <4>1
      <4> QED BY <1>5, <3>1, <4>1, <4>2 DEF IInv, TypeOK, RunningIsLive
    <3> QED BY <3>2, <3>3, <3>4, <3>5, <3>6, <3>7 DEF IInv
  <2> QED BY <2>1, <2>2
<1>6. ASSUME IInv, NEW th \in Threads, Dispose(th), UNCHANGED build
      PROVE  IInv'
  <2>1. TypeOK'
    BY <1>6
       DEF IInv, TypeOK, DisposerInv, NotifierInv, InBlock, Dispose, TokFree,
           Goto, regVars, obsVars
  <2>2. LockInv'
    BY <1>6 DEF IInv, TypeOK, LockInv, Dispose, TokFree, Goto, regVars, obsVars
  <2>3. ListInv'
    BY <1>6 DEF IInv, TypeOK, ListInv, Dispose, TokFree, Goto, regVars, obsVars
  <2>4. NotifierInv' /\ NotifiedAtMostOnce'
    BY <1>6
       DEF IInv, TypeOK, ListInv, NotifierInv, NotifiedAtMostOnce, Notifier,
           InBlock, Dispose, TokFree, Goto, regVars, obsVars
  <2>5. DisposerInv'
    BY <1>6
       DEF IInv, TypeOK, ListInv, DisposerInv, Dispose, TokFree, Goto, regVars,
           obsVars
  <2>6. RunningIsLive'
    BY <1>6
       DEF IInv, TypeOK, RunningIsLive, NotifierInv, InBlock, AssertsEnabled,
           BlocksReenter, Dispose, TokFree, Goto, regVars, obsVars
  <2> QED BY <2>1, <2>2, <2>3, <2>4, <2>5, <2>6 DEF IInv
<1>7. ASSUME IInv, NEW th \in Threads, NotifyDelegate(th), UNCHANGED build
      PROVE  IInv'
  <2> DEFINE r == Head(todo[th])
  <2> USE DEF tokenVars
  <2>1. /\ pc[th] = "notify" /\ todo[th] # <<>> /\ todo[th] \in Seq(Regs)
        /\ UNCHANGED <<tokenVars, created, regDisposed, hasBlock, mutated, notified,
                       quiet>>
    BY <1>7 DEF NotifyDelegate, IInv, TypeOK
  <2>2. r \in Regs
    BY <2>1
  <2> HIDE DEF r
  <2>3. CASE Unwind(th, "notify") /\ UNCHANGED crashed
    BY <1>7, <2>1, <2>3, UnwindStep
  <2>4. CASE /\ crashed' = TRUE
             /\ UNCHANGED <<regLock, raised, pc, todo, cur, back>>
    BY <1>7, <2>1, <2>4, CrashStep DEF regVars, ctlVars
  <2>5. CASE /\ ~(regDisposed[r] /\ AssertsEnabled)
             /\ regLock[r] \in {Nil, th}
             /\ regLock' = [regLock EXCEPT ![r] = th]
             /\ pc' = [pc EXCEPT ![th] = "calling"]
             /\ UNCHANGED <<raised, crashed, todo, cur, back>>
    <3>1. TypeOK'
      BY <1>7, <2>1, <2>2, <2>5 DEF IInv, TypeOK
    <3>2. LockInv'
      BY <1>7, <2>1, <2>5 DEF IInv, TypeOK, LockInv
    <3>3. ListInv'
      BY <1>7, <2>1, <2>5 DEF IInv, ListInv
    <3>4. NotifierInv' /\ NotifiedAtMostOnce'
      <4>1. \A t \in Threads : /\ Notifier(t) => t = th
                               /\ Notifier(t)' => t = th
                               /\ ~InBlock(t)'
        BY <1>7, <2>1, <2>5 DEF IInv, TypeOK, NotifierInv, Notifier, InBlock
      <4>2. /\ requested
            /\ \A i \in 1..Len(todo[th]) : notified[todo[th][i]] = 0
        BY <1>7, <2>1 DEF IInv, NotifierInv, Notifier
      <4>3. \A t \in Threads : pc'[t] \in {"notify", "calling"} => t = th
        BY <4>1 DEF Notifier
      <4>4. todo'[th] # <<>> /\ regLock'[Head(todo'[th])] = th
        BY <1>7, <2>1, <2>2, <2>5 DEF IInv, TypeOK, r
      <4> QED BY <1>7, <2>1, <2>5, <4>1, <4>2, <4>3, <4>4
              DEF IInv, NotifierInv, NotifiedAtMostOnce
    <3>5. DisposerInv'
      BY <1>7, <2>1, <2>5 DEF IInv, TypeOK, DisposerInv
    <3>6. RunningIsLive'
      BY <1>7, <2>1, <2>5
         DEF IInv, TypeOK, RunningIsLive, AssertsEnabled, BlocksReenter, r
    <3> QED BY <3>1, <3>2, <3>3, <3>4, <3>5, <3>6 DEF IInv
  <2> QED BY <1>7, <2>3, <2>4, <2>5 DEF NotifyDelegate, RegFree, Goto, r
<1>8. ASSUME IInv, NEW th \in Threads, BlockReturns(th), UNCHANGED build
      PROVE  IInv'
  <2>1. TypeOK'
    BY <1>8
       DEF IInv, TypeOK, DisposerInv, NotifierInv, InBlock, BlockReturns, Goto,
           tokenVars, obsVars
  <2>2. LockInv'
    BY <1>8 DEF IInv, TypeOK, LockInv, BlockReturns, Goto, tokenVars, obsVars
  <2>3. ListInv'
    <3>1. todo[th] \in Seq(Regs) /\ todo[th] # <<>>
      BY <1>8 DEF IInv, TypeOK, NotifierInv, InBlock, BlockReturns
    <3>2. \A t \in Threads : todo'[t] = IF t = th THEN Tail(todo[t]) ELSE todo[t]
      BY <1>8 DEF IInv, TypeOK, BlockReturns
    <3>3. /\ Distinct(Tail(todo[th]))
          /\ \A i \in 1..Len(Tail(todo[th])) : Tail(todo[th])[i] \in created
      BY <1>8, <3>1, TailFacts DEF IInv, ListInv
    <3> QED BY <1>8, <3>2, <3>3 DEF IInv, ListInv, BlockReturns, tokenVars
  <2>4. NotifierInv' /\ NotifiedAtMostOnce'
    BY <1>8
       DEF IInv, TypeOK, ListInv, NotifierInv, NotifiedAtMostOnce, Notifier,
           InBlock, BlockReturns, Goto, tokenVars, obsVars
  <2>5. DisposerInv'
    BY <1>8
       DEF IInv, TypeOK, ListInv, DisposerInv, BlockReturns, Goto, tokenVars,
           obsVars
  <2>6. RunningIsLive'
    BY <1>8
       DEF IInv, TypeOK, RunningIsLive, NotifierInv, InBlock, AssertsEnabled,
           BlocksReenter, BlockReturns, Goto, tokenVars, obsVars
  <2> QED BY <2>1, <2>2, <2>3, <2>4, <2>5, <2>6 DEF IInv
<1>9. ASSUME IInv, NEW th \in Threads, CancelReturns(th), UNCHANGED build
      PROVE  IInv'
  <2>1. TypeOK'
    BY <1>9
       DEF IInv, TypeOK, DisposerInv, NotifierInv, InBlock, CancelReturns, Goto,
           tokenVars, regVars, obsVars
  <2>2. LockInv'
    BY <1>9
       DEF IInv, TypeOK, LockInv, CancelReturns, Goto, tokenVars, regVars,
           obsVars
  <2>3. ListInv'
    BY <1>9
       DEF IInv, TypeOK, ListInv, CancelReturns, Goto, tokenVars, regVars,
           obsVars
  <2>4. NotifierInv' /\ NotifiedAtMostOnce'
    BY <1>9
       DEF IInv, TypeOK, ListInv, NotifierInv, NotifiedAtMostOnce, Notifier,
           InBlock, CancelReturns, Goto, tokenVars, regVars, obsVars
  <2>5. DisposerInv'
    BY <1>9
       DEF IInv, TypeOK, ListInv, DisposerInv, CancelReturns, Goto, tokenVars,
           regVars, obsVars
  <2>6. RunningIsLive'
    BY <1>9
       DEF IInv, TypeOK, RunningIsLive, NotifierInv, InBlock, AssertsEnabled,
           BlocksReenter, CancelReturns, Goto, tokenVars, regVars, obsVars
  <2> QED BY <2>1, <2>2, <2>3, <2>4, <2>5, <2>6 DEF IInv
<1>10. ASSUME IInv, NEW th \in Threads, Unregister(th), UNCHANGED build
      PROVE  IInv'
  <2>1. CASE tokDisposed
    <3>1. /\ Unwind(th, "unregister") /\ pc[th] = "unregister"
          /\ UNCHANGED <<tokenVars, created, regDisposed, hasBlock, mutated,
                         notified, quiet, crashed>>
      BY <1>10, <2>1 DEF Unregister, tokenVars
    <3> QED BY <1>10, <3>1, UnwindStep
  <2>2. CASE ~tokDisposed
    <3>1. /\ pc[th] = "unregister" /\ pc' = [pc EXCEPT ![th] = "clear"]
          /\ registrations' = RemoveFirst(registrations, cur[th])
          /\ UNCHANGED <<tokLock, requested, tokDisposed, timers, created,
                         regDisposed, hasBlock, mutated, notified, quiet, crashed,
                         raised, todo, cur, back, regLock>>
      BY <1>10, <2>2 DEF Unregister, Goto
    <3>2. /\ registrations' \in Seq(Regs) /\ Distinct(registrations')
          /\ \A i \in 1..Len(registrations') : registrations'[i] \in created
      BY <1>10, <3>1, ListShrinks
    <3>3. TypeOK'
      BY <1>10, <3>1, <3>2 DEF IInv, TypeOK
    <3>4. LockInv'
      BY <1>10, <3>1 DEF IInv, TypeOK, LockInv
    <3>5. ListInv'
      BY <1>10, <3>1, <3>2 DEF IInv, ListInv
    <3>6. NotifierInv' /\ NotifiedAtMostOnce'
      <4>1. \A t \in Threads : /\ Notifier(t)' <=> Notifier(t)
                               /\ InBlock(t)' <=> InBlock(t)
                               /\ pc'[t] \in {"notify", "calling"} => pc'[t] = pc[t]
        BY <1>10, <3>1 DEF IInv, TypeOK, Notifier, InBlock
      <4> QED BY <1>10, <3>1, <4>1 DEF IInv, NotifierInv, NotifiedAtMostOnce
    <3>7. DisposerInv'
      BY <1>10, <3>1 DEF IInv, TypeOK, DisposerInv
    <3>8. RunningIsLive'
      BY <1>10, <3>1 DEF IInv, TypeOK, RunningIsLive, AssertsEnabled, BlocksReenter
    <3> QED BY <3>3, <3>4, <3>5, <3>6, <3>7, <3>8 DEF IInv
  <2> QED BY <2>1, <2>2
<1>11. ASSUME IInv, NEW th \in Threads, ClearBlock(th), UNCHANGED build
      PROVE  IInv'
  <2>1. TypeOK'
    BY <1>11
       DEF IInv, TypeOK, DisposerInv, NotifierInv, InBlock, ClearBlock, Goto,
           tokenVars
  <2>2. LockInv'
    BY <1>11 DEF IInv, TypeOK, LockInv, ClearBlock, Goto, tokenVars
  <2>3. ListInv'
    BY <1>11 DEF IInv, TypeOK, ListInv, ClearBlock, Goto, tokenVars
  <2>4. NotifierInv' /\ NotifiedAtMostOnce'
    BY <1>11
       DEF IInv, TypeOK, ListInv, NotifierInv, NotifiedAtMostOnce, Notifier,
           InBlock, ClearBlock, Goto, tokenVars
  <2>5. DisposerInv'
    <3>1. cur[th] \in created /\ cur[th] \in Regs /\ regDisposed[cur[th]]
      BY <1>11 DEF IInv, TypeOK, DisposerInv, ClearBlock
    <3>3. \A t \in Threads : t # th => pc'[t] = pc[t] /\ cur'[t] = cur[t]
      BY <1>11 DEF IInv, TypeOK, ClearBlock, Goto
    <3>4. pc'[th] \in {"idle", "in_block"}
      BY <1>11 DEF IInv, TypeOK, ClearBlock, Goto
    <3> QED BY <1>11, <3>1, <3>3, <3>4 DEF IInv, DisposerInv, ClearBlock
  <2>6. RunningIsLive'
    BY <1>11
       DEF IInv, TypeOK, RunningIsLive, NotifierInv, InBlock, AssertsEnabled,
           BlocksReenter, ClearBlock, Goto, tokenVars
  <2> QED BY <2>1, <2>2, <2>3, <2>4, <2>5, <2>6 DEF IInv
<1>12. ASSUME IInv, NEW th \in Threads, DisposeNext(th), UNCHANGED build
      PROVE  IInv'
  <2> DEFINE r == Head(todo[th])
  <2> USE DEF tokenVars
  <2>1. /\ pc[th] = "dispose_loop" /\ todo[th] # <<>> /\ todo[th] \in Seq(Regs)
        /\ todo' = [todo EXCEPT ![th] = Tail(@)]
        /\ UNCHANGED <<tokenVars, regLock, created, hasBlock, back, mutated, notified,
                       raised, crashed>>
    BY <1>12 DEF DisposeNext, IInv, TypeOK
  <2>2. /\ r = todo[th][1] /\ r \in Regs /\ r \in created
        /\ Tail(todo[th]) \in Seq(Regs) /\ Distinct(Tail(todo[th]))
        /\ \A i \in 1..Len(Tail(todo[th])) : Tail(todo[th])[i] \in created
    BY <1>12, <2>1, TailFacts DEF IInv, ListInv
  <2> HIDE DEF r
  <2>3. \/ /\ regDisposed[r] /\ quiet' = quiet \cup {r}
           /\ UNCHANGED <<regDisposed, cur, pc>>
        \/ /\ UNCHANGED quiet /\ ~regDisposed[r] /\ regLock[r] \in {Nil, th}
           /\ regDisposed' = [regDisposed EXCEPT ![r] = TRUE]
           /\ cur' = [cur EXCEPT ![th] = r]
           /\ pc' = [pc EXCEPT ![th] = "dispose_unregister"]
    BY <1>12 DEF DisposeNext, RegFree, Goto, r
  <2>4. \A t \in Threads : todo'[t] = IF t = th THEN Tail(todo[t]) ELSE todo[t]
    BY <1>12, <2>1 DEF IInv, TypeOK
  <2>5. /\ \A t \in Threads : t # th => pc'[t] = pc[t] /\ cur'[t] = cur[t]
        /\ pc'[th] \in {"dispose_loop", "dispose_unregister"}
        /\ pc'[th] = "dispose_unregister" => cur'[th] = r /\ regDisposed'[r]
        /\ \A q \in Regs : regDisposed[q] => regDisposed'[q]
    BY <1>12, <2>1, <2>2, <2>3 DEF IInv, TypeOK
  <2>6. TypeOK'
    <3>1. /\ todo' \in [Threads -> Seq(Regs)]
          /\ pc' \in [Threads -> Pcs]
      BY <1>12, <2>1, <2>2, <2>3 DEF IInv, TypeOK
    <3>2. /\ regDisposed' \in [Regs -> BOOLEAN]
          /\ cur' \in [Threads -> Regs \cup {Nil}]
      BY <1>12, <2>2, <2>3 DEF IInv, TypeOK
    <3>3. quiet' \subseteq Regs
      BY <1>12, <2>2, <2>3 DEF IInv, TypeOK
    <3> QED BY <1>12, <2>1, <3>1, <3>2, <3>3 DEF IInv, TypeOK
  <2>7. LockInv'
    BY <1>12, <2>1, <2>5 DEF IInv, LockInv
  <2>8. ListInv'
    BY <1>12, <2>1, <2>2, <2>4 DEF IInv, ListInv
  <2>9. \A t \in Threads : /\ ~Notifier(th) /\ ~InBlock(th)
                           /\ Notifier(t)' <=> Notifier(t)
                           /\ InBlock(t)' <=> InBlock(t)
    BY <2>1, <2>5 DEF Notifier, InBlock
  <2>10. NotifierInv' /\ NotifiedAtMostOnce'
    BY <1>12, <2>1, <2>4, <2>5, <2>9 DEF IInv, NotifierInv, NotifiedAtMostOnce
  <2>11. DisposerInv'
    <3>1. \A t \in Threads : t # th /\ pc'[t] = pc[t] /\ cur[t] \in created /\ regDisposed[cur[t]]
               => cur'[t] \in created' /\ regDisposed'[cur'[t]]
      BY <1>12, <2>1, <2>5 DEF IInv, TypeOK
    <3>2. \A q \in quiet' : q \in created' /\ regDisposed'[q]
      BY <1>12, <2>1, <2>2, <2>3, <2>5 DEF IInv, TypeOK, DisposerInv
    <3> QED BY <1>12, <2>1, <2>2, <2>5, <3>1, <3>2 DEF IInv, DisposerInv
  <2>12. RunningIsLive'
    <3> SUFFICES ASSUME AssertsEnabled, NEW t \in Threads,
                        pc'[t] \in {"calling", "in_block"},
                        pc'[t] = "in_block" => ~BlocksReenter
                 PROVE  ~regDisposed'[Head(todo'[t])]
      BY <1>12, <2>1 DEF IInv, RunningIsLive, AssertsEnabled, BlocksReenter
    <3>1. /\ t # th /\ pc[t] = pc'[t] /\ todo'[t] = todo[t]
          /\ ~regDisposed[Head(todo[t])]
      BY <1>12, <2>4, <2>5 DEF IInv, RunningIsLive
    <3>2. /\ regLock[Head(todo[t])] = t
          /\ todo[t] \in Seq(Regs) /\ todo[t] # <<>>
      BY <1>12, <3>1 DEF IInv, TypeOK, NotifierInv, InBlock
    <3>3. Head(todo[t]) \in Regs
      BY <3>2
    <3>4. regDisposed' = regDisposed \/ Head(todo[t]) # r
      BY <2>3, <3>1, <3>2
    <3> QED BY <1>12, <2>3, <3>1, <3>3, <3>4 DEF IInv, TypeOK
  <2> QED BY <2>6, <2>7, <2>8, <2>10, <2>11, <2>12 DEF IInv
<1>13. ASSUME IInv, NEW th \in Threads, DisposeUnregister(th), UNCHANGED build
      PROVE  IInv'
  <2>0. /\ registrations' \in Seq(Regs) /\ Distinct(registrations')
        /\ \A i \in 1..Len(registrations') : registrations'[i] \in created
    BY <1>13, ListShrinks DEF DisposeUnregister
  <2>1. TypeOK'
    BY <1>13, <2>0 DEF IInv, TypeOK, DisposeUnregister, Goto, obsVars
  <2>2. LockInv'
    BY <1>13 DEF IInv, TypeOK, LockInv, DisposeUnregister, Goto, obsVars
  <2>3. ListInv'
    BY <1>13, <2>0 DEF IInv, ListInv, DisposeUnregister
  <2>4. NotifierInv' /\ NotifiedAtMostOnce'
    BY <1>13
       DEF IInv, TypeOK, ListInv, NotifierInv, NotifiedAtMostOnce, Notifier,
           InBlock, DisposeUnregister, Goto, obsVars
  <2>5. DisposerInv'
    BY <1>13 DEF IInv, TypeOK, ListInv, DisposerInv, DisposeUnregister, Goto, obsVars
  <2>6. RunningIsLive'
    BY <1>13
       DEF IInv, TypeOK, RunningIsLive, NotifierInv, InBlock, AssertsEnabled,
           BlocksReenter, DisposeUnregister, Goto, obsVars
  <2> QED BY <2>1, <2>2, <2>3, <2>4, <2>5, <2>6 DEF IInv
<1>14. ASSUME IInv, NEW th \in Threads, DisposeClear(th), UNCHANGED build
      PROVE  IInv'
  <2>1. TypeOK'
    BY <1>14
       DEF IInv, TypeOK, DisposerInv, NotifierInv, InBlock, DisposeClear, Goto,
           tokenVars
  <2>2. LockInv'
    BY <1>14 DEF IInv, TypeOK, LockInv, DisposeClear, Goto, tokenVars
  <2>3. ListInv'
    BY <1>14 DEF IInv, TypeOK, ListInv, DisposeClear, Goto, tokenVars
  <2>4. NotifierInv' /\ NotifiedAtMostOnce'
    BY <1>14
       DEF IInv, TypeOK, ListInv, NotifierInv, NotifiedAtMostOnce, Notifier,
           InBlock, DisposeClear, Goto, tokenVars
  <2>5. DisposerInv'
    BY <1>14 DEF IInv, TypeOK, ListInv, DisposerInv, DisposeClear, Goto, tokenVars
  <2>6. RunningIsLive'
    BY <1>14
       DEF IInv, TypeOK, RunningIsLive, NotifierInv, InBlock, AssertsEnabled,
           BlocksReenter, DisposeClear, Goto, tokenVars
  <2> QED BY <2>1, <2>2, <2>3, <2>4, <2>5, <2>6 DEF IInv
<1>15. ASSUME IInv, NEW th \in Threads, DisposeSkips(th), UNCHANGED build
      PROVE  IInv'
  <2>1. TypeOK'
    BY <1>15
       DEF IInv, TypeOK, DisposerInv, NotifierInv, InBlock, DisposeSkips,
           tokenVars, regVars, obsVars
  <2>2. LockInv'
    BY <1>15 DEF IInv, TypeOK, LockInv, DisposeSkips, tokenVars, regVars, obsVars
  <2>3. ListInv'
    <3>1. todo[th] \in Seq(Regs) /\ todo[th] # <<>>
      BY <1>15 DEF IInv, TypeOK, DisposeSkips
    <3>2. \A t \in Threads : todo'[t] = IF t = th THEN Tail(todo[t]) ELSE todo[t]
      BY <1>15 DEF IInv, TypeOK, DisposeSkips
    <3>3. /\ Distinct(Tail(todo[th]))
          /\ \A i \in 1..Len(Tail(todo[th])) : Tail(todo[th])[i] \in created
      BY <1>15, <3>1, TailFacts DEF IInv, ListInv
    <3> QED BY <1>15, <3>2, <3>3 DEF IInv, ListInv, DisposeSkips, tokenVars, regVars
  <2>4. NotifierInv' /\ NotifiedAtMostOnce'
    BY <1>15
       DEF IInv, TypeOK, ListInv, NotifierInv, NotifiedAtMostOnce, Notifier,
           InBlock, DisposeSkips, tokenVars, regVars, obsVars
  <2>5. DisposerInv'
    BY <1>15
       DEF IInv, TypeOK, ListInv, DisposerInv, DisposeSkips, tokenVars, regVars,
           obsVars
  <2>6. RunningIsLive'
    BY <1>15
       DEF IInv, TypeOK, RunningIsLive, NotifierInv, InBlock, AssertsEnabled,
           BlocksReenter, DisposeSkips, tokenVars, regVars, obsVars
  <2> QED BY <2>1, <2>2, <2>3, <2>4, <2>5, <2>6 DEF IInv
<1>16. ASSUME IInv, NEW th \in Threads, DisposeReturns(th), UNCHANGED build
      PROVE  IInv'
  <2>1. TypeOK'
    <3>1. <<>> \in Seq(Regs)
      OBVIOUS
    <3> QED BY <1>16, <3>1 DEF IInv, TypeOK, DisposeReturns, Goto, regVars, obsVars
  <2>2. LockInv'
    BY <1>16 DEF IInv, TypeOK, LockInv, DisposeReturns, Goto, regVars, obsVars
  <2>3. ListInv'
    BY <1>16 DEF IInv, TypeOK, ListInv, DisposeReturns, Goto, regVars, obsVars
  <2>4. NotifierInv' /\ NotifiedAtMostOnce'
    BY <1>16
       DEF IInv, TypeOK, ListInv, NotifierInv, NotifiedAtMostOnce, Notifier,
           InBlock, DisposeReturns, Goto, regVars, obsVars
  <2>5. DisposerInv'
    BY <1>16
       DEF IInv, TypeOK, ListInv, DisposerInv, DisposeReturns, Goto, regVars,
           obsVars
  <2>6. RunningIsLive'
    BY <1>16
       DEF IInv, TypeOK, RunningIsLive, NotifierInv, InBlock, AssertsEnabled,
           BlocksReenter, DisposeReturns, Goto, regVars, obsVars
  <2> QED BY <2>1, <2>2, <2>3, <2>4, <2>5, <2>6 DEF IInv
<1>17. ASSUME IInv, NEW th \in Threads, CallBlock(th), UNCHANGED build
      PROVE  IInv'
  <2> DEFINE r == Head(todo[th])
  <2> USE DEF tokenVars, regVars
  <2>1. /\ pc[th] = "calling" /\ todo[th] # <<>> /\ todo[th] \in Seq(Regs)
        /\ regLock[r] = th
        /\ UNCHANGED <<tokenVars, regVars, todo, cur, back, mutated, quiet, raised>>
    BY <1>17 DEF CallBlock, IInv, TypeOK, NotifierInv
  <2>2. /\ r = todo[th][1] /\ r \in Regs /\ Len(todo[th]) \in Nat \ {0}
        /\ notified[r] = 0
    BY <1>17, <2>1, TailFacts DEF IInv, NotifierInv
  <2> HIDE DEF r
  <2>3. CASE crashed' = TRUE /\ UNCHANGED <<notified, pc>>
    BY <1>17, <2>1, <2>3, CrashStep DEF ctlVars
  <2>4. CASE /\ notified' = [notified EXCEPT ![r] = @ + 1]
             /\ pc' = [pc EXCEPT ![th] = "in_block"]
             /\ UNCHANGED crashed
    <3>1. TypeOK'
      BY <1>17, <2>1, <2>2, <2>4 DEF IInv, TypeOK
    <3>2. LockInv'
      BY <1>17, <2>1, <2>4 DEF IInv, TypeOK, LockInv
    <3>3. ListInv'
      BY <1>17, <2>1, <2>4 DEF IInv, ListInv
    <3>4. NotifierInv' /\ NotifiedAtMostOnce'
      <4>1. \A t \in Threads : /\ Notifier(t) => t = th
                               /\ Notifier(t)' => t = th
                               /\ pc'[t] \notin {"notify", "calling"}
        BY <1>17, <2>1, <2>4 DEF IInv, TypeOK, NotifierInv, Notifier, InBlock
      <4>2. /\ requested
            /\ \A q \in Regs : notified'[q] = IF q = r THEN 1 ELSE notified[q]
        BY <1>17, <2>1, <2>2, <2>4 DEF IInv, TypeOK, NotifierInv, Notifier
      <4>3. \A i \in 2..Len(todo[th]) :
               todo[th][i] \in Regs /\ todo[th][i] # r /\ notified[todo[th][i]] = 0
        BY <1>17, <2>1, <2>2 DEF IInv, ListInv, Distinct, NotifierInv
      <4>4. NotifiedAtMostOnce'
        BY <1>17, <2>1, <4>2 DEF IInv, NotifiedAtMostOnce
      <4>5. \A i \in 2..Len(todo'[th]) : notified'[todo'[th][i]] = 0
        BY <2>1, <4>2, <4>3
      <4>6. todo'[th] # <<>> /\ regLock'[Head(todo'[th])] = th
        BY <2>1 DEF r
      <4>7. \A t \in Threads : InBlock(t)' => t = th
        BY <4>1 DEF Notifier
      <4> QED BY <2>1, <4>1, <4>2, <4>4, <4>5, <4>6, <4>7 DEF NotifierInv
    <3>5. DisposerInv'
      BY <1>17, <2>1, <2>4 DEF IInv, TypeOK, DisposerInv
    <3>6. RunningIsLive'
      BY <1>17, <2>1, <2>4
         DEF IInv, TypeOK, RunningIsLive, AssertsEnabled, BlocksReenter
    <3> QED BY <3>1, <3>2, <3>3, <3>4, <3>5, <3>6 DEF IInv
  <2> QED BY <1>17, <2>3, <2>4 DEF CallBlock, Goto, r
<1>18. ASSUME IInv, UNCHANGED vars
      PROVE  IInv'
  BY <1>18
     DEF IInv, vars, tokenVars, regVars, ctlVars, obsVars, TypeOK, LockInv,
         ListInv, NotifierInv, DisposerInv, RunningIsLive, NotifiedAtMostOnce,
         Notifier, InBlock, AssertsEnabled, BlocksReenter, Distinct
<1> QED
  BY <1>1, <1>2, <1>3, <1>4, <1>5, <1>6, <1>7, <1>8, <1>9, <1>10, <1>11,
     <1>12, <1>13, <1>14, <1>15, <1>16, <1>17, <1>18
     DEF Next, Continue

LEMMA Invariance == Spec => []IInv
<1>1. Init => IInv
  <2> SUFFICES ASSUME Init PROVE IInv
    OBVIOUS
  <2>1. TypeOK
    <3>1. <<>> \in Seq(Regs) /\ 0 \in Nat /\ {} \subseteq Regs /\ {} \subseteq Threads
      OBVIOUS
    <3>2. /\ todo \in [Threads -> Seq(Regs)] /\ notified \in [Regs -> Nat]
          /\ registrations \in Seq(Regs)
      BY <3>1 DEF Init
    <3>3. /\ pc \in [Threads -> Pcs] /\ back \in [Threads -> {"idle", "in_block"}]
          /\ cur \in [Threads -> Regs \cup {Nil}]
          /\ regLock \in [Regs -> Threads \cup {Nil}]
      BY DEF Init, Pcs
    <3>4. /\ hasBlock \in [Regs -> BOOLEAN] /\ regDisposed \in [Regs -> BOOLEAN]
      BY DEF Init
    <3> QED BY <3>1, <3>2, <3>3, <3>4 DEF Init, TypeOK
  <2>2. LockInv /\ ListInv /\ DisposerInv
    BY ConstantsAssumption
       DEF Init, LockInv, ListInv, DisposerInv, Distinct, DisposePcs
  <2>3. NotifierInv /\ NotifiedAtMostOnce
    BY DEF Init, NotifierInv, NotifiedAtMostOnce, Notifier, InBlock
  <2>4. RunningIsLive
    BY DEF Init, RunningIsLive
  <2> QED BY <2>1, <2>2, <2>3, <2>4 DEF IInv
<1> QED BY <1>1, Step, PTL DEF Spec

(* The variables keep their types. *)
THEOREM TypeCorrect == Spec => []TypeOK
<1>1. IInv => TypeOK
  BY DEF IInv
<1> QED BY <1>1, Invariance, PTL

(* However many threads cancel, and however many timers fire, no observer block
   is called twice, and none before the token is cancelled. *)
THEOREM AtMostOnce == Spec => []NotifiedAtMostOnce
<1>1. IInv => NotifiedAtMostOnce
  BY DEF IInv
<1> QED BY <1>1, Invariance, PTL

(* When a call of a registration's dispose has returned its block is neither
   running nor about to run on any thread, in a build with assertions whose
   observers do not dispose their own registration. *)
THEOREM DisposeWaits == Spec => []QuietAfterDispose
<1>1. IInv => QuietAfterDispose
  BY DEF IInv, DisposerInv, RunningIsLive, QuietAfterDispose
<1> QED BY <1>1, Invariance, PTL

(* In a build with assertions, when a call of a registration's dispose has
   returned (the first or one that found it disposed) its block is not called
   any more, although the block is read and called in two steps, and cleared
   under no lock. *)
THEOREM NoCallAfterDispose == Spec => NotCalledAfterDispose
<1>1. ASSUME IInv, [Next]_vars
      PROVE  [AssertsEnabled => \A r \in quiet : notified'[r] = notified[r]]_vars
  <2>1. ASSUME AssertsEnabled, NEW th \in Threads, CallBlock(th), NEW r \in quiet
        PROVE  notified'[r] = notified[r]
    <3>1. regDisposed[r] /\ r \in Regs /\ notified \in [Regs -> Nat]
      BY <1>1, <2>1 DEF IInv, TypeOK, DisposerInv
    <3>2. ~regDisposed[Head(todo[th])]
      BY <1>1, <2>1 DEF IInv, RunningIsLive, CallBlock
    <3>3. \/ notified' = notified
          \/ notified' = [notified EXCEPT ![Head(todo[th])] = @ + 1]
      BY <2>1 DEF CallBlock
    <3> QED BY <3>1, <3>2, <3>3
  <2>2. \/ UNCHANGED notified
        \/ \E th \in Threads : CallBlock(th)
    BY <1>1 DEF Next, Continue, vars, obsVars, Cancel, TimerFires, CancelLocked,
                CancelAfterDelay, Register, RegDispose, Dispose, NotifyDelegate,
                BlockReturns, CancelReturns, Unregister, ClearBlock, DisposeNext,
                DisposeUnregister, DisposeClear, DisposeSkips, DisposeReturns
  <2> QED BY <2>1, <2>2
<1> QED BY <1>1, Invariance, PTL DEF Spec, NotCalledAfterDispose
=============================================================================
