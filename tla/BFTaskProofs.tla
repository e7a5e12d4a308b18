---------------------------- MODULE BFTaskProofs ----------------------------
(***************************************************************************)
(* Proofs about BFTask for any set of threads, continuations and ways to   *)
(* complete.  The safety properties of the module are not inductive: each  *)
(* follows from IInv, which ties the program counters to the owners of the *)
(* two locks (LockInv), places every continuation in exactly one hand      *)
(* (QueueInv, HandInv, NothingLost) and dates every hand-over after the    *)
(* completion (SetterInv).  The refinement of Promise uses IInv too.       *)
(***************************************************************************)
EXTENDS BFTask, TLAPS

(* How continueWith changes the queue of an open task. *)
LEMMA QueueGrows ==
    ASSUME IInv, NEW th \in Threads, NEW c \in Conts, Continue(th, c), ~Completed
    PROVE  /\ callbacks' = Append(callbacks, c)
           /\ callbacks' \in Seq(Conts)
           /\ Len(callbacks') = Len(callbacks) + 1
           /\ callbacks'[Len(callbacks) + 1] = c
           /\ \A i \in 1..Len(callbacks) : callbacks'[i] = callbacks[i]
           /\ UNCHANGED <<pc, arg, pos, runs, dispatched>>
           /\ attached' = attached \cup {c}
<1>1. /\ callbacks' = Append(callbacks, c)
      /\ UNCHANGED <<pc, arg, pos, runs, dispatched>>
      /\ attached' = attached \cup {c}
  BY DEF Continue
<1>2. callbacks \in Seq(Conts)
  BY DEF IInv, TypeOK
<1> QED BY <1>1, <1>2

(* A step that touches no continuation and moves no thread into or out of a
   setter or a hand-over keeps every conjunct about continuations.  Waiting,
   broadcasting and returning from a block are such steps. *)
LEMMA Frame ==
    ASSUME IInv,
           UNCHANGED <<outcome, callbacks, pos, arg, attached, dispatched, runs>>,
           \A t \in Threads : /\ pc'[t] \in SetPcs <=> pc[t] \in SetPcs
                              /\ pc'[t] \in ExecPcs <=> pc[t] \in ExecPcs
    PROVE  SetterInv' /\ QueueInv' /\ HandInv' /\ NothingLost' /\ NoCallbackStranded'
<1> USE DEF SetPcs, ExecPcs
<1>1. UNCHANGED <<Queued, Held, Completed>>
  <2>1. \A c : c \in Held <=> c \in Held'
    BY DEF Held
  <2> QED BY <2>1 DEF Queued, Completed
<1>2. SetterInv'
  BY <1>1 DEF IInv, SetterInv
<1>3. QueueInv'
  BY DEF IInv, QueueInv
<1>4. HandInv'
  BY DEF IInv, HandInv
<1>5. NothingLost' /\ NoCallbackStranded'
  BY <1>1 DEF IInv, NothingLost, NoCallbackStranded
<1> QED BY <1>2, <1>3, <1>4, <1>5

(* Every step keeps IInv: one step per action, one sub-step per conjunct. *)
LEMMA Step == IInv /\ [Next]_vars => IInv'
<1> USE NilAssumption DEF Pcs, SetPcs, WaitPcs, LockPcs, CondPcs, ExecPcs
<1>1. ASSUME IInv, NEW th \in Threads, SetRefused(th)
      PROVE  IInv'
  <2>1. TypeOK'
    BY <1>1 DEF IInv, TypeOK, SetRefused
  <2>2. LockInv'
    BY <1>1 DEF IInv, TypeOK, LockInv, SetRefused
  <2>3. SetterInv' /\ QueueInv' /\ HandInv' /\ NothingLost' /\ NoCallbackStranded'
    BY <1>1, Frame DEF IInv, TypeOK, SetRefused
  <2>4. NoLostWakeup'
    BY <1>1
       DEF IInv, TypeOK, NoLostWakeup, LockInv, SetterInv,
           CompletionUnpublished, SetRefused, Completed
  <2>5. WinnerInv'
    BY <1>1
       DEF IInv, TypeOK, WinnerInv, Winner, LockInv, SetterInv, SetRefused,
           Completed
  <2> QED
    BY <2>1, <2>2, <2>3, <2>4, <2>5 DEF IInv
<1>2. ASSUME IInv, NEW th \in Threads, NEW k \in Kinds, TrySet(th, k)
      PROVE  IInv'
  <2>1. TypeOK'
    BY <1>2 DEF IInv, TypeOK, TrySet, MayCall, LockFree, Goto, Completed
  <2>2. LockInv'
    BY <1>2
       DEF IInv, TypeOK, LockInv, TrySet, MayCall, LockFree, Goto, Completed
  <2>3. SetterInv'
    BY <1>2
       DEF IInv, TypeOK, SetterInv, LockInv, TrySet, MayCall, LockFree, Goto,
           Completed
  <2>4. QueueInv'
    BY <1>2
       DEF IInv, TypeOK, QueueInv, LockInv, HandInv, SetterInv, TrySet, MayCall,
           LockFree, Goto, Completed
  <2>5. HandInv'
    BY <1>2
       DEF IInv, TypeOK, QueueInv, LockInv, HandInv, SetterInv, TrySet, MayCall,
           LockFree, Goto, Completed
  <2>6. NothingLost'
    BY <1>2
       DEF IInv, TypeOK, NothingLost, QueueInv, LockInv, HandInv, Queued, Held,
           TrySet, MayCall, LockFree, Goto, Completed
  <2>7. NoCallbackStranded'
    BY <1>2
       DEF IInv, TypeOK, NoCallbackStranded, LockInv, QueueInv, TrySet, MayCall,
           LockFree, Goto, Completed
  <2>8. NoLostWakeup'
    BY <1>2
       DEF IInv, TypeOK, NoLostWakeup, LockInv, SetterInv,
           CompletionUnpublished, TrySet, MayCall, LockFree, Goto, Completed
  <2>9. WinnerInv'
    BY <1>2
       DEF IInv, TypeOK, WinnerInv, Winner, LockInv, SetterInv, TrySet, MayCall,
           LockFree, Goto, Completed
  <2> QED
    BY <2>1, <2>2, <2>3, <2>4, <2>5, <2>6, <2>7, <2>8, <2>9 DEF IInv
<1>3. ASSUME IInv, NEW th \in Threads, SetBroadcast(th)
      PROVE  IInv'
  <2>1. TypeOK'
    BY <1>3 DEF IInv, TypeOK, SetBroadcast
  <2>2. LockInv'
    BY <1>3 DEF IInv, TypeOK, LockInv, SetBroadcast
  <2>3. SetterInv' /\ QueueInv' /\ HandInv' /\ NothingLost' /\ NoCallbackStranded'
    BY <1>3, Frame DEF IInv, TypeOK, SetBroadcast
  <2>4. NoLostWakeup'
    BY <1>3
       DEF IInv, TypeOK, NoLostWakeup, LockInv, SetterInv,
           CompletionUnpublished, SetBroadcast, Completed
  <2>5. WinnerInv'
    BY <1>3
       DEF IInv, TypeOK, WinnerInv, Winner, LockInv, SetterInv, SetBroadcast,
           Completed
  <2> QED
    BY <2>1, <2>2, <2>3, <2>4, <2>5 DEF IInv
<1>4. ASSUME IInv, NEW th \in Threads, NEW inline \in BOOLEAN, SetRunCallback(th, inline)
      PROVE  IInv'
  <2>1. TypeOK'
    <3>1. callbacks[pos + 1] \in Conts
      BY <1>4 DEF IInv, TypeOK, SetRunCallback
    <3>2. CASE inline
      BY <1>4, <3>1, <3>2 DEF IInv, TypeOK, SetRunCallback, Execute, Goto
    <3>3. CASE ~inline
      BY <1>4, <3>1, <3>3 DEF IInv, TypeOK, SetRunCallback, Execute, Goto
    <3> QED BY <3>2, <3>3
  <2>2. LockInv'
    BY <1>4 DEF IInv, TypeOK, LockInv, SetRunCallback, Execute, Goto
  <2>3. SetterInv'
    BY <1>4
       DEF IInv, TypeOK, SetterInv, LockInv, SetRunCallback, Execute, Goto,
           Completed
  <2>4. QueueInv'
    BY <1>4
       DEF IInv, TypeOK, QueueInv, LockInv, HandInv, SetterInv, SetRunCallback,
           Execute, Goto, Completed
  <2>5. HandInv'
    BY <1>4
       DEF IInv, TypeOK, QueueInv, LockInv, HandInv, SetterInv, SetRunCallback,
           Execute, Goto, Completed
  <2>6. NothingLost'
    BY <1>4
       DEF IInv, TypeOK, NothingLost, QueueInv, LockInv, HandInv, Queued, Held,
           SetRunCallback, Execute, Goto, Completed
  <2>7. NoCallbackStranded'
    BY <1>4
       DEF IInv, TypeOK, NoCallbackStranded, LockInv, QueueInv, SetRunCallback,
           Execute, Goto, Completed
  <2>8. NoLostWakeup'
    BY <1>4
       DEF IInv, TypeOK, NoLostWakeup, LockInv, SetterInv,
           CompletionUnpublished, SetRunCallback, Execute, Goto, Completed
  <2>9. WinnerInv'
    BY <1>4
       DEF IInv, TypeOK, WinnerInv, Winner, LockInv, SetterInv, SetRunCallback,
           Execute, Goto, Completed
  <2> QED
    BY <2>1, <2>2, <2>3, <2>4, <2>5, <2>6, <2>7, <2>8, <2>9 DEF IInv
<1>5. ASSUME IInv, NEW th \in Threads, CallbackReturns(th)
      PROVE  IInv'
  <2>1. TypeOK'
    BY <1>5 DEF IInv, TypeOK, CallbackReturns, Goto
  <2>2. LockInv'
    BY <1>5 DEF IInv, TypeOK, LockInv, CallbackReturns, Goto
  <2>3. SetterInv' /\ QueueInv' /\ HandInv' /\ NothingLost' /\ NoCallbackStranded'
    BY <1>5, Frame DEF IInv, TypeOK, CallbackReturns, Goto
  <2>4. NoLostWakeup'
    BY <1>5
       DEF IInv, TypeOK, NoLostWakeup, LockInv, SetterInv,
           CompletionUnpublished, CallbackReturns, Goto, Completed
  <2>5. WinnerInv'
    BY <1>5
       DEF IInv, TypeOK, WinnerInv, Winner, LockInv, SetterInv, CallbackReturns,
           Goto, Completed
  <2> QED
    BY <2>1, <2>2, <2>3, <2>4, <2>5 DEF IInv
<1>6. ASSUME IInv, NEW th \in Threads, SetReturn(th)
      PROVE  IInv'
  <2>1. TypeOK'
    BY <1>6 DEF IInv, TypeOK, SetReturn, Goto
  <2>2. LockInv'
    BY <1>6 DEF IInv, TypeOK, LockInv, SetReturn, Goto
  <2>3. SetterInv'
    BY <1>6 DEF IInv, TypeOK, SetterInv, LockInv, SetReturn, Goto, Completed
  <2>4. QueueInv'
    BY <1>6
       DEF IInv, TypeOK, QueueInv, LockInv, HandInv, SetterInv, SetReturn, Goto,
           Completed
  <2>5. HandInv'
    BY <1>6
       DEF IInv, TypeOK, QueueInv, LockInv, HandInv, SetterInv, SetReturn, Goto,
           Completed
  <2>6. NothingLost'
    BY <1>6
       DEF IInv, TypeOK, NothingLost, QueueInv, LockInv, HandInv, Queued, Held,
           SetReturn, Goto, Completed
  <2>7. NoCallbackStranded'
    BY <1>6
       DEF IInv, TypeOK, NoCallbackStranded, LockInv, QueueInv, SetReturn, Goto,
           Completed
  <2>8. NoLostWakeup'
    BY <1>6
       DEF IInv, TypeOK, NoLostWakeup, LockInv, SetterInv,
           CompletionUnpublished, SetReturn, Goto, Completed
  <2>9. WinnerInv'
    BY <1>6
       DEF IInv, TypeOK, WinnerInv, Winner, LockInv, SetterInv, SetReturn, Goto,
           Completed
  <2> QED
    BY <2>1, <2>2, <2>3, <2>4, <2>5, <2>6, <2>7, <2>8, <2>9 DEF IInv
<1>7. ASSUME IInv, NEW th \in Threads, NEW c \in Conts, Continue(th, c)
      PROVE  IInv'
  <2>1. TypeOK'
    <3>1. attached' \in SUBSET Conts
      BY <1>7 DEF IInv, TypeOK, Continue
    <3>2. CASE ~Completed
      BY <1>7, <3>1, <3>2, QueueGrows DEF IInv, TypeOK, Continue
    <3>3. CASE Completed
      <4>1. /\ UNCHANGED callbacks
            /\ arg' = [arg EXCEPT ![th] = c]
            /\ pc' = [pc EXCEPT ![th] = IF pc[th] = "idle" THEN "cont_exec"
                                                          ELSE "nest_exec"]
        BY <1>7, <3>3 DEF Continue, Goto
      <4>2. pc' \in [Threads -> Pcs] /\ arg' \in [Threads -> Conts \cup {Nil}]
        BY <1>7, <4>1 DEF IInv, TypeOK
      <4> QED BY <1>7, <3>1, <4>1, <4>2 DEF IInv, TypeOK, Continue
    <3> QED BY <3>2, <3>3
  <2>2. LockInv'
    BY <1>7 DEF IInv, TypeOK, LockInv, Continue, MayCall, LockFree, Goto
  <2>3. SetterInv'
    BY <1>7
       DEF IInv, TypeOK, SetterInv, LockInv, Continue, MayCall, LockFree, Goto,
           Completed
  <2>4. QueueInv'
    <3>1. CASE ~Completed
      <4>1. \A th1 \in Threads : pc[th1] \notin ExecPcs
        BY <1>7, <3>1 DEF IInv, SetterInv
      <4>2. c \notin attached /\ runs[c] = 0 /\ c \notin dispatched
        BY <1>7 DEF IInv, HandInv, Continue
      <4>3. /\ pos \in Nat /\ Len(callbacks) \in Nat
            /\ QueueInv
        BY <1>7 DEF IInv, TypeOK
      <4>4. \A i \in 1..Len(callbacks') : i \in 1..Len(callbacks) \/ i = Len(callbacks) + 1
        BY <1>7, <3>1, <4>3, QueueGrows
      <4>5. \A i, j \in 1..Len(callbacks') : callbacks'[i] = callbacks'[j] => i = j
        BY <1>7, <3>1, <4>2, <4>3, <4>4, QueueGrows DEF QueueInv
      <4>6. \A i \in 1..Len(callbacks') :
               /\ callbacks'[i] \in attached'
               /\ i > pos' => runs'[callbacks'[i]] = 0 /\ callbacks'[i] \notin dispatched'
        BY <1>7, <3>1, <4>2, <4>3, <4>4, QueueGrows DEF QueueInv
      <4>7. pos' <= Len(callbacks') /\ (pos' # 0 => \E t \in Threads : pc'[t] \in SetPcs)
        BY <1>7, <3>1, <4>3, QueueGrows DEF QueueInv
      <4>8. \A t \in Threads : pc'[t] \notin ExecPcs
        BY <1>7, <3>1, <4>1, QueueGrows
      <4> QED BY <4>5, <4>6, <4>7, <4>8 DEF QueueInv
    <3>2. CASE Completed
      BY <1>7, <3>2
         DEF IInv, TypeOK, QueueInv, HandInv, Continue, Completed, MayCall, Goto
    <3> QED BY <3>1, <3>2
  <2>5. HandInv'
    BY <1>7
       DEF IInv, TypeOK, QueueInv, LockInv, HandInv, SetterInv, Continue,
           MayCall, LockFree, Goto, Completed
  <2>6. NothingLost'
    <3>1. CASE ~Completed
      <4>1. Queued \cup {c} \subseteq Queued'
        <5>1. pos \in Nat /\ Len(callbacks) \in Nat /\ pos <= Len(callbacks)
          BY <1>7 DEF IInv, TypeOK, QueueInv
        <5> QED BY <1>7, <3>1, <5>1, QueueGrows DEF Queued
      <4>2. UNCHANGED <<Held, dispatched, runs>> /\ attached' = attached \cup {c}
        BY <1>7, <3>1 DEF Continue, Completed, Held
      <4> QED BY <1>7, <4>1, <4>2 DEF IInv, NothingLost
    <3>2. CASE Completed
      <4>1. Held \cup {c} \subseteq Held'
        BY <1>7, <3>2 DEF IInv, TypeOK, Continue, Completed, Held, MayCall, Goto
      <4>2. UNCHANGED <<Queued, dispatched, runs>> /\ attached' = attached \cup {c}
        BY <1>7, <3>2 DEF Continue, Completed, Queued
      <4> QED BY <1>7, <4>1, <4>2 DEF IInv, NothingLost
    <3> QED BY <3>1, <3>2
  <2>7. NoCallbackStranded'
    BY <1>7
       DEF IInv, TypeOK, NoCallbackStranded, LockInv, QueueInv, Continue,
           MayCall, LockFree, Goto, Completed
  <2>8. NoLostWakeup'
    BY <1>7
       DEF IInv, TypeOK, NoLostWakeup, LockInv, SetterInv,
           CompletionUnpublished, Continue, MayCall, LockFree, Goto, Completed
  <2>9. WinnerInv'
    BY <1>7
       DEF IInv, TypeOK, WinnerInv, Winner, LockInv, SetterInv, Continue,
           MayCall, LockFree, Goto, Completed
  <2> QED
    BY <2>1, <2>2, <2>3, <2>4, <2>5, <2>6, <2>7, <2>8, <2>9 DEF IInv
<1>8. ASSUME IInv, NEW th \in Threads, NEW inline \in BOOLEAN, ContinueExecute(th, inline)
      PROVE  IInv'
  <2>1. TypeOK'
    <3>1. /\ arg[th] \in Conts
          /\ pc' \in [Threads -> Pcs]
          /\ arg' \in [Threads -> Conts \cup {Nil}]
      BY <1>8 DEF IInv, TypeOK, HandInv, ContinueExecute, Goto
    <3>2. CASE inline
      <4>1. runs' \in [Conts -> Nat] /\ UNCHANGED dispatched
        BY <1>8, <3>1, <3>2 DEF IInv, TypeOK, ContinueExecute, Execute
      <4> QED BY <1>8, <3>1, <4>1 DEF IInv, TypeOK, ContinueExecute
    <3>3. CASE ~inline
      BY <1>8, <3>1, <3>3 DEF IInv, TypeOK, ContinueExecute, Execute
    <3> QED BY <3>2, <3>3
  <2>2. LockInv'
    BY <1>8 DEF IInv, TypeOK, LockInv, ContinueExecute, Execute, Goto
  <2>3. SetterInv'
    BY <1>8
       DEF IInv, TypeOK, SetterInv, LockInv, ContinueExecute, Execute, Goto,
           Completed
  <2>4. QueueInv'
    BY <1>8
       DEF IInv, TypeOK, QueueInv, LockInv, HandInv, SetterInv, ContinueExecute,
           Execute, Goto, Completed
  <2>5. HandInv'
    BY <1>8
       DEF IInv, TypeOK, QueueInv, LockInv, HandInv, SetterInv, ContinueExecute,
           Execute, Goto, Completed
  <2>6. NothingLost'
    BY <1>8
       DEF IInv, TypeOK, NothingLost, QueueInv, LockInv, HandInv, Queued, Held,
           ContinueExecute, Execute, Goto, Completed
  <2>7. NoCallbackStranded'
    BY <1>8
       DEF IInv, TypeOK, NoCallbackStranded, LockInv, QueueInv, ContinueExecute,
           Execute, Goto, Completed
  <2>8. NoLostWakeup'
    BY <1>8
       DEF IInv, TypeOK, NoLostWakeup, LockInv, SetterInv,
           CompletionUnpublished, ContinueExecute, Execute, Goto, Completed
  <2>9. WinnerInv'
    BY <1>8
       DEF IInv, TypeOK, WinnerInv, Winner, LockInv, SetterInv, ContinueExecute,
           Execute, Goto, Completed
  <2> QED
    BY <2>1, <2>2, <2>3, <2>4, <2>5, <2>6, <2>7, <2>8, <2>9 DEF IInv
<1>9. ASSUME IInv, NEW c \in Conts, RunDispatched(c)
      PROVE  IInv'
  <2>1. TypeOK'
    BY <1>9 DEF IInv, TypeOK, RunDispatched
  <2>2. LockInv'
    BY <1>9 DEF IInv, TypeOK, LockInv, RunDispatched
  <2>3. SetterInv'
    BY <1>9 DEF IInv, TypeOK, SetterInv, LockInv, RunDispatched, Completed
  <2>4. QueueInv'
    BY <1>9
       DEF IInv, TypeOK, QueueInv, LockInv, HandInv, SetterInv, RunDispatched,
           Completed
  <2>5. HandInv'
    BY <1>9
       DEF IInv, TypeOK, QueueInv, LockInv, HandInv, SetterInv, RunDispatched,
           Completed
  <2>6. NothingLost'
    BY <1>9
       DEF IInv, TypeOK, NothingLost, QueueInv, LockInv, HandInv, Queued, Held,
           RunDispatched, Completed
  <2>7. NoCallbackStranded'
    BY <1>9
       DEF IInv, TypeOK, NoCallbackStranded, LockInv, QueueInv, RunDispatched,
           Completed
  <2>8. NoLostWakeup'
    BY <1>9
       DEF IInv, TypeOK, NoLostWakeup, LockInv, SetterInv,
           CompletionUnpublished, RunDispatched, Completed
  <2>9. WinnerInv'
    BY <1>9
       DEF IInv, TypeOK, WinnerInv, Winner, LockInv, SetterInv, RunDispatched,
           Completed
  <2> QED
    BY <2>1, <2>2, <2>3, <2>4, <2>5, <2>6, <2>7, <2>8, <2>9 DEF IInv
<1>10. ASSUME IInv, NEW th \in Threads, WaitEnter(th)
      PROVE  IInv'
  <2>1. TypeOK'
    BY <1>10 DEF IInv, TypeOK, WaitEnter, MayCall, LockFree, Goto
  <2>2. LockInv'
    BY <1>10 DEF IInv, TypeOK, LockInv, WaitEnter, MayCall, LockFree, Goto
  <2>3. SetterInv' /\ QueueInv' /\ HandInv' /\ NothingLost' /\ NoCallbackStranded'
    BY <1>10, Frame DEF IInv, TypeOK, WaitEnter, MayCall, LockFree, Completed, SetterInv, Goto
  <2>4. NoLostWakeup'
    BY <1>10
       DEF IInv, TypeOK, NoLostWakeup, LockInv, SetterInv,
           CompletionUnpublished, WaitEnter, MayCall, LockFree, Goto, Completed
  <2>5. WinnerInv'
    BY <1>10
       DEF IInv, TypeOK, WinnerInv, Winner, LockInv, SetterInv, WaitEnter,
           MayCall, LockFree, Goto, Completed
  <2> QED
    BY <2>1, <2>2, <2>3, <2>4, <2>5 DEF IInv
<1>11. ASSUME IInv, NEW th \in Threads, WaitCond(th)
      PROVE  IInv'
  <2>1. TypeOK'
    BY <1>11 DEF IInv, TypeOK, WaitCond, Goto
  <2>2. LockInv'
    BY <1>11 DEF IInv, TypeOK, LockInv, WaitCond, Goto
  <2>3. SetterInv' /\ QueueInv' /\ HandInv' /\ NothingLost' /\ NoCallbackStranded'
    BY <1>11, Frame DEF IInv, TypeOK, WaitCond, Goto
  <2>4. NoLostWakeup'
    BY <1>11
       DEF IInv, TypeOK, NoLostWakeup, LockInv, SetterInv,
           CompletionUnpublished, WaitCond, Goto, Completed
  <2>5. WinnerInv'
    BY <1>11
       DEF IInv, TypeOK, WinnerInv, Winner, LockInv, SetterInv, WaitCond, Goto,
           Completed
  <2> QED
    BY <2>1, <2>2, <2>3, <2>4, <2>5 DEF IInv
<1>12. ASSUME IInv, NEW th \in Threads, WaitReadsOpen(th)
      PROVE  IInv'
  <2>1. TypeOK'
    BY <1>12 DEF IInv, TypeOK, WaitReadsOpen, Goto
  <2>2. LockInv'
    BY <1>12 DEF IInv, TypeOK, LockInv, WaitReadsOpen, Goto
  <2>3. SetterInv' /\ QueueInv' /\ HandInv' /\ NothingLost' /\ NoCallbackStranded'
    BY <1>12, Frame DEF IInv, TypeOK, WaitReadsOpen, Goto
  <2>4. NoLostWakeup'
    BY <1>12
       DEF IInv, TypeOK, NoLostWakeup, LockInv, SetterInv,
           CompletionUnpublished, WaitReadsOpen, Goto, Completed
  <2>5. WinnerInv'
    BY <1>12
       DEF IInv, TypeOK, WinnerInv, Winner, LockInv, SetterInv, WaitReadsOpen,
           Goto, Completed
  <2> QED
    BY <2>1, <2>2, <2>3, <2>4, <2>5 DEF IInv
<1>13. ASSUME IInv, NEW th \in Threads, WaitReturns(th)
      PROVE  IInv'
  <2>1. TypeOK'
    BY <1>13 DEF IInv, TypeOK, WaitReturns, Goto
  <2>2. LockInv'
    BY <1>13 DEF IInv, TypeOK, LockInv, WaitReturns, Goto
  <2>3. SetterInv' /\ QueueInv' /\ HandInv' /\ NothingLost' /\ NoCallbackStranded'
    BY <1>13, Frame DEF IInv, TypeOK, WaitReturns, Goto
  <2>4. NoLostWakeup'
    BY <1>13
       DEF IInv, TypeOK, NoLostWakeup, LockInv, SetterInv,
           CompletionUnpublished, WaitReturns, Goto, Completed
  <2>5. WinnerInv'
    BY <1>13
       DEF IInv, TypeOK, WinnerInv, Winner, LockInv, SetterInv, WaitReturns,
           Goto, Completed
  <2> QED
    BY <2>1, <2>2, <2>3, <2>4, <2>5 DEF IInv
<1>14. ASSUME IInv, NEW th \in Threads, WaitSleep(th)
      PROVE  IInv'
  <2>1. TypeOK'
    BY <1>14 DEF IInv, TypeOK, WaitSleep, Goto
  <2>2. LockInv'
    BY <1>14 DEF IInv, TypeOK, LockInv, WaitSleep, Goto
  <2>3. SetterInv' /\ QueueInv' /\ HandInv' /\ NothingLost' /\ NoCallbackStranded'
    BY <1>14, Frame DEF IInv, TypeOK, WaitSleep, Goto
  <2>4. NoLostWakeup'
    BY <1>14
       DEF IInv, TypeOK, NoLostWakeup, LockInv, SetterInv,
           CompletionUnpublished, WaitSleep, Goto, Completed
  <2>5. WinnerInv'
    BY <1>14
       DEF IInv, TypeOK, WinnerInv, Winner, LockInv, SetterInv, WaitSleep, Goto,
           Completed
  <2> QED
    BY <2>1, <2>2, <2>3, <2>4, <2>5 DEF IInv
<1>15. ASSUME IInv, NEW th \in Threads, SpuriousWake(th)
      PROVE  IInv'
  <2>1. TypeOK'
    BY <1>15 DEF IInv, TypeOK, SpuriousWake, Goto
  <2>2. LockInv'
    BY <1>15 DEF IInv, TypeOK, LockInv, SpuriousWake, Goto
  <2>3. SetterInv' /\ QueueInv' /\ HandInv' /\ NothingLost' /\ NoCallbackStranded'
    BY <1>15, Frame DEF IInv, TypeOK, SpuriousWake, Goto
  <2>4. NoLostWakeup'
    BY <1>15
       DEF IInv, TypeOK, NoLostWakeup, LockInv, SetterInv,
           CompletionUnpublished, SpuriousWake, Goto, Completed
  <2>5. WinnerInv'
    BY <1>15
       DEF IInv, TypeOK, WinnerInv, Winner, LockInv, SetterInv, SpuriousWake,
           Goto, Completed
  <2> QED
    BY <2>1, <2>2, <2>3, <2>4, <2>5 DEF IInv
<1>16. ASSUME IInv, NEW th \in Threads, WaitWake(th)
      PROVE  IInv'
  <2>1. TypeOK'
    BY <1>16 DEF IInv, TypeOK, WaitWake, Goto
  <2>2. LockInv'
    BY <1>16 DEF IInv, TypeOK, LockInv, WaitWake, Goto
  <2>3. SetterInv' /\ QueueInv' /\ HandInv' /\ NothingLost' /\ NoCallbackStranded'
    BY <1>16, Frame DEF IInv, TypeOK, WaitWake, Goto
  <2>4. NoLostWakeup'
    BY <1>16
       DEF IInv, TypeOK, NoLostWakeup, LockInv, SetterInv,
           CompletionUnpublished, WaitWake, Goto, Completed
  <2>5. WinnerInv'
    BY <1>16
       DEF IInv, TypeOK, WinnerInv, Winner, LockInv, SetterInv, WaitWake, Goto,
           Completed
  <2> QED
    BY <2>1, <2>2, <2>3, <2>4, <2>5 DEF IInv
<1>17. ASSUME IInv, UNCHANGED vars
      PROVE  IInv'
  BY <1>17
     DEF IInv, vars, Completed, CompletionUnpublished, HandInv, Held, LockInv,
         NoCallbackStranded, NoLostWakeup, NothingLost, QueueInv, Queued,
         SetterInv, TypeOK, Winner, WinnerInv
<1> QED
  BY <1>1, <1>2, <1>3, <1>4, <1>5, <1>6, <1>7, <1>8, <1>9, <1>10, <1>11,
     <1>12, <1>13, <1>14, <1>15, <1>16, <1>17
     DEF Next, ThreadNext

(* IInv holds of a fresh task, open or completed by its initializer. *)
LEMMA Start == Init => IInv
  BY NilAssumption
     DEF Init, IInv, TypeOK, LockInv, SetterInv, QueueInv, HandInv, NothingLost,
         NoCallbackStranded, NoLostWakeup, WinnerInv, Winner, Completed, Pcs,
         SetPcs, WaitPcs, LockPcs, CondPcs, ExecPcs

(* IInv is an invariant of the task, for any threads and continuations. *)
THEOREM Invariance == Spec => []IInv
  BY Start, Step, PTL DEF Spec

(* Every variable keeps its type. *)
THEOREM TypeCorrect == Spec => []TypeOK
<1>1. IInv => TypeOK
  BY DEF IInv
<1> QED BY <1>1, Invariance, PTL

(* No wakeup is lost between runContinuations and waitUntilFinished. *)
THEOREM WakeupSafety == Spec => []NoLostWakeup
<1>1. IInv => NoLostWakeup
  BY DEF IInv
<1> QED BY <1>1, Invariance, PTL

(* No callback stays behind in the queue of a completed task. *)
THEOREM QueueDrained == Spec => []NoCallbackStranded
<1>1. IInv => NoCallbackStranded
  BY DEF IInv
<1> QED BY <1>1, Invariance, PTL

(* A continuation is attached, waits in one place and runs once. *)
THEOREM Conservation == Spec => []ContinuationsConserved
<1>1. IInv => ContinuationsConserved
  <2> SUFFICES ASSUME IInv, NEW c \in Conts
               PROVE  LET places == (IF c \in Queued THEN 1 ELSE 0)
                                  + (IF c \in Held THEN 1 ELSE 0)
                                  + (IF c \in dispatched THEN 1 ELSE 0)
                      IN  runs[c] + places = IF c \in attached THEN 1 ELSE 0
    BY DEF ContinuationsConserved
  <2>1. /\ runs[c] \in Nat /\ pos \in Nat /\ Len(callbacks) \in Nat
        /\ runs[c] <= 1
    BY DEF IInv, TypeOK, HandInv
  <2>2. c \in Queued => /\ c \in attached /\ runs[c] = 0
                        /\ c \notin dispatched /\ c \notin Held
    BY <2>1 DEF IInv, QueueInv, Queued, Held
  <2>3. c \in Held => c \in attached /\ runs[c] = 0 /\ c \notin dispatched
    BY DEF IInv, HandInv, Held
  <2>4. c \in dispatched => c \in attached /\ runs[c] = 0
    BY DEF IInv, HandInv
  <2>5. c \notin attached => runs[c] = 0
    BY DEF IInv, HandInv
  <2>6. c \in attached /\ runs[c] = 0 => c \in Queued \cup Held \cup dispatched
    BY DEF IInv, NothingLost
  <2> QED BY <2>1, <2>2, <2>3, <2>4, <2>5, <2>6
<1> QED BY <1>1, Invariance, PTL

(* At most one caller completes the task. *)
THEOREM SingleWinner == Spec => []OneWinner
<1>1. IInv => OneWinner
  <2> SUFFICES ASSUME IInv
               PROVE  \A th \in Threads : "YES" \in rets[th] => Queued = {}
    BY DEF OneWinner, IInv, WinnerInv
  <2> TAKE th \in Threads
  <2> HAVE "YES" \in rets[th]
  <2>1. Completed /\ \A t \in Threads : pc[t] \notin SetPcs
    BY DEF IInv, WinnerInv, Winner
  <2>2. callbacks = <<>> /\ pos \in Nat
    BY <2>1 DEF IInv, NoCallbackStranded, TypeOK
  <2> QED BY <2>2 DEF Queued
<1> QED BY <1>1, Invariance, PTL

(* The queue does not change under the enumeration of runContinuations. *)
THEOREM EnumerationSafe == Spec => StableEnumeration
<1>1. IInv /\ [Next]_vars =>
        [\A th \in Threads : (pc[th] \in SetPcs /\ pc'[th] \in SetPcs)
                               => callbacks' = callbacks]_vars
  <2> SUFFICES ASSUME IInv, Next, NEW th \in Threads,
                      pc[th] \in SetPcs, pc'[th] \in SetPcs
               PROVE  callbacks' = callbacks
    OBVIOUS
  <2>1. Completed
    BY DEF IInv, SetterInv
  <2>2. ASSUME NEW t \in Threads, SetReturn(t)
        PROVE  FALSE
    <3>1. t = th
      BY <2>2, NilAssumption DEF IInv, LockInv, LockPcs, SetReturn, SetPcs
    <3> QED BY <2>2, <3>1 DEF SetReturn, Goto, IInv, TypeOK, SetPcs
  <2>3. ASSUME NEW t \in Threads, NEW c \in Conts, Continue(t, c)
        PROVE  callbacks' = callbacks
    BY <2>1, <2>3 DEF Continue
  <2> QED
    BY <2>2, <2>3
       DEF Next, ThreadNext, SetRefused, TrySet, SetBroadcast, SetRunCallback,
           CallbackReturns, ContinueExecute, RunDispatched, WaitEnter, WaitCond,
           WaitReadsOpen, WaitReturns, WaitSleep, SpuriousWake, WaitWake
<1> QED BY <1>1, Invariance, PTL DEF Spec, StableEnumeration

(* The task implements a promise: each of its steps completes the promise,
   attaches a continuation, runs one for the first and only time, or changes
   nothing the promise knows of. *)
THEOREM Refinement == Spec => RefinesPromise
<1>1. Init => Promise!PInit
  BY DEF Init, Promise!PInit
<1>2. IInv /\ [Next]_vars => [Promise!PNext]_(Promise!pvars)
  <2> SUFFICES ASSUME IInv, [Next]_vars
               PROVE  Promise!PNext \/ UNCHANGED <<outcome, attached, runs>>
    BY DEF Promise!pvars
  <2>1. ASSUME NEW th \in Threads, NEW k \in Kinds, TrySet(th, k)
        PROVE  Promise!Complete(k)
    BY <2>1 DEF TrySet, Completed, Promise!Complete
  <2>2. ASSUME NEW th \in Threads, NEW c \in Conts, Continue(th, c)
        PROVE  Promise!Attach(c)
    BY <2>2 DEF Continue, Promise!Attach
  <2>3. ASSUME NEW c \in Conts, Completed, c \in attached, runs[c] = 0,
               runs' = [runs EXCEPT ![c] = @ + 1], UNCHANGED <<outcome, attached>>
        PROVE  Promise!Run(c)
    BY <2>3 DEF IInv, TypeOK, Completed, Promise!Run
  <2>4. ASSUME NEW th \in Threads, NEW inline \in BOOLEAN, SetRunCallback(th, inline)
        PROVE  Promise!PNext \/ UNCHANGED <<outcome, attached, runs>>
    <3> DEFINE c == callbacks[pos + 1]
    <3>1. c \in Conts /\ c \in attached /\ runs[c] = 0 /\ Completed
      BY <2>4 DEF IInv, TypeOK, QueueInv, SetterInv, SetRunCallback, SetPcs
    <3>2. CASE inline
      <4>1. runs' = [runs EXCEPT ![c] = @ + 1] /\ UNCHANGED <<outcome, attached>>
        BY <2>4, <3>2 DEF SetRunCallback, Execute
      <4> QED BY <2>3, <3>1, <4>1 DEF Promise!PNext
    <3>3. CASE ~inline
      BY <2>4, <3>3 DEF SetRunCallback, Execute
    <3> QED BY <3>2, <3>3
  <2>5. ASSUME NEW th \in Threads, NEW inline \in BOOLEAN, ContinueExecute(th, inline)
        PROVE  Promise!PNext \/ UNCHANGED <<outcome, attached, runs>>
    <3> DEFINE c == arg[th]
    <3>1. c \in Conts /\ c \in attached /\ runs[c] = 0 /\ Completed
      BY <2>5 DEF IInv, TypeOK, HandInv, SetterInv, ContinueExecute
    <3>2. CASE inline
      <4>1. runs' = [runs EXCEPT ![c] = @ + 1] /\ UNCHANGED <<outcome, attached>>
        BY <2>5, <3>2 DEF ContinueExecute, Execute
      <4> QED BY <2>3, <3>1, <4>1 DEF Promise!PNext
    <3>3. CASE ~inline
      BY <2>5, <3>3 DEF ContinueExecute, Execute
    <3> QED BY <3>2, <3>3
  <2>6. ASSUME NEW c \in Conts, RunDispatched(c)
        PROVE  Promise!PNext
    <3>1. c \in attached /\ runs[c] = 0 /\ Completed
      BY <2>6 DEF IInv, HandInv, SetterInv, RunDispatched
    <3> QED BY <2>3, <2>6, <3>1 DEF RunDispatched, Promise!PNext
  <2>7. CASE UNCHANGED vars
    BY <2>7 DEF vars
  <2> QED
    BY <2>1, <2>2, <2>4, <2>5, <2>6, <2>7
       DEF Next, ThreadNext, Promise!PNext, SetRefused, SetBroadcast,
           CallbackReturns, SetReturn, WaitEnter, WaitCond, WaitReadsOpen,
           WaitReturns, WaitSleep, SpuriousWake, WaitWake
<1> QED BY <1>1, <1>2, Invariance, PTL DEF Spec, RefinesPromise, Promise!PSpec
=============================================================================
