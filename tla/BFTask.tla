------------------------------- MODULE BFTask -------------------------------
(***************************************************************************)
(* One Bolts task (BFTask.m) shared by threads that complete it, attach    *)
(* continuations to it and block in waitUntilFinished.  The task keeps two *)
(* locks: `lock`, the recursive @synchronized(self.lock) monitor, and the  *)
(* mutex of the NSCondition `condition`.  A setter runs the queued         *)
(* continuations while it still holds `lock`; a waiter takes `condition`   *)
(* while it holds `lock` and then reads _completed without `lock`.         *)
(*                                                                         *)
(* A continuation block is client code.  Run inline by a setter it may     *)
(* call the task again on the same thread; that is the state "set_in".     *)
(***************************************************************************)
EXTENDS Naturals, Sequences, FiniteSets

CONSTANTS Threads,  \* threads that use the task
          Conts,    \* continuations, one per call of continueWith...
          Kinds,    \* ways to complete the task
          Nil       \* no thread, no outcome, no continuation

ASSUME NilAssumption ==
    /\ Nil \notin Threads
    /\ Nil \notin Conts
    /\ Nil \notin Kinds

VARIABLES
    lock,        \* owner of the monitor self.lock, or Nil
    condOwner,   \* owner of the mutex of self.condition, or Nil
    outcome,     \* Nil while !_completed, else how the task was completed
    callbacks,   \* self.callbacks
    pos,         \* how many callbacks the enumeration in runContinuations started
    pc,          \* where each thread is
    arg,         \* the continuation a thread is about to execute
    attached,    \* the continuations handed to continueWith...
    dispatched,  \* continuations an executor sent to a GCD or operation queue
    runs,        \* executions of each continuation's block
    rets         \* what the setters told each thread: "YES", "NO", "raised"

vars == <<lock, condOwner, outcome, callbacks, pos, pc, arg, attached,
          dispatched, runs, rets>>

Promise == INSTANCE Promise WITH value <- outcome

-----------------------------------------------------------------------------
SetPcs  == {"set_cond", "set_run", "set_in", "nest_exec"}
WaitPcs == {"wait_cond", "wait_loop", "wait_sleep", "wait_blocked", "wait_wake"}
Pcs     == {"idle", "cont_exec"} \cup SetPcs \cup WaitPcs

LockPcs == SetPcs \cup {"wait_cond"}         \* inside @synchronized(self.lock)
CondPcs == {"wait_loop", "wait_sleep"}       \* inside [self.condition lock]
ExecPcs == {"cont_exec", "nest_exec"}        \* about to call [executor execute:]

Completed == outcome # Nil

\* @synchronized is recursive: its owner enters again at once.
LockFree(th) == lock \in {Nil, th}

\* A thread calls the task from its own code or from a block run inline.
MayCall(th) == pc[th] \in {"idle", "set_in"}

Goto(th, p) == pc' = [pc EXCEPT ![th] = p]

TypeOK ==
    /\ lock \in Threads \cup {Nil}
    /\ condOwner \in Threads \cup {Nil}
    /\ outcome \in Kinds \cup {Nil}
    /\ callbacks \in Seq(Conts)
    /\ pos \in Nat
    /\ pc \in [Threads -> Pcs]
    /\ arg \in [Threads -> Conts \cup {Nil}]
    /\ attached \in SUBSET Conts
    /\ dispatched \in SUBSET Conts
    /\ runs \in [Conts -> Nat]
    /\ rets \in [Threads -> SUBSET {"YES", "NO", "raised"}]

\* init leaves the task open; initWithResult and its siblings complete it
\* before anyone else can see it.
Init ==
    /\ lock = Nil
    /\ condOwner = Nil
    /\ outcome \in Kinds \cup {Nil}
    /\ callbacks = <<>>
    /\ pos = 0
    /\ pc = [th \in Threads |-> "idle"]
    /\ arg = [th \in Threads |-> Nil]
    /\ attached = {}
    /\ dispatched = {}
    /\ runs = [c \in Conts |-> 0]
    /\ rets = [th \in Threads |-> {}]

-----------------------------------------------------------------------------
(* Completing the task *)

\* trySetX on a completed task answers NO; the setX of BFTaskCompletionSource
\* turns that NO into an NSInternalInconsistencyException.
SetRefused(th) ==
    /\ MayCall(th)
    /\ LockFree(th)
    /\ Completed
    /\ \E r \in {"NO", "raised"} : rets' = [rets EXCEPT ![th] = @ \cup {r}]
    /\ UNCHANGED <<lock, condOwner, outcome, callbacks, pos, pc, arg, attached,
                   dispatched, runs>>

\* Variant: trySetX without its check of _completed.
TrySetAgain(th, k) ==
    /\ MayCall(th)
    /\ LockFree(th)
    /\ lock' = th
    /\ outcome' = k
    /\ Goto(th, "set_cond")
    /\ UNCHANGED <<condOwner, callbacks, pos, arg, attached, dispatched, runs,
                   rets>>

\* trySetX on an open task: the outcome is stored under the lock, which is
\* kept until runContinuations has returned.
TrySet(th, k) ==
    /\ MayCall(th)
    /\ LockFree(th)
    /\ ~Completed
    /\ lock' = th
    /\ outcome' = k
    /\ Goto(th, "set_cond")
    /\ UNCHANGED <<condOwner, callbacks, pos, arg, attached, dispatched, runs,
                   rets>>

\* Variant: broadcast without taking the condition's mutex.
SetBroadcastUnlocked(th) ==
    /\ pc[th] = "set_cond"
    /\ pc' = [t \in Threads |->
                 IF t = th THEN "set_run"
                 ELSE IF pc[t] = "wait_blocked" THEN "wait_wake" ELSE pc[t]]
    /\ UNCHANGED <<lock, condOwner, outcome, callbacks, pos, arg, attached,
                   dispatched, runs, rets>>

\* Variant: signal, which wakes one waiter, instead of broadcast.
SetSignal(th) ==
    /\ pc[th] = "set_cond"
    /\ condOwner = Nil
    /\ \E w \in Threads :
          /\ pc[w] = "wait_blocked" \/ (w = th /\ \A t \in Threads : pc[t] # "wait_blocked")
          /\ pc' = [pc EXCEPT ![w] = "wait_wake", ![th] = "set_run"]
    /\ UNCHANGED <<lock, condOwner, outcome, callbacks, pos, arg, attached,
                   dispatched, runs, rets>>

\* runContinuations: condition lock, broadcast, unlock.
SetBroadcast(th) ==
    /\ pc[th] = "set_cond"
    /\ condOwner = Nil
    /\ pc' = [t \in Threads |->
                 IF t = th THEN "set_run"
                 ELSE IF pc[t] = "wait_blocked" THEN "wait_wake" ELSE pc[t]]
    /\ UNCHANGED <<lock, condOwner, outcome, callbacks, pos, arg, attached,
                   dispatched, runs, rets>>

\* Variant: a block that runs on this stack is handed to a queue as well.
ExecuteTwice(c, inline) ==
    /\ runs' = [runs EXCEPT ![c] = @ + (IF inline THEN 1 ELSE 0)]
    /\ dispatched' = dispatched \cup {c}

\* [executor execute:executionBlock]: the executor runs the block on this
\* stack, or hands it to a queue (another thread, or a stack that is too deep).
Execute(c, inline) ==
    IF inline
    THEN /\ runs' = [runs EXCEPT ![c] = @ + 1]
         /\ UNCHANGED dispatched
    ELSE /\ dispatched' = dispatched \cup {c}
         /\ UNCHANGED runs

\* runContinuations: the for loop starts its next callback.
SetRunCallback(th, inline) ==
    /\ pc[th] = "set_run"
    /\ pos < Len(callbacks)
    /\ pos' = pos + 1
    /\ Execute(callbacks[pos + 1], inline)
    /\ Goto(th, IF inline THEN "set_in" ELSE "set_run")
    /\ UNCHANGED <<lock, condOwner, outcome, callbacks, arg, attached, rets>>

\* The block that runs inline returns to the for loop.
CallbackReturns(th) ==
    /\ pc[th] = "set_in"
    /\ Goto(th, "set_run")
    /\ UNCHANGED <<lock, condOwner, outcome, callbacks, pos, arg, attached,
                   dispatched, runs, rets>>

\* Variant: the loop ends before every callback has been started.
SetReturnEarly(th) ==
    /\ pc[th] = "set_run"
    /\ callbacks' = <<>>
    /\ pos' = 0
    /\ lock' = Nil
    /\ rets' = [rets EXCEPT ![th] = @ \cup {"YES"}]
    /\ Goto(th, "idle")
    /\ UNCHANGED <<condOwner, outcome, arg, attached, dispatched, runs>>

\* runContinuations removes all callbacks; trySetX leaves the lock with YES.
SetReturn(th) ==
    /\ pc[th] = "set_run"
    /\ pos = Len(callbacks)
    /\ callbacks' = <<>>
    /\ pos' = 0
    /\ lock' = Nil
    /\ rets' = [rets EXCEPT ![th] = @ \cup {"YES"}]
    /\ Goto(th, "idle")
    /\ UNCHANGED <<condOwner, outcome, arg, attached, dispatched, runs>>

-----------------------------------------------------------------------------
(* Attaching and executing continuations *)

\* Variant: the continuation is queued even on a completed task.
ContinueAlwaysQueues(th, c) ==
    /\ MayCall(th)
    /\ LockFree(th)
    /\ c \notin attached
    /\ attached' = attached \cup {c}
    /\ callbacks' = Append(callbacks, c)
    /\ UNCHANGED <<lock, condOwner, outcome, pos, pc, arg, dispatched, runs, rets>>

\* Variant: what is queued is not the block that was passed.
ContinueQueuesNil(th, c) ==
    /\ MayCall(th)
    /\ LockFree(th)
    /\ c \notin attached
    /\ attached' = attached \cup {c}
    /\ callbacks' = Append(callbacks, arg[th])
    /\ UNCHANGED <<lock, condOwner, outcome, pos, pc, arg, dispatched, runs, rets>>

\* The locked part of continueWithExecutor:block:cancellationToken: queues the
\* continuation on an open task; on a completed one the caller executes it
\* after it has left the lock (a caller inside the setter's lock keeps it).
Continue(th, c) ==
    /\ MayCall(th)
    /\ LockFree(th)
    /\ c \notin attached
    /\ attached' = attached \cup {c}
    /\ \/ /\ ~Completed
          /\ callbacks' = Append(callbacks, c)
          /\ UNCHANGED <<pc, arg>>
       \/ /\ Completed
          /\ arg' = [arg EXCEPT ![th] = c]
          /\ Goto(th, IF pc[th] = "idle" THEN "cont_exec" ELSE "nest_exec")
          /\ UNCHANGED callbacks
    /\ UNCHANGED <<lock, condOwner, outcome, pos, dispatched, runs, rets>>

\* [executor execute:executionBlock] for a task found completed.
ContinueExecute(th, inline) ==
    /\ pc[th] \in ExecPcs
    /\ Execute(arg[th], inline)
    /\ arg' = [arg EXCEPT ![th] = Nil]
    /\ Goto(th, IF pc[th] = "cont_exec" THEN "idle" ELSE "set_in")
    /\ UNCHANGED <<lock, condOwner, outcome, callbacks, pos, attached, rets>>

\* A queue runs a block it was given.
RunDispatched(c) ==
    /\ c \in dispatched
    /\ dispatched' = dispatched \ {c}
    /\ runs' = [runs EXCEPT ![c] = @ + 1]
    /\ UNCHANGED <<lock, condOwner, outcome, callbacks, pos, pc, arg, attached,
                   rets>>

-----------------------------------------------------------------------------
(* waitUntilFinished *)

\* Enter @synchronized(self.lock) and find the task open.  A completed task
\* returns at once and changes nothing.
WaitEnter(th) ==
    /\ MayCall(th)
    /\ LockFree(th)
    /\ ~Completed
    /\ lock' = th
    /\ Goto(th, "wait_cond")
    /\ UNCHANGED <<condOwner, outcome, callbacks, pos, arg, attached,
                   dispatched, runs, rets>>

\* [self.condition lock], then leave the synchronized block.
WaitCond(th) ==
    /\ pc[th] = "wait_cond"
    /\ condOwner = Nil
    /\ condOwner' = th
    /\ lock' = Nil
    /\ Goto(th, "wait_loop")
    /\ UNCHANGED <<outcome, callbacks, pos, arg, attached, dispatched, runs,
                   rets>>

\* A completion that has not yet passed through the condition's mutex is a
\* write that the unlocked read of _completed may miss.
CompletionUnpublished == \E s \in Threads : pc[s] = "set_cond"

\* while (!_completed): the read finds the task open, or misses the write.
WaitReadsOpen(th) ==
    /\ pc[th] = "wait_loop"
    /\ ~Completed \/ CompletionUnpublished
    /\ Goto(th, "wait_sleep")
    /\ UNCHANGED <<lock, condOwner, outcome, callbacks, pos, arg, attached,
                   dispatched, runs, rets>>

\* The read finds the task completed: condition unlock, return.
WaitReturns(th) ==
    /\ pc[th] = "wait_loop"
    /\ Completed
    /\ condOwner' = Nil
    /\ Goto(th, "idle")
    /\ UNCHANGED <<lock, outcome, callbacks, pos, arg, attached, dispatched,
                   runs, rets>>

\* [self.condition wait] releases the mutex and blocks in one step.
WaitSleep(th) ==
    /\ pc[th] = "wait_sleep"
    /\ condOwner' = Nil
    /\ Goto(th, "wait_blocked")
    /\ UNCHANGED <<lock, outcome, callbacks, pos, arg, attached, dispatched,
                   runs, rets>>

\* A condition variable may wake without a broadcast.
SpuriousWake(th) ==
    /\ pc[th] = "wait_blocked"
    /\ Goto(th, "wait_wake")
    /\ UNCHANGED <<lock, condOwner, outcome, callbacks, pos, arg, attached,
                   dispatched, runs, rets>>

\* wait returns once the mutex has been taken again.
WaitWake(th) ==
    /\ pc[th] = "wait_wake"
    /\ condOwner = Nil
    /\ condOwner' = th
    /\ Goto(th, "wait_loop")
    /\ UNCHANGED <<lock, outcome, callbacks, pos, arg, attached, dispatched,
                   runs, rets>>

-----------------------------------------------------------------------------
ThreadNext(th) ==
    \/ SetRefused(th)
    \/ \E k \in Kinds : TrySet(th, k)
    \/ SetBroadcast(th)
    \/ \E inline \in BOOLEAN : SetRunCallback(th, inline)
    \/ CallbackReturns(th)
    \/ SetReturn(th)
    \/ \E c \in Conts : Continue(th, c)
    \/ \E inline \in BOOLEAN : ContinueExecute(th, inline)
    \/ WaitEnter(th)
    \/ WaitCond(th)
    \/ WaitReadsOpen(th)
    \/ WaitReturns(th)
    \/ WaitSleep(th)
    \/ SpuriousWake(th)
    \/ WaitWake(th)

Next ==
    \/ \E th \in Threads : ThreadNext(th)
    \/ \E c \in Conts : RunDispatched(c)

Spec == Init /\ [][Next]_vars

\* What a thread inside a call does next without waiting for the condition's
\* mutex, and the steps that take the mutex.
Proceeds(th) ==
    \/ \E inline \in BOOLEAN : SetRunCallback(th, inline) \/ ContinueExecute(th, inline)
    \/ CallbackReturns(th) \/ SetReturn(th)
    \/ WaitReadsOpen(th) \/ WaitReturns(th) \/ WaitSleep(th)
TakesMutex(th) == SetBroadcast(th) \/ WaitCond(th) \/ WaitWake(th)

\* A started operation goes on: the scheduler runs every thread, blocks return,
\* and queues run what they were given.  The mutex of the condition is handed
\* on in turn (Darwin's mutexes are fair-share), hence strong fairness of the
\* steps that take it.  Nothing obliges anyone to call the task.
Fairness ==
    /\ \A th \in Threads : WF_vars(Proceeds(th)) /\ SF_vars(TakesMutex(th))
    /\ \A c \in Conts : WF_vars(RunDispatched(c))

FairSpec == Spec /\ Fairness

-----------------------------------------------------------------------------
(* Properties *)

\* The queue as runContinuations has yet to run it.
Queued == {callbacks[i] : i \in (pos + 1)..Len(callbacks)}

\* The continuations a thread carries between the locked part of continueWith
\* and the executor.
Held == {arg[th] : th \in {t \in Threads : pc[t] \in ExecPcs}}

\* A continuation that was attached and has not run is in exactly one place:
\* the task's queue, a thread's hands or an executor's queue; one that has run
\* is in none and ran once.  A race between trySet and continueWith that lost
\* a continuation, or ran it twice, would break this.
ContinuationsConserved ==
    \A c \in Conts :
        LET places == (IF c \in Queued THEN 1 ELSE 0)
                    + (IF c \in Held THEN 1 ELSE 0)
                    + (IF c \in dispatched THEN 1 ELSE 0)
        IN  runs[c] + places = IF c \in attached THEN 1 ELSE 0

\* Once the task is completed and no setter is inside runContinuations, no
\* callback is left behind in the queue that nobody will enumerate again.
NoCallbackStranded ==
    (Completed /\ \A th \in Threads : pc[th] \notin SetPcs) => callbacks = <<>>

\* A waiter that is blocked, or has decided to block, on a completed task has
\* a broadcast still ahead of it: the two-lock protocol of waitUntilFinished
\* and runContinuations, with its unlocked read of _completed, loses no wakeup.
NoLostWakeup ==
    \A w \in Threads :
        (Completed /\ pc[w] \in {"wait_sleep", "wait_blocked"})
            => CompletionUnpublished

\* At most one caller ever completes the task (is told "YES" or is about to
\* be), and it is told so only after every continuation queued before has been
\* handed to its executor.
Winner(th) == "YES" \in rets[th] \/ pc[th] \in SetPcs

OneWinner ==
    /\ \A t, u \in Threads : Winner(t) /\ Winner(u) => t = u
    /\ \A th \in Threads : "YES" \in rets[th] => Queued = {}

(* The inductive invariant behind these properties, in named parts. *)

\* The program counters say who owns the monitor and the mutex.
LockInv ==
    \A th \in Threads : /\ pc[th] \in LockPcs <=> lock = th
                        /\ pc[th] \in CondPcs <=> condOwner = th

\* A setter, a thread that found the task completed, or an executor with a
\* continuation to run, means the task is completed.
SetterInv ==
    /\ \A th \in Threads : pc[th] \in SetPcs \cup ExecPcs => Completed
    /\ dispatched # {} => Completed

\* No continuation is twice in the queue; those past the cursor have not run
\* and are nowhere else.
QueueInv ==
    /\ pos <= Len(callbacks)
    /\ pos # 0 => \E th \in Threads : pc[th] \in SetPcs
    /\ \A i, j \in 1..Len(callbacks) : callbacks[i] = callbacks[j] => i = j
    /\ \A i \in 1..Len(callbacks) :
          /\ callbacks[i] \in attached
          /\ i > pos => runs[callbacks[i]] = 0 /\ callbacks[i] \notin dispatched
          /\ \A th \in Threads : pc[th] \in ExecPcs => arg[th] # callbacks[i]

\* What a thread carries and what an executor holds has not run, and the two
\* never overlap; a continuation nobody attached has not run.
HandInv ==
    /\ \A th \in Threads :
          pc[th] \in ExecPcs =>
             /\ arg[th] \in attached \ dispatched
             /\ runs[arg[th]] = 0
             /\ \A t \in Threads \ {th} : pc[t] \in ExecPcs => arg[t] # arg[th]
    /\ \A c \in dispatched : c \in attached /\ runs[c] = 0
    /\ \A c \in Conts : runs[c] <= 1 /\ (c \notin attached => runs[c] = 0)

\* No attached continuation is lost before it has run.
NothingLost ==
    \A c \in attached : runs[c] = 0 => c \in Queued \cup Held \cup dispatched

\* A caller told "YES" completed the task, and never completes it again.
WinnerInv ==
    /\ \A t, u \in Threads : Winner(t) /\ Winner(u) => t = u
    /\ \A th \in Threads : "YES" \in rets[th] => Completed /\ pc[th] \notin SetPcs

IInv ==
    /\ TypeOK
    /\ LockInv
    /\ SetterInv
    /\ QueueInv
    /\ HandInv
    /\ NothingLost
    /\ NoCallbackStranded
    /\ NoLostWakeup
    /\ WinnerInv

-----------------------------------------------------------------------------
\* NSMutableArray must not change under the for-in of runContinuations, not
\* even by a continuation that calls continueWith on the same task: until the
\* enumeration is over the array stays as it is.
StableEnumeration ==
    [][\A th \in Threads :
          (pc[th] \in SetPcs /\ pc'[th] \in SetPcs) => callbacks' = callbacks]_vars

\* The task implements a promise.
RefinesPromise == Promise!PSpec

\* ... and keeps its promise to run what is attached, if it is ever completed.
RefinesFairPromise == Promise!PFairSpec

\* A thread in waitUntilFinished returns once the task is completed.
WaitersReturn ==
    \A th \in Threads :
        (Completed /\ pc[th] \in WaitPcs) ~> (pc[th] = "idle")
=============================================================================
