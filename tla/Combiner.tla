----------------------------- MODULE Combiner -----------------------------
(***************************************************************************)
(* grpc_combiner (gRPC-Core, src/core/lib/iomgr/combiner.cc), the lock     *)
(* without a lock under every gRPC channel: closures scheduled on a        *)
(* combiner by any thread run one at a time on a borrowed thread.  The     *)
(* thread that schedules the first one puts the combiner on the list of    *)
(* its grpc_exec_ctx and runs it when it flushes the list; if others       *)
(* contend, it hands the combiner to the executor.                         *)
(*                                                                         *)
(* Composed with Mpscq.  One action is one access to memory that other     *)
(* threads see; what only the owner of a combiner touches (final_list,     *)
(* time_to_execute_final_list, the links of the list) goes with the access *)
(* before it.  Closures a thread schedules on the exec_ctx itself, and an  *)
(* executor without threads, are left out.                                 *)
(***************************************************************************)
EXTENDS Naturals, Sequences, FiniteSets

CONSTANTS
    Apps,        \* threads that call into gRPC; each holds a reference to every combiner
    Executors,   \* threads of the executor
    Combiners,
    Closures,    \* bound: each is scheduled at most once
    Setups,      \* bound: which closures are for the scheduler, which for the
                 \* finally scheduler, which take references along, which threads
                 \* poll, and which combiners there are
    Null

ASSUME CombinerAssumption ==
    /\ Apps \cap Executors = {} /\ IsFiniteSet(Apps \cup Executors)
    /\ Combiners \cap Closures = {}
    /\ Setups \subseteq [now : SUBSET Closures, finally : SUBSET Closures,
                        carriers : SUBSET Closures,
                        pollers : SUBSET Apps, locks : SUBSET Combiners]
    /\ Null \notin Apps \cup Executors \cup Combiners \cup Closures \cup {"api", "cb"}

Workers == Apps \cup Executors

VARIABLES
    head, tail, next, op,  \* the queue of each combiner: see Mpscq
    state,         \* number of items * 2 + (1 unless orphaned)
    initiating,    \* initiating_exec_ctx_or_null
    timeFinal,     \* time_to_execute_final_list
    finalList,
    nextCombiner,  \* next_combiner_on_this_exec_ctx
    active,        \* per thread: exec_ctx->active_combiner
    lastOf,        \* per thread: exec_ctx->last_combiner
    finished,      \* per thread: GRPC_EXEC_CTX_FLAG_IS_FINISHED
    offloads,      \* per executor thread: its queue of offload closures
    refs,          \* per combiner: who holds a reference
    freed,         \* combiners that were freed
    setup,
    th,            \* per thread: where it is
    cb,            \* per closure: what runs when it is popped
    status,        \* per closure
    fifo,          \* per combiner: queued closures in the order of their exchange
    failed         \* a GPR_ASSERT failed, or unreachable code was reached

INSTANCE Mpscq WITH Threads <- Workers, Queues <- Combiners, Nodes <- Closures

queue    == <<head, tail, next, op>>
ctxVars  == <<nextCombiner, active, lastOf>>
lockVars == <<state, initiating, timeFinal, finalList>>
objVars  == <<refs, freed, setup>>
ghost    == <<status, fifo>>
vars     == <<queue, lockVars, ctxVars, finished, offloads, objVars, th, cb, ghost, failed>>

\* target and c are the arguments of the call under way and back where it returns to;
\* lock is the combiner whose turn this thread runs, cur the closure, finals the rest
\* of the final list.
Rest(pc) == [pc |-> pc, target |-> Null, c |-> Null, back |-> Null,
             lock |-> Null, cur |-> Null, finals |-> <<>>, inFinals |-> FALSE]

Pcs == {"api", "wait", "initiate", "check", "contend", "push", "link", "orphan", "flush",
        "peek", "pop", "popping", "cb", "finals", "done", "repush"}

ThreadType == [pc : Pcs, target : Combiners \cup {Null}, c : Closures \cup {Null},
               back : {"api", "cb", Null}, lock : Combiners \cup {Null},
               cur : Closures \cup {Null}, finals : Seq(Closures), inFinals : BOOLEAN]

TypeOK ==
    /\ QTypeOK
    /\ state \in [Combiners -> Nat]
    /\ initiating \in [Combiners -> Workers \cup {Null}]
    /\ timeFinal \in [Combiners -> BOOLEAN]
    /\ finalList \in [Combiners -> Seq(Closures)]
    /\ nextCombiner \in [Combiners -> Combiners \cup {Null}]
    /\ active \in [Workers -> Combiners \cup {Null}]
    /\ lastOf \in [Workers -> Combiners \cup {Null}]
    /\ finished \in [Workers -> BOOLEAN]
    /\ offloads \in [Executors -> Seq(Combiners)]
    /\ refs \in [Combiners -> SUBSET (Apps \cup Closures)]
    /\ freed \subseteq Combiners /\ setup \in Setups
    /\ th \in [Workers -> ThreadType]
    /\ cb \in [Closures -> {"run", "enqueue_finally"}]
    /\ status \in [Closures -> {"new", "scheduled", "ran"}]
    /\ fifo \in [Combiners -> Seq(Closures)]
    /\ failed \in BOOLEAN

\* grpc_combiner_create, and a reference for each application thread.  An exec_ctx of
\* an API call is born finished, one of a polling thread asks, an executor's never is.
Init ==
    /\ setup \in Setups
    /\ QInit
    /\ state = [l \in Combiners |-> 1]
    /\ initiating = [l \in Combiners |-> Null]
    /\ timeFinal = [l \in Combiners |-> FALSE]
    /\ finalList = [l \in Combiners |-> <<>>]
    /\ nextCombiner = [l \in Combiners |-> Null]
    /\ active = [t \in Workers |-> Null] /\ lastOf = [t \in Workers |-> Null]
    /\ finished = [t \in Workers |-> t \in Apps \ setup.pollers]
    /\ offloads = [x \in Executors |-> <<>>]
    /\ refs = [l \in Combiners |-> IF l \in setup.locks THEN Apps ELSE {}] /\ freed = {}
    /\ th = [t \in Workers |-> Rest(IF t \in Apps THEN "api" ELSE "wait")]
    /\ cb = [c \in Closures |-> "run"]
    /\ status = [c \in Closures |-> "new"]
    /\ fifo = [l \in Combiners |-> <<>>]
    /\ failed = FALSE

-----------------------------------------------------------------------------
(* The list of combiners of an exec_ctx                                    *)

PushLast(t, l) ==
    /\ IF active[t] = Null
       THEN /\ active' = [active EXCEPT ![t] = l]
            /\ nextCombiner' = [nextCombiner EXCEPT ![l] = Null]
       ELSE /\ nextCombiner' = [nextCombiner EXCEPT ![l] = Null, ![lastOf[t]] = l]
            /\ UNCHANGED active
    /\ lastOf' = [lastOf EXCEPT ![t] = l]

PushFirst(t, l) ==
    /\ nextCombiner' = [nextCombiner EXCEPT ![l] = active[t]]
    /\ active' = [active EXCEPT ![t] = l]
    /\ lastOf' = IF active[t] = Null THEN [lastOf EXCEPT ![t] = l] ELSE lastOf

MoveNext(t) ==
    LET n == nextCombiner[active[t]]
    IN  /\ active' = [active EXCEPT ![t] = n]
        /\ lastOf' = IF n = Null THEN [lastOf EXCEPT ![t] = Null] ELSE lastOf
        /\ UNCHANGED nextCombiner

-----------------------------------------------------------------------------
(* Scheduling                                                              *)

\* Who calls: the application, or the closure that runs.
Holder(t) == IF th[t].pc = "api" THEN t ELSE th[t].cur
MayCall(t) ==
    \/ th[t].pc = "api"
    \/ th[t].pc = "cb" /\ cb[th[t].cur] = "run"

\* A closure may take references to the combiners along (grpc_combiner_ref).
TakeRefs(t, c) ==
    refs' = [k \in Combiners |-> IF c \in setup.carriers /\ Holder(t) \in refs[k]
                                 THEN refs[k] \cup {c} ELSE refs[k]]

\* combiner_exec up to the addition.
CombinerExec(t, l, c) ==
    /\ state' = [state EXCEPT ![l] = @ + 2]
    /\ failed' = (failed \/ state[l] % 2 = 0)
    /\ th' = [th EXCEPT ![t] = [@ EXCEPT !.pc = IF state[l] = 1 THEN "initiate" ELSE "check",
                                         !.target = l, !.c = c, !.back = th[t].pc]]

\* A closure for grpc_combiner_scheduler.
Schedule(t, l, c) ==
    /\ MayCall(t) /\ Holder(t) \in refs[l] /\ status[c] = "new" /\ c \in setup.now
    /\ CombinerExec(t, l, c)
    /\ TakeRefs(t, c)
    /\ status' = [status EXCEPT ![c] = "scheduled"]
    /\ UNCHANGED <<queue, initiating, timeFinal, finalList, ctxVars, finished, offloads,
                   freed, setup, cb, fifo>>

\* Variant: the final list does not count as an item of the combiner.
FinallyAppendNoCount(l, c) ==
    /\ finalList' = [finalList EXCEPT ![l] = Append(@, c)]
    /\ UNCHANGED state

\* combiner_finally_exec in a thread whose active combiner this is.
FinallyAppend(l, c) ==
    /\ state' = IF finalList[l] = <<>> THEN [state EXCEPT ![l] = @ + 2] ELSE state
    /\ finalList' = [finalList EXCEPT ![l] = Append(@, c)]

\* A closure for grpc_combiner_finally_scheduler.  Elsewhere it is first queued as the
\* argument of enqueue_finally.
ScheduleFinally(t, l, c) ==
    /\ MayCall(t) /\ Holder(t) \in refs[l] /\ status[c] = "new" /\ c \in setup.finally
    /\ \/ /\ active[t] # l
          /\ cb' = [cb EXCEPT ![c] = "enqueue_finally"]
          /\ CombinerExec(t, l, c)
          /\ UNCHANGED finalList
       \/ /\ active[t] = l
          /\ FinallyAppend(l, c)
          /\ UNCHANGED <<th, cb, failed>>
    /\ TakeRefs(t, c)
    /\ status' = [status EXCEPT ![c] = "scheduled"]
    /\ UNCHANGED <<queue, initiating, timeFinal, ctxVars, finished, offloads, freed, setup,
                   fifo>>

\* combiner_exec, the first item: the combiner is this thread's.
Initiate(t) ==
    /\ th[t].pc = "initiate"
    /\ initiating' = [initiating EXCEPT ![th[t].target] = t]
    /\ PushLast(t, th[t].target)
    /\ th' = [th EXCEPT ![t].pc = "push"]
    /\ UNCHANGED <<queue, state, timeFinal, finalList, finished, offloads, objVars, cb,
                   ghost, failed>>

\* Not the first item: the load, and the store if another thread initiated.
CheckInitiator(t) ==
    /\ th[t].pc = "check"
    /\ th' = [th EXCEPT ![t].pc = IF initiating[th[t].target] \in {Null, t}
                                  THEN "push" ELSE "contend"]
    /\ UNCHANGED <<queue, lockVars, ctxVars, finished, offloads, objVars, cb, ghost, failed>>

Contend(t) ==
    /\ th[t].pc = "contend"
    /\ initiating' = [initiating EXCEPT ![th[t].target] = Null]
    /\ th' = [th EXCEPT ![t].pc = "push"]
    /\ UNCHANGED <<queue, state, timeFinal, finalList, ctxVars, finished, offloads, objVars,
                   cb, ghost, failed>>

Push(t) ==
    /\ th[t].pc = "push"
    /\ PushXchg(t, th[t].target, th[t].c)
    /\ fifo' = [fifo EXCEPT ![th[t].target] = Append(@, th[t].c)]
    /\ th' = [th EXCEPT ![t].pc = "link"]
    /\ UNCHANGED <<lockVars, ctxVars, finished, offloads, objVars, cb, status, failed>>

Link(t) ==
    /\ th[t].pc = "link"
    /\ PushLink(t)
    /\ th' = [th EXCEPT ![t] = [@ EXCEPT !.pc = th[t].back, !.target = Null, !.c = Null,
                                         !.back = Null]]
    /\ UNCHANGED <<lockVars, ctxVars, finished, offloads, objVars, cb, ghost, failed>>

-----------------------------------------------------------------------------
(* References                                                              *)

\* really_destroy, with the conditions it asserts; s is the value of state by then.
ReallyDestroy(l) ==
    /\ freed' = freed \cup {l}
    /\ failed' = (failed \/ state'[l] # 0 \/ ~QDestroyable(l))

\* grpc_combiner_unref
Unref(t, l) ==
    /\ MayCall(t) /\ Holder(t) \in refs[l]
    /\ refs' = [refs EXCEPT ![l] = @ \ {Holder(t)}]
    /\ th' = IF refs'[l] = {}
             THEN [th EXCEPT ![t] = [@ EXCEPT !.pc = "orphan", !.target = l, !.back = th[t].pc]]
             ELSE th
    /\ UNCHANGED <<queue, lockVars, ctxVars, finished, offloads, freed, setup, cb, ghost,
                   failed>>

\* Variant: the last reference frees the combiner although items are queued.
StartDestroyAlways(t) ==
    /\ th[t].pc = "orphan"
    /\ LET l == th[t].target
       IN  /\ state' = [state EXCEPT ![l] = @ - 1]
           /\ ReallyDestroy(l)
    /\ th' = [th EXCEPT ![t] = [@ EXCEPT !.pc = th[t].back, !.target = Null, !.back = Null]]
    /\ UNCHANGED <<queue, initiating, timeFinal, finalList, ctxVars, finished, offloads,
                   refs, setup, cb, ghost>>

\* start_destroy
StartDestroy(t) ==
    /\ th[t].pc = "orphan"
    /\ LET l == th[t].target
       IN  /\ state' = [state EXCEPT ![l] = @ - 1]
           /\ IF state[l] = 1 THEN ReallyDestroy(l) ELSE UNCHANGED <<freed, failed>>
    /\ th' = [th EXCEPT ![t] = [@ EXCEPT !.pc = th[t].back, !.target = Null, !.back = Null]]
    /\ UNCHANGED <<queue, initiating, timeFinal, finalList, ctxVars, finished, offloads,
                   refs, setup, cb, ghost>>

-----------------------------------------------------------------------------
(* grpc_exec_ctx_flush and grpc_combiner_continue_exec_ctx                 *)

\* The application calls grpc_exec_ctx_flush, or grpc_exec_ctx_finish.
Flush(t) ==
    /\ th[t].pc = "api" /\ active[t] # Null
    /\ \E f \in {finished[t], TRUE} : finished' = [finished EXCEPT ![t] = f]
    /\ th' = [th EXCEPT ![t].pc = "flush"]
    /\ UNCHANGED <<queue, lockVars, ctxVars, offloads, objVars, cb, ghost, failed>>

\* A thread of the executor runs the next closure of its list: offload.
Offload(x) ==
    /\ x \in Executors
    /\ th[x].pc = "wait" /\ offloads[x] # <<>>
    /\ PushLast(x, Head(offloads[x]))
    /\ offloads' = [offloads EXCEPT ![x] = Tail(@)]
    /\ th' = [th EXCEPT ![x].pc = "flush"]
    /\ UNCHANGED <<queue, lockVars, finished, objVars, cb, ghost, failed>>

\* queue_offload; executor_push takes one thread or another.
QueueOffload(t) ==
    /\ MoveNext(t)
    /\ \E x \in Executors : offloads' = [offloads EXCEPT ![x] = Append(@, active[t])]

\* grpc_exec_ctx_ready_to_finish
ReadyToFinish(t, ready) ==
    /\ ready \in IF finished[t] THEN {TRUE} ELSE IF t \in Apps THEN BOOLEAN ELSE {FALSE}
    /\ finished' = [finished EXCEPT ![t] = ready]

\* The first steps of grpc_combiner_continue_exec_ctx.
Continue(t) ==
    /\ th[t].pc = "flush"
    /\ LET l == active[t]
           turn(pc) == th' = [th EXCEPT ![t] = [@ EXCEPT !.pc = pc, !.lock = l]]
           go == turn(IF timeFinal[l] THEN "peek" ELSE "pop") /\ UNCHANGED <<ctxVars, offloads>>
       IN  \/ /\ l = Null
              /\ th' = [th EXCEPT ![t].pc = IF t \in Apps THEN "api" ELSE "wait"]
              /\ UNCHANGED <<ctxVars, offloads, finished>>
           \/ /\ l # Null /\ initiating[l] # Null
              /\ go /\ UNCHANGED finished
           \/ /\ l # Null /\ initiating[l] = Null
              /\ \/ ReadyToFinish(t, TRUE) /\ QueueOffload(t) /\ UNCHANGED th
                 \/ ReadyToFinish(t, FALSE) /\ go
    /\ UNCHANGED <<queue, lockVars, objVars, cb, ghost, failed>>

\* Is there more than the final list?  If not, take that.
Peek(t) ==
    /\ th[t].pc = "peek"
    /\ LET l == th[t].lock
       IN  \/ /\ state[l] \div 2 > 1
              /\ th' = [th EXCEPT ![t].pc = "pop"]
              /\ UNCHANGED <<finalList, failed>>
           \/ /\ state[l] \div 2 <= 1
              /\ failed' = (failed \/ finalList[l] = <<>>)
              /\ th' = [th EXCEPT ![t] = [@ EXCEPT !.pc = "finals", !.finals = finalList[l]]]
              /\ finalList' = [finalList EXCEPT ![l] = <<>>]
    /\ UNCHANGED <<queue, state, initiating, timeFinal, ctxVars, finished, offloads, objVars,
                   cb, ghost>>

StartPop(t) ==
    /\ th[t].pc = "pop"
    /\ PopStart(t, th[t].lock)
    /\ th' = [th EXCEPT ![t].pc = "popping"]
    /\ UNCHANGED <<lockVars, ctxVars, finished, offloads, objVars, cb, ghost, failed>>

GoOnPopping(t) ==
    /\ th[t].pc = "popping"
    /\ PopStep(t)
    /\ UNCHANGED <<th, lockVars, ctxVars, finished, offloads, objVars, cb, ghost, failed>>

\* Variant: the combiner is dropped when the queue looks empty.
PopFailedForgets(t) ==
    /\ th[t].pc = "popping" /\ op[t].pc = "popped" /\ op[t].n = Null
    /\ MoveNext(t)
    /\ th' = [th EXCEPT ![t] = Rest("flush")]
    /\ op' = [op EXCEPT ![t] = IdleOp]
    /\ UNCHANGED <<head, tail, next, offloads, lockVars, finished, objVars, cb, ghost, failed>>

\* The queue is in an inconsistent state: come back later, on the executor.
PopFailed(t) ==
    /\ th[t].pc = "popping" /\ op[t].pc = "popped" /\ op[t].n = Null
    /\ QueueOffload(t)
    /\ th' = [th EXCEPT ![t] = Rest("flush")]
    /\ op' = [op EXCEPT ![t] = IdleOp]
    /\ UNCHANGED <<head, tail, next, lockVars, finished, objVars, cb, ghost, failed>>

\* cl->cb begins.
PopSucceeded(t) ==
    /\ th[t].pc = "popping" /\ op[t].pc = "popped" /\ op[t].n # Null
    /\ th' = [th EXCEPT ![t] = [@ EXCEPT !.pc = "cb", !.cur = op[t].n]]
    /\ op' = [op EXCEPT ![t] = IdleOp]
    /\ fifo' = [fifo EXCEPT ![th[t].lock] = Tail(@)]
    /\ UNCHANGED <<head, tail, next, lockVars, ctxVars, finished, offloads, objVars, cb,
                   status, failed>>

\* enqueue_finally runs inside the combiner.
EnqueueFinally(t) ==
    /\ th[t].pc = "cb" /\ cb[th[t].cur] = "enqueue_finally"
    /\ FinallyAppend(th[t].lock, th[t].cur)
    /\ cb' = [cb EXCEPT ![th[t].cur] = "run"]
    /\ th' = [th EXCEPT ![t] = [@ EXCEPT !.pc = "done", !.cur = Null]]
    /\ UNCHANGED <<queue, initiating, timeFinal, ctxVars, finished, offloads, objVars, ghost,
                   failed>>

\* A closure returns; it has given its reference back.
Return(t) ==
    /\ th[t].pc = "cb" /\ cb[th[t].cur] = "run"
    /\ \A l \in Combiners : th[t].cur \notin refs[l]
    /\ status' = [status EXCEPT ![th[t].cur] = "ran"]
    /\ th' = [th EXCEPT ![t] = [@ EXCEPT !.pc = IF th[t].inFinals THEN "finals" ELSE "done",
                                         !.cur = Null]]
    /\ UNCHANGED <<queue, lockVars, ctxVars, finished, offloads, objVars, cb, fifo, failed>>

\* The next closure of the final list.
NextFinal(t) ==
    /\ th[t].pc = "finals"
    /\ th' = [th EXCEPT ![t] =
                IF @.finals = <<>> THEN [@ EXCEPT !.pc = "done", !.inFinals = FALSE]
                ELSE [@ EXCEPT !.pc = "cb", !.cur = Head(th[t].finals),
                               !.finals = Tail(th[t].finals), !.inFinals = TRUE]]
    /\ UNCHANGED <<queue, lockVars, ctxVars, finished, offloads, objVars, cb, ghost, failed>>

\* Variant: the thread keeps a combiner it has unlocked.
UnlockKeeps(t) ==
    /\ th[t].pc = "done"
    /\ MoveNext(t)
    /\ state' = [state EXCEPT ![th[t].lock] = @ - 2]
    /\ timeFinal' = [timeFinal EXCEPT ![th[t].lock] = FALSE]
    /\ th' = [th EXCEPT ![t].pc = "repush"]
    /\ UNCHANGED <<queue, initiating, finalList, finished, offloads, objVars, cb, ghost, failed>>

\* One item less: move_next, the subtraction and what depends on its result.
Unlock(t) ==
    /\ th[t].pc = "done"
    /\ MoveNext(t)
    /\ LET l   == th[t].lock
           old == state[l]
       IN  /\ state' = [state EXCEPT ![l] = @ - 2]
           /\ timeFinal' = [timeFinal EXCEPT ![l] = old \div 2 = 2 /\ finalList[l] # <<>>]
           /\ th' = [th EXCEPT ![t] = IF old \div 2 >= 2 THEN [@ EXCEPT !.pc = "repush"]
                                      ELSE Rest("flush")]
           /\ IF old = 2 THEN ReallyDestroy(l)
              ELSE failed' = (failed \/ old \div 2 = 0) /\ UNCHANGED freed
    /\ UNCHANGED <<queue, initiating, finalList, finished, offloads, refs, setup, cb, ghost>>

\* push_first_on_exec_ctx: the combiner keeps its place.
Repush(t) ==
    /\ th[t].pc = "repush"
    /\ PushFirst(t, th[t].lock)
    /\ th' = [th EXCEPT ![t] = Rest("flush")]
    /\ UNCHANGED <<queue, lockVars, finished, offloads, objVars, cb, ghost, failed>>

-----------------------------------------------------------------------------
\* What a thread does by itself once it is called.
Step(t) ==
    \/ Initiate(t) \/ CheckInitiator(t) \/ Contend(t) \/ Push(t) \/ Link(t)
    \/ StartDestroy(t)
    \/ Flush(t) \/ Offload(t) \/ Continue(t) \/ Peek(t)
    \/ StartPop(t) \/ GoOnPopping(t) \/ PopFailed(t) \/ PopSucceeded(t)
    \/ EnqueueFinally(t) \/ Return(t) \/ NextFinal(t) \/ Unlock(t) \/ Repush(t)
    \/ th[t].pc = "cb" /\ \E l \in Combiners : Unref(t, l)

Next ==
    \/ \E t \in Workers : Step(t)
    \/ \E t \in Workers, l \in Combiners, c \in Closures :
          Schedule(t, l, c) \/ ScheduleFinally(t, l, c)
    \/ \E t \in Apps, l \in Combiners : th[t].pc = "api" /\ Unref(t, l)

Spec == Init /\ [][Next]_vars

\* Every thread goes on, a closure returns, and an API call ends with a flush.
FairSpec == Spec /\ \A t \in Workers : WF_vars(Step(t))

-----------------------------------------------------------------------------
(* Why the safety properties hold: an inductive invariant                  *)

CallPcs == {"initiate", "check", "contend", "push", "link", "orphan"}
TurnPcs == {"peek", "pop", "popping", "cb", "finals", "done", "repush"}

\* The arguments of calls, and the combiner whose turn a thread runs: it is the first of
\* its exec_ctx, but for the moment between move_next and push_first.
PcInv ==
    \A t \in Workers :
        /\ th[t].pc \in CallPcs <=> th[t].target # Null
        /\ th[t].pc \in CallPcs <=> th[t].back # Null
        /\ th[t].pc \in {"initiate", "check", "contend", "push", "link"} <=> th[t].c # Null
        /\ th[t].lock # Null <=> th[t].pc \in TurnPcs \/ th[t].back = "cb"
        /\ th[t].cur # Null <=> "cb" \in {th[t].pc, th[t].back}
        /\ th[t].lock # Null /\ th[t].pc # "repush" => active[t] = th[t].lock

\* The bit of state that says somebody has a reference.
RefInv ==
    /\ \A l \in Combiners : refs[l] # {} => state[l] % 2 = 1
    /\ \A t \in Workers : th[t].pc = "orphan" =>
          /\ state[th[t].target] % 2 = 1 /\ refs[th[t].target] = {}
          /\ \A u \in Workers : th[u].pc = "orphan" /\ th[u].target = th[t].target => u = t

\* Where the turn of a combiner may be: with the thread that added the first item, on
\* the list of an exec_ctx, with the thread that puts it back there, or in a queue of the
\* executor.
Places == [how : {"none", "initiate", "list", "repush", "offload"}, by : Workers \cup {Null}]
At(how, t) == [how |-> how, by |-> t]

OffloadInv(place) ==
    \A x \in Executors : \A i \in DOMAIN offloads[x] :
        /\ place[offloads[x][i]] = At("offload", x)
        /\ \A j \in DOMAIN offloads[x] : offloads[x][i] = offloads[x][j] => i = j

\* There is at most one turn, and none unless items are counted.
TurnInv(place) ==
    /\ \A l \in Combiners : place[l].how # "none" => state[l] >= 2
    /\ \A t \in Workers :
          /\ th[t].pc = "initiate" => place[th[t].target] = At("initiate", t)
          /\ th[t].pc = "repush" => place[th[t].lock] = At("repush", t)
    /\ OffloadInv(place)

\* active_combiner, next_combiner_on_this_exec_ctx and last_combiner make a list.
ListInv(place) ==
    \A t \in Workers :
        /\ active[t] = Null <=> lastOf[t] = Null
        /\ active[t] # Null => place[active[t]] = At("list", t)
        /\ lastOf[t] # Null => place[lastOf[t]] = At("list", t) /\ nextCombiner[lastOf[t]] = Null
        /\ \A l \in Combiners : place[l] = At("list", t) /\ l # lastOf[t] =>
              /\ nextCombiner[l] \notin {Null, active[t]}
              /\ place[nextCombiner[l]] = At("list", t)
              /\ \A k \in Combiners : place[k] = At("list", t) /\ k # lastOf[t] =>
                    (nextCombiner[k] = nextCombiner[l] => k = l)

TurnsInv == \E place \in [Combiners -> Places] : TurnInv(place) /\ ListInv(place)

\* What push and pop are doing.
OpInv ==
    \A t \in Workers :
        /\ th[t].pc = "link" =>
              op[t].pc = "link" /\ op[t].q = th[t].target /\ op[t].n = th[t].c
        /\ th[t].pc = "popping" =>
              /\ op[t].q = th[t].lock
              /\ \/ /\ op[t].pc \in {"reload", "head", "stub", "link", "last"}
                    /\ op[t].tail = tail[op[t].q] /\ op[t].tail \in Closures
                    /\ op[t].pc = "link" => op[t].n = op[t].q
                 \/ /\ op[t].pc = "popped"
                    /\ op[t].n # Null => /\ fifo[op[t].q] # <<>>
                                         /\ op[t].n = Head(fifo[op[t].q])
        /\ th[t].pc \notin {"link", "popping"} => op[t].pc = "idle"

\* A closure that was not pushed is with one thread at most, one that was is in one queue.
AddPcs == {"initiate", "check", "contend", "push"}
ClosureInv ==
    /\ \A q \in Combiners : \A i \in DOMAIN fifo[q] :
          /\ status[fifo[q][i]] # "new"
          /\ \A p \in Combiners : \A j \in DOMAIN fifo[p] :
                fifo[q][i] = fifo[p][j] => q = p /\ i = j
    /\ \A t \in Workers : th[t].pc \in AddPcs =>
          /\ status[th[t].c] # "new"
          /\ \A u \in Workers : th[u].pc \in AddPcs /\ th[u].c = th[t].c => u = t
          /\ \A q \in Combiners : \A i \in DOMAIN fifo[q] : fifo[q][i] # th[t].c

\* The nodes of a queue: the closures in it but one that pop is about to return, and the
\* stub as the k-th node, unless k is 0.
PoppedFrom(q) == \E t \in Workers : op[t].pc = "popped" /\ op[t].q = q /\ op[t].n # Null
Queued(q)     == IF PoppedFrom(q) THEN Tail(fifo[q]) ELSE fifo[q]
Chain(f, q, k) ==
    [i \in 1 .. (IF k = 0 THEN Len(f) ELSE Len(f) + 1) |->
        IF k = 0 \/ i < k THEN f[i] ELSE IF i = k THEN q ELSE f[i - 1]]

\* Each node is linked to the next one, or a push is about to link it.
Linking(t, q, a, b) ==
    op[t].pc = "link" /\ op[t].q = q /\ op[t].prev = a /\ op[t].n = b
ChainOf(q, s) ==
    /\ Len(s) >= 1 /\ tail[q] = s[1] /\ head[q] = s[Len(s)] /\ next[head[q]] = Null
    /\ \A i \in 1 .. Len(s) - 1 :
          \/ next[s[i]] = s[i + 1]
          \/ next[s[i]] = Null /\ \E t \in Workers : Linking(t, q, s[i], s[i + 1])
    /\ \A t \in Workers : op[t].pc = "link" /\ op[t].q = q =>
          /\ \E i \in 1 .. Len(s) - 1 : Linking(t, q, s[i], s[i + 1]) /\ next[s[i]] = Null
          /\ \A u \in Workers :
                op[u].pc = "link" /\ op[u].q = q /\ op[u].prev = op[t].prev => u = t

\* A pop about to push the stub finds it outside the queue.
Chained(q) ==
    \E k \in 0 .. Len(Queued(q)) + 1 :
        /\ ChainOf(q, Chain(Queued(q), q, k))
        /\ \A t \in Workers : op[t].pc = "stub" /\ op[t].q = q => k = 0
ChainInv == \A q \in Combiners : Chained(q)

\* The items state counts: closures being added or queued, the one that runs or the final
\* list that runs, and the final list to be run.
Adding(l)  == {t \in Workers : th[t].pc \in AddPcs /\ th[t].target = l}
Running(l) == \E t \in Workers : /\ th[t].lock = l
                                 /\ th[t].pc \notin {"peek", "pop", "popping", "repush"}
CountInv ==
    \A l \in Combiners :
        state[l] \div 2 = Cardinality(Adding(l)) + Len(fifo[l])
                          + (IF Running(l) THEN 1 ELSE 0)
                          + (IF finalList[l] = <<>> THEN 0 ELSE 1)

\* Time to execute the final list: there is one, or it is being executed.
FinalInv ==
    /\ \A l \in Combiners :
          timeFinal[l] => state[l] >= 2 /\ (finalList[l] # <<>> \/ Running(l))
    /\ \A t \in Workers : th[t].pc = "peek" => timeFinal[th[t].lock]

FreedInv == ~failed /\ \A l \in freed : state[l] = 0

IInv == /\ TypeOK /\ PcInv /\ RefInv /\ TurnsInv /\ OpInv /\ ClosureInv /\ ChainInv
        /\ CountInv /\ FinalInv /\ FreedInv

-----------------------------------------------------------------------------
(* Properties                                                              *)

\* combiner.h: closures of a combiner are executed serially; two threads never have
\* the turn of one combiner, whoever initiated, offloaded or re-queued it.
OneThreadInside ==
    \A l \in Combiners, t, u \in Workers : (th[t].lock = l /\ th[u].lock = l) => t = u

\* A pop that returns a closure returns the oldest one that was pushed, through
\* every interleaving of half-linked pushes with the re-insertion of the stub.
PopsInOrder ==
    \A t \in Workers :
        (op[t].pc = "popped" /\ op[t].n # Null) =>
            fifo[op[t].q] # <<>> /\ op[t].n = Head(fifo[op[t].q])

\* A combiner is freed with its queue empty and when no exec_ctx lists it, no thread
\* works on it and no offload waits for it; and no GPR_ASSERT of combiner.cc fails.
FreedOnlyWhenUnused ==
    /\ ~failed
    /\ \A l \in freed :
          /\ fifo[l] = <<>> /\ finalList[l] = <<>>
          /\ \A t \in Workers : l \notin {th[t].lock, active[t], lastOf[t]}
          /\ \A t \in Workers : th[t].target = l => th[t].pc = "orphan"
          /\ \A t \in Workers : active[t] # lastOf[t] => nextCombiner[active[t]] # l
          /\ \A x \in Executors, i \in 1 .. Cardinality(Closures) + 1 :
                i \in DOMAIN offloads[x] => offloads[x][i] # l

\* combiner.h: a finally closure is executed within the lock just prior to unlocking:
\* an unlocked combiner has an empty final list.
FinalListRunsBeforeUnlock ==
    \A l \in Combiners : state[l] < 2 => finalList[l] = <<>> /\ ~timeFinal[l]

\* In the end every closure that was scheduled has run, although pops fail while pushes
\* are half done and combiners wander between threads, and a combiner nobody refers to
\* is freed.  (Finitely many closures are scheduled.)
EveryClosureRuns ==
    <>[](/\ \A c \in Closures : status[c] # "scheduled"
         /\ \A l \in setup.locks : refs[l] = {} => l \in freed)
=============================================================================
