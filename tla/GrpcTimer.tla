----------------------------- MODULE GrpcTimer -----------------------------
(***************************************************************************)
(* gRPC-Core's timers: the timer list (src/core/lib/iomgr/timer_generic.cc *)
(* with the heap of timer_heap.cc) and the threads that wait for it        *)
(* (timer_manager.cc).  grpc_timer_init puts a timer into the heap of the  *)
(* shard, or into its unordered list when the deadline is not before       *)
(* queue_deadline_cap; a pool of threads checks the deadlines; one of them *)
(* sleeps until the next one, the others until they are kicked.            *)
(*                                                                         *)
(* GPR_MIN(1, 2 * cores) makes one shard, so the queue of shards is that   *)
(* shard.  The heap is the set of its timers.  A section under a mutex is  *)
(* one step; the check holds g_shared_mutables.mu over several.            *)
(***************************************************************************)
EXTENDS Integers, FiniteSets, FiniteSetsExt

CONSTANTS
    Timers,
    Deadlines,    \* deadlines to ask for
    Pool,         \* bound: identities of timer threads
    Deltas,       \* widths refill_heap may compute for the queue window
    MaxNow,       \* bound: the last reading of the clock
    LastInit,     \* bound: when the application last adds a timer (MaxNow: no bound)
    AtmMax,       \* GPR_ATM_MAX, GRPC_MILLIS_INF_FUTURE
    Nobody

ASSUME GrpcTimerAssumption ==
    /\ {MaxNow, LastInit, AtmMax} \subseteq Nat /\ Deadlines \subseteq 0 .. AtmMax
    /\ Deltas \subseteq Nat \ {0} /\ Deltas # {}
    /\ \A d \in Deltas : MaxNow + d < AtmMax
    /\ Nobody \notin Pool \cup Timers
    /\ Pool # {} /\ IsFiniteSet(Pool) /\ Pool \cap Timers = {}

VARIABLES
    now,
    timer,          \* [dl, at, calls, err]: at is "unset", "heap", "list" or "done"
    adding,         \* grpc_timer_init behind the shard's lock: "no", "first", "kick"
    cap,            \* shard->queue_deadline_cap
    minDeadline,    \* shard->min_deadline
    minTimer,       \* g_shared_mutables.min_timer
    mu,             \* who holds g_shared_mutables.mu
    checker,        \* who holds g_shared_mutables.checker_mu
    initialized,
    th,             \* the timer threads
    tls,            \* g_last_seen_min_timer
    threaded, threadCount, waiterCount, kicked, hasTimedWaiter, timedDeadline,
    timedWaiter,    \* whose generation is g_timed_waiter_generation
    stopping,       \* stop_threads: "no", "waiting", "stopped"
    lost            \* history: when the checker that made a woken thread give up will wake

shardVars == <<timer, cap>>
sharedVars == <<minDeadline, minTimer>>
waitVars  == <<kicked, hasTimedWaiter, timedDeadline, timedWaiter>>
poolVars  == <<threaded, threadCount, waiterCount, stopping>>
vars == <<now, shardVars, adding, sharedVars, mu, checker, initialized, th, tls, waitVars,
          poolVars, lost>>

Unset == [dl |-> 0, at |-> "unset", calls |-> 0, err |-> "none"]
\* now and next are locals of the loop, until is the argument of gpr_cv_wait.
NewThread(pc) == [pc |-> pc, now |-> 0, next |-> AtmMax, until |-> AtmMax, min |-> 0,
                  fired |-> FALSE]

WaitFor(next) == [NewThread("wait") EXCEPT !.next = next]

Pcs == {"none", "loop", "load", "trylock", "lock", "scan", "setmin", "finish", "unlock",
        "fired", "flush", "wait", "asleep", "awake", "exit", "completed"}

TimerType  == [dl : 0 .. AtmMax, at : {"unset", "heap", "list", "done"}, calls : 0 .. 2,
               err : {"none", "cancelled", "shutdown", "uninitialized"}]
ThreadType == [pc : Pcs, now : 0 .. AtmMax, next : 0 .. AtmMax, until : 0 .. AtmMax,
               min : 0 .. AtmMax, fired : BOOLEAN]

TypeOK ==
    /\ now \in 0 .. MaxNow
    /\ timer \in [Timers -> TimerType]
    /\ adding \in [Timers -> {"no", "first", "kick"}]
    /\ cap \in 0 .. AtmMax /\ minDeadline \in 0 .. AtmMax
    /\ minTimer \in 0 .. AtmMax /\ timedDeadline \in 0 .. AtmMax
    /\ mu \in Pool \cup Timers \cup {Nobody} /\ checker \in Pool \cup {Nobody}
    /\ initialized \in BOOLEAN
    /\ th \in [Pool -> ThreadType]
    /\ tls \in [Pool -> 0 .. AtmMax]
    /\ threaded \in BOOLEAN /\ kicked \in BOOLEAN /\ hasTimedWaiter \in BOOLEAN
    /\ threadCount \in 0 .. Cardinality(Pool) /\ waiterCount \in 0 .. Cardinality(Pool)
    /\ timedWaiter \in Pool \cup {Nobody}
    /\ stopping \in {"no", "waiting", "stopped"} /\ lost \in 0 .. AtmMax

SaturatingAdd(a, b) == IF a > AtmMax - b THEN AtmMax ELSE a + b

Heap == {t \in Timers : timer[t].at = "heap"}
ComputeMinDeadline(tm, c) ==
    LET h == {t \in Timers : tm[t].at = "heap"}
    IN  IF h = {} THEN SaturatingAdd(c, 1) ELSE Min({tm[t].dl : t \in h})

\* grpc_timer_list_init, then grpc_timer_manager_init and its first thread.
Init ==
    /\ now = 0
    /\ timer = [t \in Timers |-> Unset] /\ adding = [t \in Timers |-> "no"]
    /\ cap = 0 /\ minTimer = 0 /\ minDeadline = ComputeMinDeadline(timer, 0)
    /\ mu = Nobody /\ checker = Nobody /\ initialized = TRUE
    /\ th = [j \in Pool |-> NewThread(IF j = CHOOSE i \in Pool : TRUE THEN "loop" ELSE "none")]
    /\ tls = [i \in Pool |-> 0]
    /\ threaded = TRUE /\ threadCount = 1 /\ waiterCount = 1 /\ stopping = "no"
    /\ kicked = FALSE /\ hasTimedWaiter = FALSE /\ timedDeadline = AtmMax /\ timedWaiter = Nobody
    /\ lost = 0

\* Nobody can do anything before time passes or the application calls.
Quiet ==
    /\ \A i \in Pool : \/ th[i].pc \in {"none", "completed"}
                       \/ th[i].pc = "asleep" /\ th[i].until > now
    /\ \A t \in Timers : adding[t] = "no"

\* Bound: when no more timers are added, the clock waits for the threads.
Tick ==
    /\ now < MaxNow /\ now' = now + 1
    /\ now < LastInit \/ Quiet
    /\ UNCHANGED <<shardVars, adding, sharedVars, mu, checker, initialized, th, tls, waitVars,
                   poolVars, lost>>

-----------------------------------------------------------------------------
(* The timer list                                                          *)

\* The closure of a timer is scheduled with an error.
Called(tm, t, e) ==
    [tm EXCEPT ![t] = [dl |-> tm[t].dl, at |-> "done", calls |-> tm[t].calls + 1, err |-> e]]

\* grpc_timer_init under the shard's lock.  The exec_ctx may have cached an older time.
\* Without a timer list the closure is called with an error.
TimerInit(t, d) ==
    /\ timer[t].at = "unset" /\ now <= LastInit
    /\ \/ /\ ~initialized
          /\ timer' = Called([timer EXCEPT ![t].dl = d], t, "uninitialized")
          /\ UNCHANGED adding
       \/ /\ initialized
          /\ \E n \in 0 .. now :
                IF d <= n
                THEN /\ timer' = Called([timer EXCEPT ![t].dl = d], t, "none")
                     /\ UNCHANGED adding
                ELSE /\ timer' = [timer EXCEPT ![t].dl = d,
                                               ![t].at = IF d < cap THEN "heap" ELSE "list"]
                     /\ adding' = IF d < cap /\ \A u \in Heap : d < timer[u].dl
                                  THEN [adding EXCEPT ![t] = "first"] ELSE adding
    /\ UNCHANGED <<now, cap, sharedVars, mu, checker, initialized, th, tls, waitVars,
                   poolVars, lost>>

\* grpc_timer_init under g_shared_mutables.mu: the deadline may be the earliest.
TimerInitAdjust(t) ==
    /\ adding[t] = "first" /\ mu = Nobody
    /\ LET d == timer[t].dl
       IN  IF d < minDeadline
           THEN /\ minDeadline' = d /\ minTimer' = d
                /\ adding' = [adding EXCEPT ![t] = "kick"] /\ mu' = t
           ELSE /\ adding' = [adding EXCEPT ![t] = "no"]
                /\ UNCHANGED <<sharedVars, mu>>
    /\ UNCHANGED <<now, shardVars, checker, initialized, th, tls, waitVars, poolVars, lost>>

\* gpr_cv_signal(&g_cv_wait): one of the sleepers wakes up.
Signal(threads) ==
    LET asleep == {i \in Pool : threads[i].pc = "asleep"}
    IN  IF asleep = {} THEN th' = threads
        ELSE \E i \in asleep : th' = [threads EXCEPT ![i] = NewThread("awake")]

\* grpc_kick_poller
KickPoller(t) ==
    /\ adding[t] = "kick"
    /\ kicked' = TRUE /\ hasTimedWaiter' = FALSE /\ timedDeadline' = AtmMax
    /\ timedWaiter' = Nobody
    /\ Signal(th)
    /\ adding' = [adding EXCEPT ![t] = "no"] /\ mu' = Nobody
    /\ UNCHANGED <<now, shardVars, sharedVars, checker, initialized, tls, poolVars, lost>>

\* Variant: a timer that is not pending is called again.
TimerCancelAgain(t) ==
    /\ timer[t].at # "unset" /\ initialized /\ adding[t] = "no"
    /\ timer[t].err # "cancelled"
    /\ timer' = Called(timer, t, "cancelled")
    /\ UNCHANGED <<now, cap, adding, sharedVars, mu, checker, initialized, th, tls, waitVars,
                   poolVars, lost>>

\* grpc_timer_cancel, after the grpc_timer_init of the timer; if it is not pending,
\* nothing happens.
TimerCancel(t) ==
    /\ timer[t].at \in {"heap", "list"} /\ initialized /\ adding[t] = "no"
    /\ timer' = Called(timer, t, "cancelled")
    /\ UNCHANGED <<now, cap, adding, sharedVars, mu, checker, initialized, th, tls, waitVars,
                   poolVars, lost>>

\* pop_one until it returns nothing, at time n: timers due leave the heap, and when none
\* is left and the window is over, refill_heap moves the window by delta and takes the
\* timers in it out of the list.  A second refill finds nothing: the window is past n, or
\* n is GPR_ATM_MAX and the list has no more to give.
PopAll(tm, c, n, delta, e) ==
    LET heap   == {t \in Timers : tm[t].at = "heap"}
        refill == n >= c /\ \A t \in heap : tm[t].dl <= n
        c2     == IF refill THEN SaturatingAdd(n, delta) ELSE c
        moved  == {t \in Timers : refill /\ tm[t].at = "list" /\ tm[t].dl < c2}
    IN  [cap |-> c2,
         tm  |-> [t \in Timers |->
                     IF t \notin heap \cup moved THEN tm[t]
                     ELSE IF tm[t].dl <= n THEN Called(tm, t, e)[t]
                     ELSE [tm[t] EXCEPT !.at = "heap"]]]

Fires(tm) == \E t \in Timers : tm[t].at = "done" /\ timer[t].at # "done"

-----------------------------------------------------------------------------
(* grpc_timer_check in a timer thread                                      *)

Step(i, pc) == th' = [th EXCEPT ![i].pc = pc]

\* The time is read afresh; the thread's own copy of min_timer spares the rest.
CheckTls(i) ==
    /\ th[i].pc = "loop"
    /\ th' = [th EXCEPT ![i] = IF now < tls[i]
                               THEN WaitFor(tls[i])
                               ELSE [NewThread("load") EXCEPT !.now = now]]
    /\ UNCHANGED <<now, shardVars, adding, sharedVars, mu, checker, initialized, tls, waitVars,
                   poolVars, lost>>

\* run_some_expired_timers: the load of min_timer.
LoadMinTimer(i) ==
    /\ th[i].pc = "load"
    /\ tls' = [tls EXCEPT ![i] = minTimer]
    /\ th' = [th EXCEPT ![i] = IF @.now < minTimer THEN WaitFor(minTimer)
                               ELSE [@ EXCEPT !.pc = "trylock"]]
    /\ UNCHANGED <<now, shardVars, adding, sharedVars, mu, checker, initialized, waitVars,
                   poolVars, lost>>

\* Checkers that have released g_shared_mutables.mu and not yet checker_mu, and will sleep
\* longer than min_timer by now says.
Oversleeping ==
    {j \in Pool : th[j].pc = "unlock" /\ ~th[j].fired /\ th[j].next > minTimer}

\* Somebody else is checking: GRPC_TIMERS_NOT_CHECKED, sleep forever.
TryLockChecker(i) ==
    /\ th[i].pc = "trylock"
    /\ \/ /\ checker = Nobody /\ checker' = i /\ Step(i, "lock")
          /\ UNCHANGED lost
       \/ /\ checker # Nobody /\ th' = [th EXCEPT ![i] = WaitFor(AtmMax)]
          /\ lost' = IF checker \in Oversleeping THEN th[checker].next ELSE lost
          /\ UNCHANGED checker
    /\ UNCHANGED <<now, shardVars, adding, sharedVars, mu, initialized, tls, waitVars,
                   poolVars>>

LockShared(i) ==
    /\ th[i].pc = "lock" /\ mu = Nobody
    /\ mu' = i /\ Step(i, "scan")
    /\ UNCHANGED <<now, shardVars, adding, sharedVars, checker, initialized, tls, waitVars,
                   poolVars, lost>>

\* One turn of the loop: pop_timers under the shard's lock, or nothing is due.
Scan(i) ==
    /\ th[i].pc = "scan"
    /\ \/ /\ minDeadline > th[i].now
          /\ Step(i, "finish")
          /\ UNCHANGED shardVars
       \/ /\ minDeadline <= th[i].now
          /\ \E delta \in Deltas :
                LET r == PopAll(timer, cap, th[i].now, delta, "none")
                IN  /\ timer' = r.tm /\ cap' = r.cap
                    /\ th' = [th EXCEPT ![i] =
                                [th[i] EXCEPT !.pc = "setmin",
                                              !.min = ComputeMinDeadline(r.tm, r.cap),
                                              !.fired = th[i].fired \/ Fires(r.tm)]]
    /\ UNCHANGED <<now, adding, sharedVars, mu, checker, initialized, tls, waitVars, poolVars,
                   lost>>

SetMinDeadline(i) ==
    /\ th[i].pc = "setmin"
    /\ minDeadline' = th[i].min
    /\ th' = [th EXCEPT ![i] = [@ EXCEPT !.pc = "scan", !.min = 0]]
    /\ UNCHANGED <<now, shardVars, adding, minTimer, mu, checker, initialized, tls, waitVars,
                   poolVars, lost>>

\* The next deadline is noted and g_shared_mutables.mu released.
FinishCheck(i) ==
    /\ th[i].pc = "finish"
    /\ minTimer' = minDeadline /\ mu' = Nobody /\ lost' = 0
    /\ th' = [th EXCEPT ![i] = [@ EXCEPT !.pc = "unlock", !.next = minDeadline]]
    /\ UNCHANGED <<now, shardVars, adding, minDeadline, checker, initialized, tls, waitVars,
                   poolVars>>

\* checker_mu is released after it, and grpc_timer_check returns.
UnlockChecker(i) ==
    /\ th[i].pc = "unlock"
    /\ checker' = Nobody
    /\ th' = [th EXCEPT ![i] = IF @.fired THEN NewThread("fired") ELSE WaitFor(@.next)]
    /\ UNCHANGED <<now, shardVars, adding, sharedVars, mu, initialized, tls, waitVars, poolVars,
                   lost>>

-----------------------------------------------------------------------------
(* timer_manager.cc                                                        *)

\* Bound: the pool has a thread to start.
PoolLeft   == \E j \in Pool : th[j].pc = "none"
FreeThread == CHOOSE j \in Pool : th[j].pc = "none"

\* run_some_timers: one waiter less; the last one starts a thread
\* (start_timer_thread_and_unlock), another one makes sure that somebody waits for the
\* next deadline.
RunSomeTimers(i) ==
    /\ th[i].pc = "fired"
    /\ IF waiterCount = 1 /\ threaded
       THEN /\ PoolLeft
            /\ threadCount' = threadCount + 1
            /\ th' = [th EXCEPT ![i] = NewThread("flush"), ![FreeThread] = NewThread("loop")]
            /\ tls' = [tls EXCEPT ![FreeThread] = 0]
            /\ UNCHANGED waiterCount
       ELSE /\ waiterCount' = waiterCount - 1
            /\ LET t2 == [th EXCEPT ![i] = NewThread("flush")]
               IN  IF hasTimedWaiter THEN th' = t2 ELSE Signal(t2)
            /\ UNCHANGED <<threadCount, tls>>
    /\ UNCHANGED <<now, shardVars, adding, sharedVars, mu, checker, initialized, waitVars,
                   threaded, stopping, lost>>

\* The callbacks ran; completed threads are joined; a waiter again.
FlushedTimers(i) ==
    /\ th[i].pc = "flush"
    /\ th' = [j \in Pool |-> IF j = i THEN NewThread("loop")
                             ELSE IF th[j].pc = "completed" THEN NewThread("none") ELSE th[j]]
    /\ waiterCount' = waiterCount + 1
    /\ UNCHANGED <<now, shardVars, adding, sharedVars, mu, checker, initialized, tls, waitVars,
                   threaded, threadCount, stopping, lost>>

\* Variant: a kick that came between the check and the wait is not looked at.
WaitUntilMissesKick(i) ==
    /\ th[i].pc = "wait" /\ threaded
    /\ IF th[i].next # AtmMax /\ (~hasTimedWaiter \/ th[i].next < timedDeadline)
       THEN /\ hasTimedWaiter' = TRUE /\ timedDeadline' = th[i].next /\ timedWaiter' = i
            /\ th' = [th EXCEPT ![i] = [NewThread("asleep") EXCEPT !.until = th[i].next]]
       ELSE /\ th' = [th EXCEPT ![i] = NewThread("asleep")]
            /\ UNCHANGED <<hasTimedWaiter, timedDeadline, timedWaiter>>
    /\ UNCHANGED <<now, shardVars, adding, sharedVars, mu, checker, initialized, tls, kicked,
                   poolVars, lost>>

\* wait_until up to gpr_cv_wait.
WaitUntil(i) ==
    /\ th[i].pc = "wait"
    /\ \/ /\ ~threaded
          /\ th' = [th EXCEPT ![i] = NewThread("exit")]
          /\ UNCHANGED <<tls, waitVars>>
       \/ /\ threaded /\ kicked
          /\ kicked' = FALSE /\ tls' = [tls EXCEPT ![i] = 0]
          /\ th' = [th EXCEPT ![i] = NewThread("loop")]
          /\ UNCHANGED <<hasTimedWaiter, timedDeadline, timedWaiter>>
       \/ /\ threaded /\ ~kicked
          /\ IF th[i].next # AtmMax /\ (~hasTimedWaiter \/ th[i].next < timedDeadline)
             THEN /\ hasTimedWaiter' = TRUE /\ timedDeadline' = th[i].next /\ timedWaiter' = i
                  /\ th' = [th EXCEPT ![i] = [NewThread("asleep") EXCEPT !.until = th[i].next]]
             ELSE /\ th' = [th EXCEPT ![i] = NewThread("asleep")]
                  /\ UNCHANGED <<hasTimedWaiter, timedDeadline, timedWaiter>>
          /\ UNCHANGED <<tls, kicked>>
    /\ UNCHANGED <<now, shardVars, adding, sharedVars, mu, checker, initialized, poolVars,
                   lost>>

\* gpr_cv_wait times out.
TimeOut(i) ==
    /\ th[i].pc = "asleep" /\ th[i].until <= now
    /\ th' = [th EXCEPT ![i] = NewThread("awake")]
    /\ UNCHANGED <<now, shardVars, adding, sharedVars, mu, checker, initialized, tls, waitVars,
                   poolVars, lost>>

\* wait_until after gpr_cv_wait.
WaitOver(i) ==
    /\ th[i].pc = "awake"
    /\ IF timedWaiter = i
       THEN hasTimedWaiter' = FALSE /\ timedDeadline' = AtmMax
       ELSE UNCHANGED <<hasTimedWaiter, timedDeadline>>
    /\ tls' = IF kicked THEN [tls EXCEPT ![i] = 0] ELSE tls
    /\ kicked' = FALSE
    /\ timedWaiter' = IF timedWaiter = i THEN Nobody ELSE timedWaiter
    /\ th' = [th EXCEPT ![i] = NewThread("loop")]
    /\ UNCHANGED <<now, shardVars, adding, sharedVars, mu, checker, initialized, poolVars,
                   lost>>

\* timer_thread_cleanup
ThreadExit(i) ==
    /\ th[i].pc = "exit"
    /\ waiterCount' = waiterCount - 1 /\ threadCount' = threadCount - 1
    /\ Step(i, "completed")
    /\ UNCHANGED <<now, shardVars, adding, sharedVars, mu, checker, initialized, tls, waitVars,
                   threaded, stopping, lost>>

\* Variant: the sleepers are not woken.
StopThreadsQuietly ==
    /\ threaded
    /\ threaded' = FALSE /\ stopping' = "waiting"
    /\ UNCHANGED <<now, shardVars, adding, sharedVars, mu, checker, initialized, th, tls, waitVars,
                   threadCount, waiterCount, lost>>

\* grpc_timer_manager_shutdown: stop_threads, with its broadcast
StopThreads ==
    /\ threaded
    /\ threaded' = FALSE /\ stopping' = "waiting"
    /\ th' = [i \in Pool |-> IF th[i].pc = "asleep" THEN NewThread("awake") ELSE th[i]]
    /\ UNCHANGED <<now, shardVars, adding, sharedVars, mu, checker, initialized, tls, waitVars,
                   threadCount, waiterCount, lost>>

\* The threads are gone and joined.
StopThreadsReturns ==
    /\ stopping = "waiting" /\ threadCount = 0
    /\ stopping' = "stopped"
    /\ th' = [i \in Pool |-> IF th[i].pc = "completed" THEN NewThread("none") ELSE th[i]]
    /\ UNCHANGED <<now, shardVars, adding, sharedVars, mu, checker, initialized, tls, waitVars,
                   threaded, threadCount, waiterCount, lost>>

\* run_some_expired_timers at GPR_ATM_MAX by the thread that shuts gRPC down, with the
\* error "Shutting down timer system".
CheckAtTheEnd ==
    /\ stopping = "stopped" /\ initialized /\ mu = Nobody /\ checker = Nobody
    /\ \/ /\ minDeadline < AtmMax
          /\ \E delta \in Deltas :
                LET r == PopAll(timer, cap, AtmMax, delta, "shutdown")
                    m == ComputeMinDeadline(r.tm, r.cap)
                IN  timer' = r.tm /\ cap' = r.cap /\ minDeadline' = m /\ minTimer' = m
       \/ /\ minDeadline = AtmMax /\ minTimer' = AtmMax
          /\ UNCHANGED <<shardVars, minDeadline>>
    /\ UNCHANGED <<now, adding, mu, checker, th, tls, waitVars, poolVars, lost>>

\* A turn of the loop of grpc_iomgr_shutdown; timers may still be added.
IomgrShutdownCheck == CheckAtTheEnd /\ UNCHANGED initialized

\* grpc_timer_list_shutdown, with no grpc_timer_init under way.
TimerListShutdown ==
    /\ \A t \in Timers : adding[t] = "no"
    /\ CheckAtTheEnd /\ initialized' = FALSE

-----------------------------------------------------------------------------
ThreadStep(i) ==
    \/ CheckTls(i) \/ LoadMinTimer(i) \/ TryLockChecker(i) \/ LockShared(i)
    \/ Scan(i) \/ SetMinDeadline(i) \/ FinishCheck(i) \/ UnlockChecker(i)
    \/ RunSomeTimers(i) \/ FlushedTimers(i)
    \/ WaitUntil(i) \/ TimeOut(i) \/ WaitOver(i) \/ ThreadExit(i)

AddStep(t) == TimerInitAdjust(t) \/ KickPoller(t)

Next ==
    \/ Tick
    \/ \E t \in Timers : AddStep(t) \/ TimerCancel(t) \/ \E d \in Deadlines : TimerInit(t, d)
    \/ \E i \in Pool : ThreadStep(i)
    \/ StopThreads \/ StopThreadsReturns \/ IomgrShutdownCheck \/ TimerListShutdown

Spec == Init /\ [][Next]_vars

\* Threads go on, mutexes are given to those who wait, time passes, and grpc_shutdown goes on.
FairSpec ==
    /\ Spec
    /\ WF_vars(Tick) /\ WF_vars(StopThreadsReturns) /\ WF_vars(TimerListShutdown)
    /\ \A i \in Pool : WF_vars(ThreadStep(i))
    /\ \A t \in Timers : WF_vars(AddStep(t))

-----------------------------------------------------------------------------
(* Why the safety properties hold: an inductive invariant                  *)

ScanPcs  == {"scan", "setmin", "finish"}
CheckPcs == ScanPcs \cup {"lock", "unlock"}
LivePcs  == Pcs \ {"none", "completed"}

Live    == {i \in Pool : th[i].pc \in LivePcs}
Waiters == {i \in Pool : th[i].pc \in LivePcs \ {"flush"}}

\* g_thread_count and g_waiter_count count threads; one runs as long as they are wanted.
CountInv ==
    /\ threadCount = Cardinality(Live) /\ waiterCount = Cardinality(Waiters)
    /\ threaded => Live # {}
    /\ \A i \in Pool : th[i].pc = "exit" => ~threaded

\* Who holds checker_mu and mu.
LockInv ==
    /\ \A i \in Pool : th[i].pc \in CheckPcs <=> checker = i
    /\ \A i \in Pool : th[i].pc \in ScanPcs <=> mu = i
    /\ \A t \in Timers : adding[t] = "kick" <=> mu = t

\* queue_deadline_cap splits the timers.
ShardInv ==
    \A t \in Timers : /\ timer[t].at = "heap" => timer[t].dl < cap
                      /\ timer[t].at = "list" => timer[t].dl >= cap
                      /\ adding[t] # "no" => timer[t].at # "unset"

\* m is no later than any timer of the heap, but for those that a grpc_timer_init is
\* about to announce, and not past the window.
Covers(m) ==
    /\ \A t \in Heap : m <= timer[t].dl
                        \/ \E u \in Timers : adding[u] = "first" /\ timer[u].dl <= timer[t].dl
    /\ m <= SaturatingAdd(cap, 1)

\* min_deadline covers the heap, or the checker is about to set it to something that
\* does; outside a check min_timer is no later.
MinInv ==
    /\ \A i \in Pool : th[i].pc = "setmin" => Covers(th[i].min)
    /\ (\A i \in Pool : th[i].pc # "setmin") => Covers(minDeadline)
    /\ (\A i \in Pool : th[i].pc \notin ScanPcs) => minTimer <= minDeadline
    /\ \A i \in Pool : th[i].pc = "finish" => minDeadline > th[i].now

\* What a thread last saw of min_timer is no later than what it waits for, or is past.
SeenInv ==
    \A i \in Pool :
        /\ th[i].now <= now
        /\ th[i].pc \in CheckPcs \cup {"trylock"} => tls[i] <= th[i].now
        /\ th[i].pc \in {"fired", "flush"} => tls[i] <= now
        /\ th[i].pc = "wait" => tls[i] <= th[i].next
        /\ th[i].pc = "asleep" => tls[i] <= th[i].until
        /\ th[i].pc = "unlock" => th[i].now < th[i].next

\* The timed waiter sleeps until g_timed_waiter_deadline, or is waking up.
TimedInv ==
    /\ hasTimedWaiter <=> timedWaiter # Nobody
    /\ hasTimedWaiter =>
          /\ th[timedWaiter].pc \in {"asleep", "awake"}
          /\ th[timedWaiter].pc = "asleep" => th[timedWaiter].until = timedDeadline
          /\ tls[timedWaiter] <= timedDeadline

\* No sleep that was made up for a check goes past the window.
LostInv ==
    /\ lost <= SaturatingAdd(cap, 1)
    /\ \A i \in Pool : th[i].pc = "unlock" => th[i].next <= SaturatingAdd(cap, 1)

\* Until when the threads may sleep: min_timer, or what the lost wake-up costs.
InTime(time) == time <= minTimer \/ time <= lost

\* A thread that will look at min_timer, or wait no longer than it says.
Fresh(i) ==
    \/ th[i].pc \in ScanPcs \cup {"load", "trylock", "lock", "fired", "flush"}
    \/ th[i].pc = "unlock" /\ (th[i].fired \/ InTime(th[i].next))
    \/ th[i].pc \in {"loop", "awake"} /\ (InTime(tls[i]) \/ tls[i] <= now)
    \/ th[i].pc = "wait" /\ InTime(th[i].next)
    \/ th[i].pc = "asleep" /\ InTime(th[i].until)

\* There is one; or a kick is on its way; or it is noted and a thread is up to see it.
WakeInv ==
    threaded => \/ \E t \in Timers : adding[t] = "kick"
                \/ kicked /\ \E i \in Live : th[i].pc # "asleep"
                \/ \E i \in Pool : Fresh(i)

-----------------------------------------------------------------------------
(* Properties                                                              *)

Pending(t) == timer[t].at \in {"heap", "list"}

\* timer.h: the closure is called exactly once, expired or cancelled; and it expires
\* no earlier than its deadline, whoever checks while it is added or cancelled.
CalledOnceAndInTime ==
    \A t \in Timers :
        /\ timer[t].calls = IF timer[t].at = "done" THEN 1 ELSE 0
        /\ (timer[t].at = "done" /\ timer[t].err = "none") => timer[t].dl <= now

\* A thread that fails the trylock sleeps for ever, since "we're guaranteed that some other
\* thread has just checked timers" (timer_manager.cc:237).  The guarantee has a gap: the
\* checker may have read its next deadline, and be about to release checker_mu, when an
\* earlier timer is added (timer_generic.cc:598-599).  Whatever kicks, checks, cached minima
\* and hand-overs of the timed wait race, all threads sleep over a due timer only after
\* that, no longer than that checker sleeps, and not beyond the queue's window.  (A deadline
\* equal to queue_deadline_cap is served a tick late.)
LateOnlyAfterALostWakeup ==
    (threaded /\ Quiet) =>
        \A t \in Timers : Pending(t) => timer[t].dl >= now \/ (now < lost /\ now <= cap)

IInv == /\ TypeOK /\ CountInv /\ LockInv /\ ShardInv /\ MinInv /\ SeenInv
        /\ TimedInv /\ LostInv /\ WakeInv /\ CalledOnceAndInTime

\* Every timer is called in the end, and stop_threads returns.
EveryTimerIsCalled == <>[]((\A t \in Timers : ~Pending(t)) /\ stopping # "waiting")
=============================================================================
