------------------------ MODULE BFCancellationToken ------------------------
(***************************************************************************)
(* A Bolts cancellation token with its source and its registrations, used  *)
(* by several threads: BFCancellationToken.m, ...TokenSource.m and         *)
(* ...TokenRegistration.m.  The token has a recursive monitor, and so has  *)
(* every registration.  cancel copies the list of registrations under the  *)
(* token's lock and notifies them outside it; a registration runs its      *)
(* observer block under its own lock; disposing the token disposes the     *)
(* registrations with the token's lock held.                               *)
(***************************************************************************)
EXTENDS Integers, Sequences, SequencesExt

CONSTANTS Threads,         \* threads, each with a run loop of its own
          Regs,            \* registrations, one per call of register...
          Nil,             \* nobody
          Builds           \* the builds to look at

ASSUME ConstantsAssumption ==
    /\ Nil \notin Threads \cup Regs
    /\ Builds \subseteq [asserts : BOOLEAN, reenter : BOOLEAN]

VARIABLE build            \* the one this behaviour is about; it never changes

\* NSAssert raises (debug) or is compiled out (release).
AssertsEnabled == build.asserts

\* An observer block may dispose its own registration.
BlocksReenter == build.reenter

VARIABLES
    tokLock,        \* owner of the token's monitor, or Nil
    regLock,        \* owner of each registration's monitor, or Nil
    requested,      \* _cancellationRequested
    tokDisposed,    \* token.disposed
    registrations,  \* token.registrations (empty once nil)
    timers,         \* threads whose run loop has a pending cancelPrivate
    created,        \* registrations handed out
    regDisposed,    \* registration.disposed
    hasBlock,       \* registration.cancellationObserverBlock is not nil
    pc,             \* where each thread is
    todo,           \* registrations a loop has still to visit
    cur,            \* the registration a thread is disposing
    back,           \* where a thread goes after disposing one
    mutated,        \* the list changed under the loop of dispose
    notified,       \* calls of each observer block
    quiet,          \* registrations of which a call of dispose has returned
    raised,         \* who saw an exception: "cancel", "timer", "unregister", ...
    crashed         \* a nil block was called

tokenVars == <<tokLock, requested, tokDisposed, registrations, timers>>
regVars   == <<regLock, created, regDisposed, hasBlock>>
ctlVars   == <<pc, todo, cur, back, mutated>>
obsVars   == <<notified, quiet, raised, crashed>>
vars      == <<build, tokenVars, regVars, ctlVars, obsVars>>

Pcs == {"idle", "notify", "calling", "in_block", "unregister", "clear",
        "dispose_loop", "dispose_unregister", "dispose_clear"}

TypeOK ==
    /\ build \in Builds
    /\ tokLock \in Threads \cup {Nil}
    /\ regLock \in [Regs -> Threads \cup {Nil}]
    /\ requested \in BOOLEAN /\ tokDisposed \in BOOLEAN
    /\ registrations \in Seq(Regs)
    /\ timers \subseteq Threads
    /\ created \subseteq Regs
    /\ regDisposed \in [Regs -> BOOLEAN]
    /\ hasBlock \in [Regs -> BOOLEAN]
    /\ pc \in [Threads -> Pcs]
    /\ todo \in [Threads -> Seq(Regs)]
    /\ cur \in [Threads -> Regs \cup {Nil}]
    /\ back \in [Threads -> {"idle", "in_block"}]
    /\ mutated \in BOOLEAN
    /\ notified \in [Regs -> Nat]
    /\ quiet \subseteq Regs
    /\ raised \subseteq {"cancel", "timer", "delay", "unregister", "notify"}
    /\ crashed \in BOOLEAN

Init ==
    /\ build \in Builds
    /\ tokLock = Nil
    /\ regLock = [r \in Regs |-> Nil]
    /\ requested = FALSE /\ tokDisposed = FALSE
    /\ registrations = <<>>
    /\ timers = {}
    /\ created = {}
    /\ regDisposed = [r \in Regs |-> FALSE]
    /\ hasBlock = [r \in Regs |-> FALSE]
    /\ pc = [th \in Threads |-> "idle"]
    /\ todo = [th \in Threads |-> <<>>]
    /\ cur = [th \in Threads |-> Nil]
    /\ back = [th \in Threads |-> "idle"]
    /\ mutated = FALSE
    /\ notified = [r \in Regs |-> 0]
    /\ quiet = {}
    /\ raised = {}
    /\ crashed = FALSE

-----------------------------------------------------------------------------
TokFree(th)    == tokLock \in {Nil, th}
RegFree(th, r) == regLock[r] \in {Nil, th}
Goto(th, p)    == pc' = [pc EXCEPT ![th] = p]

\* An exception leaves every frame of the thread; @synchronized lets go.
Unwind(th, who) ==
    /\ raised' = raised \cup {who}
    /\ Goto(th, "idle")
    /\ todo' = [todo EXCEPT ![th] = <<>>]
    /\ cur' = [cur EXCEPT ![th] = Nil]
    /\ back' = [back EXCEPT ![th] = "idle"]
    /\ regLock' = [r \in Regs |-> IF regLock[r] = th THEN Nil ELSE regLock[r]]

-----------------------------------------------------------------------------
(* cancel *)

\* Variant: a second cancel notifies again.
CancelLockedAgain(th, who) ==
    /\ TokFree(th)
    /\ ~tokDisposed
    /\ requested' = TRUE
    /\ timers' = timers \ {th}
    /\ todo' = [todo EXCEPT ![th] = registrations]
    /\ Goto(th, "notify")
    /\ UNCHANGED <<tokLock, tokDisposed, registrations, regVars, cur, back,
                   mutated, obsVars>>

\* The synchronized part of cancel.  `who` is a caller, or a run loop's timer.
CancelLocked(th, who) ==
    /\ TokFree(th)
    /\ \/ /\ tokDisposed
          /\ raised' = raised \cup {who}
          /\ timers' = timers \ (IF who = "timer" THEN {th} ELSE {})
          /\ UNCHANGED <<requested, pc, todo>>
       \/ /\ ~tokDisposed /\ requested
          /\ timers' = timers \ (IF who = "timer" THEN {th} ELSE {})
          /\ UNCHANGED <<requested, pc, todo, raised>>
       \/ /\ ~tokDisposed /\ ~requested
          /\ requested' = TRUE
          /\ timers' = timers \ {th}     \* only this thread's run loop
          /\ todo' = [todo EXCEPT ![th] = registrations]
          /\ Goto(th, "notify")
          /\ UNCHANGED raised
    /\ UNCHANGED <<tokLock, tokDisposed, registrations, regVars, cur, back,
                   mutated, notified, quiet, crashed>>

\* cancel, and cancelAfterDelay:0.
Cancel(th) ==
    /\ pc[th] = "idle"
    /\ CancelLocked(th, "cancel")

\* The delayed cancelPrivate is performed by the run loop it was scheduled on.
TimerFires(th) ==
    /\ pc[th] = "idle"
    /\ th \in timers
    /\ CancelLocked(th, "timer")

\* Variant: throwIfDisposed is gone.
NotifyDelegateUnchecked(th) ==
    /\ pc[th] = "notify"
    /\ todo[th] # <<>>
    /\ RegFree(th, Head(todo[th]))
    /\ hasBlock[Head(todo[th])]
    /\ regLock' = [regLock EXCEPT ![Head(todo[th])] = th]
    /\ Goto(th, "calling")
    /\ UNCHANGED <<tokenVars, created, regDisposed, hasBlock, todo, cur, back,
                   mutated, obsVars>>

\* notifyDelegate takes the registration's lock and reads the block; calling
\* nil ends the process.
NotifyDelegate(th) ==
    /\ pc[th] = "notify"
    /\ todo[th] # <<>>
    /\ LET r == Head(todo[th]) IN
       /\ RegFree(th, r)
       /\ \/ /\ regDisposed[r] /\ AssertsEnabled
             /\ Unwind(th, "notify")
             /\ UNCHANGED crashed
          \/ /\ ~(regDisposed[r] /\ AssertsEnabled) /\ ~hasBlock[r]
             /\ crashed' = TRUE
             /\ UNCHANGED <<regLock, raised, pc, todo, cur, back>>
          \/ /\ ~(regDisposed[r] /\ AssertsEnabled) /\ hasBlock[r]
             /\ regLock' = [regLock EXCEPT ![r] = th]
             /\ Goto(th, "calling")
             /\ UNCHANGED <<raised, crashed, todo, cur, back>>
    /\ UNCHANGED <<tokenVars, created, regDisposed, hasBlock, mutated,
                   notified, quiet>>

\* The block that was read is called, whatever dispose did to the property in
\* between.  The property is nonatomic: when dispose let go of the block before
\* it was retained here, the call may as well crash.
CallBlock(th) ==
    /\ pc[th] = "calling"
    /\ \/ /\ notified' = [notified EXCEPT ![Head(todo[th])] = @ + 1]
          /\ Goto(th, "in_block")
          /\ UNCHANGED crashed
       \/ /\ ~hasBlock[Head(todo[th])]
          /\ crashed' = TRUE
          /\ UNCHANGED <<notified, pc>>
    /\ UNCHANGED <<tokenVars, regVars, todo, cur, back, mutated, quiet, raised>>

\* Variant: the registration's lock is never given back.
BlockReturnsLocked(th) ==
    /\ pc[th] = "in_block"
    /\ todo' = [todo EXCEPT ![th] = Tail(@)]
    /\ Goto(th, "notify")
    /\ UNCHANGED <<tokenVars, regVars, cur, back, mutated, obsVars>>

\* Variant: the loop of notifyCancellation stops after one observer.
BlockReturnsForGood(th) ==
    /\ pc[th] = "in_block"
    /\ regLock' = [regLock EXCEPT ![Head(todo[th])] = Nil]
    /\ todo' = [todo EXCEPT ![th] = <<>>]
    /\ Goto(th, "notify")
    /\ UNCHANGED <<tokenVars, created, regDisposed, hasBlock, cur, back, mutated,
                   obsVars>>

\* The block returns; the loop of notifyCancellation goes on.
BlockReturns(th) ==
    /\ pc[th] = "in_block"
    /\ regLock' = [regLock EXCEPT ![Head(todo[th])] = Nil]
    /\ todo' = [todo EXCEPT ![th] = Tail(@)]
    /\ Goto(th, "notify")
    /\ UNCHANGED <<tokenVars, created, regDisposed, hasBlock, cur,
                   back, mutated, obsVars>>

CancelReturns(th) ==
    /\ pc[th] = "notify"
    /\ todo[th] = <<>>
    /\ Goto(th, "idle")
    /\ UNCHANGED <<tokenVars, regVars, todo, cur, back, mutated, obsVars>>

\* cancelAfterDelay: with a delay of -1 or more than 0 milliseconds.
CancelAfterDelay(th, millis) ==
    /\ pc[th] = "idle"
    /\ TokFree(th)
    /\ \/ /\ tokDisposed
          /\ raised' = raised \cup {"delay"}
          /\ UNCHANGED timers
       \/ /\ ~tokDisposed
          /\ timers' = (timers \ {th})
                          \cup (IF millis > 0 /\ ~requested THEN {th} ELSE {})
          /\ UNCHANGED raised
    /\ UNCHANGED <<tokLock, requested, tokDisposed, registrations, regVars,
                   ctlVars, notified, quiet, crashed>>

-----------------------------------------------------------------------------
(* Registrations *)

\* A new object; which of those not yet made does not matter.
NewReg == CHOOSE r \in Regs : r \notin created

\* registerCancellationObserverWithBlock: checks neither disposed nor
\* _cancellationRequested; after dispose the list is nil and keeps nothing.
Register(th, r) ==
    /\ pc[th] = "idle"
    /\ TokFree(th)
    /\ r \notin created /\ r = NewReg
    /\ created' = created \cup {r}
    /\ hasBlock' = [hasBlock EXCEPT ![r] = TRUE]
    /\ registrations' = IF tokDisposed THEN registrations
                                       ELSE Append(registrations, r)
    /\ UNCHANGED <<tokLock, requested, tokDisposed, timers, regLock,
                   regDisposed, ctlVars, obsVars>>

\* Variant: dispose does not wait for the registration's lock.
RegDisposeUnlocked(th, r) ==
    /\ pc[th] = "idle"
    /\ r \in created
    /\ ~regDisposed[r]
    /\ regDisposed' = [regDisposed EXCEPT ![r] = TRUE]
    /\ cur' = [cur EXCEPT ![th] = r]
    /\ Goto(th, "unregister")
    /\ UNCHANGED <<tokenVars, regLock, created, hasBlock, todo, back, mutated,
                   obsVars>>

\* [registration dispose]: the synchronized part.  A second call returns at
\* once, also when the first has not yet cleared the block.
RegDispose(th, r) ==
    /\ \/ pc[th] = "idle"
       \/ pc[th] = "in_block" /\ BlocksReenter /\ r = Head(todo[th])
    /\ r \in created
    /\ RegFree(th, r)
    /\ \/ /\ regDisposed[r]
          /\ quiet' = quiet \cup {r}
          /\ UNCHANGED <<regDisposed, cur, back, pc>>
       \/ /\ ~regDisposed[r]
          /\ regDisposed' = [regDisposed EXCEPT ![r] = TRUE]
          /\ cur' = [cur EXCEPT ![th] = r]
          /\ back' = [back EXCEPT ![th] = pc[th]]
          /\ Goto(th, "unregister")
          /\ UNCHANGED quiet
    /\ UNCHANGED <<tokenVars, regLock, created, hasBlock, todo,
                   mutated, notified, raised, crashed>>

\* [token unregisterRegistration:self]; the source keeps the token alive, so
\* the weak reference to it is not nil here.  removeObject: removes every
\* occurrence; the list holds each registration once (ListInv).
Unregister(th) ==
    /\ pc[th] = "unregister"
    /\ TokFree(th)
    /\ \/ /\ tokDisposed
          /\ Unwind(th, "unregister")
          /\ UNCHANGED registrations
       \/ /\ ~tokDisposed
          /\ registrations' = RemoveFirst(registrations, cur[th])
          /\ Goto(th, "clear")
          /\ UNCHANGED <<raised, todo, cur, back, regLock>>
    /\ UNCHANGED <<tokLock, requested, tokDisposed, timers, created,
                   regDisposed, hasBlock, mutated, notified, quiet, crashed>>

\* cancellationObserverBlock = nil, with no lock held.
ClearBlock(th) ==
    /\ pc[th] = "clear"
    /\ hasBlock' = [hasBlock EXCEPT ![cur[th]] = FALSE]
    /\ quiet' = quiet \cup {cur[th]}
    /\ cur' = [cur EXCEPT ![th] = Nil]
    /\ back' = [back EXCEPT ![th] = "idle"]
    /\ Goto(th, back[th])
    /\ UNCHANGED <<tokenVars, regLock, created, regDisposed, todo,
                   mutated, notified, raised, crashed>>

-----------------------------------------------------------------------------
(* Disposing the token *)

Dispose(th) ==
    /\ pc[th] = "idle"
    /\ TokFree(th)
    /\ ~tokDisposed
    /\ tokLock' = th
    /\ todo' = [todo EXCEPT ![th] = registrations]
    /\ mutated' = FALSE
    /\ Goto(th, "dispose_loop")
    /\ UNCHANGED <<requested, tokDisposed, registrations, timers, regVars, cur,
                   back, obsVars>>

\* makeObjectsPerformSelector:@selector(dispose) reaches the next registration,
\* which may have been disposed already.
DisposeNext(th) ==
    /\ pc[th] = "dispose_loop"
    /\ todo[th] # <<>>
    /\ LET r == Head(todo[th]) IN
       /\ RegFree(th, r)
       /\ \/ /\ regDisposed[r]
             /\ quiet' = quiet \cup {r}
             /\ UNCHANGED <<regDisposed, cur, pc>>
          \/ /\ ~regDisposed[r]
             /\ regDisposed' = [regDisposed EXCEPT ![r] = TRUE]
             /\ cur' = [cur EXCEPT ![th] = r]
             /\ Goto(th, "dispose_unregister")
             /\ UNCHANGED quiet
    /\ todo' = [todo EXCEPT ![th] = Tail(@)]
    /\ UNCHANGED <<tokenVars, regLock, created, hasBlock, back,
                   mutated, notified, raised, crashed>>

\* unregisterRegistration removes from the very array that
\* makeObjectsPerformSelector: is walking.
DisposeUnregister(th) ==
    /\ pc[th] = "dispose_unregister"
    /\ registrations' = RemoveFirst(registrations, cur[th])
    /\ mutated' = TRUE
    /\ Goto(th, "dispose_clear")
    /\ UNCHANGED <<tokLock, requested, tokDisposed, timers, regLock, created,
                   regDisposed, hasBlock, todo, cur, back, obsVars>>

DisposeClear(th) ==
    /\ pc[th] = "dispose_clear"
    /\ hasBlock' = [hasBlock EXCEPT ![cur[th]] = FALSE]
    /\ quiet' = quiet \cup {cur[th]}
    /\ cur' = [cur EXCEPT ![th] = Nil]
    /\ Goto(th, "dispose_loop")
    /\ UNCHANGED <<tokenVars, regLock, created, regDisposed, todo,
                   back, mutated, notified, raised, crashed>>

\* Foundation leaves open what the walk does once its array has shrunk: it may
\* work on a copy, or by index and so miss a registration.
DisposeSkips(th) ==
    /\ pc[th] = "dispose_loop"
    /\ mutated
    /\ todo[th] # <<>>
    /\ todo' = [todo EXCEPT ![th] = Tail(@)]
    /\ UNCHANGED <<tokenVars, regVars, pc, cur, back, mutated, obsVars>>

\* registrations = nil, disposed = YES, leave the lock.
DisposeReturns(th) ==
    /\ pc[th] = "dispose_loop"
    /\ todo[th] = <<>>
    /\ registrations' = <<>>
    /\ tokDisposed' = TRUE
    /\ tokLock' = Nil
    /\ mutated' = FALSE
    /\ Goto(th, "idle")
    /\ UNCHANGED <<requested, timers, regVars, todo, cur, back, obsVars>>

-----------------------------------------------------------------------------
\* What a thread does without being asked again.
Continue(th) ==
    \/ NotifyDelegate(th) \/ CallBlock(th) \/ BlockReturns(th) \/ CancelReturns(th)
    \/ Unregister(th) \/ ClearBlock(th)
    \/ DisposeNext(th) \/ DisposeUnregister(th) \/ DisposeClear(th)
    \/ DisposeSkips(th) \/ DisposeReturns(th)

Next ==
    /\ ~crashed
    /\ UNCHANGED build
    /\ \E th \in Threads :
          \/ Cancel(th)
          \/ TimerFires(th)
          \/ \E millis \in {-1, 1} : CancelAfterDelay(th, millis)
          \/ \E r \in Regs : Register(th, r) \/ RegDispose(th, r)
          \/ Dispose(th)
          \/ Continue(th)

Spec == Init /\ [][Next]_vars

\* Threads run, blocks return, run loops perform what they were given.
FairSpec ==
    /\ Spec
    /\ \A th \in Threads : /\ WF_vars(~crashed /\ Continue(th) /\ UNCHANGED build)
                           /\ WF_vars(~crashed /\ TimerFires(th) /\ UNCHANGED build)

-----------------------------------------------------------------------------
(* Why the safety properties hold: an inductive invariant *)

Distinct(s) == \A i, j \in 1..Len(s) : s[i] = s[j] => i = j

\* The token's lock is held by the thread that disposes the token.
DisposePcs == {"dispose_loop", "dispose_unregister", "dispose_clear"}
LockInv ==
    /\ \A th \in Threads : pc[th] \in DisposePcs <=> tokLock = th
    /\ tokLock # Nil => ~tokDisposed

\* The list, and the copy a loop walks, hold registrations that were handed
\* out, none twice.
ListInv ==
    /\ Distinct(registrations)
    /\ \A i \in 1..Len(registrations) : registrations[i] \in created
    /\ \A th \in Threads :
          /\ Distinct(todo[th])
          /\ \A i \in 1..Len(todo[th]) : todo[th][i] \in created

\* A thread in an observer block, or in a dispose that the block called.
InBlock(th) == \/ pc[th] = "in_block"
               \/ pc[th] \in {"unregister", "clear"} /\ back[th] = "in_block"

Notifier(th) == pc[th] \in {"notify", "calling"} \/ InBlock(th)

\* One thread notifies; whom it has still to visit was not called yet; it holds
\* the lock of the registration whose block it is about to run or runs.
NotifierInv ==
    /\ \A th \in Threads :
          /\ Notifier(th) => requested
          /\ pc[th] = "calling" \/ InBlock(th) =>
                todo[th] # <<>> /\ regLock[Head(todo[th])] = th
          /\ pc[th] \in {"notify", "calling"} =>
                \A i \in 1..Len(todo[th]) : notified[todo[th][i]] = 0
          /\ InBlock(th) =>
                \A i \in 2..Len(todo[th]) : notified[todo[th][i]] = 0
    /\ \A t, u \in Threads : Notifier(t) /\ Notifier(u) => t = u

\* Whoever disposes a registration has marked it, and so has a dispose that
\* returned.
DisposerInv ==
    /\ \A th \in Threads :
          pc[th] \in {"unregister", "clear", "dispose_unregister", "dispose_clear"} =>
              cur[th] \in created /\ regDisposed[cur[th]]
    /\ \A r \in quiet : r \in created /\ regDisposed[r]

\* A debug build: a registration whose block is about to run is live and, when
\* blocks do not dispose their own registration, so is one whose block runs.
RunningIsLive ==
    AssertsEnabled => \A th \in Threads :
        /\ pc[th] = "calling" => ~regDisposed[Head(todo[th])]
        /\ ~BlocksReenter => /\ pc[th] = "in_block" => ~regDisposed[Head(todo[th])]
                             /\ back[th] = "idle"

-----------------------------------------------------------------------------
(* Properties *)

\* Racing calls of cancel, timers and registrations never call an observer
\* twice, and none is called before the token is cancelled.
NotifiedAtMostOnce ==
    \A r \in Regs : notified[r] <= 1 /\ (notified[r] = 1 => requested)

\* With assertions enabled, once a call of dispose has returned, be it the first
\* or one that found the registration disposed, the observer is not called any
\* more, by a cancel that copied the list earlier either.
NotCalledAfterDispose ==
    [][AssertsEnabled => \A r \in quiet : notified'[r] = notified[r]]_vars

\* dispose waits for an observer that is running on another thread: when it
\* has returned the observer is not running nor about to run (with assertions
\* enabled, and when observers do not dispose their own registration).
QuietAfterDispose ==
    (AssertsEnabled /\ ~BlocksReenter) => \A r \in quiet, th \in Threads :
        ~(pc[th] \in {"calling", "in_block"} /\ Head(todo[th]) = r)

IInv == /\ TypeOK /\ LockInv /\ ListInv /\ NotifierInv /\ DisposerInv
        /\ RunningIsLive /\ NotifiedAtMostOnce

\* An observer that disposes its registration while [token dispose] waits for
\* that registration's lock: each has what the other wants.
WaitInACircle ==
    \E t, u \in Threads :
        /\ pc[t] = "unregister" /\ back[t] = "in_block"
        /\ pc[u] = "dispose_loop" /\ todo[u] # <<>>
        /\ Head(todo[u]) = Head(todo[t])

\* Every started call returns: the token's lock and the registrations' locks
\* are not waited for in a circle, but for the one above (and unless a nil block
\* ends the process).
CallsReturn ==
    \A th \in Threads :
        pc[th] # "idle" ~> (pc[th] = "idle" \/ crashed \/ WaitInACircle)

\* An exception is about to end the loop of notifyCancellation: it has come to
\* a registration that is disposed, or an observer disposes its registration
\* after the token was disposed.
LoopAborts(th) ==
    \/ /\ AssertsEnabled
       /\ pc[th] = "notify" /\ todo[th] # <<>> /\ regDisposed[Head(todo[th])]
    \/ pc[th] = "unregister" /\ back[th] = "in_block" /\ tokDisposed

\* A registration that a cancel found in the list is notified, whatever happens
\* to the others meanwhile, unless an exception ends that cancel's loop first,
\* a nil block ends the process, or an observer and [token dispose] wait for
\* each other.
SnapshotNotified ==
    \A r \in Regs :
        (\E th \in Threads : pc[th] = "notify" /\ r \in Range(todo[th]))
            ~> \/ notified[r] = 1 \/ crashed \/ WaitInACircle
               \/ \E th \in Threads : LoopAborts(th)
=============================================================================
