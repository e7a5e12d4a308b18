# A TLA+ verification project for bubble-iOS

`bubble` is the skeleton of an iOS app (Swift, about 200 lines of its own) that
is to log its users in through Facebook and keep them in Firebase. The
repository carries its CocoaPods with it, so most of the behaviour of the
program that is built from it is in `src/bubble/Pods/`. This directory models
the app's own code and the parts of the Pods whose control is hard to test and
which the app stands on: Bolts (tasks and cancellation), the Facebook login,
and, below Firestore, leveldb (the local store) and the combiner and the timers
of gRPC-Core (the connection).

The README of the repository has one line; its three PDFs (product backlog,
charter, test plan) describe features that have no code yet, and the tests are
Xcode's templates. The sources and the headers of the Pods are therefore the
reference for everything below.

## 1. Inventory

| Component | State | Operations | Interacts with | Model |
|---|---|---|---|---|
| App shell: `AppDelegate.swift`, `ViewController.swift` | UIKit's process state | the life cycle methods (all empty) | UIKit; forwards nothing to the Facebook SDK | `Bubble`, `BubbleProofs` |
| `User.swift` | seven private optionals | `init(userDict:userID:)`, getters, of which all but one force-unwrap | built from database documents | `Bubble`, `BubbleProofs` |
| `DataService.swift` | none | `createOrUpdateUser`, `getUser` (empty), `getProfilePicture` (a guard) | `User` | `Bubble`, `BubbleProofs` |
| `AuthService.swift` | a singleton | none yet | meant to call the Facebook login | none |
| Bolts tasks: `BFTask.m`, `BFTaskCompletionSource.m`, `BFExecutor.m` | completion, callbacks, a recursive monitor and a condition variable | `trySet...`, `set...`, `continueWith...`, `waitUntilFinished`, executors | threads, GCD queues, blocks that call the task again | `Promise`, `BFTask`, `BFTaskProofs` |
| Bolts cancellation: `BFCancellationToken.m`, `...Registration.m`, `...TokenSource.m` | two levels of locks, a list of registrations, timers on run loops | `cancel`, `cancelAfterDelay:`, `register...`, both `dispose` | threads, run loops, observer blocks | `BFCancellationToken`, `BFCancellationTokenProofs` |
| Facebook login: `FBSDKLoginManager.m`, `FBSDKLoginCompletion.m`, `FBSDKApplicationDelegate.m`, `FBSDKAccessToken.m`, `FBSDKWebDialog.m`, `LoginManager.swift`, `LoginResult.swift` | manager state and handler, challenge in the keychain, token and its cache, the pending opener, the page being shown | `logIn...`, `logOut`, `openURL`, life cycle notifications, requests that complete | UIKit, the user, the Facebook app, Safari, the host app | `FBSDKLogin`, `FBSDKLoginProofs` |
| Graph requests: `FBSDKGraphRequestConnection.m` | batches | start, complete | the login | only their completions, in `FBSDKLogin` |
| leveldb, writes: `db_impl.cc`, `LogAndApply` and `Recover` of `version_set.cc` | the queue of writers, memtables, logs, manifest, table files, `pending_outputs_`, the background thread | `Write`, flush, compaction, deletion of files, close, `DB::Open` | threads, the file system, crashes | `DBImpl`, `DBImplInv`, `DBImplProofs` |
| leveldb, logs: `log_writer.cc`, `log_reader.cc` | a file of blocks, the reader's buffer and scratch | `AddRecord`, `ReadRecord` | `DBImpl` (logs and manifest) | `LogFormat`, `LogFormatProofs` |
| leveldb, levels: `version_set.cc`, reading and compacting in `db_impl.cc`, `dbformat.cc`, `snapshot.h`, `db_iter.cc` | tables per level, versions kept by readers, snapshots | `Get`, iterators, `GetSnapshot`, `CompactRange`, picking and doing compactions | writers, the background thread | `VersionSet` |
| gRPC-Core combiner: `combiner.cc`, `mpscq.cc`, `exec_ctx.cc`, `executor.cc` | an atomic count, a lock-free queue, a list per thread | schedule, schedule finally, flush, offload, unref | threads of the app and of the executor | `Combiner`, `Mpscq`, `CombinerProofs` |
| gRPC-Core timers: `timer_generic.cc`, `timer_heap.cc`, `timer_manager.cc` | heap and list of timers, cached minimum deadlines, a pool of threads with one timed waiter | `grpc_timer_init`, `grpc_timer_cancel`, `grpc_timer_check`, kick, shutdown | the clock, threads | `GrpcTimer`, `GrpcTimerProofs` |
| leveldb's tables, memtable and caches; the rest of gRPC-Core; gRPC-RxLibrary, GTMSessionFetcher | | | | none (section 7) |
| Firebase, GoogleSignIn, BoringSSL, Protobuf, nanopb | | | binaries, generated code, cryptography | none |

What is hard here:

* *Two locks and an unlocked read* in `BFTask`. A setter holds the monitor,
  takes the condition's mutex under it to broadcast, and runs callbacks inline
  with the monitor held; a waiter takes the mutex under the monitor and then
  reads `_completed` with only the mutex. Lost wake-ups, lost or repeated
  continuations, and changes to the array under its own enumeration are the
  hazards.
* *Copy, unlock, notify* in `BFCancellationToken`. `cancel` walks a copy of the
  list with no lock; `dispose` marks, unregisters and clears under three
  different locks, or none.
* *A handler called in the middle of things* in `FBSDKLoginManager`. The app's
  block runs while `_handler` still holds it and may log in again; answers come
  late, twice, or to a new process; cancellation is inferred from the app
  becoming active; requests complete after the world has changed.

* *Files, a log and a crash anywhere* in leveldb. The leader of a group writes
  with the mutex released; a table is built, named by the manifest, installed and
  its inputs are deleted in separate steps; recovery rebuilds all of it, and may
  crash itself. A record torn at any byte must vanish without a trace.
* *Entries that move* in leveldb's levels. `Get` stops at the first level that
  has the key, so no compaction, flush or move may put an older entry above a
  newer one, and none may drop what a snapshot or an iterator sees.
* *A lock without a lock* in the combiner. Whoever raises the count from zero
  drains the queue; a push is two stores, and between them the queue looks
  broken; the count also decides who frees the object.
* *A cached minimum and a condition variable* in the timers. A thread decides how
  long to sleep from a deadline it read earlier.

`PROJECT.json` lists the hazards with their lines and the properties aimed at
each.

## 2. Modules

    Promise  <--implements--  BFTask  <--  MCBFTask, BFTaskProofs
    BFCancellationToken                <--  MCBFCancellationToken, BFCancellationTokenProofs
    FBSDKLogin                         <--  MCFBSDKLogin, FBSDKLoginProofs
    Bubble                             <--  MCBubble, BubbleProofs
    DBImpl                             <--  MCDBImpl, DBImplInv <-- DBImplProofs
    LogFormat                          <--  MCLogFormat, LogFormatProofs
    VersionSet                         <--  MCVersionSet
    Mpscq  <--composed in--  Combiner  <--  MCCombiner, CombinerProofs
    GrpcTimer                          <--  MCGrpcTimer, GrpcTimerProofs

The MC modules are what TLC runs, the Proofs modules hold the theorems.

Each component module has its state as VARIABLES, one action per atomic step of
the code (a synchronized block, an event on the main thread, an access to shared
memory), a type invariant and its properties at the end. Operators commented
"Variant:" are plausible mistakes in the code (a dropped guard, a missing reset);
nothing uses them except the experiments that replace a definition by one of them
to see a property fail.

### Promise and BFTask

`Promise` is what a task promises: it is completed at most once; an attached
continuation runs once, and not before completion. `BFTask` is the code. A
thread's `pc` says where it is:

| `pc` | in `BFTask.m` |
|---|---|
| `set_cond` | `trySet...` has stored the outcome, before `[condition lock]; broadcast` in `runContinuations` |
| `set_run`, `set_in` | in the `for` over `callbacks`; in a block that runs inline |
| `nest_exec`, `cont_exec` | `continueWith...` has found the task completed and left the monitor (or its inner level), before `[executor execute:]` |
| `wait_cond` | `waitUntilFinished` holds the monitor, before `[condition lock]` |
| `wait_loop`, `wait_sleep` | reads `_completed`; has decided to `[condition wait]` |
| `wait_blocked`, `wait_wake` | asleep; woken, wants the mutex back |

`WaitReadsOpen` lets the unlocked read of `_completed` see the old value while
the setter has not yet passed its broadcast (`CompletionUnpublished`): after the
broadcast the mutex orders the two. `Execute` decides between inline and queued,
which stands for the immediate, default and main-thread executors; the depth
test of the default executor depends on the address of the stack and is a free
choice. The ways to complete (result, error, exception, cancellation) differ
only in data.

### BFCancellationToken

The token's and the registrations' monitors, the pending timers per thread, the
steps of `[registration dispose]` (mark, unregister, clear) and of
`[token dispose]`, which does the same for each registration with the token's
lock held. A second `[registration dispose]` returns at once, perhaps before the
first has cleared the block. `notifyDelegate` reads the block (`NotifyDelegate`)
and calls it (`CallBlock`) in two steps, since the dispose clears it under no
lock. An exception unwinds the thread's frames and releases its monitors.
`build` says whether `NSAssert` raises (debug) and whether observers dispose
their own registration; it is chosen in the initial state. Once
`makeObjectsPerformSelector:` walks an array that shrinks, Foundation does not
say what happens; `DisposeSkips` lets it miss elements.

### FBSDKLogin

All of it runs on the main thread, so an event is one step. The exception is the
app's handler, which may call the SDK again before its caller goes on. What
remains to be done after the handler is a frame on `stack`; other events wait
until the stack is empty. `setting`, chosen in the initial state, describes the
device and the host: which routes can show the page (Facebook app, Safari,
`SFAuthenticationSession` on iOS 11, `SFSafariViewController` before, the web
dialog as a behaviour of its own), whether the host forwards `openURL` and the
launch options, whether it waits for its handlers ("polite"), whether answers may
be delivered again, and whether other URLs arrive.

A page is known by its challenge, an answer by its kind, challenge, user,
whether it names the user (otherwise `/me` is asked) and which permissions it
grants. The history variables `told`, `used`, `gone` and `reauthsAt` serve the properties only.

Simplifications, all of the environment or of data:

* the dispatch of `openURL:sender:handler:` and UIKit's completion are one step,
  which succeeds only while the app is active;
* permissions of the wrong kind raise an exception before any state changes; the
  Swift wrapper's types exclude them, and they are left out, as is a nil handler;
* requests of the same answer that are in flight twice are one request;
* a cancelled `SFAuthenticationSession` may or may not call back;
* only the Facebook app answers `service_disabled`, and such an answer does not
  launch the process (it would make a second manager log in);
* the app keeps one manager; the one made at launch is modelled (`own`);
* the system account (`FBSDKLoginBehaviorSystemAccount`) and the Bridge API are
  left out.

### Bubble

`User` objects built from documents in which any key may be missing or hold
something that is not a string; the getters, of which all but
`profilePictureURL` trap on nil; the guard of `getProfilePicture`; and the app's
life cycle, which carries no code but ends all objects.

### DBImpl

One step is what a thread does between two points where it gives up `mutex_`. A
batch is named by the call of `Write` that brings it; a memtable and a table are
sets of batches, a log record is the set of batches one leader logged (the calls are
numbered as they come, so their order is kept), and the levels above 0 are one set of tables (their order is the subject of `VersionSet`).

| Steps | in `db_impl.cc` |
|---|---|
| `Enqueue`, `MakeRoom...`, `SwitchMemTable`, `AddRecord`, `SyncLog`, `ApplyGroup` | `Write` with `MakeRoomForWrite` and `BuildBatchGroup` |
| `FlushBegin`, `FlushBuild`, `FlushManifest`, `FlushInstall`, `FlushReturn` | `CompactMemTable`, also in the middle of a compaction |
| `CompactBegin`, `CompactOpen`, `CompactWork`, `CompactManifest`, `CompactInstall` | `BackgroundCompaction`, `DoCompactionWork` |
| `OpenRecover`, `RecoverRecord`, `RecoverTable`, `RecoverLogDone`, `OpenNewLog`, `OpenManifest`, `OpenCleanup` | `DB::Open`, `Recover`, `RecoverLogFile` |
| `ProcessCrash`, `MachineCrash`, `Close`, `Closed` | the end of a process |

A file is its records and how many of them are synced. A crash of the process
keeps all of them, a crash of the machine any prefix that holds the synced ones.
Any append, sync, build or manifest write may fail (`budget.errors`); a failing
append may leave nothing, a torn record or the whole one. `excused`
collects the acknowledged batches that no promise covers any more: those written
without sync and acknowledged before a crash of the machine, and those logged
behind a record that a failing write broke.

### LogFormat

The same logs byte by byte: a byte is the i-th of a fragment, and a checksum
matches when header and payload are the bytes of one fragment in order. Blocks
are 5 bytes and headers 2 instead of 32768 and 7, so that every position of a
record in its block occurs. With `reuse_logs` the writer goes on behind what it
finds; `tainted` says that it went on behind a broken record or
trailer; `AddRecord` ignores the status of the trailer's `Append`
(`TrailerFails`).

### VersionSet

An entry is its sequence number; a table is a set of entries, a version the
tables of every level. `PickCompaction`, `SetupOtherInputs` (with growing the
inputs), `IsTrivialMove`, `PickLevelForMemTableOutput`, the merge with its
smallest snapshot and `IsBaseLevelForKey`, and `Get` level by level follow the
code. Where it compares a byte size with a limit both outcomes are possible,
which covers compactions begun by size and by seeks and tables that end anywhere.
`split` and `squeezed` are history: a table ended between two entries of one key;
a memtable was flushed while a `CompactRange` ran.

### Mpscq and Combiner

`Mpscq` is the lock-free queue with its stub node: `PushXchg` and `PushLink` are
the two stores of a push, `PopStart` to `PopLast` the loads and stores of a pop.
`Combiner` instantiates it for every combiner. One action is one access to memory
that other threads see; what only the owner of the turn touches goes with the
access before it. Threads call into gRPC (`Apps`), some as pollers, whose
`grpc_exec_ctx` is not marked finished; executor threads take what is offloaded. A closure may schedule
others, and may carry the last reference. Memory is sequentially consistent: the
code's acquire and release pairs order the accesses that matter here, and its
fetch-and-adds are full barriers.

### GrpcTimer

`TimerInit` and `TimerInitAdjust` are the two locked sections of
`grpc_timer_init`, which calls the closure at once when the list is not
initialized; `LoadMinTimer` to `UnlockChecker` the check, which holds
`checker_mu` and `mu` over several steps and releases `mu` (`FinishCheck`) before
`checker_mu` (`UnlockChecker`); `RunSomeTimers`, `WaitUntil`,
`WaitOver` and `ThreadExit` the loop of a timer thread; `StopThreads`,
`StopThreadsReturns`, `IomgrShutdownCheck` (a turn of the loop of
`grpc_iomgr_shutdown`) and `TimerListShutdown` the end. `lost` is history: the
deadline of the checker when a thread failed its trylock between the two releases
although `min_timer` was earlier by then. `GPR_MIN(1, 2 * cores)`
makes one shard, so there is one. `Tick` moves the clock at any time.

## 3. Runs

| Run | Instance | Shows |
|---|---|---|
| `task` | 3 threads, 2 continuations, 2 outcomes | `TypeOK`, `ContinuationsConserved`, `NoCallbackStranded`, `NoLostWakeup`, `OneWinner`, `StableEnumeration`, `RefinesPromise`, `RefinesFairPromise`, `WaitersReturn` |
| `token` | 3 threads, 2 registrations; a debug build, and a release build with observers that may dispose their own registration | `NotifiedAtMostOnce`, `QuietAfterDispose`, `NotCalledAfterDispose`, `CallsReturn`, `SnapshotNotified` |
| `login` | 10 settings of device and host, 2 users, up to 3 logins | `HandlerAtMostOnce`, `ChallengeUsedOnce`, `TokenFromOwnPage`, `HandlersCalled`, `UserSwitchNeedsLogOut` |
| `bubble` | 2 users, 2 of the 4 names, strings "" and a URL | `TrapsOnlyOnMissingName`, `ReadsBackTheDocument` |
| `db` | 2 or 3 calls with restarts and I/O errors | `AcknowledgedIsReadable`, `ManifestFilesExist`, `SequenceNumbersUnique`, `ContentsOnlyGrow`, `WritesReturn` |
| `log` | 3 records of 0, 1 or 4 bytes, 2 crashes, 1 failing write | `OnlyWholeRecords`, `AcknowledgedIsReadBack`, `CrashIsNotCorruption` |
| `combiner` | 2 threads and an executor, 3 closures on 1 combiner or 2 on 2 | `OneThreadInside`, `PopsInOrder`, `FreedOnlyWhenUnused`, `FinalListRunsBeforeUnlock`, `EveryClosureRuns` |
| `timers` | 2 timers, 3 pool threads, a clock from 0 to 5, timers set until 3 | `CalledOnceAndInTime`, `LateOnlyAfterALostWakeup`, `EveryTimerIsCalled` |
| `versions` | 2 keys, 4 levels, 3 or 4 writes, 2 compactions; a snapshot, an iterator or a `CompactRange` | `ReadsAreRight`, `IteratorsKeepTheirView`, `LevelsAreSorted` |
| `login_user_switch` | 2 users, 2 logins of a host that waits | *violated*: `UserSwitchNeedsLogOut` |
| `version_split_key` | 1 key, a snapshot, 3 compactions | *violated*: `LaterLevelsAreIrrelevant` |
| `version_overlap` | 3 keys, 5 writes, a `CompactRange` | *violated*: `MustNotOverlap` |

`TypeOK` of the other modules is kept with them and is not part of a run.

The violated runs state what the sources say and show that the code differs:

* `FBSDKLoginConstants.h:54`: a login over a token of another user fails;
  `validateReauthentication:` compares with the token of the time the request
  was sent. If the first login was reported as cancelled when the app became
  active and its answer came later, a logout and a login as another user can
  pass before the request completes, and that user's token is replaced. In
  `login` the property is checked for the settings in which no answer comes late
  to another user.
* `version_set.cc:346`: "later levels are irrelevant" once a key is found. Under a
  snapshot a compaction keeps two entries of a key and may end a table between
  them; `SetupOtherInputs` does not take the neighbour with the same key along,
  so the next compaction moves the newer entry below the older one and `Get`
  returns the older. (Iterators merge by sequence number and are not deceived.)
* `version_set.cc:765`: "Must not overlap". `DoCompactionWork` flushes a memtable
  while it works, and `PickLevelForMemTableOutput` does not know what the running
  compaction will write. A `CompactRange` over tables on both sides of the
  memtable's keys then installs an output that overlaps the flushed table.

`ReadsAreRight`, `IteratorsKeepTheirView` and `LevelsAreSorted` say what holds
otherwise: their premises `~split` and `~squeezed` exclude exactly these two
histories.

Other properties also name, in the formula, what the code does not give:

* `LateOnlyAfterALostWakeup`: `run_some_expired_timers` releases `mu` before
  `checker_mu`. In between a `grpc_timer_init` may lower `min_timer` and kick; the
  kicked thread fails the trylock and sleeps for ever, and the checker sleeps until
  the later deadline that it read before. The threads sleep over a due timer only
  after this (`lost`), no longer than that checker sleeps, and not beyond the
  queue's window.
* `NotCalledAfterDispose`: with assertions enabled no call of an observer begins
  after a dispose of its registration has returned. In a release build one may.
* `CallsReturn`: every call returns but for the one circular wait of an observer
  that disposes its own registration and `[token dispose]` (`WaitInACircle`).
* `SnapshotNotified`: a `cancel` calls all it has copied unless it raises before
  (`LoopAborts`), a nil block ends the process, or it is in that circle.
* `HandlersCalled`: every login of a host that waits ends, with three exceptions,
  all of an `SFSafariViewController`: no controller could present it
  (`NeverShown`), the fallback to a browser waits for the delegate to be active
  (`FallbackMissed`), or `_pendingURLOpen` was cleared (`OpenerForgotten`).

### Bounds

Three threads give every combination of a setter, a continuing thread and a
waiter (or of cancel, dispose and register); the locks have two owners at most
in any race, so a fourth thread repeats a role. Two continuations let one be
queued and one be run or added during completion; the theorems cover the rest.
Two registrations let one be disposed while the loop is at the other or has still
to come to it. A new registration is the next unused one (`NewReg`), since the order
of names does not matter. Assertions together with observers that dispose their own
registration are left to the theorems.

`MaxLogins` bounds the calls of the app and `MaxChallenges` the pages opened; an
action that would need a page reserves it first (`Spare` leaves out the `Promised`
pages), so the bound never stops the SDK half-way, which is part of what is proved
(`PageInv`). Two logins give a late answer somebody else to disturb;
three logins with three pages give one that takes over from one that took over.
A login through the Facebook app needs two pages, because of its fallback.

In `db` a memtable is full after one batch and level 0 triggers at one table, so
three calls suffice for a group, a memtable switch, a flush, a compaction and a
second flush behind it; two restarts let the recovery be hit. `log` has room for
a record in the middle of a block, one that ends with it, one that leaves less
than a header and one of three fragments. `combiner` has three closures because a
push may be half done while one closure runs and one is queued; two combiners
because a thread's list then has a successor. `timers` has a deadline inside and
one outside the first queue window, and enough threads for a timed waiter, an
untimed one and one that checks; no timer is set after `LastInit`, so that the
clock goes on beyond every deadline and window. In `versions` a flush or a
compaction begins only if its tables fit in `MaxFiles`, so none stops half-way;
with four levels a memtable may be flushed to the last but one, and `moves`
bounds the compactions.

`QuietAfterDispose` holds with assertions enabled and for observers that do not
dispose their own registration, `NotCalledAfterDispose` with assertions enabled;
the conditions are part of the formulas. The runs of the token do not check
deadlock: in the release build a nil block ends the process, and observers that dispose their own
registration can deadlock with `[token dispose]` (section 6). The other runs that
do not check it end when their bounds or the system's own shutdown end them.

### Fairness

* `BFTask`: threads inside a call run on and blocks return (`Proceeds`, weak
  fairness per thread), the queues' workers run what they were given, and a
  thread that wants the condition's mutex gets it if it is free again and again
  (`TakesMutex`, strong fairness, as Darwin's mutexes hand over in turn). Nobody
  is obliged to start a call: a task may stay open for ever.
* `BFCancellationToken`: weak fairness of a thread's steps inside a call, of
  blocks being called and returning and of run loops performing what was scheduled on them.
* `FBSDKLogin`: the main thread runs on; requests, animations and dispatched
  calls end; the user answers or closes a page shown inside the app; an app that
  opened another one goes to the background and is brought back some day.
  `attemptBrowserLogIn` is strongly fair because it dispatches itself again on
  every turn of the main queue, and so meets any condition that holds again and
  again. Facebook need never answer.
* `DBImpl`: the front writer, the background thread, `DB::Open` and a caller that
  waits for `imm_` go on when they can; nobody need write, and nothing need fail.
* `Combiner`: every thread goes on with the call it is in, and executors with what
  they were given (weak fairness per thread).
* `GrpcTimer`: the clock advances, threads and `grpc_timer_init` go on, and a
  shutdown that has begun goes on; nobody need shut down or cancel.

## 4. What is proved

Eight modules hold theorems; each proves that an invariant of the component is
inductive, and draws the properties from it. The invariant is `IInv` of the
component's module; that of `DBImpl` is stated in layers in `DBImplInv`. TLC checked
every one on the instance of the component's run before it was proved. The
assumptions on the constants are named in the component modules, and TLC evaluates
them in every run.

### BFTaskProofs

`BFTaskProofs` holds for any sets of threads, continuations and ways to
complete, from the one assumption that `Nil` is none of them (`NilAssumption`):

| Theorem | Statement |
|---|---|
| `TypeCorrect` | `Spec => []TypeOK` |
| `Conservation` | `Spec => []ContinuationsConserved` |
| `WakeupSafety` | `Spec => []NoLostWakeup` |
| `QueueDrained` | `Spec => []NoCallbackStranded` |
| `SingleWinner` | `Spec => []OneWinner` |
| `EnumerationSafe` | `Spec => StableEnumeration` |
| `Refinement` | `Spec => RefinesPromise` |

The properties are not inductive. `NoLostWakeup` needs to know that a waiter
about to sleep holds the mutex and so keeps the setter from broadcasting;
`ContinuationsConserved` needs to know that no two threads carry the same
continuation. `IInv` adds this: `LockInv` (the program counters and the owners of
the two locks agree), `SetterInv` (whoever carries or holds a continuation to be
run does so after completion), `QueueInv` and `HandInv` (every continuation is in
one place), `NothingLost` and `WinnerInv`. `Start` and `Step` show that `IInv` is
inductive, one case per action; `Frame` deals once with the actions that touch no
continuation; `Invariance` follows, and the theorems from it. `Refinement` maps
`outcome` to `value` and shows that a step of `BFTask` is a step of `Promise` or
leaves its variables alone.

### CombinerProofs

For any combiners and closures and any finite set of threads
(`CombinerAssumption`: application threads and executors are disjoint, combiners
are not closures, `Null` is neither; finite, because `state` counts threads):

| Theorem | Statement |
|---|---|
| `TypeCorrect` | `Spec => []TypeOK` |
| `MutualExclusion` | `Spec => []OneThreadInside` |
| `FifoOrder` | `Spec => []PopsInOrder` |
| `FreedSafety` | `Spec => []FreedOnlyWhenUnused` |
| `FinalBeforeUnlock` | `Spec => []FinalListRunsBeforeUnlock` |

Nothing in a combiner says who has its turn: it is with the thread that raised the
count from zero, then on the list of an execution context, perhaps between two
places of it, or in a queue of the executor. `TurnsInv` says that there is a map
from combiners to such places, which the program counters, the lists and the
queues agree with; two threads would be two places. That nobody else raises the
count from zero needs `CountInv`: `state` is twice the number of items being
added, queued, run or waiting on the final list, plus the bit of the references
(`RefInv`). That what is counted can be popped needs `ChainInv`: the nodes of a
queue, with the stub at some place of it or outside, form a chain from `tail` to
`head`, broken exactly where a push has exchanged and not yet linked. `OpInv`
says how far each push and pop is, `ClosureInv` that a closure is in one place,
`FinalInv` and `FreedInv` what the final list and `really_destroy` need. There is
one lemma per action and, where an action touches a queue, one about what it does
to the chain (`ChainPush`, `ChainLink` and their kin); `NextIInv` collects them.

### GrpcTimerProofs

For any timers, any deadlines up to `AtmMax` and any finite non-empty pool
(`GrpcTimerAssumption`: the clock and a window stay below `AtmMax`, as
`grpc_millis` does):

| Theorem | Statement |
|---|---|
| `TypeCorrect` | `Spec => []TypeOK` |
| `CalledOnce` | `Spec => []CalledOnceAndInTime` |
| `NoOtherLostWakeup` | `Spec => []LateOnlyAfterALostWakeup` |

Once the state says who holds the two locks (`LockInv`), that `CalledOnceAndInTime`
holds is a matter of `ShardInv`: the cap splits the timers into heap and list. That
no other wake-up is lost is more: `MinInv` says that the cached `min_deadline` covers the heap
but for timers that `grpc_timer_init` has yet to announce, and `min_timer` is no
later outside a check; `SeenInv` that what a thread saw of `min_timer` is no later
than what it waits for; `TimedInv` that the timed waiter sleeps until
`g_timed_waiter_deadline`; and `WakeInv` that some thread is `Fresh` (it will look
at `min_timer`, or waits no longer than it says, or no longer than `lost`: `InTime`), or a kick is under way, or one
was noted and somebody is up to see it. `LostInv` keeps `lost` within the window, so
the delay is bounded by it. `CountInv` ties `g_thread_count` and
`g_waiter_count` to the threads. `PopAll` is the loop of `pop_one` in closed form;
`MCGrpcTimer` checks it against the loop itself (`PopAllIsTheLoop`).

### BFCancellationTokenProofs

For any threads, registrations and builds (`ConstantsAssumption`: `Nil` is neither
a thread nor a registration):

| Theorem | Statement |
|---|---|
| `TypeCorrect` | `Spec => []TypeOK` |
| `AtMostOnce` | `Spec => []NotifiedAtMostOnce` |
| `DisposeWaits` | `Spec => []QuietAfterDispose` |
| `NoCallAfterDispose` | `Spec => NotCalledAfterDispose` |

`NotifierInv` says that one thread at most walks a copy of the list, since the flag
is set once, and has not yet called what it has still to visit; this needs
`ListInv` (lists and copies hold nothing twice) and `LockInv`. `DisposerInv` and
`RunningIsLive` say that whoever unregisters or clears, or has returned, has marked its
registration, and that with assertions enabled the registration of a block about to be
called is not marked, nor that of a running block unless the block marks it itself; the
lock of the registration keeps others from it. `NoCallAfterDispose` and
`DisposeWaits` are about builds with assertions; the others do not have the property.

### FBSDKLoginProofs

For any set of settings, any bound on logins and on pages (`ConstantsAssumption`: a
device whose Facebook app opens the page has a browser too, the web dialog and the
other behaviours exclude each other, `Nil` is no user, login or page):

| Theorem | Statement |
|---|---|
| `TypeCorrect` | `Spec => []TypeOK` |
| `HandlerOnce` | `Spec => []HandlerAtMostOnce` |
| `ChallengeOnce` | `Spec => []ChallengeUsedOnce` |
| `OwnToken` | `Spec => []TokenFromOwnPage` |

`HandlerAtMostOnce` needs `HandlerInv`: a handler that was called is still in
`_handler` only while its frame is on top of the stack, or just below a login that it
has begun, and never while the state is `Performing`; so the only call that reaches
the manager then, another `logIn...`, does not invoke it. That in turn needs `FrameInv`
(a login on its way is new to the manager). `ChallengeUsedOnce` and
`TokenFromOwnPage` need `ChallengeInv`: a page is expected, being validated or used,
and whoever's handler the manager holds, an expected page was opened for that login,
one being validated was too or is in `reauthsAt`. `PageInv` keeps the bound: pages
opened and promised never exceed `MaxChallenges`. `EventManager` and `Authenticates`
deal once with what an event does to the manager and to the keys, `PopManager` with a
frame that returns, `OpensPage` with a page that is opened; there is one lemma per
action, and `NextInv` collects them.

### BubbleProofs

For any strings, documents and number of users (`ConstantsAssumption`: "" is a
string and no valid URL; an absent value and one that is no string are not
strings): `TypeCorrect`, `TrapSafety` (`Spec => []TrapsOnlyOnMissingName`) and
`ReadBack` (`Spec => []ReadsBackTheDocument`). `HoldsItsDocument` carries the
document from the initializer to the getters, and `LastIsAlive` says that the last
call was made on a user that exists.

### LogFormatProofs

For any block size, any header size that is not 0 and fits in a block, any sizes of
records, and any number of records, crashes and failing writes
(`LogFormatAssumption`):

| Theorem | Statement |
|---|---|
| `TypeCorrect` | `Spec => []TypeOK` |
| `WholeRecordsOnly` | `Spec => []OnlyWholeRecords` |

`OnlyWholeRecords` speaks of what was returned; the invariant speaks of the bytes.
`Chained`: in front of a byte of a fragment are the bytes before it of the same
fragment, and a fragment that is not the first of its record follows the last byte of
the one before with nothing but a trailer between. `Ascending`: nothing of a record
follows a later record, or the end of its own. `WriterInv`: the file ends where the
writer's next fragment has to begin. Torn fragments keep all of this, since what is
left of one is a beginning of it (`FileExtended`), with any part of the trailer before
it, and so does the loss of an unsynced
tail (`FilePrefix`). `KeptInv`: what the reader has kept is the beginning of one
record and ends at `lo`, or less than a header before it at the end of a block. When a
middle or last fragment is accepted, that end and the fragment it follows are both
within a header of it, so they are the same (`Continues`). `OutInv` and `Ascending`
give the order of the records (`Later`). A reader that kept `scratch` across a dropped
buffer would break `KeptInv`.

### DBImplProofs

For any number of calls, restarts and I/O errors, any size of a memtable and of a
group and any triggers (`DBImplAssumption`: the budgets have a largest number of
calls, which numbers the callers, `Nil` is no memtable, the triggers are ordered):

| Theorem | Statement |
|---|---|
| `TypeCorrect` | `Spec => []TypeOK` |
| `ManifestFilesAlwaysExist` | `Spec => []ManifestFilesExist` |
| `ContentsAlwaysGrow` | `Spec => ContentsOnlyGrow` |
| `SequenceNumbersAlwaysUnique` | `Spec => []SequenceNumbersUnique` |
| `AcknowledgedAlwaysReadable` | `Spec => []AcknowledgedIsReadable` |

None of the four properties is inductive. The invariant is built in layers, each kept
by every step from itself and the layers before it:

* `Shape` and `Quiet`: the types, which locals are in use when, and that a process that
  is not running has nothing in memory. `TypeCorrect` follows.
* `Files`: every table that a version the next recovery may find (`Disk`), the current
  version, or an edit under way names is on disk. `DeleteObsoleteFiles` goes by the
  current version only, so it also needs `Exact`: as long as nothing has failed, no crash
  can take the manifest back behind the version of the process or the one it is about to
  install; after a failure nothing is deleted. The output of a running compaction is in
  `pending_outputs_` (`Output`). `ManifestFilesAlwaysExist` follows.
* `Numbers`: file numbers are not given twice. The counters in the manifest ascend
  (`Ordered`), the process counts on from the last (`Alloc`), an edit lies between the two
  (`Edits`), a table being written is named nowhere yet (`Unused`), the log in use is the
  last one (`LogFiles`), and a recovery has numbered what it has read (`Unread`). With it
  no step changes a table that anything names (`ImmutableStep`).
* `Contents`: the edit of a flush adds what `imm_` holds, that of a compaction what the
  tables it deletes hold. `ContentsAlwaysGrow` follows.
* `Queue`: nobody is in `writers_` twice, and who is in it waits.
* `Sequence`: among the batches that are applied, logged where a recovery may read them,
  or in the leader's group, no two have the same number (`Distinct`); all but the group
  are at or below `last_sequence_` (`Past`), also those whose write failed after
  `AddRecord`; every version that a recovery may find knows a last sequence above its
  tables (`Bounds`), and the replay that above what it has read (`Recovered`).
  `SequenceNumbersAlwaysUnique` follows.
* `Acknowledged`: from every version that a recovery may find, it finds every
  acknowledged batch in the tables or in a log it will replay, before any torn record and,
  for a sync write, synced (`OnDisk`); what is in `mem_` and `imm_` is in such a log
  (`Readers`); the manifest is never behind the version of the process (`Ahead`), which is
  why old logs may go; a replay under way has, or will still read, all of them
  (`Replaying`); and the leader's group is the last record of the log, synced if it has to
  be (`Leading`); what a failing `AddRecord` left behind may be a whole record
  (`PerhapsLogged`). `AcknowledgedAlwaysReadable` follows.

What a step does is stated once, field by field, in the lemmas named `...Does`, and
`NextCases` groups the steps: those of callers and leader (`CallStep`), of the background
thread (`FileStep`), the end of a process (`Down`) and the five steps of `DB::Open`. Each
layer then has one lemma per step. What the manifest replays to is a recursive function
of its records; the facts about it that speak of all records (`ReplayedDef`,
`ReplayedType`, `ReplayedPrefix`) are proved by the least record at which they fail, since
every nonempty set of naturals has a least element (`LeastElement`).

## 5. What is only model-checked

Liveness (`WaitersReturn`, `CallsReturn`, `SnapshotNotified`, `HandlersCalled`,
`WritesReturn`, `EveryClosureRuns`, `EveryTimerIsCalled` and the fairness half of
the refinement) depends on fairness and `ENABLED`, which the prover does not
handle. `UserSwitchNeedsLogOut` does not hold for every setting (`login_user_switch`).
`VersionSet` has no theorems: what it computes by folding over tables and levels would
need induction over data, which the prover cannot do.
`AcknowledgedIsReadBack` and `CrashIsNotCorruption` of `LogFormat` say that the reader
misses nothing; their invariant would have to place every record in its block, and has
not been stated.

## 6. Observations

Behaviours of the code that no document forbids, or that contradict a comment
without a run of their own, and that a maintainer may want to know:

Login

* Without a controller to present from, `openURLWithSafariViewController:` returns
  without a callback (`FBSDKApplicationDelegate.m:374`); the manager stays in
  `Start` and drops every later login (`NeverShown`).
* A `service_disabled` answer that comes while an `SFSafariViewController` is
  being dismissed (a late or repeated answer of the Facebook app) waits for a
  notification that has already passed; the login never ends (`FallbackMissed`).
* The completion of a dismissal, and the end of a session's callback, clear
  `_pendingURLOpen` and `_authenticationSession` even if a login begun meanwhile
  has set them; that login may never end (`OpenerForgotten`).
* A login reported as cancelled because the app became active still logs the
  user in when its answer arrives; through a reauthentication, the next login's
  handler may be given that token. `TokenFromOwnPage` states this exception.
* A login begun inside the handler of a login that is being replaced is itself
  overwritten when the outer call goes on.
* `FBSDKLoginManager.h:154` says a login before the previous handler was called
  "will return an error"; it is dropped without a call, or cancels the other one.

Bolts

* `BFCancellationTokenSource.h:48` says a delay of -1 stops any scheduled
  cancellation; only those of the calling thread's run loop are stopped.
* `BFCancellationToken.h:36` says an observer registered on a cancelled token is
  notified immediately; `registerCancellationObserverWithBlock:` never looks at
  `_cancellationRequested`.
* In a debug build a registration disposed after `cancel` copied the list makes
  `notifyDelegate` raise, and the observers behind it are never called.
* In a release build a `cancel` that copied the list calls a nil block if the
  registration is disposed before its turn, and crashes; or it calls the observer
  after dispose has returned, if it had read the block before dispose cleared it.
* `[token dispose]` deadlocks with an observer that disposes its own registration.
* A cancellation scheduled with `cancelAfterDelay:` outlives `dispose` and raises
  on its run loop.

The app: `getUser` and `getProfilePicture` never call their handlers (stubs).

leveldb

* With `reuse_logs`, a log whose tail was torn is appended to; the reader gives up
  at the torn record, so later acknowledged records of that log are lost.
* A failing `AddRecord` is not recorded as a background error (a failing sync is),
  so later writes go behind a possibly broken record.
* A crash of the machine may lose the unsynced tail of an older log and keep a
  synced write of a newer one: a hole, not a prefix.
* After a background error a compaction still flushes a full memtable.
* `Recover` matches the files that must exist by number and ignores their type.

gRPC-Core

* `timer_manager.cc:237` says a thread that fails the trylock can sleep for ever since
  another has just checked; between the two unlocks at `timer_generic.cc:598` that is
  not so, and a timer set there may be called late (section 3).
* `mpscq.h:84` says a pop returns NULL only if the queue was empty; it also does
  while a push is half done, and the combiner relies on trying again.
* `timer_generic.cc:60` says the heap holds deadlines up to and including the cap;
  the code compares with `<`, so a timer at the cap is found a tick later.
* A timer with deadline `GPR_ATM_MAX` is not called when the list is shut down.
* `GPR_MIN(1, 2 * cores)` always gives one shard; `GPR_MAX` may have been meant.
* `start_threads` when threads already run sets `g_threaded` to false.

## 7. What is not modelled, and why

The task a continuation returns, the combinators of `BFTask`, the system account
login and the Bridge API. Graph requests are seen only through their completions.
`AuthService` has no operation.

Of leveldb: the encodings of tables and batches, the skiplist, the table and block
caches, backward iteration, `RepairDB` and `DestroyDB`; bytes that rot rather than
being torn. Of gRPC-Core: the transport, security, name resolution and calls, a
restart of the timer threads, the manual tick and spurious wake-ups of a waiting
timer thread (they only make it check earlier), and reorderings of memory weaker
than sequential consistency.

BoringSSL is cryptography, whose arithmetic is out of a model checker's reach, and
a TLS state machine driven by its encodings. The rest of the Pods is binary,
generated or the runtime of generated code, and the app does not call it.
Storyboards and project files have no behaviour.

## 8. Plan

Done: `Promise`, `BFTask`; `BFCancellationToken`, `FBSDKLogin`, `Bubble`;
`DBImpl`, `LogFormat`, `VersionSet`; `Mpscq`, `Combiner`, `GrpcTimer`; theorems for
`BFTask`, `BFCancellationToken`, `FBSDKLogin`, `Bubble`, `Combiner` with `Mpscq`,
`GrpcTimer`, `LogFormat` and `DBImpl`. Next, in order of importance:

1. The other invariants of `LogFormat` as theorems.
2. Theorems for `VersionSet` (`LevelsAreSorted`).
3. `BFTaskCombinators`: `taskForCompletionOfAllTasks:`, `...AnyTask:`,
   `taskWithDelay:` and the task that `continueWith...` returns, over an abstract
   promise per task; with it the composition of `BFTask` and
   `BFCancellationToken` (a continuation whose token is cancelled or disposed).
4. The LRU cache of leveldb, `GRPCCall` with its buffered writer, and the host
   queues of `GTMSessionFetcherService`.
