------------------------------- MODULE DBImpl -------------------------------
(***************************************************************************)
(* The write path of leveldb (db/db_impl.cc with LogAndApply and Recover   *)
(* of db/version_set.cc): the queue of writers and group commit, the log,  *)
(* the switch of memtables, the background thread that flushes the         *)
(* immutable memtable and compacts level 0, the manifest, the collection   *)
(* of obsolete files, failing I/O, a crash at any point and the recovery.  *)
(*                                                                         *)
(* A batch is named by the call of Write that brings it, so a memtable and *)
(* a table file are sets of writers and a log record is the set of         *)
(* writers one leader logged.  The levels above 0 are one set of files.    *)
(* options.reuse_logs keeps its default, false.                            *)
(*                                                                         *)
(* One step is what a thread does between two points where it gives up     *)
(* mutex_; only after SwitchMemTable does the leader keep it.              *)
(***************************************************************************)
EXTENDS Integers, Sequences, FiniteSets, SequencesExt, FiniteSetsExt

CONSTANTS Budgets,            \* bounds: [calls, restarts, errors] of a behaviour
          Nil,                \* NULL
          WriteBufferSize,    \* batches a memtable may hold before it is full
          MaxGroup,           \* batches in a group (max_size of BuildBatchGroup)
          CompactionTrigger,  \* kL0_CompactionTrigger
          SlowdownTrigger,    \* kL0_SlowdownWritesTrigger
          StopTrigger         \* kL0_StopWritesTrigger

\* The calls of Write, numbered in the order in which they are made.
Writers == 1 .. Max({b.calls : b \in Budgets})

ASSUME DBImplAssumption ==
    /\ Budgets \subseteq [calls : Nat, restarts : Nat, errors : Nat]
    /\ \E b \in Budgets : \A c \in Budgets : c.calls <= b.calls
    /\ \A s \in SUBSET Writers : Nil # s
    /\ WriteBufferSize \in Nat
    /\ {MaxGroup, CompactionTrigger} \subseteq Nat \ {0}
    /\ CompactionTrigger <= SlowdownTrigger /\ SlowdownTrigger <= StopTrigger

VARIABLES
    \* the files
    logs,       \* log number -> [recs, synced]
    tables,     \* table number -> the batches in it
    manifest,   \* [recs, synced] of the file CURRENT names
    \* the process
    up,         \* "closed", "recovering", "new_manifest", "cleanup", "open",
                \* "closing", or "corrupt": DB::Open returned Corruption
    rec,        \* the local state of Recover and of DB::Open
    version,    \* versions_: current version, log number, next file, last sequence
    writers,    \* writers_
    lead,       \* the locals of the writer at the front of writers_
    mem, imm,   \* mem_ and imm_
    logfile,    \* logfile_number_
    pending,    \* pending_outputs_
    scheduled,  \* bg_compaction_scheduled_
    bgError,    \* bg_error_ is not OK
    flush,      \* the locals of CompactMemTable
    comp,       \* the locals of BackgroundCompaction and DoCompactionWork
    \* the callers
    req,        \* kind and progress of each call
    seqOf,      \* the sequence number a batch was given, 0 for none
    excused,    \* acknowledged batches no promise covers any more
    budget      \* calls, crashes or closes, and I/O errors still to come

diskVars == <<logs, tables, manifest>>
openVars == <<up, rec>>
memVars  == <<version, mem, imm, logfile>>
bgVars   == <<pending, scheduled, bgError, flush, comp>>
callVars == <<writers, lead, req, seqOf, excused>>
vars     == <<diskVars, openVars, memVars, bgVars, callVars, budget>>

\* "flush" is TEST_CompactMemTable: a write of a NULL batch, then a wait for imm_.
Kinds == {"sync", "async", "flush"}

\* The record a failed or interrupted AddRecord leaves behind: no edit in the
\* manifest, no batch in a log.
Torn    == <<>>
TornLog == {}

NoLead  == [pc |-> "none", force |-> FALSE, delay |-> FALSE, group |-> <<>>]
NoFlush == [pc |-> "none", out |-> 0, edit |-> Nil]
NoComp  == [pc |-> "none", inputs |-> {}, out |-> 0, edit |-> Nil]
NoRec   == [logs |-> {}, pos |-> 1, mem |-> {}, added |-> {}, maxseq |-> 0]

VersionType == [l0 : SUBSET Nat, l1 : SUBSET Nat, log : Nat, next : Nat, seq : Nat]
EditType    == [add0 : SUBSET Nat, add1 : SUBSET Nat, del : SUBSET Nat,
                log : Nat, next : Nat, seq : Nat]

TypeOK ==
    /\ DOMAIN logs \subseteq Nat
    /\ logs \in [DOMAIN logs -> [recs : Seq(SUBSET Writers), synced : Nat]]
    /\ \A n \in DOMAIN logs : logs[n].synced <= Len(logs[n].recs)
    /\ DOMAIN tables \subseteq Nat /\ tables \in [DOMAIN tables -> SUBSET Writers]
    /\ manifest \in [recs : Seq(EditType \cup {Torn}), synced : Nat]
    /\ manifest.synced <= Len(manifest.recs)
    /\ up \in {"closed", "recovering", "new_manifest", "cleanup", "open", "closing",
               "corrupt"}
    /\ rec \in [logs : SUBSET Nat, pos : Nat \ {0}, mem : SUBSET Writers,
                added : SUBSET Nat, maxseq : Nat]
    /\ version \in VersionType
    /\ writers \in Seq(Writers)
    /\ lead \in [pc : {"none", "room", "switched", "waiting", "logging", "syncing",
                       "applying"},
                 force : BOOLEAN, delay : BOOLEAN, group : Seq(Writers)]
    /\ mem \in SUBSET Writers /\ (imm = Nil \/ imm \in SUBSET Writers)
    /\ logfile \in Nat
    /\ pending \in SUBSET Nat
    /\ scheduled \in BOOLEAN /\ bgError \in BOOLEAN
    /\ flush \in [pc : {"none", "build", "manifest", "done", "failed"},
                  out : Nat, edit : EditType \cup {Nil}]
    /\ comp \in [pc : {"none", "work", "manifest", "done", "failed"},
                 inputs : SUBSET Nat, out : Nat, edit : EditType \cup {Nil}]
    /\ req \in [Writers -> [kind : Kinds,
                            st : {"idle", "queued", "check", "wait", "ok", "error", "lost"}]]
    /\ seqOf \in [Writers -> Nat]
    /\ excused \in SUBSET Writers
    /\ budget \in [calls : Nat, restarts : Nat, errors : Nat]

-----------------------------------------------------------------------------
(* Manifest and versions                                                   *)

\* Variant: the deletions of an edit applied after its additions.
ApplyDeletesLast(v, e) ==
    [l0 |-> (v.l0 \cup e.add0) \ e.del, l1 |-> (v.l1 \cup e.add1) \ e.del,
     log |-> e.log, next |-> e.next, seq |-> e.seq]

\* Builder::Apply and SaveTo, and the numbers Recover takes from an edit.
Apply(v, e) ==
    [l0 |-> (v.l0 \ e.del) \cup e.add0, l1 |-> (v.l1 \ e.del) \cup e.add1,
     log |-> e.log, next |-> e.next, seq |-> e.seq]

EmptyVersion == [l0 |-> {}, l1 |-> {}, log |-> 0, next |-> 2, seq |-> 0]

\* What VersionSet::Recover finds in the first n of the records; a torn record is
\* read over only at the end of the file.
Replayed(recs) ==
    LET v[n \in 0 .. Len(recs)] ==
            IF n = 0 THEN EmptyVersion
            ELSE IF recs[n] = Torn THEN v[n - 1] ELSE Apply(v[n - 1], recs[n])
    IN  v
Replay(n) == Replayed(manifest.recs)[n]

Readable(n) == \A i \in 1 .. n - 1 : manifest.recs[i] # Torn

Live(v) == v.l0 \cup v.l1

\* The edit LogAndApply writes: log, next file and last sequence are filled in.
Edit(add0, add1, del, log, v) ==
    [add0 |-> add0, add1 |-> add1, del |-> del, log |-> log, next |-> v.next, seq |-> v.seq]

-----------------------------------------------------------------------------
(* Helpers of DBImpl                                                       *)

MutexFree == lead.pc # "switched"
Fault     == budget.errors > 0 /\ budget' = [budget EXCEPT !.errors = @ - 1]
NoFault   == UNCHANGED budget

\* Variant: pending_outputs_ is not looked at.
DeleteObsoleteIgnoresPending(v, p) ==
    IF bgError THEN UNCHANGED <<logs, tables>>
    ELSE /\ logs' = [n \in {n \in DOMAIN logs : n >= v.log} |-> logs[n]]
         /\ tables' = [n \in DOMAIN tables \cap Live(v) |-> tables[n]]

\* DeleteObsoleteFiles after the version became v and pending_outputs_ became p.
DeleteObsoleteFiles(v, p) ==
    IF bgError THEN UNCHANGED <<logs, tables>>
    ELSE /\ logs' = [n \in {n \in DOMAIN logs : n >= v.log} |-> logs[n]]
         /\ tables' = [n \in DOMAIN tables \cap (p \cup Live(v)) |-> tables[n]]

NeedsCompaction(v) == Cardinality(v.l0) >= CompactionTrigger

\* MaybeScheduleCompaction: the new value of bg_compaction_scheduled_.
MaybeScheduleCompaction(s, im, v, err) ==
    s \/ (up # "closing" /\ ~err /\ (im # Nil \/ NeedsCompaction(v)))

\* Variant: only the callers of TEST_CompactMemTable are woken.
SignalNotLeader ==
    /\ req' = [w \in Writers |->
                 IF req[w].st = "wait" THEN [req[w] EXCEPT !.st = "check"] ELSE req[w]]
    /\ UNCHANGED lead

\* bg_cv_.SignalAll: the leader in MakeRoomForWrite and the callers of
\* TEST_CompactMemTable look at their conditions again.
SignalAll ==
    /\ req' = [w \in Writers |->
                 IF req[w].st = "wait" THEN [req[w] EXCEPT !.st = "check"] ELSE req[w]]
    /\ lead' = [lead EXCEPT !.pc = IF @ = "waiting" THEN "room" ELSE @]

\* The locals with which the writer at the front of the queue enters
\* MakeRoomForWrite.
Foremost(q) ==
    IF q = <<>> THEN NoLead
    ELSE LET null == req[Head(q)].kind = "flush"
         IN  [pc |-> "room", force |-> null, delay |-> ~null, group |-> <<>>]

\* The end of Write: pop the first n writers, give them the status and hand the
\* queue to the next one.
Finish(n, status) ==
    LET done == {writers[i] : i \in 1 .. n}
        st(w) == IF status = "ok" /\ req[w].kind = "flush" THEN "check" ELSE status
    IN  /\ writers' = SubSeq(writers, n + 1, Len(writers))
        /\ lead' = Foremost(writers')
        /\ req' = [w \in Writers |-> IF w \in done THEN [req[w] EXCEPT !.st = st(w)]
                                     ELSE req[w]]

\* The batches that the writers q bring; that of TEST_CompactMemTable is NULL.
Batches(q) == {w \in ToSet(q) : req[w].kind # "flush"}

\* Variant: a sync write may ride with a leader that is not sync.
BuildBatchGroupTakesSync ==
    LET fits(i) == \/ req[writers[i]].kind = "flush"
                   \/ Cardinality(Batches(SubSeq(writers, 1, i))) <= MaxGroup
    IN  CHOOSE n \in 1 .. Len(writers) :
            /\ \A i \in 2 .. n : fits(i)
            /\ n = Len(writers) \/ ~fits(n + 1)

\* BuildBatchGroup: how many writers from the front the leader takes along.  A
\* NULL batch adds nothing to the size; a sync write does not join a leader that
\* is not sync.
BuildBatchGroup ==
    LET mayJoin(i) == \/ req[writers[i]].kind # "sync"
                      \/ req[Head(writers)].kind = "sync"
        fits(i)    == \/ req[writers[i]].kind = "flush"
                      \/ Cardinality(Batches(SubSeq(writers, 1, i))) <= MaxGroup
    IN  CHOOSE n \in 1 .. Len(writers) :
            /\ \A i \in 2 .. n : mayJoin(i) /\ fits(i)
            /\ n = Len(writers) \/ ~(mayJoin(n + 1) /\ fits(n + 1))

InMemory == mem \cup (IF imm = Nil THEN {} ELSE imm)
InTables == UNION {tables[n] : n \in DOMAIN tables \cap Live(version)}

\* What a read sees.
Visible == InMemory \cup InTables

-----------------------------------------------------------------------------
(* NewDB, and the process not running                                      *)

Init ==
    /\ logs = <<>> /\ tables = <<>>
    /\ manifest = [recs |-> <<Edit({}, {}, {}, 0, EmptyVersion)>>, synced |-> 1]
    /\ up = "closed" /\ rec = NoRec
    /\ version = EmptyVersion
    /\ writers = <<>> /\ lead = NoLead
    /\ mem = {} /\ imm = Nil /\ logfile = 0
    /\ pending = {} /\ scheduled = FALSE /\ bgError = FALSE
    /\ flush = NoFlush /\ comp = NoComp
    /\ req = [w \in Writers |-> [kind |-> "async", st |-> "idle"]]
    /\ seqOf = [w \in Writers |-> 0]
    /\ excused = {}
    /\ budget \in Budgets

-----------------------------------------------------------------------------
(* Write                                                                   *)

Enqueue(w, kind) ==
    /\ up = "open" /\ MutexFree
    /\ budget.calls > 0 /\ budget' = [budget EXCEPT !.calls = @ - 1]
    /\ w = 1 + Cardinality({v \in Writers : req[v].st # "idle"})
    /\ req' = [req EXCEPT ![w] = [kind |-> kind, st |-> "queued"]]
    /\ writers' = Append(writers, w)
    /\ lead' = IF writers = <<>>
               THEN [pc |-> "room", force |-> kind = "flush", delay |-> kind # "flush",
                     group |-> <<>>]
               ELSE lead
    /\ UNCHANGED <<diskVars, openVars, memVars, bgVars, seqOf, excused>>

\* MakeRoomForWrite, one disjunct of its loop per action.
InLoop   == lead.pc \in {"room", "switched"}
Slow     == lead.delay /\ Cardinality(version.l0) >= SlowdownTrigger
HasRoom  == ~lead.force /\ Cardinality(mem) <= WriteBufferSize
MustWait == imm # Nil \/ Cardinality(version.l0) >= StopTrigger

MakeRoomError ==
    /\ InLoop /\ bgError
    /\ Finish(1, "error")
    /\ UNCHANGED <<diskVars, openVars, memVars, bgVars, seqOf, excused, budget>>

MakeRoomDelay ==
    /\ InLoop /\ ~bgError /\ Slow
    /\ lead' = [lead EXCEPT !.pc = "room", !.delay = FALSE]
    /\ UNCHANGED <<diskVars, openVars, memVars, bgVars, writers, req, seqOf, excused,
                   budget>>

MakeRoomWait ==
    /\ InLoop /\ ~bgError /\ ~Slow /\ ~HasRoom /\ MustWait
    /\ lead' = [lead EXCEPT !.pc = "waiting"]
    /\ UNCHANGED <<diskVars, openVars, memVars, bgVars, writers, req, seqOf, excused,
                   budget>>

SwitchMemTable ==
    /\ InLoop /\ ~bgError /\ ~Slow /\ ~HasRoom /\ ~MustWait
    /\ \/ /\ NoFault
          /\ logfile' = version.next
          /\ version' = [version EXCEPT !.next = @ + 1]
          /\ logs' = [n \in DOMAIN logs \cup {logfile'} |->
                        IF n = logfile' THEN [recs |-> <<>>, synced |-> 0] ELSE logs[n]]
          /\ imm' = mem /\ mem' = {}
          /\ lead' = [lead EXCEPT !.pc = "switched", !.force = FALSE]
          /\ scheduled' = MaybeScheduleCompaction(scheduled, mem, version, bgError)
          /\ UNCHANGED <<writers, req>>
       \/ /\ Fault         \* NewWritableFile fails; the number is reused
          /\ Finish(1, "error")
          /\ UNCHANGED <<logs, version, mem, imm, logfile, scheduled>>
    /\ UNCHANGED <<tables, manifest, openVars, pending, bgError, flush, comp, seqOf, excused>>

\* There is room: a NULL batch is done; otherwise the leader builds its group,
\* numbers it in the order of the calls and lets go of the mutex.
MakeRoomDone ==
    /\ InLoop /\ ~bgError /\ ~Slow /\ HasRoom
    /\ IF req[Head(writers)].kind = "flush"
       THEN Finish(1, "ok") /\ UNCHANGED seqOf
       ELSE LET group == SubSeq(writers, 1, BuildBatchGroup)
                batch == Batches(group)
            IN  /\ lead' = [lead EXCEPT !.pc = "logging", !.group = group]
                /\ seqOf' = [w \in Writers |->
                               IF w \in batch
                               THEN version.seq + Cardinality({v \in batch : v <= w})
                               ELSE seqOf[w]]
                /\ UNCHANGED <<writers, req>>
    /\ UNCHANGED <<diskVars, openVars, memVars, bgVars, excused, budget>>

LogWith(r) == [logs EXCEPT ![logfile].recs = Append(@, r)]
LastSequence == version.seq + Cardinality(Batches(lead.group))

\* log_->AddRecord, without the mutex.
AddRecord ==
    /\ lead.pc = "logging"
    /\ logs' = LogWith(Batches(lead.group))
    /\ lead' = [lead EXCEPT !.pc = IF req[Head(writers)].kind = "sync" THEN "syncing"
                                   ELSE "applying"]
    /\ UNCHANGED <<tables, manifest, openVars, memVars, bgVars, writers, req, seqOf, excused,
                   budget>>

\* It fails, perhaps half way, or with all of the record in the file: the group
\* gets the error, the sequence numbers are used up, and later writes go to the
\* same log.
AddRecordFails ==
    /\ lead.pc = "logging" /\ Fault
    /\ logs' \in {logs, LogWith(TornLog), LogWith(Batches(lead.group))}
    /\ version' = [version EXCEPT !.seq = LastSequence]
    /\ Finish(Len(lead.group), "error")
    /\ UNCHANGED <<tables, manifest, openVars, mem, imm, logfile, bgVars, seqOf, excused>>

\* logfile_->Sync.  If it fails nobody knows whether the record is on disk, and
\* RecordBackgroundError makes every later write fail.
SyncLog ==
    /\ lead.pc = "syncing"
    /\ logs' = [logs EXCEPT ![logfile].synced = Len(logs[logfile].recs)]
    /\ lead' = [lead EXCEPT !.pc = "applying"]
    /\ UNCHANGED <<tables, manifest, openVars, memVars, bgVars, writers, req, seqOf, excused,
                   budget>>

SyncLogFails ==
    /\ lead.pc = "syncing" /\ Fault
    /\ bgError' = TRUE
    /\ version' = [version EXCEPT !.seq = LastSequence]
    /\ LET n == Len(lead.group)
           done == {writers[i] : i \in 1 .. n}
       IN  /\ writers' = SubSeq(writers, n + 1, Len(writers))
           /\ lead' = Foremost(writers')
           /\ req' = [w \in Writers |->
                        IF w \in done THEN [req[w] EXCEPT !.st = "error"]
                        ELSE IF req[w].st = "wait" THEN [req[w] EXCEPT !.st = "check"]
                        ELSE req[w]]
    /\ UNCHANGED <<diskVars, openVars, mem, imm, logfile, pending, scheduled, flush, comp,
                   seqOf, excused>>

\* InsertInto the memtable, SetLastSequence and the return of the whole group.
\* What follows a torn record in its log is not promised to anybody.
ApplyGroup ==
    /\ lead.pc = "applying"
    /\ mem' = mem \cup Batches(lead.group)
    /\ version' = [version EXCEPT !.seq = LastSequence]
    /\ Finish(Len(lead.group), "ok")
    /\ excused' = IF TornLog \in ToSet(logs[logfile].recs)
                  THEN excused \cup Batches(lead.group) ELSE excused
    /\ UNCHANGED <<diskVars, openVars, imm, logfile, bgVars, seqOf, budget>>

\* The second half of TEST_CompactMemTable.
AwaitImm(w) ==
    /\ req[w].st = "check" /\ MutexFree
    /\ req' = [req EXCEPT ![w].st = CASE imm = Nil             -> "ok"
                                      [] imm # Nil /\ bgError  -> "error"
                                      [] OTHER                 -> "wait"]
    /\ UNCHANGED <<diskVars, openVars, memVars, bgVars, writers, lead, seqOf, excused,
                   budget>>

-----------------------------------------------------------------------------
(* The background thread                                                   *)

Idle    == scheduled /\ flush.pc = "none" /\ comp.pc = "none" /\ MutexFree
MayWork == up # "closing" /\ ~bgError

\* The end of BackgroundCall.
EndCall(im, v, err) ==
    /\ scheduled' = MaybeScheduleCompaction(FALSE, im, v, err)
    /\ SignalAll

\* BackgroundCall with nothing it may do.
BackgroundCallSkips ==
    /\ Idle /\ ~MayWork
    /\ EndCall(imm, version, bgError)
    /\ UNCHANGED <<diskVars, openVars, memVars, pending, bgError, flush, comp, writers,
                   seqOf, excused, budget>>

\* CompactMemTable begins, in BackgroundCompaction or inside the loop of
\* DoCompactionWork; there bg_error_ is not looked at.
FlushBegin ==
    /\ imm # Nil /\ flush.pc = "none" /\ MutexFree
    /\ \/ Idle /\ MayWork
       \/ comp.pc = "work" /\ up # "closing"
    /\ flush' = [NoFlush EXCEPT !.pc = "build", !.out = version.next]
    /\ pending' = pending \cup {version.next}
    /\ version' = [version EXCEPT !.next = @ + 1]
    /\ UNCHANGED <<diskVars, openVars, mem, imm, logfile, scheduled, bgError, comp, callVars,
                   budget>>

\* CompactMemTable returns: to the end of BackgroundCall, or to DoCompactionWork,
\* which wakes the writers.
FlushReturn(im, v, err) ==
    /\ flush' = NoFlush
    /\ IF comp.pc = "none" THEN EndCall(im, v, err) ELSE SignalAll /\ UNCHANGED scheduled

\* BuildTable without the mutex, then the edit under it.  PickLevelForMemTableOutput
\* may choose level 0 only if some file is there to overlap with.
FlushBuild ==
    /\ flush.pc = "build" /\ MutexFree
    /\ pending' = pending \ {flush.out}
    /\ \/ /\ NoFault
          /\ tables' = IF imm = {} THEN tables
                       ELSE [n \in DOMAIN tables \cup {flush.out} |->
                               IF n = flush.out THEN imm ELSE tables[n]]
          /\ IF up = "closing"
             THEN bgError' = TRUE /\ FlushReturn(imm, version, TRUE)
             ELSE /\ \E zero \in BOOLEAN :
                       /\ zero => Live(version) # {}
                       /\ LET out == IF imm = {} THEN {} ELSE {flush.out}
                          IN  flush' = [flush EXCEPT !.pc = "manifest",
                                          !.edit = Edit(IF zero THEN out ELSE {},
                                                        IF zero THEN {} ELSE out,
                                                        {}, logfile, version)]
                  /\ UNCHANGED <<bgError, scheduled, req, lead>>
       \/ /\ Fault /\ bgError' = TRUE
          /\ FlushReturn(imm, version, TRUE)
          /\ UNCHANGED tables
    /\ UNCHANGED <<logs, manifest, openVars, memVars, comp, writers, seqOf, excused>>

\* LogAndApply without the mutex: AddRecord and Sync of the manifest.  A failure
\* leaves nothing, half a record, or a whole record that may not be on disk.
WriteManifest(e, ok) ==
    \/ /\ NoFault /\ ok
       /\ manifest' = [recs |-> Append(manifest.recs, e), synced |-> Len(manifest.recs) + 1]
    \/ /\ Fault /\ ~ok
       /\ \/ UNCHANGED manifest
          \/ \E r \in {e, Torn} : manifest' = [manifest EXCEPT !.recs = Append(@, r)]

FlushManifest ==
    /\ flush.pc = "manifest"
    /\ \E ok \in BOOLEAN :
          /\ WriteManifest(flush.edit, ok)
          /\ flush' = [flush EXCEPT !.pc = IF ok THEN "done" ELSE "failed"]
    /\ UNCHANGED <<logs, tables, openVars, memVars, pending, scheduled, bgError, comp,
                   callVars>>

\* The version LogAndApply installs: the counters have moved on.
Installed(e) == [Apply(version, e) EXCEPT !.next = version.next, !.seq = version.seq]

FlushInstall ==
    /\ flush.pc \in {"done", "failed"} /\ MutexFree
    /\ IF flush.pc = "done"
       THEN /\ version' = Installed(flush.edit)
            /\ imm' = Nil
            /\ DeleteObsoleteFiles(version', pending)
            /\ UNCHANGED bgError
       ELSE /\ bgError' = TRUE
            /\ UNCHANGED <<version, imm, logs, tables>>
    /\ FlushReturn(imm', version', bgError')
    /\ UNCHANGED <<manifest, openVars, mem, logfile, pending, comp, writers, seqOf, excused,
                   budget>>

\* BackgroundCompaction picks level 0 and whatever overlaps it in the next level;
\* a single file without overlap is only moved.
CompactBegin(over) ==
    /\ Idle /\ MayWork /\ imm = Nil
    /\ NeedsCompaction(version)
    /\ over \in {{}, version.l1}
    /\ comp' = IF over = {} /\ Cardinality(version.l0) = 1
               THEN [NoComp EXCEPT !.pc = "manifest",
                       !.edit = Edit({}, version.l0, version.l0, version.log, version)]
               ELSE [NoComp EXCEPT !.pc = "work", !.inputs = version.l0 \cup over]
    /\ UNCHANGED <<diskVars, openVars, memVars, pending, scheduled, bgError, flush, callVars,
                   budget>>

\* OpenCompactionOutputFile: from here on the output is on disk, unfinished.
CompactOpen ==
    /\ comp.pc = "work" /\ comp.out = 0 /\ flush.pc = "none" /\ up # "closing" /\ MutexFree
    /\ comp' = [comp EXCEPT !.out = version.next]
    /\ pending' = pending \cup {version.next}
    /\ version' = [version EXCEPT !.next = @ + 1]
    /\ tables' = [n \in DOMAIN tables \cup {version.next} |->
                    IF n = version.next THEN {} ELSE tables[n]]
    /\ UNCHANGED <<logs, manifest, openVars, mem, imm, logfile, scheduled, bgError, flush,
                   callVars, budget>>

\* The output is complete and synced, and InstallCompactionResults makes the edit;
\* or an error, or shutting_down_, ends the compaction.
CompactWork ==
    /\ comp.pc = "work" /\ flush.pc = "none" /\ MutexFree
    /\ \/ /\ NoFault /\ comp.out # 0 /\ up # "closing"
          /\ tables' = [n \in DOMAIN tables |->
                          IF n = comp.out
                          THEN UNION {tables[i] : i \in comp.inputs \cap DOMAIN tables}
                          ELSE tables[n]]
          /\ comp' = [comp EXCEPT !.pc = "manifest",
                        !.edit = Edit({}, {comp.out}, comp.inputs, version.log, version)]
          /\ UNCHANGED <<pending, bgError, scheduled, req, lead>>
       \/ /\ IF up = "closing" THEN NoFault ELSE Fault
          /\ bgError' = TRUE
          /\ pending' = pending \ {comp.out}
          /\ comp' = NoComp
          /\ EndCall(imm, version, TRUE)
          /\ UNCHANGED tables
    /\ UNCHANGED <<logs, manifest, openVars, memVars, flush, writers, seqOf, excused>>

CompactManifest ==
    /\ comp.pc = "manifest"
    /\ \E ok \in BOOLEAN :
          /\ WriteManifest(comp.edit, ok)
          /\ comp' = [comp EXCEPT !.pc = IF ok THEN "done" ELSE "failed"]
    /\ UNCHANGED <<logs, tables, openVars, memVars, pending, scheduled, bgError, flush,
                   callVars>>

\* The version is installed, CleanupCompaction forgets the outputs and the
\* obsolete files go (not after a trivial move).
CompactInstall ==
    /\ comp.pc \in {"done", "failed"} /\ MutexFree
    /\ pending' = pending \ {comp.out}
    /\ IF comp.pc = "done"
       THEN /\ version' = Installed(comp.edit)
            /\ IF comp.out = 0 THEN UNCHANGED <<logs, tables>>
               ELSE DeleteObsoleteFiles(version', pending')
            /\ UNCHANGED bgError
       ELSE bgError' = TRUE /\ UNCHANGED <<version, logs, tables>>
    /\ comp' = NoComp
    /\ EndCall(imm, version', bgError')
    /\ UNCHANGED <<manifest, openVars, mem, imm, logfile, flush, writers, seqOf, excused,
                   budget>>

-----------------------------------------------------------------------------
(* Close and crash                                                         *)

Restart == budget.restarts > 0 /\ budget' = [budget EXCEPT !.restarts = @ - 1]

\* The memory of the process is gone.
Forget ==
    /\ rec' = NoRec /\ version' = EmptyVersion
    /\ writers' = <<>> /\ lead' = NoLead
    /\ mem' = {} /\ imm' = Nil /\ logfile' = 0
    /\ pending' = {} /\ scheduled' = FALSE /\ bgError' = FALSE
    /\ flush' = NoFlush /\ comp' = NoComp

\* ~DBImpl: no call may be running; it waits for the background thread.
Close ==
    /\ up = "open" /\ Restart
    /\ \A w \in Writers : req[w].st \notin {"queued", "check", "wait"}
    /\ up' = "closing"
    /\ UNCHANGED <<diskVars, rec, memVars, bgVars, callVars>>

Closed ==
    /\ up = "closing" /\ ~scheduled
    /\ up' = "closed" /\ Forget
    /\ UNCHANGED <<diskVars, req, seqOf, excused, budget>>

CallersLost ==
    req' = [w \in Writers |-> IF req[w].st \in {"queued", "check", "wait"}
                              THEN [req[w] EXCEPT !.st = "lost"] ELSE req[w]]

\* The process dies; what it wrote stays with the operating system.
ProcessCrash ==
    /\ up \notin {"closed", "corrupt"} /\ Restart
    /\ up' = "closed" /\ Forget /\ CallersLost
    /\ UNCHANGED <<diskVars, seqOf, excused>>

\* The machine dies: of every file any part after the last sync may be missing,
\* and with it what was acknowledged without a sync until now.
Cut(f, n) == [recs |-> SubSeq(f.recs, 1, n), synced |-> f.synced]
MachineCrash ==
    /\ up # "corrupt" /\ Restart
    /\ up' = "closed" /\ Forget /\ CallersLost
    /\ \E c \in [DOMAIN logs -> 0 .. Max({0} \cup {Len(logs[n].recs) : n \in DOMAIN logs})] :
          /\ \A n \in DOMAIN logs : c[n] \in logs[n].synced .. Len(logs[n].recs)
          /\ logs' = [n \in DOMAIN logs |-> Cut(logs[n], c[n])]
    /\ \E c \in manifest.synced .. Len(manifest.recs) : manifest' = Cut(manifest, c)
    /\ excused' = excused \cup {w \in Writers : req[w].kind = "async" /\ req[w].st = "ok"}
    /\ UNCHANGED <<tables, seqOf>>

-----------------------------------------------------------------------------
(* DB::Open                                                                *)

OpenFails == up' = "closed" /\ Forget

\* VersionSet::Recover and the choice of the logs to replay.
OpenRecover ==
    /\ up = "closed"
    /\ LET v == Replay(Len(manifest.recs))
       IN  IF /\ Readable(Len(manifest.recs))
              /\ Live(v) \subseteq DOMAIN tables \cup DOMAIN logs
           THEN /\ up' = "recovering"
                /\ version' = [v EXCEPT !.next = @ + 1]
                /\ rec' = [NoRec EXCEPT !.logs = {n \in DOMAIN logs : n >= v.log}]
           ELSE /\ up' = "corrupt"
                /\ UNCHANGED <<version, rec>>
    /\ UNCHANGED <<diskVars, mem, imm, logfile, bgVars, callVars, budget>>

\* WriteLevel0Table during recovery.
RecoverTable(m, next) ==
    /\ tables' = [n \in DOMAIN tables \cup {version.next} |->
                    IF n = version.next THEN m ELSE tables[n]]
    /\ version' = [version EXCEPT !.next = Max({@ + 1, next})]

\* One record of RecoverLogFile, of the oldest log that is left.  After a torn one
\* the reader may drop some more.
RecoverRecord ==
    /\ up = "recovering" /\ rec.logs # {}
    /\ rec.pos <= Len(logs[Min(rec.logs)].recs)
    /\ LET f    == logs[Min(rec.logs)].recs
           r    == f[rec.pos]
           m    == rec.mem \cup r
           read == [rec EXCEPT !.pos = @ + 1, !.mem = m,
                               !.maxseq = Max({@} \cup {seqOf[w] : w \in r})]
           full == Cardinality(m) > WriteBufferSize
       IN  \/ /\ r = TornLog /\ NoFault
              /\ \E k \in rec.pos + 1 .. Len(f) + 1 : rec' = [rec EXCEPT !.pos = k]
              /\ UNCHANGED <<up, tables, memVars, bgVars, writers, lead>>
           \/ /\ r # TornLog /\ ~full /\ NoFault
              /\ rec' = read
              /\ UNCHANGED <<up, tables, memVars, bgVars, writers, lead>>
           \/ /\ r # TornLog /\ full /\ NoFault
              /\ RecoverTable(m, 0)
              /\ rec' = [read EXCEPT !.mem = {}, !.added = @ \cup {version.next}]
              /\ UNCHANGED <<up, mem, imm, logfile, bgVars, writers, lead>>
           \/ r # TornLog /\ full /\ Fault /\ OpenFails /\ UNCHANGED tables
    /\ UNCHANGED <<logs, manifest, req, seqOf, excused>>

\* The end of a log: what is left goes to a table, and the number is taken.
RecoverLogDone ==
    /\ up = "recovering" /\ rec.logs # {}
    /\ LET n    == Min(rec.logs)
           next == [rec EXCEPT !.logs = @ \ {n}, !.pos = 1, !.mem = {}]
       IN  /\ rec.pos > Len(logs[n].recs)
           /\ \/ /\ rec.mem = {} /\ NoFault
                 /\ rec' = next
                 /\ version' = [version EXCEPT !.next = Max({@, n + 1})]
                 /\ UNCHANGED <<up, tables, mem, imm, logfile, bgVars, writers, lead>>
              \/ /\ rec.mem # {} /\ NoFault
                 /\ RecoverTable(rec.mem, n + 1)
                 /\ rec' = [next EXCEPT !.added = @ \cup {version.next}]
                 /\ UNCHANGED <<up, mem, imm, logfile, bgVars, writers, lead>>
              \/ rec.mem # {} /\ Fault /\ OpenFails /\ UNCHANGED tables
    /\ UNCHANGED <<logs, manifest, req, seqOf, excused>>

\* Variant: only the manifest is asked for the last sequence.
RecoveredSequenceFromManifest == version.seq

\* The last sequence after recovery: the manifest's or the logs'.
RecoveredSequence == Max({version.seq, rec.maxseq})

\* SetLastSequence and the new log.
OpenNewLog ==
    /\ up = "recovering" /\ rec.logs = {}
    /\ \/ /\ NoFault
          /\ up' = "new_manifest"
          /\ logfile' = version.next
          /\ logs' = [n \in DOMAIN logs \cup {logfile'} |->
                        IF n = logfile' THEN [recs |-> <<>>, synced |-> 0] ELSE logs[n]]
          /\ version' = [version EXCEPT !.next = @ + 1, !.seq = RecoveredSequence]
          /\ UNCHANGED <<rec, mem, imm, bgVars, writers, lead>>
       \/ Fault /\ OpenFails /\ UNCHANGED logs
    /\ UNCHANGED <<tables, manifest, req, seqOf, excused>>

\* LogAndApply with a new manifest: a snapshot and the edit, then SetCurrentFile.
OpenManifest ==
    /\ up = "new_manifest"
    /\ LET v == [version EXCEPT !.l0 = @ \cup rec.added, !.log = logfile]
       IN  \/ /\ NoFault
              /\ up' = "cleanup"
              /\ manifest' = [recs |-> <<Edit(v.l0, v.l1, {}, v.log, v)>>, synced |-> 1]
              /\ version' = v
              /\ UNCHANGED <<rec, mem, imm, logfile, bgVars, writers, lead>>
           \/ Fault /\ OpenFails /\ UNCHANGED manifest
    /\ UNCHANGED <<logs, tables, req, seqOf, excused>>

OpenCleanup ==
    /\ up = "cleanup"
    /\ up' = "open" /\ rec' = NoRec
    /\ DeleteObsoleteFiles(version, {})
    /\ scheduled' = MaybeScheduleCompaction(FALSE, imm, version, bgError)
    /\ UNCHANGED <<manifest, memVars, pending, bgError, flush, comp, callVars, budget>>

-----------------------------------------------------------------------------
LeaderStep ==
    \/ MakeRoomError \/ MakeRoomDelay \/ MakeRoomWait \/ SwitchMemTable \/ MakeRoomDone
    \/ AddRecord \/ AddRecordFails \/ SyncLog \/ SyncLogFails \/ ApplyGroup

BackgroundStep ==
    \/ BackgroundCallSkips
    \/ FlushBegin \/ FlushBuild \/ FlushManifest \/ FlushInstall
    \/ \E over \in SUBSET version.l1 : CompactBegin(over)
    \/ CompactOpen \/ CompactWork \/ CompactManifest \/ CompactInstall

OpenStep ==
    OpenRecover \/ RecoverRecord \/ RecoverLogDone \/ OpenNewLog \/ OpenManifest \/ OpenCleanup

Next ==
    \/ \E w \in Writers, kind \in Kinds : Enqueue(w, kind)
    \/ \E w \in Writers : AwaitImm(w)
    \/ LeaderStep \/ BackgroundStep \/ OpenStep
    \/ Close \/ Closed \/ ProcessCrash \/ MachineCrash

Spec == Init /\ [][Next]_vars

\* The threads of the process run; nobody is obliged to call, to fail or to crash.
Fairness ==
    /\ WF_vars(LeaderStep)
    /\ WF_vars(BackgroundStep)
    /\ WF_vars(OpenStep)
    /\ \A w \in Writers : WF_vars(AwaitImm(w))

FairSpec == Spec /\ Fairness

-----------------------------------------------------------------------------
(* Properties                                                              *)

\* options.h: "if it is just the process that crashes, no writes will be lost even
\* if sync==false", and a write with sync survives a crash of the machine too:
\* whenever the database is open, every acknowledged batch that is still promised
\* can be read, whatever flush, compaction, collection of files, failing I/O and
\* recovery came between.
AcknowledgedIsReadable ==
    up = "open" => \A w \in Writers :
        (req[w].st = "ok" /\ req[w].kind # "flush" /\ w \notin excused) => w \in Visible

\* DeleteObsoleteFiles never takes a table that the manifest, as any crash may leave
\* it, still names: not the output of a running compaction, and not a version whose
\* manifest record failed to sync.
ManifestFilesExist ==
    \A n \in manifest.synced .. Len(manifest.recs) :
        Readable(n) => Live(Replay(n)) \subseteq DOMAIN tables

\* Two batches that can both be read never carry the same sequence number, also after
\* a recovery that found only part of the logs, and the next number is beyond all.
SequenceNumbersUnique ==
    up = "open" =>
        /\ \A v, w \in Visible : v # w => seqOf[v] # seqOf[w]
        /\ \A w \in Visible : seqOf[w] <= version.seq

\* No step of an open database takes back what a read could see: flushing, compacting
\* and collecting files do not change the contents.
ContentsOnlyGrow == [][up = "open" /\ up' = "open" => Visible \subseteq Visible']_vars

\* Every call of Write returns, unless the process dies: no wakeup through bg_cv_ or
\* the writers' own variables is lost, also when the background thread fails.
WritesReturn ==
    \A w \in Writers : req[w].st \in {"queued", "check", "wait"}
                          ~> req[w].st \in {"ok", "error", "lost"}
=============================================================================
