----------------------------- MODULE DBImplInv ------------------------------
(***************************************************************************)
(* The inductive invariant of DBImpl, and what its proofs name.  It comes  *)
(* in layers; every step keeps a layer from that layer and the ones before *)
(* it.                                                                     *)
(*   Shape, Quiet  the types, and which locals are in use when             *)
(*   Files         no table that a version or an edit names is missing     *)
(*   Numbers       file numbers and last sequences only grow               *)
(*   Contents      tables do not change, and edits change no read          *)
(*   Queue         the writers' queue and group commit                     *)
(*   Sequence      no two batches have the same number                     *)
(*   Acknowledged  nothing acknowledged is lost                            *)
(***************************************************************************)
EXTENDS DBImpl

\* The steps of a flush or a compaction that already has its edit.
Edited  == {"manifest", "done", "failed"}
\* The steps of the leader between BuildBatchGroup and the end of Write.
Logging == {"logging", "syncing", "applying"}
\* DB::Open has installed its version.
Running == up \in {"cleanup", "open", "closing"}

\* The version that a recovery of all records finds.
Newest(m) == Replayed(m.recs)[Len(m.recs)]
\* The versions that a recovery may find: a crash keeps what is synced, and any part of
\* the rest; a torn record is read over only at the end.
Disk(m) == {Replayed(m.recs)[n] : n \in {k \in m.synced .. Len(m.recs) :
                                          \A i \in 1 .. k - 1 : m.recs[i] # Torn}}
\* A recovery that reads m2 finds what one that reads m finds, or the newest version.
OneMore(m, m2) ==
    \A v \in Disk(m2) : v \in Disk(m) \/ (v = Newest(m2) /\ Newest(m) \in Disk(m))
\* No crash can take the manifest back to an older version.
OnlyNewest(m) == \A v \in Disk(m) : v = Newest(m)
\* The tables an edit adds.
Adds(e) == e.add0 \cup e.add1
\* What the tables S hold.
In(t, S) == UNION {t[n] : n \in S \cap DOMAIN t}

\* Two versions with the same files and the same log number.
Same(u, v) == u.l0 = v.l0 /\ u.l1 = v.l1 /\ u.log = v.log

\* The version that the work under way makes of v.
Target(v, f, c) == IF f.pc = "done" THEN Apply(v, f.edit)
                   ELSE IF c.pc = "done" THEN Apply(v, c.edit) ELSE v
\* Nothing has failed since the database was opened.
NoError == Running /\ ~bgError /\ flush.pc # "failed" /\ comp.pc # "failed"
\* As long as nothing failed the manifest is synced up to the version of the process, or
\* to the one it is about to install: this is why DeleteObsoleteFiles may go by version.
Exact ==
    NoError => /\ OnlyNewest(manifest)
               /\ Same(Newest(manifest), Target(version, flush, comp))

\* Every table that the manifest, the process or an edit under way names is on disk.
Present ==
    /\ \A v \in Disk(manifest) : Live(v) \subseteq DOMAIN tables
    /\ Live(version) \subseteq DOMAIN tables
    /\ rec.added \subseteq DOMAIN tables
    /\ flush.pc \in Edited => Adds(flush.edit) \subseteq DOMAIN tables
    /\ comp.pc \in Edited => Adds(comp.edit) \subseteq DOMAIN tables
\* The unfinished output of a compaction is on disk and protected by pending_outputs_.
Output ==
    comp.pc = "work" /\ comp.out # 0 =>
        /\ comp.out \in pending /\ comp.out \in DOMAIN tables /\ comp.out < version.next
        /\ flush.pc = "build" => flush.out # comp.out
\* What makes ManifestFilesExist inductive.
Files == Present /\ Output /\ Exact

\* The files of a version were numbered before its next file number.
Sane(v) == (\A f \in Live(v) : f < v.next) /\ v.log < v.next
\* The counters that a recovery finds never go back from record to record.
Ordered(recs) ==
    /\ \A i, j \in 0 .. Len(recs) : i <= j =>
          /\ Replayed(recs)[i].next <= Replayed(recs)[j].next
          /\ Replayed(recs)[i].seq <= Replayed(recs)[j].seq
    /\ \A i \in 0 .. Len(recs) : Sane(Replayed(recs)[i])
\* An edit is consistent with the newest version of the manifest and with the process.
EditOK(e, n, v) ==
    /\ n.next <= e.next /\ e.next <= v.next
    /\ n.seq <= e.seq /\ e.seq <= v.seq
    /\ \A f \in Adds(e) : f < e.next
    /\ e.log < e.next

\* The process counts on from what the manifest says.
Alloc ==
    up \notin {"closed", "corrupt"} =>
        /\ Newest(manifest).next <= version.next /\ Newest(manifest).seq <= version.seq
        /\ Sane(version) /\ \A f \in rec.added : f < version.next
\* The edits under way are consistent with both.
Edits ==
    /\ flush.pc \in Edited => EditOK(flush.edit, Newest(manifest), version)
    /\ comp.pc \in Edited => EditOK(comp.edit, Newest(manifest), version)
\* The number of a table being written is named nowhere yet.
Unused ==
    /\ flush.pc = "build" => /\ flush.out < version.next
                             /\ Newest(manifest).next <= flush.out
                             /\ \A f \in Live(version) : f < flush.out
    /\ comp.pc = "work" /\ comp.out # 0 =>
          /\ comp.out \notin Live(version) /\ comp.out \notin Live(Newest(manifest))
          /\ \A v \in Disk(manifest) : comp.out \notin Live(v)
          /\ flush.pc \in Edited => comp.out \notin Adds(flush.edit)
\* The process has its new log.
Opened == up \in {"new_manifest", "cleanup", "open", "closing"}
\* The log in use is the last one, and no version starts after it.
LogFiles ==
    /\ Opened => /\ logfile \in DOMAIN logs /\ logfile < version.next
                 /\ \A L \in DOMAIN logs : L <= logfile
                 /\ version.log <= logfile
                 /\ \A v \in Disk(manifest) : v.log <= logfile
    /\ flush.pc \in Edited => flush.edit.log = logfile
    /\ comp.pc \in Edited => comp.edit.log = version.log
\* While the logs are replayed, every log is still to be read or was numbered, and the
\* version is the newest of the manifest.
Unread ==
    /\ up = "recovering" =>
          /\ \A L \in DOMAIN logs : L \in rec.logs \/ L < version.next
          /\ \A L \in rec.logs : L >= version.log
    /\ up \in {"recovering", "new_manifest"} =>
          Newest(manifest) \in Disk(manifest) /\ Same(version, Newest(manifest))

\* Numbers of files are never given twice, so a table once named is never overwritten.
Numbers ==
    /\ Ordered(manifest.recs) /\ Alloc /\ Edits /\ Unused /\ LogFiles /\ Unread

\* What an edit takes away it brings back: a flush adds what imm_ holds, a compaction
\* what the files it deletes hold.
Contents ==
    /\ flush.pc \in Edited => /\ flush.edit.del = {}
                              /\ In(tables, Adds(flush.edit)) = imm
    /\ comp.pc \in Edited => /\ comp.edit.add0 = {}
                             /\ In(tables, comp.edit.add1) = In(tables, comp.edit.del)
                             /\ comp.edit.del \subseteq Live(version)
    /\ comp.pc = "work" => comp.inputs \subseteq Live(version)

\* The tables that something refers to.
Named(n) ==
    \/ n \in Live(version)
    \/ \E v \in Disk(manifest) : n \in Live(v)
    \/ n \in rec.added
    \/ flush.pc \in Edited /\ n \in Adds(flush.edit)
    \/ comp.pc \in Edited /\ n \in Adds(comp.edit)

\* The calls that have not returned.
Waiting == {"queued", "check", "wait"}
\* The calls whose batch nobody took yet.
Fresh   == {"idle", "queued"}
\* The calls are numbered as they come; none is running unless the database is open.
Calls ==
    /\ \E k \in {0} \cup Writers : {w \in Writers : req[w].st # "idle"} = 1 .. k
    /\ \A w \in Writers : req[w].st \in {"check", "wait"} => req[w].kind = "flush"
    /\ up # "open" => \A w \in Writers : req[w].st \notin Waiting
\* Nobody is in writers_ twice, and everybody in it waits.
Queued(q, r) ==
    /\ \A i, j \in 1 .. Len(q) : q[i] = q[j] => i = j
    /\ \A i \in 1 .. Len(q) : r[q[i]].st = "queued"
\* The writers' queue.
Queue == Calls /\ Queued(writers, req)

\* The batches of the leader's group.
Group == Batches(lead.group)
\* A log that a recovery may replay.
Reachable(L) == (Running /\ version.log <= L) \/ \E v \in Disk(manifest) : v.log <= L
\* The log f holds the batch w.
Holds(f, w) == \E i \in 1 .. Len(f.recs) : w \in f.recs[i]
\* Some log that a recovery may replay holds w.
Logged(w) == \E L \in DOMAIN logs : Reachable(L) /\ Holds(logs[L], w)
\* w was applied: it can be read now or after some crash.
Settled(w) ==
    \/ w \in InMemory
    \/ w \in In(tables, Live(version))
    \/ \E v \in Disk(manifest) : w \in In(tables, Live(v))
\* The batches whose sequence numbers matter.
Known(w) == Settled(w) \/ Logged(w) \/ w \in Group

\* No two of them have the same sequence number.
Distinct == \A v, w \in Writers : Known(v) /\ Known(w) /\ v # w => seqOf[v] # seqOf[w]
\* What is applied or logged was taken from the queue.
Begun ==
    /\ \A w \in Writers : Settled(w) => req[w].st \notin Fresh
    /\ \A w \in Writers : Logged(w) /\ req[w].st \in Fresh => w \in Group
\* Everything but the group is at or below last_sequence_, the group just above it.
Past ==
    /\ Running => \A w \in Writers : Settled(w) \/ (Logged(w) /\ w \notin Group)
                                        => seqOf[w] <= version.seq
    /\ \A w \in Group : version.seq < seqOf[w] /\ seqOf[w] <= LastSequence
\* A version that a recovery may find, and an edit under way, knows a last sequence at
\* or above all its batches.
Bounds ==
    /\ \A v \in Disk(manifest) : \A w \in In(tables, Live(v)) : seqOf[w] <= v.seq
    /\ flush.pc \in Edited => \A w \in imm : seqOf[w] <= flush.edit.seq
    /\ comp.pc \in Edited => \A w \in In(tables, comp.edit.del) : seqOf[w] <= comp.edit.seq
\* What the replay has read so far.
Rebuilt == rec.mem \cup In(tables, rec.added)
\* The replay reads only logged batches and remembers their greatest sequence number.
Recovered ==
    /\ up \in {"recovering", "new_manifest"} =>
         \A w \in Rebuilt : Logged(w) /\ seqOf[w] <= rec.maxseq
    /\ up = "new_manifest" => rec.maxseq <= version.seq /\ logs[logfile].recs = <<>>
\* What makes SequenceNumbersUnique inductive.
Sequence == Distinct /\ Begun /\ Past /\ Bounds /\ Recovered

\* A recovery that starts at record p of the log f finds the batch w of a call of
\* kind k, whatever crash comes first.
Durable(f, w, k, p) ==
    \E i \in p .. Len(f.recs) :
        /\ w \in f.recs[i]
        /\ \A j \in 1 .. i - 1 : f.recs[j] # TornLog
        /\ k = "sync" => i <= f.synced
\* A log from n on keeps w.
LoggedIn(l, w, k, n) == \E L \in DOMAIN l : n <= L /\ Durable(l[L], w, k, 1)
\* A recovery that starts from the version v finds w.
Safe(t, l, w, k, v) == w \in In(t, Live(v)) \/ LoggedIn(l, w, k, v.log)
\* The acknowledged batches that are still promised.
Acked == {w \in Writers : req[w].st = "ok" /\ req[w].kind # "flush" /\ w \notin excused}
\* From every version a recovery may find, it finds every acknowledged batch.
OnDisk == \A w \in Acked, v \in Disk(manifest) : Safe(tables, logs, w, req[w].kind, v)
\* A read sees them, and those still in memory are in a log that will be replayed.
Readers ==
    /\ Running => Acked \subseteq Visible
    /\ \A w \in Acked \cap mem : Durable(logs[logfile], w, req[w].kind, 1)
    /\ imm # Nil => \A w \in Acked \cap imm : LoggedIn(logs, w, req[w].kind, version.log)
\* The manifest is never behind the version of the process.
Ahead ==
    /\ Running => In(tables, Live(version)) \subseteq In(tables, Live(Newest(manifest)))
    /\ flush.pc = "done" => Adds(flush.edit) \subseteq Live(Newest(manifest))
\* The record of the log L at which the replay r goes on.
StartAt(r, L) == IF L = Min(r.logs) THEN r.pos ELSE 1
\* The recovery under way has w or will still read it.
ToRead(w) ==
    \/ w \in In(tables, Live(version)) \/ w \in Rebuilt
    \/ \E L \in rec.logs : Durable(logs[L], w, req[w].kind, StartAt(rec, L))
\* It misses none of them.
Replaying ==
    /\ up \in {"recovering", "new_manifest"} => \A w \in Acked : ToRead(w)
    /\ up = "new_manifest" => rec.logs = {}
    /\ rec.logs = {} => rec.mem = {}
\* The group is the last record of the log, synced if the leader is; a leader that is not
\* sync leads no sync write.
Leading ==
    /\ lead.pc \in {"syncing", "applying"} =>
          LET f == logs[logfile] IN
          /\ Len(f.recs) > 0 /\ f.recs[Len(f.recs)] = Group
          /\ lead.pc = "applying" /\ req[Head(writers)].kind = "sync" => f.synced = Len(f.recs)
    /\ lead.pc \in Logging /\ req[Head(writers)].kind # "sync" => \A w \in Group : req[w].kind # "sync"
\* What makes AcknowledgedIsReadable inductive.
Acknowledged == OnDisk /\ Readers /\ Ahead /\ Replaying /\ Leading

-----------------------------------------------------------------------------
(* The types, and which locals are in use when.                            *)

\* The version after one record of the manifest.
Step(v, e) == IF e = Torn THEN v ELSE Apply(v, e)
\* h[n] is the version after the first n records, up to k.
IsReplay(h, recs, k) == h = [n \in 0 .. k |-> IF n = 0 THEN EmptyVersion ELSE Step(h[n - 1], recs[n])]

ManifestType == [recs : Seq(EditType \cup {Torn}), synced : Nat]

\* No record before k is torn, so that a reader gets there.
Unbroken(recs, k) == \A i \in 1 .. k - 1 : recs[i] # Torn

LeadType == [pc : {"none", "room", "switched", "waiting", "logging", "syncing", "applying"},
             force : BOOLEAN, delay : BOOLEAN, group : Seq(Writers)]
ReqType == [kind : Kinds, st : {"idle", "queued", "check", "wait", "ok", "error", "lost"}]

UpStates == {"closed", "recovering", "new_manifest", "cleanup", "open", "closing", "corrupt"}
LogFileType == [recs : Seq(SUBSET Writers), synced : Nat]
RecType == [logs : SUBSET Nat, pos : Nat \ {0}, mem : SUBSET Writers, added : SUBSET Nat,
            maxseq : Nat]
FlushType == [pc : {"none", "build", "manifest", "done", "failed"}, out : Nat,
              edit : EditType \cup {Nil}]
CompType == [pc : {"none", "work", "manifest", "done", "failed"}, inputs : SUBSET Nat,
             out : Nat, edit : EditType \cup {Nil}]
BudgetType == [calls : Nat, restarts : Nat, errors : Nat]

LogsOK(l) == /\ DOMAIN l \subseteq Nat
             /\ l \in [DOMAIN l -> LogFileType]
             /\ \A n \in DOMAIN l : l[n].synced <= Len(l[n].recs)
TablesOK(t) == DOMAIN t \subseteq Nat /\ t \in [DOMAIN t -> SUBSET Writers]
ManifestOK(m) == m \in ManifestType /\ m.synced <= Len(m.recs)
QueueOK(q, l) ==
    /\ q \in Seq(Writers) /\ l \in LeadType
    /\ (l.pc = "none") <=> (q = <<>>)
    /\ l.pc \in Logging => /\ Len(l.group) \in 1 .. Len(q)
                           /\ \A i \in 1 .. Len(l.group) : l.group[i] = q[i]
    /\ l.pc \notin Logging => l.group = <<>>
ImmOK(i) == i = Nil \/ i \in SUBSET Writers
WorkOK(f, c, i) ==
    /\ f \in FlushType /\ c \in CompType
    /\ f.pc # "none" => c.pc \in {"none", "work"} /\ i # Nil
    /\ f.pc \in Edited => f.edit \in EditType
    /\ c.pc \in Edited => c.edit \in EditType
\* Sequence numbers have a bound, as only finitely many were given.
SeqBounded(s) == s \in [Writers -> Nat] /\ \E B \in Nat : \A w \in Writers : s[w] <= B
RecOK(r, l) == r \in RecType /\ r.logs \subseteq DOMAIN l

\* The types of all variables, with the bounds that TypeOK leaves out.
Shape ==
    /\ LogsOK(logs) /\ TablesOK(tables) /\ ManifestOK(manifest)
    /\ up \in UpStates /\ RecOK(rec, logs)
    /\ version \in VersionType
    /\ QueueOK(writers, lead)
    /\ mem \in SUBSET Writers /\ ImmOK(imm) /\ logfile \in Nat
    /\ pending \in SUBSET Nat /\ scheduled \in BOOLEAN /\ bgError \in BOOLEAN
    /\ WorkOK(flush, comp, imm)
    /\ req \in [Writers -> ReqType] /\ SeqBounded(seqOf)
    /\ excused \in SUBSET Writers /\ budget \in BudgetType

\* A closed or corrupt database has no process state, one that is being opened has no
\* memtable, no queue and no background work.
Quiet ==
    /\ up \in {"closed", "corrupt"} => version = EmptyVersion
    /\ up \notin {"recovering", "new_manifest", "cleanup"} => rec = NoRec
    /\ up \notin {"open", "closing"} =>
          /\ writers = <<>> /\ lead = NoLead /\ mem = {} /\ imm = Nil
          /\ pending = {} /\ scheduled = FALSE /\ bgError = FALSE
          /\ flush = NoFlush /\ comp = NoComp

-----------------------------------------------------------------------------
(* What the proofs say of a step: its effect on the parts of the state that *)
(* a layer is about.                                                       *)

\* RecoverLogFile has read the record r.
Reads(r, rec2) ==
    /\ rec2 \in RecType
    /\ rec2.logs = rec.logs /\ rec2.pos = rec.pos + 1
    /\ rec.maxseq <= rec2.maxseq /\ \A w \in r : seqOf[w] <= rec2.maxseq

\* A step of a caller or of the leader of the queue, and what it leaves alone.
CallStep ==
    \/ \E w \in Writers, kind \in Kinds : Enqueue(w, kind)
    \/ \E w \in Writers : AwaitImm(w)
    \/ LeaderStep \/ BackgroundCallSkips \/ Close \/ UNCHANGED vars

\* Everything a returning background step may do to the queue: it wakes the sleepers.
Woken ==
    /\ lead'.group = lead.group /\ (lead'.pc = lead.pc \/ (lead.pc = "waiting" /\ lead'.pc = "room"))
    /\ \A w \in Writers :
          /\ req'[w].kind = req[w].kind
          /\ req'[w].st = req[w].st \/ (req[w].st = "wait" /\ req'[w].st = "check")

\* The edit of a flush: at most one file is added, the new table.
FlushEdit(e) ==
    /\ Adds(e) = (IF imm = {} THEN {} ELSE {flush.out}) /\ e.del = {}
    /\ e.log = logfile /\ e.next = version.next /\ e.seq = version.seq

\* What LogAndApply may leave in the manifest.
Extended(e, ok) ==
    /\ ok => /\ Newest(manifest') = Apply(Newest(manifest), e)
             /\ Disk(manifest') \subseteq {Newest(manifest')}
    /\ \A v \in Disk(manifest') :
          \/ v \in Disk(manifest)
          \/ v = Apply(Newest(manifest), e) /\ Newest(manifest) \in Disk(manifest)
    /\ Newest(manifest') \in {Newest(manifest), Apply(Newest(manifest), e)}
    /\ \/ manifest'.recs = manifest.recs
       \/ \E r \in {e, Torn} : manifest'.recs = Append(manifest.recs, r)

\* The edit of a compaction: the output replaces the inputs.
CompEdit(e) ==
    /\ e.add0 = {} /\ e.add1 = {comp.out} /\ e.del = comp.inputs
    /\ e.log = version.log /\ e.next = version.next /\ e.seq = version.seq

\* What a crash leaves of a log: at least what was synced.
Kept(f, g) ==
    /\ g.synced = f.synced /\ f.synced <= Len(g.recs) /\ Len(g.recs) <= Len(f.recs)
    /\ \A i \in 1 .. Len(g.recs) : g.recs[i] = f.recs[i]
\* The process is gone: a close, a crash, or DB::Open that failed.
Down ==
    /\ Forget /\ up' = "closed" /\ UNCHANGED <<tables, seqOf>>
    /\ manifest' = manifest \/ \E c \in manifest.synced .. Len(manifest.recs) :
                                   manifest' = Cut(manifest, c)
    /\ DOMAIN logs' = DOMAIN logs /\ \A n \in DOMAIN logs : Kept(logs[n], logs'[n])
    /\ \A w \in Writers :
          /\ req'[w].kind = req[w].kind
          /\ \/ req'[w].st = req[w].st
             \/ req[w].st \in {"queued", "check", "wait"} /\ req'[w].st = "lost"
    /\ up = "open" => \A w \in Writers : req'[w].st \notin {"queued", "check", "wait"}
    /\ excused \subseteq excused'
    /\ logs' = logs \/ \A w \in Writers :
                         req[w].kind = "async" /\ req[w].st = "ok" => w \in excused'

\* AddRecord failed: the record is not in the log, in part, or whole.
PerhapsLogged ==
    logs' = logs \/ \E r \in SUBSET Group : r \in SUBSET Writers /\ logs' = LogWith(r)

\* The table n is written with the contents s.
Written(n, s) ==
    /\ DOMAIN tables' = DOMAIN tables \cup {n} /\ tables'[n] = s
    /\ \A k \in DOMAIN tables : k # n => tables'[k] = tables[k]

\* A step of RecoverLogFile that succeeds.
Recovering ==
    /\ up = "recovering" /\ rec.logs # {}
    /\ UNCHANGED <<up, logs, manifest, req, seqOf, excused, mem, imm, logfile, pending, scheduled,
                   bgError, flush, comp, writers, lead>>
    /\ Same(version', version) /\ version'.seq = version.seq /\ version.next <= version'.next
    /\ rec'.logs = rec.logs \/ (rec'.logs = rec.logs \ {Min(rec.logs)}
                                /\ Min(rec.logs) + 1 <= version'.next)
    /\ \/ UNCHANGED tables /\ rec'.added = rec.added
       \/ \E s \in SUBSET Writers :
             /\ Written(version.next, s) /\ rec'.added = rec.added \cup {version.next}
             /\ version.next + 1 <= version'.next

\* What DeleteObsoleteFiles may do.
Deleted(v, p) ==
    /\ DOMAIN logs' \subseteq DOMAIN logs /\ DOMAIN tables' \subseteq DOMAIN tables
    /\ \A n \in DOMAIN logs' : logs'[n] = logs[n]
    /\ \A n \in DOMAIN tables' : tables'[n] = tables[n]
    /\ \A n \in DOMAIN logs : n >= v.log => n \in DOMAIN logs'
    /\ DOMAIN tables \cap (p \cup Live(v)) \subseteq DOMAIN tables'
    /\ bgError => UNCHANGED <<logs, tables>>

\* The new log of DB::Open.
OpenedLog ==
    /\ up = "recovering" /\ rec.logs = {} /\ up' = "new_manifest"
    /\ logfile' = version.next
    /\ DOMAIN logs' = DOMAIN logs \cup {logfile'} /\ logs'[logfile'].recs = <<>>
    /\ \A k \in DOMAIN logs : k # logfile' => logs'[k] = logs[k]
    /\ Same(version', version) /\ version'.next = version.next + 1
    /\ version.seq <= version'.seq /\ rec.maxseq <= version'.seq
    /\ UNCHANGED <<tables, manifest, req, seqOf, excused, rec, mem, imm, pending, scheduled,
                   bgError, flush, comp, writers, lead>>

\* The new manifest of DB::Open.
OpenedManifest ==
    /\ up = "new_manifest" /\ up' = "cleanup"
    /\ version'.l0 = version.l0 \cup rec.added /\ version'.l1 = version.l1
    /\ version'.log = logfile /\ version'.next = version.next /\ version'.seq = version.seq
    /\ Disk(manifest') = {Newest(manifest')} /\ Same(Newest(manifest'), version')
    /\ Newest(manifest').next = version.next /\ Newest(manifest').seq = version.seq
    /\ Len(manifest'.recs) = 1 /\ Replayed(manifest'.recs)[0] = EmptyVersion
    /\ UNCHANGED <<logs, tables, req, seqOf, excused, rec, mem, imm, logfile, pending, scheduled,
                   bgError, flush, comp, writers, lead>>

\* The steps, by what they do to the files.
FileStep ==
    \/ FlushBegin \/ FlushBuild \/ FlushManifest \/ FlushInstall
    \/ \E over \in SUBSET version.l1 : CompactBegin(over)
    \/ CompactOpen \/ CompactWork \/ CompactManifest \/ CompactInstall

\* The counters of a version or an edit are numbers.
NumberType(v) == v.next \in Nat /\ v.seq \in Nat /\ v.log \in Nat

\* No table that is named is written to.
Immutable == \A n : Named(n) /\ n \in DOMAIN tables' => tables'[n] = tables[n]

\* Callers make progress; who is past the queue stays so.
Progress ==
    \A w \in Writers :
        /\ (req'[w].st = "idle") <=> (req[w].st = "idle")
        /\ req'[w].kind = req[w].kind
        /\ req'[w].st \in {"check", "wait"} => req[w].st \in {"check", "wait"}
                                               \/ req[w].kind = "flush"
        /\ req'[w].st = "queued" => req[w].st = "queued"
        /\ up # "open" /\ req'[w].st \in Waiting => req[w].st \in Waiting

\* The writers that leave the queue.
Leaving(n) == {writers[i] : i \in 1 .. n}

\* Calls only go forward, and nothing but ApplyGroup acknowledges a batch.
Onward ==
    \A w \in Writers :
        /\ req[w].st \notin Fresh => req'[w].st \notin Fresh
        /\ req[w].st # "idle" => req'[w].kind = req[w].kind
        /\ req'[w].st = "ok" => req[w].st = "ok" \/ req'[w].kind = "flush"

\* The front of the queue goes on with what it does, or is not logging.
SameLead ==
    lead'.pc \in Logging => /\ lead'.pc = lead.pc
                            /\ req'[Head(writers')].kind = req[Head(writers)].kind

\* A step of a caller or of the leader that writes nothing.
QuietCall ==
    /\ UNCHANGED <<logs, version, mem, imm, logfile, seqOf, excused>>
    /\ Group' = Group /\ Onward /\ SameLead

\* A new log and a new memtable.
Switched ==
    /\ Group = {} /\ Group' = {} /\ lead'.pc = "switched"
    /\ imm = Nil /\ imm' = mem /\ mem' = {}
    /\ logfile' = version.next
    /\ DOMAIN logs' = DOMAIN logs \cup {logfile'} /\ logs'[logfile'].recs = <<>>
    /\ \A k \in DOMAIN logs : k # logfile' => logs'[k] = logs[k]
    /\ Same(version', version) /\ version'.next = version.next + 1 /\ version'.seq = version.seq
    /\ UNCHANGED <<writers, req, seqOf, excused, up>>

\* The leader has built its group and numbered it.
Grouped ==
    /\ UNCHANGED <<logs, version, mem, imm, logfile, excused, writers, req, up>>
    /\ Group = {} /\ lead'.pc = "logging" /\ Group' \in SUBSET Writers
    /\ \A w \in Group' : /\ req[w].st = "queued"
                         /\ seqOf'[w] = version.seq + Cardinality({v \in Group' : v <= w})
    /\ \A w \in Writers : w \notin Group' => seqOf'[w] = seqOf[w]
    /\ req[Head(writers)].kind # "sync" => \A w \in Group' : req[w].kind # "sync"

\* The group leaves the queue with status s and its sequence numbers are used up.
Passed(s) ==
    /\ lead.pc \in Logging /\ Group' = {} /\ lead'.pc \notin Logging
    /\ Same(version', version) /\ version'.next = version.next /\ version'.seq = LastSequence
    /\ UNCHANGED <<seqOf, logfile, imm, up>>
    /\ \A w \in Writers : /\ req'[w].kind = req[w].kind
                          /\ req[w].st \notin Fresh => req'[w].st \notin Fresh
                          /\ w \in Group => req'[w].st = s
                          /\ req'[w].st = "ok" /\ req[w].kind # "flush" =>
                                req[w].st = "ok" \/ (w \in Group /\ s = "ok")

\* The steps of DB::Open; there are no callers yet.
OpeningStep == OpenRecover \/ Recovering \/ OpenedLog \/ OpenedManifest \/ OpenCleanup

\* What the layers below hold before and after a step.
Base == Shape /\ Quiet /\ Files /\ Numbers /\ Contents /\ Queue

\* Batches that are past the group keep their sequence number.
SeqKept == \A w \in Writers : Settled(w) => seqOf'[w] = seqOf[w]

\* What the replay of the logs does to the batches it has rebuilt.
Oldest == logs[Min(rec.logs)].recs
ReplaysTorn ==
    /\ rec.pos \in 1 .. Len(Oldest) /\ Oldest[rec.pos] = TornLog /\ rec'.logs = rec.logs
    /\ rec'.pos \in Nat /\ rec.pos < rec'.pos /\ rec'.maxseq = rec.maxseq /\ Rebuilt' = Rebuilt
ReplaysRead ==
    /\ rec.pos \in 1 .. Len(Oldest) /\ Oldest[rec.pos] \in SUBSET Writers
    /\ Reads(Oldest[rec.pos], rec') /\ Rebuilt' = Rebuilt \cup Oldest[rec.pos]
ReplaysDone ==
    /\ rec.pos > Len(Oldest) /\ rec'.logs = rec.logs \ {Min(rec.logs)} /\ rec'.pos = 1
    /\ rec'.mem = {} /\ rec'.maxseq = rec.maxseq /\ Rebuilt' = Rebuilt

\* No batch becomes acknowledged.
AckedKept == \A w \in Acked' : w \in Acked /\ req'[w].kind = req[w].kind

\* A log that was written to, or synced.
Grows(f, g) ==
    /\ Len(f.recs) \in Nat /\ Len(g.recs) \in Nat /\ f.synced \in Nat /\ g.synced \in Nat
    /\ Len(f.recs) <= Len(g.recs) /\ f.synced <= g.synced
    /\ \A i \in 1 .. Len(f.recs) : g.recs[i] = f.recs[i]
LogsGrow == DOMAIN logs \subseteq DOMAIN logs' /\ \A n \in DOMAIN logs : Grows(logs[n], logs'[n])

\* Logs are deleted below the log number n only.
LogsFrom(n) == \A L \in DOMAIN logs : n <= L => L \in DOMAIN logs' /\ logs'[L] = logs[L]

\* Two parts of Readers.
MemDurable == \A w \in Acked \cap mem : Durable(logs[logfile], w, req[w].kind, 1)
ImmDurable == imm # Nil => \A w \in Acked \cap imm : LoggedIn(logs, w, req[w].kind, version.log)

\* The tables of the newest version are neither written to nor deleted.
NewestKept ==
    \A n \in Live(Newest(manifest)) : n \in DOMAIN tables => n \in DOMAIN tables' /\ tables'[n] = tables[n]
=============================================================================
