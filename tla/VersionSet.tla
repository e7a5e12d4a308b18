----------------------------- MODULE VersionSet -----------------------------
(***************************************************************************)
(* leveldb's levels of sorted tables: db/version_set.cc and the reading    *)
(* and compacting half of db/db_impl.cc.  A version lists the tables of    *)
(* every level; a compaction merges some tables of two levels into new     *)
(* ones, drops what no snapshot can see, and installs a new version, while *)
(* writers fill the memtable, a memtable is flushed in the middle of the   *)
(* compaction, snapshots come and go and iterators keep old versions.      *)
(*                                                                         *)
(* An entry is its sequence number n, with the user key and the type of    *)
(* wrote[n]; what it stores is n.  The size of a table, where the overlap  *)
(* with grandparents is limited, is the number of its entries; where the   *)
(* code compares another size with a limit, both outcomes are possible.    *)
(* Logs, the manifest and crashes are DBImpl's subject; a failed step ends *)
(* in a background error.                                                  *)
(***************************************************************************)
EXTENDS Integers, Sequences, FiniteSets, FiniteSetsExt

CONSTANTS
    Settings,     \* what the client does, and bounds
    KNumLevels,   \* config::kNumLevels
    KMaxMemCompactLevel,
    KL0CompactionTrigger,
    MaxFiles,     \* bound: table numbers
    Nil

ASSUME VersionSetAssumption ==
    /\ \A x \in Settings :
          /\ x.keys \subseteq Nat /\ x.keys # {} /\ x.types \subseteq {"value", "deletion"}
          /\ {x.manual, x.fails} \subseteq BOOLEAN /\ {x.writes, x.moves, x.overlap} \subseteq Nat
    /\ {MaxFiles, KL0CompactionTrigger} \subseteq Nat
    /\ KNumLevels \in Nat /\ KMaxMemCompactLevel \in 0 .. KNumLevels - 1

VARIABLE setting     \* the one this behaviour is about; it never changes

Keys   == setting.keys      \* user keys
Types  == setting.types     \* "value", "deletion"
Snaps  == setting.snaps     \* snapshots the client may hold
Iters  == setting.iters     \* iterators (or calls of Get) the client may hold
Manual == setting.manual    \* the client may call CompactRange(NULL, NULL)
Fails  == setting.fails     \* a compaction may fail
MaxWrites == setting.writes \* bound: writes
MaxMoves  == setting.moves  \* bound: compactions
MaxGrandParentOverlap == setting.overlap

VARIABLES
    wrote,      \* all that was ever written; its length is LastSequence()
    mem, imm,   \* the memtables, imm is Nil if there is none
    content,    \* the entries of table number f
    disk,       \* the tables in the directory
    current,    \* the current version: the tables of every level
    snaps,      \* the number of every snapshot, Nil if not held
    iters,      \* what an iterator holds on to
    comp,       \* the compaction that runs, Nil if none
    manual,     \* where CompactRange is: level, max and begin, or Nil
    bgError,
    moves,      \* compactions so far
    split,      \* a table ended between two entries of one user key
    squeezed    \* a memtable was flushed while a manual compaction ran

tableVars == <<content, disk, current>>
ghostVars == <<setting, moves, split, squeezed>>
vars == <<wrote, mem, imm, tableVars, snaps, iters, comp, manual, bgError, ghostVars>>

Levels == 0 .. KNumLevels - 1
LastSequence == Len(wrote)
Entries == 1 .. LastSequence
Key(n) == wrote[n].key
Files == 1 .. Len(content)

-----------------------------------------------------------------------------
(* Internal keys and tables                                                *)

\* InternalKeyComparator::Compare: user keys ascend, sequence numbers descend.
Less(m, n) == Key(m) < Key(n) \/ (Key(m) = Key(n) /\ m > n)

Smallest(S) == CHOOSE n \in S : \A m \in S : n = m \/ Less(n, m)
Largest(S)  == CHOOSE n \in S : \A m \in S : n = m \/ Less(m, n)

\* The user keys a set of tables spans (GetRange).
RangeOf(fs) ==
    LET ks == {Key(n) : n \in UNION {content[f] : f \in fs}}
    IN  IF ks = {} THEN {} ELSE Min(ks) .. Max(ks)

TotalFileSize(fs) == MapThenSumSet(LAMBDA f : Cardinality(content[f]), fs)

FilesIn(v, l, range) == {f \in v[l] : RangeOf({f}) \cap range # {}}

\* Version::GetOverlappingInputs: in level 0 the range grows with every table found.
GetOverlappingInputs(v, l, range) ==
    LET grow[i \in 0 .. MaxFiles] ==
            IF i = 0 THEN range
            ELSE LET r == grow[i - 1] \cup RangeOf(FilesIn(v, 0, grow[i - 1]))
                 IN  IF r = {} THEN {} ELSE Min(r) .. Max(r)
    IN  FilesIn(v, l, IF l = 0 THEN grow[MaxFiles] ELSE range)

-----------------------------------------------------------------------------
(* Reading                                                                 *)

Hits(S, k, s) == {n \in S : Key(n) = k /\ n <= s}

\* The value of the newest of some entries, 0 if it is a deletion or there is none.
Newest(S) == IF S = {} \/ wrote[Max(S)].type = "deletion" THEN 0 ELSE Max(S)

\* The table that FindFile finds for key k at sequence number s.
FindFile(v, l, k, s) ==
    LET after == {f \in v[l] : LET n == Largest(content[f])
                               IN  Key(n) > k \/ (Key(n) = k /\ n <= s)}
    IN  {f \in after : \A g \in after : f = g \/ Less(Largest(content[f]), Largest(content[g]))}

\* What Version::Get finds in a level: in level 0 the newest table that has something.
LevelHits(v, l, k, s) ==
    IF l = 0
    THEN LET with == {f \in v[0] : Hits(content[f], k, s) # {}}
         IN  IF with = {} THEN {} ELSE Hits(content[Max(with)], k, s)
    ELSE UNION {Hits(content[f], k, s) : f \in FindFile(v, l, k, s)}

\* Version::Get: the first level that has an entry decides.
VersionGet(v, k, s) ==
    LET found == {l \in Levels : LevelHits(v, l, k, s) # {}}
    IN  IF found = {} THEN 0 ELSE Newest(LevelHits(v, Min(found), k, s))

Imm(i) == IF i = Nil THEN {} ELSE i

\* DBImpl::Get
Get(k, s) ==
    IF Hits(mem, k, s) # {} THEN Newest(Hits(mem, k, s))
    ELSE IF Hits(Imm(imm), k, s) # {} THEN Newest(Hits(Imm(imm), k, s))
    ELSE VersionGet(current, k, s)

\* What a DBIter yields for k: of the merged entries the first that it may see.
IterGet(it, k) ==
    Newest(Hits(it.mem \cup Imm(it.imm) \cup UNION {content[f] : f \in UNION {it.ver[l] : l \in Levels}},
                k, it.s))

-----------------------------------------------------------------------------
(* Versions                                                                *)

FilesOf(v) == UNION {v[l] : l \in Levels}
NewVersion(v, l, del, add) ==
    [m \in Levels |-> (v[m] \ del[m]) \cup IF m = l THEN add ELSE {}]
NoFiles == [l \in Levels |-> {}]

Init ==
    /\ setting \in Settings
    /\ wrote = <<>> /\ mem = {} /\ imm = Nil
    /\ content = <<>> /\ disk = {} /\ current = NoFiles
    /\ snaps = [x \in Snaps |-> Nil] /\ iters = [i \in Iters |-> Nil]
    /\ comp = Nil /\ manual = Nil /\ bgError = FALSE
    /\ moves = 0 /\ split = FALSE /\ squeezed = FALSE

\* Variant: only the current version is kept.
LiveFilesOfCurrent(cur, c) == FilesOf(cur) \cup IF c = Nil THEN {} ELSE c.outs

\* pending_outputs_ and VersionSet::AddLiveFiles: every version somebody refers to.
LiveFiles(cur, c) ==
    UNION {FilesOf(cur), UNION {FilesOf(iters[i].ver) : i \in {j \in Iters : iters[j] # Nil}},
           IF c = Nil THEN {} ELSE FilesOf(c.ver) \cup c.outs}

-----------------------------------------------------------------------------
(* The client                                                              *)

\* DBImpl::Write once there is room: the entry can be seen when SetLastSequence is done.
Write(k, t) ==
    /\ LastSequence < MaxWrites /\ ~bgError
    /\ wrote' = Append(wrote, [key |-> k, type |-> t])
    /\ mem' = mem \cup {LastSequence + 1}
    /\ UNCHANGED <<imm, tableVars, snaps, iters, comp, manual, bgError, ghostVars>>

\* MakeRoomForWrite switches to a new memtable.
SwitchMemTable ==
    /\ imm = Nil /\ mem # {} /\ ~bgError
    /\ imm' = mem /\ mem' = {}
    /\ UNCHANGED <<wrote, tableVars, snaps, iters, comp, manual, bgError, ghostVars>>

GetSnapshot(x) ==
    /\ snaps[x] = Nil
    /\ snaps' = [snaps EXCEPT ![x] = LastSequence]
    /\ UNCHANGED <<wrote, mem, imm, tableVars, iters, comp, manual, bgError, ghostVars>>

ReleaseSnapshot(x) ==
    /\ snaps[x] # Nil
    /\ snaps' = [snaps EXCEPT ![x] = Nil]
    /\ UNCHANGED <<wrote, mem, imm, tableVars, iters, comp, manual, bgError, ghostVars>>

Held == {snaps[x] : x \in {y \in Snaps : snaps[y] # Nil}}

\* NewInternalIterator; a Get holds the same while it reads.
NewIterator(i) ==
    /\ iters[i] = Nil
    /\ \E s \in Held \cup {LastSequence} :
          iters' = [iters EXCEPT ![i] = [mem |-> mem, imm |-> imm, ver |-> current, s |-> s]]
    /\ UNCHANGED <<wrote, mem, imm, tableVars, snaps, comp, manual, bgError, ghostVars>>

\* CleanupIteratorState
DeleteIterator(i) ==
    /\ iters[i] # Nil
    /\ iters' = [iters EXCEPT ![i] = Nil]
    /\ UNCHANGED <<wrote, mem, imm, tableVars, snaps, comp, manual, bgError, ghostVars>>

\* CompactRange(NULL, NULL): levels up to the last one with tables, one after the
\* other, once TEST_CompactMemTable has switched the memtable.
CompactRange ==
    /\ Manual /\ manual = Nil /\ imm = Nil /\ ~bgError
    /\ LET used == {l \in 1 .. KNumLevels - 1 : current[l] # {}}
       IN  manual' = [at |-> 0, max |-> IF used = {} THEN 1 ELSE Max(used), begin |-> Min(Keys)]
    /\ imm' = IF mem = {} THEN Nil ELSE mem
    /\ mem' = {}
    /\ UNCHANGED <<wrote, tableVars, snaps, iters, comp, bgError, ghostVars>>

\* TEST_CompactRange has nothing left to do in a level.
NextLevel ==
    /\ manual # Nil /\ imm = Nil /\ comp = Nil /\ ~bgError
    /\ GetOverlappingInputs(current, manual.at, manual.begin .. Max(Keys)) = {}
    /\ manual' = IF manual.at + 1 < manual.max
                 THEN [manual EXCEPT !.at = @ + 1, !.begin = Min(Keys)] ELSE Nil
    /\ UNCHANGED <<wrote, mem, imm, tableVars, snaps, iters, comp, bgError, ghostVars>>

-----------------------------------------------------------------------------
(* The background thread                                                   *)

\* PickLevelForMemTableOutput: down to the first level whose next one overlaps, or
\* whose grandparents overlap too much.
PickLevelForMemTableOutput(v, range) ==
    LET free(l)  == \A m \in 0 .. l : FilesIn(v, m, range) = {}
        stops(l) == \/ l = KMaxMemCompactLevel
                    \/ ~free(l + 1)
                    \/ /\ l + 2 < KNumLevels
                       /\ TotalFileSize(FilesIn(v, l + 2, range)) > MaxGrandParentOverlap
    IN  IF ~free(0) THEN 0 ELSE Min({l \in 0 .. KMaxMemCompactLevel : stops(l)})

\* CompactMemTable, also in the middle of a compaction: the table is written, a version
\* with it installed, obsolete files are deleted.
CompactMemTable ==
    /\ imm # Nil /\ Len(content) < MaxFiles /\ ~bgError
    /\ LET f == Len(content) + 1
       IN  /\ content' = Append(content, imm)
           /\ LET ks == {Key(n) : n \in imm}
                  l  == PickLevelForMemTableOutput(current, Min(ks) .. Max(ks))
              IN  current' = NewVersion(current, l, NoFiles, {f})
           /\ disk' = (disk \cup {f}) \cap LiveFiles(current', comp)
    /\ imm' = Nil
    /\ squeezed' = (squeezed \/ (comp # Nil /\ comp.manual))
    /\ UNCHANGED <<wrote, mem, snaps, iters, comp, manual, bgError, setting, moves, split>>

\* SetupOtherInputs: the tables of the next level, and more of this one if that
\* does not add to the next level (and is not too much).
SetupOtherInputs(l, in0) ==
    LET in1  == GetOverlappingInputs(current, l + 1, RangeOf(in0))
        exp0 == GetOverlappingInputs(current, l, RangeOf(in0 \cup in1))
        exp1 == GetOverlappingInputs(current, l + 1, RangeOf(exp0))
        more == /\ in1 # {} /\ Cardinality(exp0) > Cardinality(in0)
                /\ Cardinality(exp1) = Cardinality(in1)
    IN  {[in0 |-> in0, in1 |-> in1]} \cup IF more THEN {[in0 |-> exp0, in1 |-> exp1]} ELSE {}

\* PickCompaction: of too many tables in level 0, of a level that is too large, or of a
\* table that reads had to pass.
PickCompaction(l) ==
    LET passed(f) == \E m \in l .. KNumLevels - 1 : FilesIn(current, m, RangeOf({f})) \ {f} # {}
        fs == {f \in current[l] : l > 0 \/ Cardinality(current[0]) >= KL0CompactionTrigger \/ passed(f)}
    IN  {IF l = 0 THEN GetOverlappingInputs(current, 0, RangeOf({f})) ELSE {f} : f \in fs}

\* VersionSet::CompactRange: in levels above 0 not more tables than make one output.
ManualInputs(l, begin) ==
    LET fs == GetOverlappingInputs(current, l, begin .. Max(Keys))
    IN  IF l = 0 THEN {fs}
        ELSE {{g \in fs : g = f \/ Less(Largest(content[g]), Largest(content[f]))} : f \in fs}

\* The last input file: a level's files are sorted by their smallest keys.
LastInput(fs) ==
    CHOOSE f \in fs : \A g \in fs : g = f \/ Less(Smallest(content[g]), Smallest(content[f]))

\* Compaction::IsBaseLevelForKey
IsBaseLevelForKey(v, l, k) ==
    \A m \in l + 2 .. KNumLevels - 1 : FilesIn(v, m, {k}) = {}

SmallestSnapshot == IF Held = {} THEN LastSequence ELSE Min(Held)

\* Variant: snapshots are not looked at.
KeptForLatest(l, S) ==
    {n \in S : /\ \A m \in S : ~(Key(m) = Key(n) /\ m > n)
               /\ ~(wrote[n].type = "deletion" /\ IsBaseLevelForKey(current, l, Key(n)))}

\* DoCompactionWork: the entries that are not dropped.  An entry hidden from the oldest
\* snapshot by a newer one goes, and a deletion that hides nothing below.
Kept(l, S) ==
    {n \in S : /\ \A m \in S : ~(Key(m) = Key(n) /\ m > n /\ m <= SmallestSnapshot)
               /\ ~(/\ wrote[n].type = "deletion" /\ n <= SmallestSnapshot
                    /\ IsBaseLevelForKey(current, l, Key(n)))}

\* The output tables: a table ends when it is large enough or reaches over too many
\* grandparents, before any entry.
Outputs(S) ==
    IF S = {} THEN {<<>>}
    ELSE {<<S>>} \cup {<<{m \in S : Less(m, n)}, {m \in S : ~Less(m, n)}>> :
                           n \in S \ {Smallest(S)}}

\* A compaction of tables in0 and in1 begins; the lock is released while the outputs
\* are written.
StartCompaction(l, c, isManual) ==
    /\ \E outs \in Outputs(Kept(l, UNION {content[f] : f \in c.in0 \cup c.in1})) :
          /\ Len(content) + Len(outs) <= MaxFiles
          /\ content' = content \o outs
          /\ comp' = [level |-> l, in0 |-> c.in0, in1 |-> c.in1, ver |-> current,
                      outs |-> Len(content) + 1 .. Len(content) + Len(outs), manual |-> isManual]
          /\ disk' = disk \cup comp'.outs
          /\ split' = (split \/ \E i, j \in DOMAIN outs : i # j /\
                                   {Key(n) : n \in outs[i]} \cap {Key(n) : n \in outs[j]} # {})
    /\ moves' = moves + 1
    /\ UNCHANGED <<wrote, mem, imm, current, snaps, iters, bgError, setting, squeezed>>

Idle == comp = Nil /\ imm = Nil /\ ~bgError /\ moves < MaxMoves

\* Compaction::IsTrivialMove
IsTrivialMove(l, c) ==
    /\ Cardinality(c.in0) = 1 /\ c.in1 = {}
    /\ l + 2 < KNumLevels =>
           TotalFileSize(GetOverlappingInputs(current, l + 2, RangeOf(c.in0))) <= MaxGrandParentOverlap

\* BackgroundCompaction moves a table to the next level.
MoveFile ==
    /\ Idle
    /\ \E l \in 0 .. KNumLevels - 2 :
       \E in0 \in PickCompaction(l) : \E c \in SetupOtherInputs(l, in0) :
          /\ IsTrivialMove(l, c)
          /\ current' = NewVersion(current, l + 1, [NoFiles EXCEPT ![l] = c.in0], c.in0)
    /\ moves' = moves + 1
    /\ UNCHANGED <<wrote, mem, imm, content, disk, snaps, iters, comp, manual, bgError, setting,
                   split, squeezed>>

\* BackgroundCompaction begins a merge.
AutoCompaction ==
    /\ Idle
    /\ \E l \in 0 .. KNumLevels - 2 :
       \E in0 \in PickCompaction(l) : \E c \in SetupOtherInputs(l, in0) :
          /\ ~IsTrivialMove(l, c)
          /\ StartCompaction(l, c, FALSE)
    /\ UNCHANGED manual

\* ... for CompactRange; the next turn goes on behind the last table.
ManualCompaction ==
    /\ Idle /\ manual # Nil
    /\ \E in0 \in ManualInputs(manual.at, manual.begin) : \E c \in SetupOtherInputs(manual.at, in0) :
          /\ in0 # {}
          /\ StartCompaction(manual.at, c, TRUE)
          /\ manual' = [manual EXCEPT !.begin = Key(Largest(content[LastInput(c.in0)]))]

\* Variant: the tables of the next level stay.
InstallKeepsInputs ==
    /\ comp # Nil
    /\ current' = NewVersion(current, comp.level + 1, [NoFiles EXCEPT ![comp.level] = comp.in0], comp.outs)
    /\ comp' = Nil
    /\ disk' = disk \cap LiveFiles(current', Nil)
    /\ UNCHANGED <<wrote, mem, imm, content, snaps, iters, manual, bgError, ghostVars>>

\* InstallCompactionResults, CleanupCompaction, ReleaseInputs and DeleteObsoleteFiles.
InstallCompactionResults ==
    /\ comp # Nil
    /\ current' = NewVersion(current, comp.level + 1,
                             [NoFiles EXCEPT ![comp.level] = comp.in0, ![comp.level + 1] = comp.in1],
                             comp.outs)
    /\ comp' = Nil
    /\ disk' = disk \cap LiveFiles(current', Nil)
    /\ UNCHANGED <<wrote, mem, imm, content, snaps, iters, manual, bgError, ghostVars>>

\* A file error or LogAndApply's: the outputs stay, and nothing is written any more.
CompactionFails ==
    /\ comp # Nil /\ Fails
    /\ comp' = Nil /\ bgError' = TRUE
    /\ UNCHANGED <<wrote, mem, imm, tableVars, snaps, iters, manual, ghostVars>>

Next ==
    \/ \E k \in Keys, t \in Types : Write(k, t)
    \/ SwitchMemTable \/ CompactRange \/ NextLevel
    \/ \E x \in Snaps : GetSnapshot(x) \/ ReleaseSnapshot(x)
    \/ \E i \in Iters : NewIterator(i) \/ DeleteIterator(i)
    \/ CompactMemTable \/ MoveFile \/ AutoCompaction \/ ManualCompaction
    \/ InstallCompactionResults \/ CompactionFails

Spec == Init /\ [][Next]_vars

-----------------------------------------------------------------------------
(* Properties                                                              *)

\* What a client must read for k at sequence number s.
Truth(k, s) == Newest(Hits(1 .. s, k, s))

\* Get answers for the latest sequence number and for every snapshot what was written,
\* wherever flushes and compactions have moved it: no compaction drops what a snapshot
\* sees, none brings a deleted key back, and no older entry covers a newer one -- as
\* long as no table ended between two entries of one key and no memtable was flushed
\* in the middle of a CompactRange.
ReadsAreRight ==
    (~split /\ ~squeezed) => \A k \in Keys, s \in Held \cup {LastSequence} : Get(k, s) = Truth(k, s)

\* An iterator yields what was written up to its sequence number, though the versions
\* and memtables it began with were replaced and the files of others deleted.
IteratorsKeepTheirView ==
    \A i \in Iters : iters[i] # Nil =>
        /\ FilesOf(iters[i].ver) \subseteq disk
        /\ (~split /\ ~squeezed) => \A k \in Keys : IterGet(iters[i], k) = Truth(k, iters[i].s)

Disjoint(v) ==
    \A l \in Levels \ {0} : \A f, g \in v[l] :
        f = g \/ Less(Largest(content[f]), Smallest(content[g]))
              \/ Less(Largest(content[g]), Smallest(content[f]))

\* Tables of a level above 0 do not overlap, so FindFile may search them -- if no
\* memtable is flushed in the middle of a CompactRange.
LevelsAreSorted == ~squeezed => Disjoint(current)

\* version_set.cc, Version::Get: "We can search level-by-level since entries never hop
\* across levels.  Therefore we are guaranteed that if we find data in an smaller level,
\* later levels are irrelevant."
LaterLevelsAreIrrelevant ==
    \A k \in Keys, l, m \in Levels :
        l < m => LET a == UNION {Hits(content[f], k, LastSequence) : f \in current[l]}
                     b == UNION {Hits(content[f], k, LastSequence) : f \in current[m]}
                 IN  \A x \in a, y \in b : x > y

\* version_set.cc, MaybeAddFile: "Must not overlap" and its assertion.
MustNotOverlap == Disjoint(current)
=============================================================================
