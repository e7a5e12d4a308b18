----------------------------- MODULE LogFormat -----------------------------
(***************************************************************************)
(* The format of leveldb's logs and manifests, byte by byte: log::Writer   *)
(* (db/log_writer.cc) cuts records into fragments that never cross a block *)
(* boundary, a crash or a failing write leaves a part of them, and         *)
(* log::Reader (db/log_reader.cc) puts the records together again.  With   *)
(* options.reuse_logs the writer goes on behind what it finds.             *)
(*                                                                         *)
(* A byte is the i-th of the header and payload of a fragment; a checksum  *)
(* matches iff header and payload are the bytes of one fragment in order.  *)
(* initial_offset is 0, as every caller has it.                            *)
(***************************************************************************)
EXTENDS Integers, Sequences, SequencesExt, FiniteSetsExt

CONSTANTS kBlockSize, kHeaderSize,
          Lengths,        \* sizes of the records
          MaxRecords,     \* bound: calls of AddRecord
          MaxCrashes,     \* bound: crashes, and with them readings
          MaxErrors,      \* bound: failing writes
          Reuse           \* the values of options.reuse_logs to look at

ASSUME LogFormatAssumption ==
    /\ {kHeaderSize, kBlockSize, MaxRecords, MaxCrashes, MaxErrors} \subseteq Nat
    /\ 0 < kHeaderSize /\ kHeaderSize <= kBlockSize
    /\ Lengths \subseteq Nat /\ Reuse \subseteq BOOLEAN

VARIABLES
    file,         \* the bytes
    synced,       \* how many of them survive a crash of the machine
    blockOffset,  \* block_offset_ of the writer
    cur,          \* AddRecord: the record, what is left of it, the next fragment
    records,      \* calls of AddRecord
    whole,        \* acknowledged records and where they end
    mode,         \* "write", "read" or "done"
    reader,       \* log::Reader and the locals of ReadRecord
    out,          \* the records returned, each as the fragments it is made of
    reported,     \* the Reporter was told of a corruption
    tainted,      \* the writer went on behind a broken record or trailer
    crashes, errors, reuse

writerVars == <<blockOffset, cur, records, whole, tainted>>
readerVars == <<reader, out, reported>>
bounds     == <<crashes, errors, reuse>>
vars       == <<file, synced, writerVars, mode, readerVars, bounds>>

Zero == [rec |-> 0, frag |-> 0, type |-> "zero", len |-> 0, i |-> 0]
Idle == [rec |-> 0, left |-> 0, frag |-> 0]
Types == {"full", "first", "middle", "last"}
Byte == [rec : 1 .. MaxRecords, frag : Nat \ {0}, type : Types, len : 0 .. kBlockSize,
         i : 1 .. kBlockSize] \cup {Zero}
Fragments == [rec : 1 .. MaxRecords, frag : Nat \ {0}, type : Types, len : 0 .. kBlockSize]

\* reader.lo and reader.hi delimit buffer_ in the file.
NewReader == [lo |-> 0, hi |-> 0, eof |-> FALSE, scratch |-> <<>>]

TypeOK ==
    /\ file \in Seq(Byte) /\ synced \in 0 .. Len(file)
    /\ blockOffset \in 0 .. kBlockSize
    /\ cur \in [rec : 0 .. MaxRecords, left : Nat, frag : Nat]
    /\ records \in 0 .. MaxRecords
    /\ \A r \in DOMAIN whole : r \in 1 .. records /\ whole[r] \in 0 .. Len(file)
    /\ mode \in {"write", "read", "done"}
    /\ reader \in [lo : Nat, hi : Nat, eof : BOOLEAN, scratch : Seq(Fragments)]
    /\ reader.lo <= reader.hi /\ reader.hi <= Len(file)
    /\ out \in Seq(Seq(Fragments))
    /\ reported \in BOOLEAN /\ tainted \in BOOLEAN /\ reuse \in Reuse
    /\ crashes \in 0 .. MaxCrashes /\ errors \in 0 .. MaxErrors

Init ==
    /\ file = <<>> /\ synced = 0
    /\ blockOffset = 0 /\ cur = Idle /\ records = 0 /\ whole = <<>>
    /\ mode = "write"
    /\ reader = NewReader /\ out = <<>> /\ reported = FALSE /\ tainted = FALSE
    /\ crashes = 0 /\ errors = 0 /\ reuse \in Reuse

-----------------------------------------------------------------------------
(* log::Writer                                                             *)

\* A call of AddRecord.
AddRecord(n) ==
    /\ mode = "write" /\ cur = Idle /\ records < MaxRecords
    /\ records' = records + 1
    /\ cur' = [rec |-> records + 1, left |-> n, frag |-> 1]
    /\ UNCHANGED <<file, synced, blockOffset, whole, tainted, mode, readerVars, bounds>>

\* The loop of AddRecord: the trailer that fills the block, if no header fits any
\* more, where the fragment begins, and how much of the record it holds.
Leftover == kBlockSize - blockOffset
\* Variant: the rest of the block is skipped without being filled.
NoTrailer == <<>>
Trailer  == IF Leftover < kHeaderSize THEN [i \in 1 .. Leftover |-> Zero] ELSE <<>>
Start    == IF Leftover < kHeaderSize THEN 0 ELSE blockOffset
FragLen  == Min({cur.left, kBlockSize - Start - kHeaderSize})

FragType ==
    CASE cur.frag = 1 /\ cur.left = FragLen -> "full"
      [] cur.frag = 1 /\ cur.left > FragLen -> "first"
      [] cur.frag > 1 /\ cur.left = FragLen -> "last"
      [] OTHER                              -> "middle"

\* The bytes of EmitPhysicalRecord.
Bytes == [i \in 1 .. kHeaderSize + FragLen |->
            [rec |-> cur.rec, frag |-> cur.frag, type |-> FragType, len |-> FragLen, i |-> i]]

\* The file ends inside a record.
Broken ==
    /\ file # <<>>
    /\ LET b == file[Len(file)]
       IN  b # Zero /\ (b.i < kHeaderSize + b.len \/ b.type \in {"first", "middle"})

\* What is appended when only z bytes of the trailer arrive.
Chunk(z) == SubSeq(Trailer, 1, z) \o Bytes

\* One fragment, flushed: the end of the record, or the loop goes on.
Emit(z) ==
    /\ mode = "write" /\ cur # Idle
    /\ file' = file \o Chunk(z)
    /\ blockOffset' = Start + kHeaderSize + FragLen
    /\ LET left == cur.left - FragLen
       IN  IF left = 0
           THEN /\ cur' = Idle
                /\ whole' = [r \in DOMAIN whole \cup {cur.rec} |->
                               IF r = cur.rec THEN Len(file') ELSE whole[r]]
           ELSE /\ cur' = [cur EXCEPT !.left = left, !.frag = @ + 1]
                /\ UNCHANGED whole
    /\ UNCHANGED <<synced, records, mode, readerVars, crashes, reuse>>

EmitPhysicalRecord ==
    /\ Emit(Len(Trailer))
    /\ tainted' = (tainted \/ (cur.frag = 1 /\ Broken))
    /\ UNCHANGED errors

\* The status of the trailer's Append is ignored: the record follows, and is acknowledged.
TrailerFails ==
    /\ errors < MaxErrors
    /\ errors' = errors + 1
    /\ \E z \in 0 .. Len(Trailer) - 1 : Emit(z)
    /\ tainted' = TRUE

\* Append or Flush fails after some of the bytes: block_offset_ moves as if all
\* were there, AddRecord returns the error and the next record follows.
EmitFails ==
    /\ mode = "write" /\ cur # Idle /\ errors < MaxErrors
    /\ errors' = errors + 1
    /\ \E z \in 0 .. Len(Trailer) : \E n \in 0 .. Len(Chunk(z)) :
          file' = file \o SubSeq(Chunk(z), 1, n)
    /\ blockOffset' = Start + kHeaderSize + FragLen
    /\ cur' = Idle
    /\ tainted' = TRUE
    /\ UNCHANGED <<synced, records, whole, mode, readerVars, crashes, reuse>>

Sync ==
    /\ mode = "write" /\ cur = Idle /\ synced < Len(file)
    /\ synced' = Len(file)
    /\ UNCHANGED <<file, writerVars, mode, readerVars, bounds>>

-----------------------------------------------------------------------------
(* Crash                                                                   *)

StartReading ==
    /\ mode' = "read" /\ cur' = Idle
    /\ reader' = NewReader /\ out' = <<>> /\ reported' = FALSE

\* The process dies, perhaps in the middle of a fragment.
ProcessCrash ==
    /\ mode = "write" /\ crashes < MaxCrashes
    /\ crashes' = crashes + 1
    /\ \/ UNCHANGED <<file, tainted>>
       \/ /\ cur # Idle
          /\ LET all == Chunk(Len(Trailer))
             IN  \E n \in 1 .. Len(all) : file' = file \o SubSeq(all, 1, n)
          /\ tainted' = (tainted \/ (cur.frag = 1 /\ Broken))
    /\ StartReading
    /\ UNCHANGED <<synced, blockOffset, records, whole, errors, reuse>>

\* The machine dies: what was not synced may be missing from some byte on.
MachineCrash ==
    /\ mode = "write" /\ crashes < MaxCrashes
    /\ crashes' = crashes + 1
    /\ \E n \in synced .. Len(file) :
          /\ file' = SubSeq(file, 1, n)
          /\ whole' = [r \in {r \in DOMAIN whole : whole[r] <= n} |-> whole[r]]
    /\ StartReading
    /\ UNCHANGED <<synced, blockOffset, records, tainted, errors, reuse>>

-----------------------------------------------------------------------------
(* log::Reader                                                             *)

Size == reader.hi - reader.lo

\* ReadPhysicalRecord: the next block.
ReadBlock ==
    /\ mode = "read" /\ Size < kHeaderSize /\ ~reader.eof
    /\ LET hi == Min({reader.hi + kBlockSize, Len(file)})
       IN  reader' = [reader EXCEPT !.lo = reader.hi, !.hi = hi,
                                    !.eof = hi - reader.hi < kBlockSize]
    /\ UNCHANGED <<file, synced, writerVars, mode, out, reported, bounds>>

\* The header at the front of buffer_.
Header       == SubSeq(file, reader.lo + 1, reader.lo + kHeaderSize)
HeaderIntact == \A i \in 1 .. kHeaderSize : Header[i] = [Header[1] EXCEPT !.i = i]
Length       == Header[1].len

\* The checksum matches.
Intact ==
    /\ HeaderIntact /\ kHeaderSize + Length <= Size
    /\ \A i \in 1 .. kHeaderSize + Length :
          file[reader.lo + i] = [Header[1] EXCEPT !.i = i]

InFragmentedRecord == reader.scratch # <<>>
ScratchEmpty       == \A j \in DOMAIN reader.scratch : reader.scratch[j].len = 0

\* ReadRecord with a fragment that ReadPhysicalRecord accepted.
ReadFragment ==
    /\ mode = "read" /\ Size >= kHeaderSize /\ Intact
    /\ LET b    == Header[1]
           f    == [rec |-> b.rec, frag |-> b.frag, type |-> b.type, len |-> b.len]
           next == [reader EXCEPT !.lo = @ + kHeaderSize + Length]
       IN  \/ /\ b.type = "full"
              /\ out' = Append(out, <<f>>)
              /\ reader' = [next EXCEPT !.scratch = <<>>]
              /\ reported' = (reported \/ (InFragmentedRecord /\ ~ScratchEmpty))
           \/ /\ b.type = "first"
              /\ reader' = [next EXCEPT !.scratch = <<f>>]
              /\ reported' = (reported \/ (InFragmentedRecord /\ ~ScratchEmpty))
              /\ UNCHANGED out
           \/ /\ b.type = "middle"
              /\ reader' = IF InFragmentedRecord
                           THEN [next EXCEPT !.scratch = Append(@, f)] ELSE next
              /\ reported' = (reported \/ ~InFragmentedRecord)
              /\ UNCHANGED out
           \/ /\ b.type = "last"
              /\ out' = IF InFragmentedRecord THEN Append(out, Append(reader.scratch, f))
                        ELSE out
              /\ reader' = [next EXCEPT !.scratch = <<>>]
              /\ reported' = (reported \/ ~InFragmentedRecord)
    /\ UNCHANGED <<file, synced, writerVars, mode, bounds>>

\* ReadRecord returned false and DB::Open is done with the file; with reuse_logs
\* a new Writer goes on at its end.
Reopen ==
    /\ mode' = IF reuse THEN "write" ELSE "done"
    /\ blockOffset' = Len(file) % kBlockSize

\* Variant: a fragmented record is kept across what was dropped.
DropBufferKeepsScratch ==
    /\ mode = "read" /\ Size >= kHeaderSize /\ ~Intact
    /\ LET next == [reader EXCEPT !.lo = reader.hi]
       IN  \/ /\ reported' = TRUE
              /\ reader' = next
              /\ UNCHANGED <<mode, blockOffset>>
           \/ /\ reader.eof /\ reader' = next /\ Reopen
              /\ UNCHANGED reported
    /\ UNCHANGED <<file, synced, cur, records, whole, tainted, out, bounds>>

\* Variant: a length that reaches beyond the end of the file is a corruption too.
DropBufferReportsTail ==
    /\ mode = "read" /\ Size >= kHeaderSize /\ ~Intact
    /\ reported' = TRUE
    /\ reader' = [reader EXCEPT !.lo = reader.hi, !.scratch = <<>>]
    /\ UNCHANGED <<file, synced, writerVars, mode, out, bounds>>

\* A bad length or checksum drops the rest of the buffer and the record under way.
\* At the end of the file a length that reaches beyond it counts as the end; what a
\* header of mixed bytes says is anybody's guess.
DropBuffer ==
    /\ mode = "read" /\ Size >= kHeaderSize /\ ~Intact
    /\ LET next    == [reader EXCEPT !.lo = reader.hi, !.scratch = <<>>]
           isZero  == \A i \in 1 .. kHeaderSize : Header[i] = Zero
           tooLong == HeaderIntact /\ ~isZero /\ kHeaderSize + Length > Size
       IN  \/ /\ ~(tooLong /\ reader.eof)
              /\ \/ ~isZero /\ reported' = TRUE
                 \/ ~HeaderIntact /\ reported' = (reported \/ InFragmentedRecord)
              /\ reader' = next
              /\ UNCHANGED <<mode, blockOffset>>
           \/ /\ reader.eof /\ ~isZero
              /\ tooLong \/ ~HeaderIntact
              /\ reader' = next
              /\ Reopen
              /\ UNCHANGED reported
    /\ UNCHANGED <<file, synced, cur, records, whole, tainted, out, bounds>>

\* A short rest at the end of the file: kEof.
ReadEof ==
    /\ mode = "read" /\ Size < kHeaderSize /\ reader.eof
    /\ reader' = [reader EXCEPT !.lo = reader.hi, !.scratch = <<>>]
    /\ Reopen
    /\ UNCHANGED <<file, synced, cur, records, whole, tainted, out, reported, bounds>>

Next ==
    \/ \E n \in Lengths : AddRecord(n)
    \/ EmitPhysicalRecord \/ TrailerFails \/ EmitFails \/ Sync
    \/ ProcessCrash \/ MachineCrash
    \/ ReadBlock \/ ReadFragment \/ DropBuffer \/ ReadEof

Spec == Init /\ [][Next]_vars

-----------------------------------------------------------------------------
(* Properties                                                              *)

\* Whatever was torn, overwritten by nothing and appended to: the reader never puts
\* together fragments of two records, never returns a part of one, never returns one
\* twice, and keeps the order in which they were written.
OnlyWholeRecords ==
    /\ \A o \in ToSet(out) :
          /\ \A j \in 1 .. Len(o) : o[j].rec = o[1].rec /\ o[j].frag = j
          /\ o[1].type \in {"full", "first"} /\ o[Len(o)].type \in {"full", "last"}
    /\ \A j, k \in DOMAIN out : j < k => out[j][1].rec < out[k][1].rec

HasRead == mode = "done" \/ (mode = "write" /\ reader # NewReader)
Returned == {out[j][1].rec : j \in DOMAIN out}

\* A record that AddRecord acknowledged and that no crash cut off is read back, unless
\* the writer went on behind a broken record or trailer: after a failing write, or because
\* reuse_logs appends to the end a crash has left.
AcknowledgedIsReadBack ==
    (HasRead /\ ~tainted) => {r \in DOMAIN whole : whole[r] <= reader.hi} \subseteq Returned

\* The end a crash leaves is taken for the end of the log and never reported as a
\* corruption, which would keep a manifest from being opened.
CrashIsNotCorruption == (mode # "write" /\ ~tainted) => ~reported
-----------------------------------------------------------------------------
(* Why OnlyWholeRecords holds: an inductive invariant                      *)

\* The bytes of a fragment stand behind each other from the first on, and a fragment
\* of a record but for its first follows the whole of the one before, with nothing but a
\* trailer between them.
LastOf(b, rec, frag) ==
    /\ b # Zero /\ b.rec = rec /\ b.frag = frag
    /\ b.i = kHeaderSize + b.len /\ b.type \in {"first", "middle"}
Follows(f, p) ==
    \E z \in 0 .. kHeaderSize - 1 :
        /\ p - z > 1 /\ \A q \in p - z .. p - 1 : f[q] = Zero
        /\ LastOf(f[p - z - 1], f[p].rec, f[p].frag - 1)
Placed(f, p) ==
    /\ f[p].i <= kHeaderSize + f[p].len
    /\ f[p].type \in IF f[p].frag = 1 THEN {"full", "first"} ELSE {"middle", "last"}
    /\ f[p].i <= p /\ \A k \in 1 .. f[p].i - 1 : f[p - k] = [f[p] EXCEPT !.i = @ - k]
    /\ f[p].i = 1 /\ f[p].frag > 1 => Follows(f, p)
Chained(f) == \A p \in 1 .. Len(f) : f[p] # Zero => Placed(f, p)

\* Records follow each other in the order of the calls, and nothing of a record
\* follows the end of it.
Before(b, c) ==
    \/ b.rec < c.rec
    \/ b.rec = c.rec /\ b.frag = c.frag /\ b.i < c.i
    \/ b.rec = c.rec /\ b.frag < c.frag /\ b.type \in {"first", "middle"}
Ascending(f) ==
    \A p, q \in 1 .. Len(f) : p < q /\ f[p] # Zero /\ f[q] # Zero => Before(f[p], f[q])

\* The writer's next fragment will continue this.
Earlier(b) ==
    /\ b.rec <= records
    /\ cur # Idle /\ b.rec = records => b.frag < cur.frag /\ b.type \in {"first", "middle"}
WriterInv ==
    /\ cur # Idle => cur.rec = records /\ records > 0 /\ cur.frag > 0
    /\ \A p \in 1 .. Len(file) : file[p] # Zero => Earlier(file[p])
    /\ cur # Idle /\ cur.frag > 1 =>
          file # <<>> /\ LastOf(file[Len(file)], cur.rec, cur.frag - 1)

\* The fragments kept by the reader are the beginning of one record; the last of them
\* ends at lo, or less than a header before it.
KeptInv ==
    LET s == reader.scratch IN
    s # <<>> =>
        /\ \A j \in 1 .. Len(s) : s[j].rec = s[1].rec /\ s[j].frag = j
        /\ s[1].type = "first"
        /\ \E e \in 1 .. reader.lo :
              /\ LastOf(file[e], s[1].rec, Len(s))
              /\ \/ e = reader.lo
                 \/ reader.lo - e < kHeaderSize /\ (reader.eof \/ Size >= kHeaderSize)

\* What was returned ends before lo.
OutInv ==
    \A j \in 1 .. Len(out) :
        /\ out[j] # <<>>
        /\ \E p \in 1 .. reader.lo :
              file[p].rec = out[j][1].rec /\ file[p].type \in {"full", "last"}

IInv == /\ TypeOK /\ Chained(file) /\ Ascending(file) /\ WriterInv
        /\ KeptInv /\ OutInv /\ OnlyWholeRecords
=============================================================================
