-------------------------- MODULE LogFormatProofs --------------------------
(***************************************************************************)
(* The proofs about leveldb's log format, for every block and header size, *)
(* every set of record sizes and any number of records, crashes and        *)
(* failing writes.  The invariant IInv of LogFormat is kept by every step: *)
(* FileExtended and FilePrefix are about the bytes a writer, whole or      *)
(* torn, leaves; Continues and Later are the two facts that keep the       *)
(* reader honest: a middle or last fragment it accepts continues the       *)
(* fragments it has kept, and belongs to a record behind all the others.   *)
(***************************************************************************)
EXTENDS LogFormat, SequenceTheorems, TLAPS

(* What is assumed of the sizes and the bounds. *)
LEMMA Sizes ==
    /\ kHeaderSize \in Nat /\ kBlockSize \in Nat /\ MaxRecords \in Nat
    /\ MaxCrashes \in Nat /\ MaxErrors \in Nat
    /\ 0 < kHeaderSize /\ kHeaderSize <= kBlockSize
BY LogFormatAssumption

(* The smaller of two numbers. *)
LEMMA MinOfTwo ==
    ASSUME NEW a \in Int, NEW b \in Int
    PROVE  Min({a, b}) \in {a, b} /\ Min({a, b}) <= a /\ Min({a, b}) <= b
<1>1. \E x \in {a, b} : \A y \in {a, b} : x <= y
  <2>1. CASE a <= b
    BY <2>1
  <2>2. CASE ~(a <= b)
    BY <2>2
  <2> QED BY <2>1, <2>2
<1>2. Min({a, b}) \in {a, b} /\ \A y \in {a, b} : Min({a, b}) <= y
  BY <1>1 DEF Min
<1> QED BY <1>2

(* A byte of the file is the trailer's, or of a fragment. *)
LEMMA ByteFacts ==
    ASSUME NEW b \in Byte
    PROVE  /\ b # Zero => /\ b.rec \in 1 .. MaxRecords /\ b.frag \in Nat \ {0} /\ b.type \in Types
                          /\ b.len \in 0 .. kBlockSize /\ b.i \in 1 .. kBlockSize
                          /\ b = [rec |-> b.rec, frag |-> b.frag, type |-> b.type,
                                  len |-> b.len, i |-> b.i]
           /\ Zero.i = 0 /\ Zero.type = "zero" /\ Zero \in Byte
<1>1. b \in [rec : 1 .. MaxRecords, frag : Nat \ {0}, type : Types, len : 0 .. kBlockSize,
             i : 1 .. kBlockSize] \/ b = Zero
  BY DEF Byte
<1>2. Zero.i = 0 /\ Zero.type = "zero" /\ Zero \in Byte
  BY DEF Zero, Byte
<1> QED BY <1>1, <1>2

(* Another byte of a fragment. *)
LEMMA OtherByte ==
    ASSUME NEW b, NEW rec, NEW frag, NEW type, NEW len, NEW i, NEW j,
           b = [rec |-> rec, frag |-> frag, type |-> type, len |-> len, i |-> i]
    PROVE  [b EXCEPT !.i = j] = [rec |-> rec, frag |-> frag, type |-> type, len |-> len, i |-> j]
OBVIOUS

(* One sequence behind another. *)
LEMMA Concat ==
    ASSUME NEW S, NEW s \in Seq(S), NEW t \in Seq(S)
    PROVE  /\ s \o t \in Seq(S) /\ Len(s \o t) = Len(s) + Len(t)
           /\ \A p \in 1 .. Len(s) : (s \o t)[p] = s[p]
           /\ \A j \in 1 .. Len(t) : (s \o t)[Len(s) + j] = t[j]
<1>1. Len(s) \in Nat /\ Len(t) \in Nat
  OBVIOUS
<1> DEFINE c == s \o t
<1>2. /\ c \in Seq(S) /\ Len(c) = Len(s) + Len(t)
      /\ \A i \in 1 .. Len(s) + Len(t) : c[i] = IF i <= Len(s) THEN s[i] ELSE t[i - Len(s)]
  BY ConcatProperties
<1> HIDE DEF c
<1>3. \A p \in 1 .. Len(s) : c[p] = s[p]
  BY <1>1, <1>2
<1>4. ASSUME NEW j \in 1 .. Len(t) PROVE c[Len(s) + j] = t[j]
  <2>1. Len(s) + j \in 1 .. Len(s) + Len(t) /\ ~(Len(s) + j <= Len(s))
        /\ (Len(s) + j) - Len(s) = j
    BY <1>1
  <2> QED BY <1>2, <2>1
<1> QED BY <1>2, <1>3, <1>4 DEF c

-----------------------------------------------------------------------------
(* What the writer appends                                                 *)

(* The fragment fits in its block. *)
LEMMA FragFacts ==
    ASSUME IInv, cur # Idle
    PROVE  /\ cur.rec = records /\ records \in 1 .. MaxRecords /\ cur.frag \in Nat \ {0}
           /\ cur.left \in Nat /\ FragLen \in 0 .. kBlockSize /\ FragLen <= cur.left
           /\ Start + kHeaderSize + FragLen \in 0 .. kBlockSize
           /\ kHeaderSize + FragLen <= kBlockSize /\ FragType \in Types
           /\ FragType \in IF cur.frag = 1 THEN {"full", "first"} ELSE {"middle", "last"}
           /\ cur.left - FragLen # 0 => FragType \in {"first", "middle"}
<1> USE Sizes
<1>1. /\ blockOffset \in 0 .. kBlockSize /\ records \in 0 .. MaxRecords
      /\ cur \in [rec : 0 .. MaxRecords, left : Nat, frag : Nat]
      /\ cur.rec = records /\ records > 0 /\ cur.frag > 0
  BY DEF IInv, TypeOK, WriterInv
<1>2. cur.left \in Nat /\ cur.frag \in Nat \ {0} /\ records \in 1 .. MaxRecords
  BY <1>1
<1>3. Start \in Nat /\ kBlockSize - Start - kHeaderSize \in Nat
  BY <1>1 DEF Start, Leftover
<1>4. /\ FragLen \in {cur.left, kBlockSize - Start - kHeaderSize}
      /\ FragLen <= cur.left /\ FragLen <= kBlockSize - Start - kHeaderSize
  BY <1>2, <1>3, MinOfTwo DEF FragLen
<1>5. FragLen \in Nat
  BY <1>2, <1>3, <1>4
<1>6. /\ FragLen \in 0 .. kBlockSize /\ Start + kHeaderSize + FragLen \in 0 .. kBlockSize
      /\ kHeaderSize + FragLen <= kBlockSize
  BY <1>3, <1>4, <1>5
<1>7. /\ FragType \in IF cur.frag = 1 THEN {"full", "first"} ELSE {"middle", "last"}
      /\ cur.left - FragLen # 0 => FragType \in {"first", "middle"}
  BY <1>2, <1>4, <1>5 DEF FragType
<1> QED BY <1>1, <1>2, <1>4, <1>6, <1>7 DEF Types

(* The trailer is shorter than a header. *)
LEMMA TrailerFacts ==
    ASSUME IInv
    PROVE  /\ Trailer \in Seq(Byte) /\ Len(Trailer) \in 0 .. kHeaderSize - 1
           /\ \A j \in 1 .. Len(Trailer) : Trailer[j] = Zero
<1> USE Sizes
<1>1. blockOffset \in 0 .. kBlockSize
  BY DEF IInv, TypeOK
<1>2. Leftover \in Nat
  BY <1>1 DEF Leftover
<1>3. CASE Leftover < kHeaderSize
  <2>1. Trailer = [i \in 1 .. Leftover |-> Zero]
    BY <1>3 DEF Trailer
  <2>2. Zero \in Byte
    BY DEF Byte
  <2> QED BY <1>2, <1>3, <2>1, <2>2
<1>4. CASE ~(Leftover < kHeaderSize)
  BY <1>4 DEF Trailer
<1> QED BY <1>3, <1>4

(* g is the file with the first m bytes of z bytes of a trailer and a fragment. *)
ByteAt(z, j) ==
    IF j <= z THEN Zero
    ELSE [rec |-> cur.rec, frag |-> cur.frag, type |-> FragType, len |-> FragLen,
          i |-> j - z]
Room(z) == z + kHeaderSize + FragLen
Extends(z, g, m) ==
    /\ g \in Seq(Byte) /\ Len(g) = Len(file) + m
    /\ \A p \in 1 .. Len(file) : g[p] = file[p]
    /\ \A j \in 1 .. m : g[Len(file) + j] = ByteAt(z, j)

(* What ByteAt is made of. *)
LEMMA ByteAtFacts ==
    ASSUME IInv, cur # Idle, NEW z \in 0 .. Len(Trailer), NEW j \in 1 .. Room(z)
    PROVE  /\ ByteAt(z, j) \in Byte
           /\ j <= z => ByteAt(z, j) = Zero
           /\ j > z =>
                 /\ ByteAt(z, j) # Zero /\ ByteAt(z, j).rec = cur.rec
                 /\ ByteAt(z, j).frag = cur.frag
                 /\ ByteAt(z, j).type = FragType /\ ByteAt(z, j).len = FragLen
                 /\ ByteAt(z, j).i = j - z
                 /\ ByteAt(z, j).i \in 1 .. kHeaderSize + FragLen
<1> USE Sizes
<1>1. z \in Nat
  BY TrailerFacts
<1>2. FragLen \in 0 .. kBlockSize /\ kHeaderSize + FragLen <= kBlockSize
  BY FragFacts
<1>3. CASE j <= z
  BY <1>1, <1>3 DEF ByteAt, Byte
<1>4. CASE j > z
  <2> DEFINE b == [rec |-> cur.rec, frag |-> cur.frag, type |-> FragType, len |-> FragLen,
                   i |-> j - z]
  <2>1. ByteAt(z, j) = b
    BY <1>1, <1>4 DEF ByteAt
  <2>2. j - z \in 1 .. kHeaderSize + FragLen /\ j - z \in 1 .. kBlockSize
    BY <1>1, <1>2, <1>4 DEF Room
  <2>3. b \in Byte
    BY <1>2, <2>2, FragFacts DEF Byte
  <2>4. b # Zero
    <3>1. b.i # Zero.i
      BY <2>2 DEF Zero
    <3> QED BY <3>1
  <2> QED BY <1>1, <1>4, <2>1, <2>2, <2>3, <2>4
<1> QED BY <1>1, <1>3, <1>4

(* The whole fragment, or a part of it, is appended. *)
LEMMA Appends ==
    ASSUME IInv, cur # Idle, NEW z \in 0 .. Len(Trailer)
    PROVE  /\ Extends(z, file \o Chunk(z), Room(z)) /\ Room(z) \in Nat
           /\ Len(Chunk(z)) = Room(z)
           /\ \A n \in 0 .. Room(z) : Extends(z, file \o SubSeq(Chunk(z), 1, n), n)
<1> USE Sizes
<1> DEFINE t == SubSeq(Trailer, 1, z)
           y == Bytes
           k == kHeaderSize + FragLen
<1>1. /\ t \in Seq(Byte) /\ Len(t) = z /\ z \in Nat /\ \A j \in 1 .. z : t[j] = Zero
  BY TrailerFacts
<1>2. FragLen \in Nat /\ file \in Seq(Byte) /\ Len(file) \in Nat /\ k \in Nat
  <2>1. FragLen \in Nat
    BY FragFacts
  <2>2. file \in Seq(Byte)
    BY DEF IInv, TypeOK
  <2> QED BY <2>1, <2>2
<1>3. Room(z) \in Nat /\ Room(z) = z + k
  BY <1>1, <1>2 DEF Room
<1>4. Len(y) = k /\ DOMAIN y = 1 .. k /\ \A i \in 1 .. k : y[i] = ByteAt(z, z + i)
  BY <1>1, <1>2 DEF Bytes, ByteAt
<1>5. \A i \in 1 .. k : ByteAt(z, z + i) \in Byte
  BY <1>1, <1>2, <1>3, ByteAtFacts
<1>6. y \in Seq(Byte)
  <2>1. y = [i \in 1 .. k |-> y[i]]
    BY <1>4 DEF Bytes
  <2>2. y \in [1 .. k -> Byte]
    BY <1>4, <1>5, <2>1
  <2> QED BY <1>2, <2>2
<1>0. \A j \in 1 .. z : ByteAt(z, j) = Zero
  BY <1>1 DEF ByteAt
<1> HIDE DEF t, y, k
<1> DEFINE w == t \o y
<1>7. w \in Seq(Byte) /\ Len(w) = Room(z) /\ \A j \in 1 .. Room(z) : w[j] = ByteAt(z, j)
  <2>1. w \in Seq(Byte) /\ Len(w) = z + k
    BY <1>1, <1>2, <1>4, <1>6
  <2>2. ASSUME NEW j \in 1 .. z + k PROVE w[j] = ByteAt(z, j)
    <3>1. CASE j <= z
      <4>1. w[j] = t[j] /\ j \in 1 .. z
        BY <1>1, <1>2, <1>4, <1>6, <3>1
      <4> QED BY <1>0, <1>1, <4>1
    <3>2. CASE ~(j <= z)
      <4>1. j - z \in 1 .. k /\ z + (j - z) = j
        BY <1>1, <1>2, <3>2
      <4>2. w[z + (j - z)] = y[j - z]
        BY <1>1, <1>4, <1>6, <4>1, Concat
      <4> QED BY <1>4, <4>1, <4>2
    <3> QED BY <3>1, <3>2
  <2> QED BY <1>3, <2>1, <2>2
<1>8. file \o Chunk(z) = file \o w
  BY DEF Chunk, t, y
<1> HIDE DEF w
<1>9. ASSUME NEW n \in 0 .. Room(z) PROVE Extends(z, file \o SubSeq(w, 1, n), n)
  <2> DEFINE u == SubSeq(w, 1, n)
  <2>1. u \in Seq(Byte) /\ Len(u) = n /\ \A j \in 1 .. n : u[j] = w[j]
    BY <1>3, <1>7
  <2>2. \A j \in 1 .. n : j \in 1 .. Room(z)
    BY <1>3
  <2> HIDE DEF u
  <2>3. \A j \in 1 .. n : u[j] = ByteAt(z, j)
    BY <1>7, <2>1, <2>2
  <2> DEFINE g == file \o u
  <2>4. /\ g \in Seq(Byte) /\ Len(g) = Len(file) + n
        /\ \A p \in 1 .. Len(file) : g[p] = file[p]
        /\ \A j \in 1 .. n : g[Len(file) + j] = u[j]
    <3>1. n \in Nat
      BY <1>3
    <3>2. g \in Seq(Byte) /\ Len(g) = Len(file) + n
      BY <1>2, <2>1, <3>1
    <3>3. \A p \in 1 .. Len(file) : g[p] = file[p]
      BY <1>2, <2>1, <3>1
    <3>4. \A j \in 1 .. Len(u) : g[Len(file) + j] = u[j]
      BY <1>2, <2>1, Concat
    <3> QED BY <2>1, <3>2, <3>3, <3>4
  <2> HIDE DEF g
  <2>5. Extends(z, g, n)
    BY <2>3, <2>4 DEF Extends
  <2> QED BY <2>5 DEF u, g
<1>10. SubSeq(w, 1, Room(z)) = w
  BY <1>3, <1>7
<1>11. Extends(z, file \o w, Room(z))
  <2>1. Room(z) \in 0 .. Room(z)
    BY <1>3
  <2>2. Extends(z, file \o SubSeq(w, 1, Room(z)), Room(z))
    BY <1>9, <2>1
  <2> QED BY <1>10, <2>2
<1> QED BY <1>3, <1>7, <1>8, <1>9, <1>11 DEF w, t, y, Chunk
-----------------------------------------------------------------------------
(* The file                                                                *)

(* Whether a byte is in its place depends on the bytes before it. *)
LEMMA PlacedPrefix ==
    ASSUME NEW f, NEW g, NEW p \in Nat \ {0}, \A q \in 1 .. p : g[q] = f[q],
           f[p].i \in Nat, Placed(f, p)
    PROVE  Placed(g, p)
<1> USE Sizes
<1>1. g[p] = f[p]
  OBVIOUS
<1>3. \A k \in 1 .. g[p].i - 1 : g[p - k] = [g[p] EXCEPT !.i = @ - k]
  <2> SUFFICES ASSUME NEW k \in 1 .. f[p].i - 1 PROVE g[p - k] = [g[p] EXCEPT !.i = @ - k]
    BY <1>1
  <2>1. f[p].i <= p /\ f[p - k] = [f[p] EXCEPT !.i = @ - k]
    BY DEF Placed
  <2>2. p - k \in 1 .. p
    BY <2>1
  <2> QED BY <1>1, <2>1, <2>2
<1>2. Follows(f, p) => Follows(g, p)
  <2> SUFFICES ASSUME Follows(f, p) PROVE Follows(g, p)
    OBVIOUS
  <2>1. PICK z \in 0 .. kHeaderSize - 1 :
           /\ p - z > 1 /\ \A q \in p - z .. p - 1 : f[q] = Zero
           /\ LastOf(f[p - z - 1], f[p].rec, f[p].frag - 1)
    BY DEF Follows
  <2>2. p - z - 1 \in 1 .. p /\ \A q \in p - z .. p - 1 : q \in 1 .. p
    BY <2>1
  <2>3. \A q \in p - z .. p - 1 : g[q] = Zero
    BY <2>1, <2>2
  <2>4. LastOf(g[p - z - 1], g[p].rec, g[p].frag - 1)
    BY <1>1, <2>1, <2>2
  <2> QED BY <2>1, <2>3, <2>4 DEF Follows
<1> QED BY <1>1, <1>2, <1>3 DEF Placed

(* A beginning of the file. *)
LEMMA FilePrefix ==
    ASSUME NEW f \in Seq(Byte), NEW g \in Seq(Byte), Len(g) <= Len(f),
           \A p \in 1 .. Len(g) : g[p] = f[p], Chained(f), Ascending(f)
    PROVE  Chained(g) /\ Ascending(g)
<1>0. Len(f) \in Nat /\ Len(g) \in Nat
  OBVIOUS
<1>1. \A p \in 1 .. Len(g) : p \in 1 .. Len(f) /\ p \in Nat \ {0} /\ \A q \in 1 .. p : q \in 1 .. Len(g)
  BY <1>0
<1>2. Chained(g)
  <2> SUFFICES ASSUME NEW p \in 1 .. Len(g), g[p] # Zero PROVE Placed(g, p)
    BY DEF Chained
  <2>1. Placed(f, p)
    BY <1>1 DEF Chained
  <2>2. \A q \in 1 .. p : g[q] = f[q]
    BY <1>1
  <2>3. f[p] \in Byte /\ f[p] # Zero
    BY <1>1
  <2>4. f[p].i \in Nat
    BY <2>3, Sizes, ByteFacts
  <2> QED BY <1>1, <2>1, <2>2, <2>4, PlacedPrefix
<1>3. Ascending(g)
  BY <1>1 DEF Ascending
<1> QED BY <1>2, <1>3

(* What the writer appends, whole or torn. *)
LEMMA FileExtended ==
    ASSUME IInv, cur # Idle, NEW z \in 0 .. Len(Trailer), NEW m \in 0 .. Room(z), NEW g,
           Extends(z, g, m)
    PROVE  /\ g \in Seq(Byte) /\ Len(g) = Len(file) + m /\ Len(file) \in Nat /\ m \in Nat
           /\ \A p \in 1 .. Len(file) : g[p] = file[p]
           /\ Chained(g) /\ Ascending(g)
           /\ \A p \in 1 .. Len(g) : g[p] # Zero =>
                 /\ g[p].rec <= records
                 /\ g[p].rec = records =>
                       \/ g[p].frag < cur.frag /\ g[p].type \in {"first", "middle"}
                       \/ g[p].frag = cur.frag /\ g[p].type = FragType
           /\ m = Room(z) => /\ g # <<>> /\ g[Len(g)] # Zero /\ g[Len(g)].rec = cur.rec
                          /\ g[Len(g)].frag = cur.frag /\ g[Len(g)].type = FragType
                          /\ g[Len(g)].i = kHeaderSize + g[Len(g)].len
<1> USE Sizes
<1>0. /\ file \in Seq(Byte) /\ Len(file) \in Nat /\ Room(z) \in Nat /\ m \in Nat /\ m <= Room(z)
      /\ z \in 0 .. kHeaderSize - 1 /\ FragLen \in Nat /\ Chained(file)
      /\ Ascending(file) /\ records \in Nat /\ cur.rec = records /\ cur.frag \in Nat \ {0}
      /\ Room(z) = z + kHeaderSize + FragLen
  <2>1. file \in Seq(Byte) /\ Chained(file) /\ Ascending(file) /\ records \in Nat
    BY DEF IInv, TypeOK
  <2>2. cur.rec = records /\ cur.frag \in Nat \ {0} /\ FragLen \in Nat
    BY FragFacts
  <2>3. z \in 0 .. kHeaderSize - 1
    BY TrailerFacts
  <2>4. Room(z) \in Nat /\ m \in Nat /\ m <= Room(z)
    BY Appends
  <2> QED BY <2>1, <2>2, <2>3, <2>4 DEF Room
<1>1. /\ g \in Seq(Byte) /\ Len(g) = Len(file) + m
      /\ \A p \in 1 .. Len(file) : g[p] = file[p]
      /\ \A j \in 1 .. m : g[Len(file) + j] = ByteAt(z, j)
  BY DEF Extends
<1> DEFINE L == Len(file)
<1>2. ASSUME NEW p \in 1 .. Len(g), p > L, g[p] # Zero
      PROVE  /\ p - L \in 1 .. m /\ p - L > z /\ g[p].rec = records /\ g[p].frag = cur.frag
             /\ g[p].type = FragType /\ g[p].len = FragLen /\ g[p].i = p - L - z
             /\ g[p].i \in 1 .. kHeaderSize + FragLen /\ g[p] = ByteAt(z, p - L)
  <2>1. p - L \in 1 .. m /\ L + (p - L) = p /\ p - L \in 1 .. Room(z)
    BY <1>0, <1>1, <1>2
  <2>2. g[p] = ByteAt(z, p - L)
    BY <1>1, <2>1
  <2>3. ~(p - L <= z)
    BY <1>2, <2>1, <2>2, ByteAtFacts
  <2>4. p - L > z /\ p - L - z = (p - L) - z
    BY <1>0, <1>1, <2>3
  <2> QED BY <1>0, <2>1, <2>2, <2>4, ByteAtFacts
<1>3. \A p \in 1 .. Len(g) : p <= L => p \in 1 .. L
  BY <1>0, <1>1
<1>4. \A p \in 1 .. L : file[p] # Zero =>
         /\ file[p].rec <= records
         /\ file[p].rec = records =>
                file[p].frag < cur.frag /\ file[p].type \in {"first", "middle"}
  BY DEF IInv, WriterInv, Earlier
<1>5. Chained(g)
  <2> SUFFICES ASSUME NEW p \in 1 .. Len(g), g[p] # Zero PROVE Placed(g, p)
    BY DEF Chained
  <2>1. CASE p <= L
    <3>1. p \in 1 .. L /\ p \in Nat \ {0} /\ \A q \in 1 .. p : q \in 1 .. L
      BY <1>0, <1>1, <2>1
    <3>2. Placed(file, p)
      BY <1>0, <1>1, <3>1 DEF Chained
    <3>3. file[p] \in Byte /\ file[p] # Zero
      BY <1>0, <1>1, <3>1
    <3>4. file[p].i \in Nat
      BY <3>3, ByteFacts
    <3> QED BY <1>1, <3>1, <3>2, <3>4, PlacedPrefix
  <2>2. CASE p > L
    <3> DEFINE b == g[p]
    <3>1. /\ p - L \in 1 .. m /\ p - L > z /\ b.rec = records /\ b.frag = cur.frag
          /\ b.type = FragType /\ b.len = FragLen /\ b.i = p - L - z
          /\ b.i \in 1 .. kHeaderSize + FragLen /\ b = ByteAt(z, p - L)
      BY <1>2, <2>2
    <3>2. b.i <= kHeaderSize + b.len
      BY <1>0, <3>1
    <3>3. b.type \in IF b.frag = 1 THEN {"full", "first"} ELSE {"middle", "last"}
      BY <3>1, FragFacts
    <3>4. b.i <= p
      <4>1. p \in Nat /\ L \in Nat /\ z \in Nat
        BY <1>0
      <4>2. p - L - z <= p
        BY <4>1
      <4>3. b.i = p - L - z
        BY <3>1
      <4> HIDE DEF b, L
      <4> QED BY <4>2, <4>3
    <3>6. ASSUME NEW k \in 1 .. b.i - 1 PROVE g[p - k] = [b EXCEPT !.i = @ - k]
      <4>0. k \in 1 .. (p - L - z) - 1 /\ p - L \in 1 .. m /\ p \in Nat
        BY <3>1
      <4> HIDE DEF b
      <4>1. /\ (p - k) - L \in 1 .. m /\ ~((p - k) - L <= z) /\ L + ((p - k) - L) = p - k
            /\ ((p - k) - L) - z = (p - L - z) - k
        BY <1>0, <4>0
      <4>2. g[p - k] = ByteAt(z, (p - k) - L)
        BY <1>1, <4>1
      <4>3. ByteAt(z, (p - k) - L) = [rec |-> cur.rec, frag |-> cur.frag, type |-> FragType,
                                   len |-> FragLen, i |-> (p - L - z) - k]
        BY <1>0, <4>1 DEF ByteAt
      <4>4. b = [rec |-> cur.rec, frag |-> cur.frag, type |-> FragType,
                 len |-> FragLen, i |-> p - L - z]
        BY <1>0, <3>1 DEF ByteAt
      <4>5. [b EXCEPT !.i = @ - k]
              = [rec |-> cur.rec, frag |-> cur.frag, type |-> FragType,
                 len |-> FragLen, i |-> (p - L - z) - k]
        <5>1. b.i - k = (p - L - z) - k
          BY <3>1
        <5>2. [b EXCEPT !.i = (p - L - z) - k]
                = [rec |-> cur.rec, frag |-> cur.frag, type |-> FragType,
                   len |-> FragLen, i |-> (p - L - z) - k]
          BY <4>4, OtherByte, SMTT(30)
        <5> QED BY <5>1, <5>2
      <4> QED BY <4>2, <4>3, <4>5
    <3>5. b.i = 1 /\ b.frag > 1 => Follows(g, p)
      <4> SUFFICES ASSUME b.i = 1, b.frag > 1 PROVE Follows(g, p)
        OBVIOUS
      <4>1. file # <<>> /\ LastOf(file[L], cur.rec, cur.frag - 1)
        BY <3>1 DEF IInv, WriterInv
      <4>2. L \in 1 .. L /\ L > 0
        BY <1>0, <4>1
      <4>3. p - z = L + 1 /\ p - z - 1 = L /\ p - z > 1 /\ z \in 0 .. kHeaderSize - 1
        <5>1. p - L - z = 1
          BY <3>1
        <5> QED BY <1>0, <1>1, <4>2, <5>1
      <4>4. ASSUME NEW q \in p - z .. p - 1 PROVE g[q] = Zero
        <5>1. q - L \in 1 .. m /\ q - L <= z /\ L + (q - L) = q
          BY <1>0, <1>1, <3>1, <4>3, SMTT(30)
        <5>2. ByteAt(z, q - L) = Zero
          BY <1>0, <5>1 DEF ByteAt
        <5> QED BY <1>1, <5>1, <5>2
      <4>5. g[p - z - 1] = file[L]
        BY <1>1, <4>2, <4>3
      <4>6. LastOf(g[p - z - 1], g[p].rec, g[p].frag - 1)
        BY <1>0, <3>1, <4>1, <4>5
      <4> QED BY <4>3, <4>4, <4>6 DEF Follows
    <3> QED BY <3>2, <3>3, <3>4, <3>5, <3>6 DEF Placed
  <2> QED BY <1>0, <1>1, <2>1, <2>2
<1>6. Ascending(g)
  <2> SUFFICES ASSUME NEW p \in 1 .. Len(g), NEW q \in 1 .. Len(g), p < q,
                      g[p] # Zero, g[q] # Zero
               PROVE  Before(g[p], g[q])
    BY DEF Ascending
  <2>1. CASE q <= L
    <3>1. p \in 1 .. L /\ q \in 1 .. L
      BY <1>0, <1>1, <2>1
    <3> QED BY <1>0, <1>1, <3>1 DEF Ascending
  <2>2. CASE p <= L /\ q > L
    <3>1. p \in 1 .. L /\ g[p] = file[p]
      BY <1>1, <1>3, <2>2
    <3>2. g[q].rec = records /\ g[q].frag = cur.frag
      BY <1>2, <2>2
    <3>3. file[p] \in Byte
      BY <1>0, <3>1
    <3>4. file[p].rec \in Nat
      BY <3>1, <3>3, ByteFacts
    <3> QED BY <1>0, <1>4, <3>1, <3>2, <3>4 DEF Before
  <2>3. CASE p > L
    <3>1. q > L
      BY <1>0, <1>1, <2>3
    <3>2. /\ g[p].rec = records /\ g[p].frag = cur.frag /\ g[p].i = p - L - z
          /\ g[q].rec = records /\ g[q].frag = cur.frag /\ g[q].i = q - L - z
      BY <1>2, <2>3, <3>1
    <3>3. p - L - z < q - L - z
      BY <1>0, <1>1, SMTT(30)
    <3> QED BY <3>2, <3>3 DEF Before
  <2> QED BY <1>0, <1>1, <2>1, <2>2, <2>3
<1>7. ASSUME NEW p \in 1 .. Len(g), g[p] # Zero
      PROVE  /\ g[p].rec <= records
             /\ g[p].rec = records =>
                   \/ g[p].frag < cur.frag /\ g[p].type \in {"first", "middle"}
                   \/ g[p].frag = cur.frag /\ g[p].type = FragType
  <2>1. CASE p <= L
    BY <1>1, <1>3, <1>4, <1>7, <2>1
  <2>2. CASE p > L
    <3>1. g[p].rec = records /\ g[p].frag = cur.frag /\ g[p].type = FragType
      BY <1>2, <1>7, <2>2
    <3> QED BY <1>0, <3>1
  <2> QED BY <1>0, <1>1, <2>1, <2>2
<1>8. ASSUME m = Room(z)
      PROVE  /\ g # <<>> /\ g[Len(g)] # Zero /\ g[Len(g)].rec = cur.rec
             /\ g[Len(g)].frag = cur.frag /\ g[Len(g)].type = FragType
             /\ g[Len(g)].i = kHeaderSize + g[Len(g)].len
  <2>1. m \in 1 .. m /\ m > z /\ m \in 1 .. Room(z) /\ Len(g) # 0
    BY <1>0, <1>1, <1>8
  <2>2. g[Len(g)] = ByteAt(z, m)
    BY <1>1, <2>1
  <2>3. m - z = kHeaderSize + FragLen
    BY <1>0, <1>8
  <2> QED BY <2>1, <2>2, <2>3, ByteAtFacts
<1> QED BY <1>0, <1>1, <1>5, <1>6, <1>7, <1>8
-----------------------------------------------------------------------------
(* The parts of the invariant                                              *)

FileTypes ==
    /\ file \in Seq(Byte) /\ synced \in 0 .. Len(file)
    /\ blockOffset \in 0 .. kBlockSize
    /\ cur \in [rec : 0 .. MaxRecords, left : Nat, frag : Nat]
    /\ records \in 0 .. MaxRecords
    /\ \A r \in DOMAIN whole : r \in 1 .. records /\ whole[r] \in 0 .. Len(file)
ReaderTypes ==
    /\ reader \in [lo : Nat, hi : Nat, eof : BOOLEAN, scratch : Seq(Fragments)]
    /\ reader.lo <= reader.hi /\ reader.hi <= Len(file)
    /\ out \in Seq(Seq(Fragments))
FlagTypes ==
    /\ mode \in {"write", "read", "done"}
    /\ reported \in BOOLEAN /\ tainted \in BOOLEAN /\ reuse \in Reuse
    /\ crashes \in 0 .. MaxCrashes /\ errors \in 0 .. MaxErrors

FileInv == FileTypes /\ Chained(file) /\ Ascending(file) /\ WriterInv
ReaderInv == ReaderTypes /\ KeptInv /\ OutInv /\ OnlyWholeRecords

(* The invariant in three parts: what the writer, the reader and neither of them changes. *)
LEMMA Parts == IInv <=> FileInv /\ ReaderInv /\ FlagTypes
BY DEF IInv, TypeOK, FileInv, ReaderInv, FileTypes, ReaderTypes, FlagTypes

(* The same of the next state. *)
LEMMA PartsNext ==
    ASSUME FileInv', ReaderInv', FlagTypes'
    PROVE  IInv'
BY DEF IInv, TypeOK, FileInv, ReaderInv, FileTypes, ReaderTypes, FlagTypes

(* The writer appends: the reader is not concerned. *)
LEMMA ReaderKept ==
    ASSUME IInv, UNCHANGED <<reader, out>>, file' \in Seq(Byte), Len(file) <= Len(file'),
           \A p \in 1 .. Len(file) : file'[p] = file[p]
    PROVE  ReaderInv'
<1>0. /\ ReaderTypes /\ file \in Seq(Byte) /\ Len(file) \in Nat /\ Len(file') \in Nat
      /\ reader.lo \in Nat /\ reader.hi \in Nat
  BY Parts DEF ReaderInv, FileInv, FileTypes, ReaderTypes
<1>1. \A p \in 1 .. reader.lo : file'[p] = file[p]
  BY <1>0 DEF ReaderTypes
<1>2. ReaderTypes'
  BY <1>0 DEF ReaderTypes
<1>3. KeptInv'
  <2> SUFFICES ASSUME reader.scratch # <<>> PROVE KeptInv'
    BY DEF KeptInv
  <2> DEFINE s == reader.scratch
  <2>1. /\ \A j \in 1 .. Len(s) : s[j].rec = s[1].rec /\ s[j].frag = j
        /\ s[1].type = "first"
    BY DEF IInv, KeptInv
  <2>2. PICK e \in 1 .. reader.lo :
           /\ LastOf(file[e], s[1].rec, Len(s))
           /\ \/ e = reader.lo
              \/ reader.lo - e < kHeaderSize /\ (reader.eof \/ Size >= kHeaderSize)
    BY DEF IInv, KeptInv
  <2>3. LastOf(file'[e], s[1].rec, Len(s)) /\ Size' = Size
    BY <1>1, <2>2 DEF Size
  <2> QED BY <2>1, <2>2, <2>3 DEF KeptInv
<1>4. OutInv'
  BY <1>1 DEF IInv, OutInv
<1>5. OnlyWholeRecords'
  BY DEF IInv, OnlyWholeRecords
<1> QED BY <1>2, <1>3, <1>4, <1>5 DEF ReaderInv

(* A new reader. *)
LEMMA ReaderNew ==
    ASSUME reader' = NewReader, out' = <<>>, file' \in Seq(Byte)
    PROVE  ReaderInv'
<1>1. /\ NewReader \in [lo : Nat, hi : Nat, eof : BOOLEAN, scratch : Seq(Fragments)]
      /\ NewReader.lo = 0 /\ NewReader.hi = 0 /\ NewReader.scratch = <<>>
  BY DEF NewReader
<1>2. ReaderTypes'
  BY <1>1 DEF ReaderTypes
<1>3. KeptInv'
  BY <1>1 DEF KeptInv
<1>4. OutInv' /\ OnlyWholeRecords'
  BY DEF OutInv, OnlyWholeRecords, ToSet
<1> QED BY <1>2, <1>3, <1>4 DEF ReaderInv

-----------------------------------------------------------------------------
(* The writer                                                              *)

(* No call of AddRecord under way. *)
LEMMA IdleFacts == Idle.rec = 0 /\ Idle \in [rec : 0 .. MaxRecords, left : Nat, frag : Nat]
BY Sizes DEF Idle

(* A new record has a later number than every byte of the file. *)
LEMMA AddRecordStep ==
    ASSUME IInv, NEW n \in Lengths, AddRecord(n)
    PROVE  IInv'
<1> USE Sizes
<1>1. /\ cur = Idle /\ records < MaxRecords /\ records' = records + 1
      /\ cur' = [rec |-> records + 1, left |-> n, frag |-> 1]
      /\ UNCHANGED <<file, synced, blockOffset, whole, tainted, mode, reader, out, reported,
                     crashes, errors, reuse>>
  BY DEF AddRecord, readerVars, bounds
<1>2. FileInv /\ FlagTypes
  BY Parts
<1>3. n \in Nat /\ records \in Nat /\ records + 1 \in 0 .. MaxRecords
  BY <1>1, <1>2, LogFormatAssumption DEF FileInv, FileTypes
<1>4. /\ cur' \in [rec : 0 .. MaxRecords, left : Nat, frag : Nat]
      /\ cur'.rec = records + 1 /\ cur'.frag = 1
  BY <1>1, <1>3
<1>5. FileTypes'
  <2>1. \A r \in DOMAIN whole : r \in 1 .. records + 1 /\ whole[r] \in 0 .. Len(file)
    BY <1>2, <1>3 DEF FileInv, FileTypes
  <2> QED BY <1>1, <1>2, <1>3, <1>4, <2>1 DEF FileInv, FileTypes
<1>6. WriterInv'
  <2>1. ASSUME NEW p \in 1 .. Len(file), file[p] # Zero
        PROVE  file[p].rec \in Nat /\ file[p].rec <= records
    <3>1. file[p] \in Byte
      BY <1>2 DEF FileInv, FileTypes
    <3>2. file[p].rec \in Nat
      BY <2>1, <3>1, ByteFacts
    <3>3. file[p].rec <= records
      BY <1>2, <2>1 DEF FileInv, WriterInv, Earlier
    <3> QED BY <3>2, <3>3
  <2>2. \A p \in 1 .. Len(file) : file[p] # Zero =>
           file[p].rec <= records + 1 /\ file[p].rec # records + 1
    BY <1>3, <2>1
  <2>3. \A p \in 1 .. Len(file) : file[p] # Zero => Earlier(file[p])'
    BY <1>1, <2>2 DEF Earlier
  <2> QED BY <1>1, <1>3, <1>4, <2>3 DEF WriterInv
<1>7. FileInv'
  BY <1>1, <1>2, <1>5, <1>6 DEF FileInv
<1>8. ReaderInv'
  BY <1>1, <1>2, ReaderKept DEF FileInv, FileTypes
<1>9. FlagTypes'
  BY <1>1, <1>2 DEF FlagTypes
<1> QED BY <1>7, <1>8, <1>9, PartsNext

(* A whole fragment is the end of the record, or what the next one follows. *)
LEMMA EmitStep ==
    ASSUME IInv, NEW z \in 0 .. Len(Trailer), Emit(z), tainted' \in BOOLEAN,
           errors' \in 0 .. MaxErrors
    PROVE  IInv'
<1> USE Sizes
<1> DEFINE left == cur.left - FragLen
<1>1. /\ cur # Idle /\ file' = file \o Chunk(z)
      /\ blockOffset' = Start + kHeaderSize + FragLen
      /\ \/ /\ left = 0 /\ cur' = Idle
            /\ whole' = [r \in DOMAIN whole \cup {cur.rec} |->
                           IF r = cur.rec THEN Len(file') ELSE whole[r]]
         \/ /\ left # 0 /\ cur' = [cur EXCEPT !.left = left, !.frag = @ + 1]
            /\ whole' = whole
      /\ UNCHANGED <<synced, records, mode, reader, out, reported, crashes, reuse>>
  BY DEF Emit, readerVars
<1>2. /\ cur.rec = records /\ records \in 1 .. MaxRecords /\ cur.frag \in Nat \ {0}
      /\ cur.left \in Nat /\ FragLen \in 0 .. kBlockSize /\ FragLen <= cur.left
      /\ blockOffset' \in 0 .. kBlockSize
      /\ left # 0 => FragType \in {"first", "middle"}
  BY <1>1, FragFacts
<1> DEFINE g == file \o Chunk(z)
<1>3. /\ g \in Seq(Byte) /\ Len(g) = Len(file) + Room(z) /\ Len(file) \in Nat /\ Room(z) \in Nat
      /\ \A p \in 1 .. Len(file) : g[p] = file[p]
      /\ Chained(g) /\ Ascending(g)
      /\ \A p \in 1 .. Len(g) : g[p] # Zero =>
            /\ g[p].rec <= records
            /\ g[p].rec = records =>
                  \/ g[p].frag < cur.frag /\ g[p].type \in {"first", "middle"}
                  \/ g[p].frag = cur.frag /\ g[p].type = FragType
      /\ g # <<>> /\ g[Len(g)] # Zero /\ g[Len(g)].rec = cur.rec
      /\ g[Len(g)].frag = cur.frag /\ g[Len(g)].type = FragType
      /\ g[Len(g)].i = kHeaderSize + g[Len(g)].len
  <2>1. Extends(z, g, Room(z)) /\ Room(z) \in Nat
    BY <1>1, Appends
  <2>2. Room(z) \in 0 .. Room(z)
    BY <2>1
  <2> HIDE DEF g
  <2> QED BY <1>1, <2>1, <2>2, FileExtended
<1>4. /\ file' \in Seq(Byte) /\ Len(file') = Len(file) + Room(z)
      /\ Len(file) \in Nat /\ Room(z) \in Nat
      /\ \A p \in 1 .. Len(file) : file'[p] = file[p]
      /\ Chained(file') /\ Ascending(file')
      /\ \A p \in 1 .. Len(file') : file'[p] # Zero =>
            /\ file'[p].rec <= records
            /\ file'[p].rec = records =>
                  \/ file'[p].frag < cur.frag /\ file'[p].type \in {"first", "middle"}
                  \/ file'[p].frag = cur.frag /\ file'[p].type = FragType
      /\ file' # <<>> /\ file'[Len(file')] # Zero /\ file'[Len(file')].rec = cur.rec
      /\ file'[Len(file')].frag = cur.frag /\ file'[Len(file')].type = FragType
      /\ file'[Len(file')].i = kHeaderSize + file'[Len(file')].len
  BY <1>1, <1>3
<1>5. /\ FileInv /\ FlagTypes
  BY Parts
<1>6. /\ cur' = Idle \/ (cur'.rec = records /\ cur'.frag = cur.frag + 1 /\ left # 0)
      /\ cur' \in [rec : 0 .. MaxRecords, left : Nat, frag : Nat]
  <2>1. left \in Nat
    BY <1>2
  <2>2. cur \in [rec : 0 .. MaxRecords, left : Nat, frag : Nat]
    BY <1>5 DEF FileInv, FileTypes
  <2>3. CASE cur' = Idle
    BY <2>3, IdleFacts
  <2>4. CASE left # 0 /\ cur' = [cur EXCEPT !.left = left, !.frag = @ + 1]
    <3> HIDE DEF left
    <3>1. cur'.rec = cur.rec /\ cur'.frag = cur.frag + 1
      BY <2>2, <2>4
    <3>2. cur' \in [rec : 0 .. MaxRecords, left : Nat, frag : Nat]
      <4>1. cur.rec \in 0 .. MaxRecords /\ cur.frag + 1 \in Nat
        BY <1>2, <2>2
      <4>2. cur' = [rec |-> cur.rec, left |-> left, frag |-> cur.frag + 1]
        BY <2>2, <2>4
      <4> QED BY <2>1, <4>1, <4>2
    <3> QED BY <1>2, <2>4, <3>1, <3>2
  <2> QED BY <1>1, <2>3, <2>4
<1> HIDE DEF g, left
<1>7. FileTypes'
  <2>1. synced' \in 0 .. Len(file')
    BY <1>1, <1>4, <1>5, SMTT(30) DEF FileInv, FileTypes
  <2>2. \A r \in DOMAIN whole : r \in 1 .. records /\ whole[r] \in 0 .. Len(file')
    BY <1>4, <1>5 DEF FileInv, FileTypes
  <2>3. records \in 1 .. records /\ Len(file') \in 0 .. Len(file')
    BY <1>2, <1>4
  <2>4. \A r \in DOMAIN whole' : r \in 1 .. records /\ whole'[r] \in 0 .. Len(file')
    <3>1. CASE whole' = whole
      BY <2>2, <3>1
    <3>2. CASE whole' = [r \in DOMAIN whole \cup {cur.rec} |->
                           IF r = cur.rec THEN Len(file') ELSE whole[r]]
      BY <1>2, <2>2, <2>3, <3>2
    <3> QED BY <1>1, <3>1, <3>2
  <2> QED BY <1>1, <1>2, <1>4, <1>5, <1>6, <2>1, <2>4 DEF FileInv, FileTypes
<1>8. WriterInv'
  <2>1. ASSUME NEW p \in 1 .. Len(file'), file'[p] # Zero PROVE Earlier(file[p])'
    <3>1. file'[p].frag \in Nat
      BY <1>4, <2>1, ByteFacts
    <3>2. CASE cur' = Idle
      BY <1>1, <1>4, <2>1, <3>2 DEF Earlier
    <3>3. CASE cur'.frag = cur.frag + 1 /\ left # 0
      <4>1. file'[p].rec = records => file'[p].frag < cur.frag + 1
                                      /\ file'[p].type \in {"first", "middle"}
        BY <1>2, <1>4, <2>1, <3>1, <3>3, SMTT(30)
      <4> QED BY <1>1, <1>4, <2>1, <3>3, <4>1 DEF Earlier
    <3> QED BY <1>6, <3>2, <3>3
  <2>2. cur' # Idle => cur'.rec = records' /\ records' > 0 /\ cur'.frag > 0
    <3>1. records' = records
      BY <1>1
    <3>2. records > 0 /\ cur.frag + 1 > 0
      BY <1>2
    <3> QED BY <1>6, <3>1, <3>2
  <2>3. cur' # Idle => file' # <<>> /\ LastOf(file'[Len(file')], cur'.rec, cur'.frag - 1)
    <3>1. cur.frag + 1 - 1 = cur.frag
      BY <1>2
    <3> QED BY <1>2, <1>4, <1>6, <3>1 DEF LastOf
  <2> QED BY <2>1, <2>2, <2>3 DEF WriterInv
<1>9. ReaderInv'
  <2>1. UNCHANGED <<reader, out>> /\ Len(file) <= Len(file')
    BY <1>1, <1>4
  <2> QED BY <1>4, <2>1, ReaderKept
<1>10. FlagTypes'
  BY <1>1, <1>5 DEF FlagTypes
<1> QED BY <1>4, <1>7, <1>8, <1>9, <1>10, PartsNext DEF FileInv

LEMMA EmitPhysicalRecordStep ==
    ASSUME IInv, EmitPhysicalRecord
    PROVE  IInv'
<1>1. /\ Emit(Len(Trailer)) /\ tainted' = (tainted \/ (cur.frag = 1 /\ Broken))
      /\ errors' = errors
  BY DEF EmitPhysicalRecord
<1>2. errors \in 0 .. MaxErrors /\ Len(Trailer) \in 0 .. Len(Trailer)
  BY TrailerFacts, Sizes DEF IInv, TypeOK
<1> QED BY <1>1, <1>2, EmitStep

(* A trailer that is cut short. *)
LEMMA TrailerFailsStep ==
    ASSUME IInv, TrailerFails
    PROVE  IInv'
<1>1. errors < MaxErrors /\ errors' = errors + 1 /\ tainted' = TRUE
  BY DEF TrailerFails
<1>2. PICK z \in 0 .. Len(Trailer) - 1 : Emit(z)
  BY DEF TrailerFails
<1>3. errors' \in 0 .. MaxErrors
  <2>1. errors \in 0 .. MaxErrors
    BY DEF IInv, TypeOK
  <2> QED BY <1>1, <2>1, Sizes
<1>4. z \in 0 .. Len(Trailer)
  BY TrailerFacts, Sizes
<1> QED BY <1>1, <1>2, <1>3, <1>4, EmitStep

(* A part of the fragment reaches the file and the record is given up. *)
LEMMA Torn ==
    ASSUME IInv, cur # Idle, NEW z \in 0 .. Len(Trailer), NEW n \in 0 .. Room(z),
           file' = file \o SubSeq(Chunk(z), 1, n),
           cur' = Idle, UNCHANGED <<synced, records, whole>>, blockOffset' \in 0 .. kBlockSize
    PROVE  /\ FileInv' /\ file' \in Seq(Byte) /\ Len(file) <= Len(file')
           /\ \A p \in 1 .. Len(file) : file'[p] = file[p]
<1> USE Sizes
<1> DEFINE g == file \o SubSeq(Chunk(z), 1, n)
<1>1. Extends(z, g, n)
  BY Appends
<1>2. /\ g \in Seq(Byte) /\ Len(g) = Len(file) + n /\ Len(file) \in Nat /\ n \in Nat
      /\ \A p \in 1 .. Len(file) : g[p] = file[p]
      /\ Chained(g) /\ Ascending(g)
      /\ \A p \in 1 .. Len(g) : g[p] # Zero => g[p].rec <= records
  <2> HIDE DEF g
  <2> QED BY <1>1, FileExtended
<1>3. file' = g
  OBVIOUS
<1> HIDE DEF g
<1>4. Len(file) <= Len(g) /\ \A k \in 0 .. Len(file) : k \in 0 .. Len(g)
  BY <1>2
<1>5. FileInv
  BY Parts
<1>6. FileTypes'
  BY <1>2, <1>3, <1>4, <1>5, IdleFacts DEF FileInv, FileTypes
<1>7. WriterInv'
  BY <1>2, <1>3 DEF WriterInv, Earlier
<1>8. FileInv'
  BY <1>2, <1>3, <1>6, <1>7 DEF FileInv
<1> QED BY <1>2, <1>3, <1>4, <1>8

(* A failing write leaves a beginning of the fragment. *)
LEMMA EmitFailsStep ==
    ASSUME IInv, EmitFails
    PROVE  IInv'
<1> USE Sizes
<1>1. /\ cur # Idle /\ errors < MaxErrors /\ errors' = errors + 1
      /\ blockOffset' = Start + kHeaderSize + FragLen
      /\ cur' = Idle /\ tainted' = TRUE
      /\ UNCHANGED <<synced, records, whole, mode, reader, out, reported, crashes, reuse>>
  BY DEF EmitFails, readerVars
<1>z. PICK z \in 0 .. Len(Trailer) : \E n \in 0 .. Len(Chunk(z)) :
         file' = file \o SubSeq(Chunk(z), 1, n)
  BY DEF EmitFails
<1>2. PICK n \in 0 .. Len(Chunk(z)) : file' = file \o SubSeq(Chunk(z), 1, n)
  BY <1>z
<1>3. n \in 0 .. Room(z) /\ blockOffset' \in 0 .. kBlockSize
  BY <1>1, Appends, FragFacts
<1>4. UNCHANGED <<synced, records, whole>> /\ UNCHANGED <<reader, out>>
  BY <1>1
<1>5. /\ FileInv' /\ file' \in Seq(Byte) /\ Len(file) <= Len(file')
      /\ \A p \in 1 .. Len(file) : file'[p] = file[p]
  BY <1>1, <1>2, <1>3, <1>4, Torn
<1>6. ReaderInv'
  BY <1>4, <1>5, ReaderKept
<1>7. FlagTypes'
  <2>1. FlagTypes
    BY Parts
  <2>2. errors' \in 0 .. MaxErrors
    BY <1>1, <2>1 DEF FlagTypes
  <2> QED BY <1>1, <2>1, <2>2 DEF FlagTypes
<1> QED BY <1>5, <1>6, <1>7, PartsNext

(* Sync changes no byte. *)
LEMMA SyncStep ==
    ASSUME IInv, Sync
    PROVE  IInv'
<1>1. /\ synced' = Len(file)
      /\ UNCHANGED <<file, blockOffset, cur, records, whole, tainted, mode, reader, out,
                     reported, crashes, errors, reuse>>
  BY DEF Sync, writerVars, readerVars, bounds
<1>2. FileInv /\ FlagTypes
  BY Parts
<1>3. Len(file) \in 0 .. Len(file) /\ file \in Seq(Byte)
  BY <1>2 DEF FileInv, FileTypes
<1>4. FileTypes'
  BY <1>1, <1>2, <1>3 DEF FileInv, FileTypes
<1>5. WriterInv'
  BY <1>1, <1>2 DEF FileInv, WriterInv, Earlier
<1>6. FileInv'
  BY <1>1, <1>2, <1>4, <1>5 DEF FileInv
<1>7. UNCHANGED <<reader, out>> /\ file' \in Seq(Byte) /\ Len(file) <= Len(file')
      /\ \A p \in 1 .. Len(file) : file'[p] = file[p]
  BY <1>1, <1>3
<1>8. ReaderInv'
  BY <1>7, ReaderKept
<1>9. FlagTypes'
  BY <1>1, <1>2 DEF FlagTypes
<1> QED BY <1>6, <1>8, <1>9, PartsNext

-----------------------------------------------------------------------------
(* Crash                                                                   *)

(* A dying process leaves a beginning of the fragment, perhaps nothing of it. *)
LEMMA ProcessCrashStep ==
    ASSUME IInv, ProcessCrash
    PROVE  IInv'
<1> USE Sizes
<1>1. /\ crashes < MaxCrashes /\ crashes' = crashes + 1
      /\ mode' = "read" /\ cur' = Idle /\ reader' = NewReader /\ out' = <<>> /\ reported' = FALSE
      /\ UNCHANGED <<synced, blockOffset, records, whole, errors, reuse>>
  BY DEF ProcessCrash, StartReading
<1>2. FileInv /\ FlagTypes
  BY Parts
<1>3. blockOffset' \in 0 .. kBlockSize /\ UNCHANGED <<synced, records, whole>>
  BY <1>1, <1>2 DEF FileInv, FileTypes
<1>4. FileInv' /\ file' \in Seq(Byte) /\ tainted' \in BOOLEAN
  <2>1. CASE UNCHANGED <<file, tainted>>
    <3>1. FileTypes'
      BY <1>1, <1>2, <2>1, IdleFacts DEF FileInv, FileTypes
    <3>2. WriterInv'
      BY <1>1, <1>2, <2>1 DEF FileInv, WriterInv, Earlier
    <3> QED BY <1>2, <2>1, <3>1, <3>2 DEF FileInv, FileTypes, FlagTypes
  <2>2. CASE /\ cur # Idle
             /\ \E n \in 1 .. Len(Chunk(Len(Trailer))) :
                    file' = file \o SubSeq(Chunk(Len(Trailer)), 1, n)
             /\ tainted' = (tainted \/ (cur.frag = 1 /\ Broken))
    <3>0. PICK z \in 0 .. Len(Trailer) : z = Len(Trailer)
      BY TrailerFacts
    <3>1. PICK n \in 1 .. Len(Chunk(z)) : file' = file \o SubSeq(Chunk(z), 1, n)
      BY <2>2, <3>0
    <3>2. Len(Chunk(z)) = Room(z) /\ Room(z) \in Nat
      BY <2>2, Appends
    <3>3. n \in 0 .. Room(z)
      BY <3>2
    <3>4. FileInv' /\ file' \in Seq(Byte)
      BY <1>1, <1>3, <2>2, <3>1, <3>3, Torn
    <3>5. tainted' \in BOOLEAN
      BY <2>2
    <3> QED BY <3>4, <3>5
  <2> QED BY <2>1, <2>2 DEF ProcessCrash
<1>5. ReaderInv'
  BY <1>1, <1>4, ReaderNew
<1>6. FlagTypes'
  <2>1. crashes' \in 0 .. MaxCrashes
    BY <1>1, <1>2 DEF FlagTypes
  <2> QED BY <1>1, <1>2, <1>4, <2>1 DEF FlagTypes
<1> QED BY <1>4, <1>5, <1>6, PartsNext

(* A dying machine leaves a beginning of the file. *)
LEMMA MachineCrashStep ==
    ASSUME IInv, MachineCrash
    PROVE  IInv'
<1> USE Sizes
<1>1. /\ crashes < MaxCrashes /\ crashes' = crashes + 1
      /\ mode' = "read" /\ cur' = Idle /\ reader' = NewReader /\ out' = <<>> /\ reported' = FALSE
      /\ UNCHANGED <<synced, blockOffset, records, tainted, errors, reuse>>
  BY DEF MachineCrash, StartReading
<1>2. PICK n \in synced .. Len(file) :
         /\ file' = SubSeq(file, 1, n)
         /\ whole' = [r \in {r \in DOMAIN whole : whole[r] <= n} |-> whole[r]]
  BY DEF MachineCrash
<1>3. FileInv /\ FlagTypes
  BY Parts
<1>4. /\ file \in Seq(Byte) /\ Len(file) \in Nat /\ synced \in Nat /\ n \in Nat /\ n <= Len(file)
      /\ synced \in 0 .. n
  BY <1>3 DEF FileInv, FileTypes
<1> DEFINE g == SubSeq(file, 1, n)
<1>5. g \in Seq(Byte) /\ Len(g) = n /\ \A p \in 1 .. n : g[p] = file[p]
  BY <1>4
<1>6. file' = g
  BY <1>2
<1> HIDE DEF g
<1>7. Chained(g) /\ Ascending(g)
  BY <1>3, <1>4, <1>5, FilePrefix DEF FileInv
<1>8. FileTypes'
  <2>1. ASSUME NEW r \in DOMAIN whole' PROVE r \in 1 .. records /\ whole'[r] \in 0 .. n
    <3>1. r \in DOMAIN whole /\ whole[r] <= n /\ whole'[r] = whole[r]
      BY <1>2
    <3>2. r \in 1 .. records /\ whole[r] \in 0 .. Len(file)
      BY <1>3, <3>1 DEF FileInv, FileTypes
    <3>3. whole[r] \in 0 .. n
      BY <1>4, <3>1, <3>2
    <3> QED BY <3>1, <3>2, <3>3
  <2> QED BY <1>1, <1>3, <1>4, <1>5, <1>6, <2>1, IdleFacts DEF FileInv, FileTypes
<1>9. WriterInv'
  <2>1. \A p \in 1 .. n : p \in 1 .. Len(file)
    BY <1>4
  <2> QED BY <1>1, <1>3, <1>5, <1>6, <2>1 DEF FileInv, WriterInv, Earlier
<1>10. FileInv'
  BY <1>6, <1>7, <1>8, <1>9 DEF FileInv
<1>11. ReaderInv'
  BY <1>1, <1>5, <1>6, ReaderNew
<1>12. FlagTypes'
  <2>1. crashes' \in 0 .. MaxCrashes
    BY <1>1, <1>3 DEF FlagTypes
  <2> QED BY <1>1, <1>3, <2>1 DEF FlagTypes
<1> QED BY <1>10, <1>11, <1>12, PartsNext

-----------------------------------------------------------------------------
(* The reader                                                              *)

(* A step of the reader leaves the writer's part alone. *)
LEMMA FileKept ==
    ASSUME IInv, UNCHANGED <<file, synced, cur, records, whole>>,
           blockOffset' \in 0 .. kBlockSize
    PROVE  FileInv'
<1>1. FileInv
  BY Parts
<1>2. FileTypes'
  BY <1>1 DEF FileInv, FileTypes
<1>3. WriterInv'
  BY <1>1 DEF FileInv, WriterInv, Earlier
<1> QED BY <1>1, <1>2, <1>3 DEF FileInv

(* Where a new writer goes on. *)
LEMMA ReopenTypes ==
    ASSUME IInv, Reopen
    PROVE  blockOffset' \in 0 .. kBlockSize /\ mode' \in {"write", "read", "done"}
<1> USE Sizes
<1>1. Len(file) \in Nat
  BY DEF IInv, TypeOK
<1>2. Len(file) % kBlockSize \in 0 .. kBlockSize
  BY <1>1
<1> QED BY <1>2 DEF Reopen

(* What was returned is not disturbed when the reader goes on. *)
LEMMA OutKept ==
    ASSUME IInv, UNCHANGED <<file, out>>, reader'.lo \in Nat, reader.lo <= reader'.lo
    PROVE  OutInv' /\ OnlyWholeRecords'
<1>1. reader.lo \in Nat
  BY DEF IInv, TypeOK
<1>2. \A p \in 1 .. reader.lo : p \in 1 .. reader'.lo
  BY <1>1
<1>3. OutInv'
  BY <1>2 DEF IInv, OutInv
<1>4. OnlyWholeRecords'
  BY DEF IInv, OnlyWholeRecords
<1> QED BY <1>3, <1>4

(* A record returned behind the others. *)
LEMMA OutGrows ==
    ASSUME IInv, UNCHANGED file, reader'.lo \in Nat, reader.lo <= reader'.lo,
           NEW o \in Seq(Fragments), o # <<>>, out' = Append(out, o),
           \A j \in 1 .. Len(o) : o[j].rec = o[1].rec /\ o[j].frag = j,
           o[1].type \in {"full", "first"}, o[Len(o)].type \in {"full", "last"},
           NEW p \in 1 .. reader'.lo, file[p].rec = o[1].rec, file[p].type \in {"full", "last"},
           \A j \in 1 .. Len(out) : out[j][1].rec < o[1].rec
    PROVE  out' \in Seq(Seq(Fragments)) /\ OutInv' /\ OnlyWholeRecords'
<1> DEFINE u == Append(out, o)
           n == Len(out)
<1>1. /\ reader.lo \in Nat /\ out \in Seq(Seq(Fragments)) /\ n \in Nat /\ DOMAIN out = 1 .. n
  BY DEF IInv, TypeOK
<1>2. \A q \in 1 .. reader.lo : q \in 1 .. reader'.lo
  BY <1>1
<1>3. /\ u \in Seq(Seq(Fragments)) /\ Len(u) = n + 1 /\ DOMAIN u = 1 .. n + 1
      /\ u[n + 1] = o /\ \A j \in 1 .. n : u[j] = out[j]
  BY <1>1
<1> HIDE DEF u
<1>4. \A j \in 1 .. n + 1 : j \in 1 .. n \/ j = n + 1
  BY <1>1
<1>5. out' = u
  BY DEF u
<1>6. OutInv'
  <2>1. ASSUME NEW j \in 1 .. n + 1
        PROVE  /\ u[j] # <<>>
               /\ \E q \in 1 .. reader'.lo :
                     file[q].rec = u[j][1].rec /\ file[q].type \in {"full", "last"}
    <3>1. CASE j \in 1 .. n
      <4>1. /\ out[j] # <<>>
            /\ \E q \in 1 .. reader.lo :
                  file[q].rec = out[j][1].rec /\ file[q].type \in {"full", "last"}
        BY <3>1 DEF IInv, OutInv
      <4> QED BY <1>2, <1>3, <3>1, <4>1
    <3>2. CASE j = n + 1
      BY <1>3, <3>2
    <3> QED BY <1>4, <3>1, <3>2
  <2> QED BY <1>3, <1>5, <2>1 DEF OutInv
<1>7. OnlyWholeRecords'
  <2>1. ASSUME NEW j \in 1 .. n + 1
        PROVE  /\ \A k \in 1 .. Len(u[j]) : u[j][k].rec = u[j][1].rec /\ u[j][k].frag = k
               /\ u[j][1].type \in {"full", "first"}
               /\ u[j][Len(u[j])].type \in {"full", "last"}
    <3>1. CASE j \in 1 .. n
      <4>1. out[j] \in ToSet(out) /\ u[j] = out[j]
        BY <1>1, <1>3, <3>1 DEF ToSet
      <4> QED BY <4>1 DEF IInv, OnlyWholeRecords
    <3>2. CASE j = n + 1
      BY <1>3, <3>2
    <3> QED BY <1>4, <3>1, <3>2
  <2>2. ASSUME NEW j \in 1 .. n + 1, NEW k \in 1 .. n + 1, j < k
        PROVE  u[j][1].rec < u[k][1].rec
    <3>1. j \in 1 .. n
      BY <1>1, <2>2
    <3>2. CASE k \in 1 .. n
      BY <1>1, <1>3, <2>2, <3>1, <3>2 DEF IInv, OnlyWholeRecords
    <3>3. CASE k = n + 1
      BY <1>3, <3>1, <3>3
    <3> QED BY <1>4, <3>2, <3>3
  <2>3. \A x \in ToSet(u) : \E j \in 1 .. n + 1 : x = u[j]
    BY <1>3 DEF ToSet
  <2>4. \A x \in ToSet(u) :
           /\ \A k \in 1 .. Len(x) : x[k].rec = x[1].rec /\ x[k].frag = k
           /\ x[1].type \in {"full", "first"} /\ x[Len(x)].type \in {"full", "last"}
    <3> TAKE x \in ToSet(u)
    <3>1. PICK j \in 1 .. n + 1 : x = u[j]
      BY <2>3
    <3> QED BY <2>1, <3>1
  <2>5. \A j, k \in DOMAIN u : j < k => u[j][1].rec < u[k][1].rec
    BY <1>3, <2>2
  <2> QED BY <1>5, <2>4, <2>5 DEF OnlyWholeRecords
<1> QED BY <1>3, <1>5, <1>6, <1>7

(* The rest of the buffer is given up, and the record under way with it. *)
LEMMA Dropped ==
    ASSUME IInv, UNCHANGED <<file, out>>,
           reader' = [reader EXCEPT !.lo = reader.hi, !.scratch = <<>>]
    PROVE  ReaderInv'
<1>1. ReaderTypes /\ reader.lo \in Nat /\ reader.hi \in Nat
  BY Parts DEF ReaderInv, ReaderTypes
<1>2. /\ reader'.lo = reader.hi /\ reader'.hi = reader.hi /\ reader'.scratch = <<>>
      /\ reader' = [lo |-> reader.hi, hi |-> reader.hi, eof |-> reader.eof, scratch |-> <<>>]
  BY <1>1 DEF ReaderTypes
<1>3. reader' \in [lo : Nat, hi : Nat, eof : BOOLEAN, scratch : Seq(Fragments)]
  <2>1. reader.eof \in BOOLEAN
    BY <1>1 DEF ReaderTypes
  <2>2. <<>> \in Seq(Fragments)
    OBVIOUS
  <2> QED BY <1>1, <1>2, <2>1, <2>2
<1>4. ReaderTypes'
  BY <1>1, <1>2, <1>3 DEF ReaderTypes
<1>5. KeptInv'
  BY <1>2 DEF KeptInv
<1>6. reader'.lo \in Nat /\ reader.lo <= reader'.lo
  BY <1>1, <1>2 DEF ReaderTypes
<1> QED BY <1>4, <1>5, <1>6, OutKept DEF ReaderInv

(* DropBuffer gives the record up. *)
LEMMA DropBufferStep ==
    ASSUME IInv, DropBuffer
    PROVE  IInv'
<1>1. /\ reader' = [reader EXCEPT !.lo = reader.hi, !.scratch = <<>>]
      /\ UNCHANGED <<file, synced, cur, records, whole, tainted, out, crashes, errors, reuse>>
  BY DEF DropBuffer, bounds
<1>2. UNCHANGED <<mode, blockOffset>> \/ Reopen
  BY DEF DropBuffer
<1>3. reported' \in BOOLEAN
  <2>1. reported' = TRUE \/ reported' = (reported \/ InFragmentedRecord) \/ reported' = reported
    BY DEF DropBuffer
  <2>2. reported \in BOOLEAN
    BY Parts DEF FlagTypes
  <2> QED BY <2>1, <2>2
<1>4. blockOffset' \in 0 .. kBlockSize /\ mode' \in {"write", "read", "done"}
  <2>1. CASE UNCHANGED <<mode, blockOffset>>
    BY <2>1 DEF IInv, TypeOK
  <2>2. CASE Reopen
    BY <2>2, ReopenTypes
  <2> QED BY <1>2, <2>1, <2>2
<1>5. UNCHANGED <<file, out>> /\ UNCHANGED <<file, synced, cur, records, whole>>
  BY <1>1
<1>6. FileInv' /\ ReaderInv'
  BY <1>1, <1>4, <1>5, FileKept, Dropped
<1>7. FlagTypes'
  BY <1>1, <1>3, <1>4, Parts DEF FlagTypes
<1> QED BY <1>6, <1>7, PartsNext

(* So does the end of the file. *)
LEMMA ReadEofStep ==
    ASSUME IInv, ReadEof
    PROVE  IInv'
<1>1. /\ reader' = [reader EXCEPT !.lo = reader.hi, !.scratch = <<>>] /\ Reopen
      /\ UNCHANGED <<file, synced, cur, records, whole, tainted, out, reported, crashes,
                     errors, reuse>>
  BY DEF ReadEof, bounds
<1>2. blockOffset' \in 0 .. kBlockSize /\ mode' \in {"write", "read", "done"}
  BY <1>1, ReopenTypes
<1>3. UNCHANGED <<file, out>> /\ UNCHANGED <<file, synced, cur, records, whole>>
  BY <1>1
<1>4. FileInv' /\ ReaderInv'
  BY <1>1, <1>2, <1>3, FileKept, Dropped
<1>5. FlagTypes'
  BY <1>1, <1>2, Parts DEF FlagTypes
<1> QED BY <1>4, <1>5, PartsNext

(* The next block: only what was left of this one, less than a header, is skipped. *)
LEMMA ReadBlockStep ==
    ASSUME IInv, ReadBlock
    PROVE  IInv'
<1> USE Sizes
<1> DEFINE h == Min({reader.hi + kBlockSize, Len(file)})
           e == h - reader.hi < kBlockSize
<1>1. /\ Size < kHeaderSize /\ ~reader.eof
      /\ reader' = [reader EXCEPT !.lo = reader.hi, !.hi = h, !.eof = e]
      /\ UNCHANGED <<file, synced, blockOffset, cur, records, whole, tainted, mode, out,
                     reported, crashes, errors, reuse>>
  BY DEF ReadBlock, writerVars, bounds
<1>2. /\ ReaderTypes /\ reader.lo \in Nat /\ reader.hi \in Nat /\ Len(file) \in Nat
      /\ reader.lo <= reader.hi /\ reader.hi <= Len(file) /\ reader.scratch \in Seq(Fragments)
  BY Parts DEF ReaderInv, ReaderTypes, FileInv, FileTypes
<1>3. h \in Nat /\ reader.hi <= h /\ h <= Len(file)
  <2>1. reader.hi + kBlockSize \in Int /\ Len(file) \in Int
    BY <1>2
  <2>2. h \in {reader.hi + kBlockSize, Len(file)} /\ h <= Len(file)
    BY <2>1, MinOfTwo
  <2> HIDE DEF h
  <2> QED BY <1>2, <2>2
<1>4. e \/ h - reader.hi >= kHeaderSize
  <2> HIDE DEF h
  <2> QED BY <1>2, <1>3
<1>5. e \in BOOLEAN
  OBVIOUS
<1> HIDE DEF h, e
<1>6. /\ reader' = [lo |-> reader.hi, hi |-> h, eof |-> e, scratch |-> reader.scratch]
  BY <1>1, <1>2 DEF ReaderTypes
<1>7. /\ reader'.lo = reader.hi /\ reader'.hi = h /\ reader'.eof = e
      /\ reader'.scratch = reader.scratch
  BY <1>6
<1>8. ReaderTypes'
  <2>1. reader' \in [lo : Nat, hi : Nat, eof : BOOLEAN, scratch : Seq(Fragments)]
    BY <1>2, <1>3, <1>5, <1>6
  <2> QED BY <1>1, <1>2, <1>3, <1>7, <2>1 DEF ReaderTypes
<1>9. KeptInv'
  <2> SUFFICES ASSUME reader.scratch # <<>> PROVE KeptInv'
    BY <1>7 DEF KeptInv
  <2> DEFINE s == reader.scratch
  <2>1. /\ \A j \in 1 .. Len(s) : s[j].rec = s[1].rec /\ s[j].frag = j
        /\ s[1].type = "first"
    BY DEF IInv, KeptInv
  <2>2. PICK c \in 1 .. reader.lo :
           /\ LastOf(file[c], s[1].rec, Len(s))
           /\ \/ c = reader.lo
              \/ reader.lo - c < kHeaderSize /\ (reader.eof \/ Size >= kHeaderSize)
    BY DEF IInv, KeptInv
  <2>3. c = reader.lo
    BY <1>1, <1>2, <2>2 DEF Size
  <2>4. c \in 1 .. reader.hi /\ reader.hi - c < kHeaderSize
    BY <1>1, <1>2, <2>3 DEF Size
  <2>5. Size' = h - reader.hi
    BY <1>7 DEF Size
  <2>6. reader'.eof \/ Size' >= kHeaderSize
    BY <1>4, <1>7, <2>5
  <2> QED BY <1>1, <1>7, <2>1, <2>2, <2>4, <2>6 DEF KeptInv
<1>10. reader'.lo \in Nat /\ reader.lo <= reader'.lo /\ UNCHANGED <<file, out>>
  BY <1>1, <1>2, <1>7
<1>11. ReaderInv'
  BY <1>8, <1>9, <1>10, OutKept DEF ReaderInv
<1>12. UNCHANGED <<file, synced, cur, records, whole>> /\ blockOffset' \in 0 .. kBlockSize
  BY <1>1 DEF IInv, TypeOK
<1>13. FlagTypes'
  BY <1>1, Parts DEF FlagTypes
<1> QED BY <1>11, <1>12, <1>13, FileKept, PartsNext

(* The reader accepts whole fragments only. *)
LEMMA Accepted ==
    ASSUME IInv, Size >= kHeaderSize, Intact, NEW b, b = Header[1]
    PROVE  /\ b = file[reader.lo + 1] /\ b # Zero /\ b.i = 1 /\ b \in Byte
           /\ reader.lo + 1 \in 1 .. Len(file) /\ Placed(file, reader.lo + 1)
           /\ reader.lo + kHeaderSize + b.len \in reader.lo + 1 .. reader.hi
           /\ file[reader.lo + kHeaderSize + b.len] = [b EXCEPT !.i = kHeaderSize + b.len]
           /\ [rec |-> b.rec, frag |-> b.frag, type |-> b.type, len |-> b.len] \in Fragments
<1> USE Sizes
<1>1. /\ reader.lo \in Nat /\ reader.hi \in Nat /\ reader.lo <= reader.hi
      /\ reader.hi <= Len(file) /\ file \in Seq(Byte) /\ Len(file) \in Nat
  BY DEF IInv, TypeOK
<1>2. reader.lo + kHeaderSize <= Len(file) /\ reader.lo + 1 \in 1 .. Len(file)
  BY <1>1 DEF Size
<1>3. Header[1] = file[reader.lo + 1]
  BY <1>1, <1>2 DEF Header
<1>4. b \in Byte
  BY <1>1, <1>2, <1>3
<1>5. b = [b EXCEPT !.i = 1]
  <2>1. 1 \in 1 .. kHeaderSize
    OBVIOUS
  <2> QED BY <2>1 DEF Intact, HeaderIntact
<1>6. b.i = 1 /\ b # Zero
  <2>1. [Zero EXCEPT !.i = 1].i = 1 /\ Zero.i = 0
    BY DEF Zero
  <2>2. b # Zero
    <3> SUFFICES ASSUME b = Zero PROVE FALSE
      OBVIOUS
    <3> DEFINE y == [Zero EXCEPT !.i = 1]
    <3>1. y = Zero /\ y.i = 1
      BY <1>5, <2>1
    <3> HIDE DEF y
    <3> QED BY <2>1, <3>1
  <2>3. b = [rec |-> b.rec, frag |-> b.frag, type |-> b.type, len |-> b.len, i |-> b.i]
    BY <1>4, <2>2, ByteFacts
  <2>4. [b EXCEPT !.i = 1].i = 1
    BY <2>3
  <2> QED BY <1>5, <2>2, <2>4
<1>7. /\ b.rec \in 1 .. MaxRecords /\ b.frag \in Nat \ {0} /\ b.type \in Types
      /\ b.len \in 0 .. kBlockSize
  BY <1>4, <1>6, ByteFacts
<1>8. Placed(file, reader.lo + 1)
  BY <1>2, <1>3, <1>6 DEF IInv, Chained
<1>9. kHeaderSize + b.len <= Size /\ Length = b.len
  BY DEF Intact, Length
<1>10. kHeaderSize + b.len \in 1 .. kHeaderSize + b.len
  BY <1>7
<1>11. file[reader.lo + (kHeaderSize + b.len)] = [b EXCEPT !.i = kHeaderSize + b.len]
  BY <1>9, <1>10 DEF Intact
<1>12. /\ reader.lo + (kHeaderSize + b.len) = reader.lo + kHeaderSize + b.len
       /\ reader.lo + kHeaderSize + b.len \in reader.lo + 1 .. reader.hi
  <2>1. b.len \in Nat /\ kHeaderSize + b.len <= reader.hi - reader.lo
    BY <1>7, <1>9 DEF Size
  <2>2. reader.lo \in Nat /\ reader.hi \in Nat
    BY <1>1
  <2> QED BY <2>1, <2>2
<1>13. [rec |-> b.rec, frag |-> b.frag, type |-> b.type, len |-> b.len] \in Fragments
  BY <1>7 DEF Fragments
<1> QED BY <1>2, <1>3, <1>4, <1>6, <1>8, <1>11, <1>12, <1>13

(* A fragment that is not the first of its record continues what the reader has kept. *)
LEMMA Continues ==
    ASSUME IInv, Size >= kHeaderSize, Intact, InFragmentedRecord, NEW b, b = Header[1],
           b.type \in {"middle", "last"}
    PROVE  reader.scratch[1].rec = b.rec /\ b.frag = Len(reader.scratch) + 1
<1> USE Sizes
<1> DEFINE s == reader.scratch
           lo == reader.lo
           p == lo + 1
<1>1. /\ b = file[p] /\ b # Zero /\ b.i = 1 /\ b \in Byte
      /\ p \in 1 .. Len(file) /\ Placed(file, p)
  BY Accepted
<1>2. lo \in Nat /\ p \in Nat /\ p - 1 = lo /\ file \in Seq(Byte) /\ Len(file) \in Nat
      /\ s \in Seq(Fragments) /\ Len(s) \in Nat
  BY DEF IInv, TypeOK
<1>3. b.frag \in Nat \ {0}
  BY <1>1, ByteFacts
<1>4. b.frag > 1
  BY <1>1, <1>3 DEF Placed
<1>5. Follows(file, p)
  BY <1>1, <1>4 DEF Placed
<1>6. PICK z \in 0 .. kHeaderSize - 1 :
         /\ p - z > 1 /\ \A q \in p - z .. p - 1 : file[q] = Zero
         /\ LastOf(file[p - z - 1], file[p].rec, file[p].frag - 1)
  BY <1>5 DEF Follows
<1>7. PICK e \in 1 .. lo :
         /\ LastOf(file[e], s[1].rec, Len(s))
         /\ e = lo \/ lo - e < kHeaderSize
  BY DEF IInv, KeptInv, InFragmentedRecord
<1> DEFINE q == p - z - 1
<1> HIDE DEF p, s, lo
<1>8. q \in Nat /\ q \in 1 .. lo /\ q \in 1 .. Len(file) /\ e \in 1 .. Len(file) /\ e \in Nat
  BY <1>1, <1>2, <1>6
<1>9. lo - e < kHeaderSize
  BY <1>2, <1>7
<1>10. ~(e > q)
  <2> SUFFICES ASSUME e > q PROVE FALSE
    OBVIOUS
  <2>1. e \in p - z .. p - 1
    BY <1>2, <1>8
  <2> QED BY <1>6, <1>7, <2>1 DEF LastOf
<1>11. ~(e < q)
  <2> SUFFICES ASSUME e < q PROVE FALSE
    OBVIOUS
  <2> DEFINE c == file[q]
             d == file[e]
  <2>1. c # Zero /\ c.i = kHeaderSize + c.len /\ c \in Byte
    BY <1>2, <1>6, <1>8 DEF LastOf
  <2>2. d # Zero /\ d.i = kHeaderSize + d.len
    BY <1>7 DEF LastOf
  <2>3. /\ c.len \in Nat /\ c.i \in Nat
        /\ c = [rec |-> c.rec, frag |-> c.frag, type |-> c.type, len |-> c.len, i |-> c.i]
    BY <2>1, ByteFacts
  <2>4. Placed(file, q)
    BY <1>8, <2>1 DEF IInv, Chained
  <2>5. \A k \in 1 .. c.i - 1 : file[q - k] = [c EXCEPT !.i = @ - k]
    BY <2>4 DEF Placed
  <2> HIDE DEF c
  <2>6. q - e \in 1 .. c.i - 1 /\ q - (q - e) = e
    <3>1. e \in Nat /\ q \in Nat /\ q <= lo /\ lo \in Nat
      BY <1>2, <1>8
    <3>2. c.len \in Nat /\ c.i = kHeaderSize + c.len
      BY <2>1, <2>3
    <3> HIDE DEF q
    <3>3. q - e \in Nat \ {0} /\ q - e < kHeaderSize /\ q - (q - e) = e
      BY <1>9, <3>1
    <3> QED BY <3>2, <3>3
  <2> HIDE DEF q
  <2>7. file[e] = [c EXCEPT !.i = @ - (q - e)]
    <3>1. file[q - (q - e)] = [c EXCEPT !.i = @ - (q - e)]
      BY <2>5, <2>6
    <3> QED BY <2>6, <3>1
  <2>8. d.len = c.len /\ d.i = c.i - (q - e)
    BY <2>3, <2>7
  <2>9. c.i - (q - e) # c.i
    BY <1>8, <2>3
  <2> QED BY <2>1, <2>2, <2>8, <2>9
<1>12. e = q
  BY <1>8, <1>10, <1>11
<1>13. file[e].rec = s[1].rec /\ file[e].frag = Len(s)
  BY <1>7 DEF LastOf
<1>14. file[q].rec = b.rec /\ file[q].frag = b.frag - 1
  BY <1>1, <1>6 DEF LastOf
<1>15. s[1].rec = b.rec /\ Len(s) = b.frag - 1
  BY <1>12, <1>13, <1>14
<1>16. b.frag = Len(s) + 1
  BY <1>2, <1>3, <1>15
<1> QED BY <1>15, <1>16 DEF s

(* The record it belongs to is later than all that were returned. *)
LEMMA Later ==
    ASSUME IInv, Size >= kHeaderSize, Intact, NEW b, b = Header[1], NEW j \in 1 .. Len(out)
    PROVE  out[j][1].rec < b.rec
<1>1. /\ b = file[reader.lo + 1] /\ b # Zero /\ b.i = 1 /\ reader.lo + 1 \in 1 .. Len(file)
  BY Accepted
<1>2. PICK p \in 1 .. reader.lo :
         file[p].rec = out[j][1].rec /\ file[p].type \in {"full", "last"}
  BY DEF IInv, OutInv
<1>3. reader.lo \in Nat /\ file \in Seq(Byte) /\ Len(file) \in Nat
  BY DEF IInv, TypeOK
<1>4. p < reader.lo + 1 /\ p \in 1 .. Len(file)
  BY <1>1, <1>3
<1>5. file[p] \in Byte /\ file[p] # Zero
  <2>1. Zero.type = "zero"
    BY DEF Zero
  <2> QED BY <1>2, <1>3, <1>4, <2>1
<1>6. file[p].i \in Nat \ {0}
  BY <1>5, Sizes, ByteFacts
<1>7. Before(file[p], b)
  BY <1>1, <1>4, <1>5 DEF IInv, Ascending
<1> QED BY <1>1, <1>2, <1>6, <1>7 DEF Before

(* The reader behind an accepted fragment, with what it keeps. *)
LEMMA Advances ==
    ASSUME IInv, UNCHANGED file, NEW n \in reader.lo .. reader.hi, NEW s \in Seq(Fragments),
           reader' = [lo |-> n, hi |-> reader.hi, eof |-> reader.eof, scratch |-> s],
           out' \in Seq(Seq(Fragments)),
           s # <<>> => /\ n # 0 /\ LastOf(file[n], s[1].rec, Len(s)) /\ s[1].type = "first"
                       /\ \A j \in 1 .. Len(s) : s[j].rec = s[1].rec /\ s[j].frag = j
    PROVE  ReaderTypes' /\ KeptInv' /\ reader'.lo \in Nat /\ reader.lo <= reader'.lo
<1>1. /\ ReaderTypes /\ reader.lo \in Nat /\ reader.hi \in Nat /\ reader.hi <= Len(file)
      /\ reader.eof \in BOOLEAN
  BY Parts DEF ReaderInv, ReaderTypes
<1>2. /\ reader'.lo = n /\ reader'.hi = reader.hi /\ reader'.scratch = s
  OBVIOUS
<1>3. n \in Nat /\ n <= reader.hi /\ reader.lo <= n
  BY <1>1
<1>4. reader' \in [lo : Nat, hi : Nat, eof : BOOLEAN, scratch : Seq(Fragments)]
  BY <1>1, <1>3
<1>5. ReaderTypes'
  BY <1>1, <1>2, <1>3, <1>4 DEF ReaderTypes
<1>6. KeptInv'
  <2> SUFFICES ASSUME s # <<>> PROVE KeptInv'
    BY <1>2 DEF KeptInv
  <2>1. n \in 1 .. n
    BY <1>3
  <2> QED BY <1>2, <2>1 DEF KeptInv
<1> QED BY <1>2, <1>3, <1>5, <1>6

(* ReadRecord with each of the four types of fragment. *)
LEMMA ReadFragmentStep ==
    ASSUME IInv, ReadFragment
    PROVE  IInv'
<1> USE Sizes
<1> DEFINE b == Header[1]
           f == [rec |-> b.rec, frag |-> b.frag, type |-> b.type, len |-> b.len]
           n == reader.lo + kHeaderSize + b.len
           s == reader.scratch
           to(x) == [lo |-> n, hi |-> reader.hi, eof |-> reader.eof, scratch |-> x]
<1>1. /\ Size >= kHeaderSize /\ Intact
      /\ UNCHANGED <<file, synced, blockOffset, cur, records, whole, tainted, mode,
                     crashes, errors, reuse>>
  BY DEF ReadFragment, writerVars, bounds
<1>2. /\ b = file[reader.lo + 1] /\ b # Zero /\ b.i = 1 /\ b \in Byte
      /\ reader.lo + 1 \in 1 .. Len(file) /\ Placed(file, reader.lo + 1)
      /\ n \in reader.lo + 1 .. reader.hi
      /\ file[n] = [b EXCEPT !.i = kHeaderSize + b.len] /\ f \in Fragments
  BY <1>1, Accepted
<1>3. /\ ReaderTypes /\ reader.lo \in Nat /\ reader.hi \in Nat /\ s \in Seq(Fragments)
      /\ Len(s) \in Nat /\ out \in Seq(Seq(Fragments))
  BY Parts DEF ReaderInv, ReaderTypes
<1>4. [reader EXCEPT !.lo = @ + kHeaderSize + Length] = to(s)
  BY <1>3, SMTT(30) DEF ReaderTypes, Length
<1>5. \A x : [to(s) EXCEPT !.scratch = x] = to(x)
  OBVIOUS
<1>6. \/ /\ b.type = "full" /\ out' = Append(out, <<f>>) /\ reader' = to(<<>>)
      \/ /\ b.type = "first" /\ out' = out /\ reader' = to(<<f>>)
      \/ /\ b.type = "middle" /\ out' = out
         /\ reader' = IF InFragmentedRecord THEN to(Append(s, f)) ELSE to(s)
      \/ /\ b.type = "last" /\ reader' = to(<<>>)
         /\ out' = IF InFragmentedRecord THEN Append(out, Append(s, f)) ELSE out
  <2> DEFINE next == [reader EXCEPT !.lo = @ + kHeaderSize + Length]
  <2>1. \/ /\ b.type = "full" /\ out' = Append(out, <<f>>)
           /\ reader' = [next EXCEPT !.scratch = <<>>]
        \/ /\ b.type = "first" /\ out' = out /\ reader' = [next EXCEPT !.scratch = <<f>>]
        \/ /\ b.type = "middle" /\ out' = out
           /\ reader' = IF InFragmentedRecord
                        THEN [next EXCEPT !.scratch = Append(@, f)] ELSE next
        \/ /\ b.type = "last" /\ reader' = [next EXCEPT !.scratch = <<>>]
           /\ out' = IF InFragmentedRecord THEN Append(out, Append(s, f)) ELSE out
    BY DEF ReadFragment
  <2>2. next = to(s) /\ next.scratch = s
    BY <1>4
  <2>3. [next EXCEPT !.scratch = Append(@, f)] = [next EXCEPT !.scratch = Append(s, f)]
    BY <2>2
  <2> HIDE DEF next, to, f, b
  <2> QED BY <1>5, <2>1, <2>2, <2>3
<1>7. /\ file[n] # Zero /\ file[n].rec = b.rec /\ file[n].frag = b.frag
      /\ file[n].type = b.type /\ file[n].i = kHeaderSize + file[n].len
  <2>1. b = [rec |-> b.rec, frag |-> b.frag, type |-> b.type, len |-> b.len, i |-> b.i]
        /\ b.len \in Nat
    BY <1>2, ByteFacts
  <2>2. file[n] = [rec |-> b.rec, frag |-> b.frag, type |-> b.type, len |-> b.len,
                   i |-> kHeaderSize + b.len]
    BY <1>2, <2>1, OtherByte
  <2>3. kHeaderSize + b.len # 0 /\ Zero.i = 0
    BY <2>1 DEF Zero
  <2> QED BY <2>2, <2>3
<1>8. /\ b.frag \in Nat \ {0}
      /\ b.frag = 1 <=> b.type \in {"full", "first"}
  BY <1>2, ByteFacts DEF Placed
<1>9. /\ f.rec = b.rec /\ f.frag = b.frag /\ f.type = b.type
  OBVIOUS
<1>10. /\ n \in reader.lo .. reader.hi /\ n # 0 /\ n \in Nat /\ reader.lo + 1 \in 1 .. n
  BY <1>2, <1>3
<1>11. \A j \in 1 .. Len(out) : out[j][1].rec < b.rec
  BY <1>1, Later
<1>12. InFragmentedRecord /\ b.type \in {"middle", "last"} =>
          s[1].rec = b.rec /\ b.frag = Len(s) + 1
  BY <1>1, Continues
<1>13. s # <<>> => /\ \A j \in 1 .. Len(s) : s[j].rec = s[1].rec /\ s[j].frag = j
                   /\ s[1].type = "first"
  BY DEF IInv, KeptInv
<1> HIDE DEF b, f, n, s
<1>14. <<>> \in Seq(Fragments) /\ <<f>> \in Seq(Fragments) /\ Len(<<f>>) = 1 /\ <<f>>[1] = f
  BY <1>2
<1>15. ASSUME InFragmentedRecord, b.type \in {"middle", "last"}
       PROVE  /\ Append(s, f) \in Seq(Fragments) /\ Append(s, f) # <<>>
              /\ Len(Append(s, f)) = b.frag /\ Append(s, f)[1] = s[1]
              /\ Append(s, f)[Len(Append(s, f))] = f
              /\ s[1].rec = b.rec /\ s[1].type = "first"
              /\ \A j \in 1 .. Len(Append(s, f)) :
                    Append(s, f)[j].rec = b.rec /\ Append(s, f)[j].frag = j
  <2>1. s # <<>> /\ s[1].rec = b.rec /\ b.frag = Len(s) + 1
    BY <1>12, <1>15 DEF InFragmentedRecord, s
  <2>2. Len(s) > 0
    BY <1>3, <2>1
  <2> DEFINE t == Append(s, f)
  <2>3. /\ t \in Seq(Fragments) /\ Len(t) = Len(s) + 1 /\ t[Len(s) + 1] = f
        /\ \A j \in 1 .. Len(s) : t[j] = s[j]
    BY <1>2, <1>3
  <2> HIDE DEF t
  <2>4. t # <<>> /\ t[1] = s[1]
    BY <1>3, <2>2, <2>3
  <2>5. \A j \in 1 .. Len(t) : t[j].rec = b.rec /\ t[j].frag = j
    <3> TAKE j \in 1 .. Len(t)
    <3>1. CASE j \in 1 .. Len(s)
      BY <1>13, <2>1, <2>3, <3>1
    <3>2. CASE j = Len(s) + 1
      BY <1>9, <2>1, <2>3, <3>2
    <3> QED BY <1>3, <2>3, <3>1, <3>2
  <2> QED BY <1>13, <2>1, <2>3, <2>4, <2>5 DEF t
<1>16. ReaderInv'
  <2>0. UNCHANGED file
    BY <1>1
  <2>1. CASE b.type = "full" /\ out' = Append(out, <<f>>) /\ reader' = to(<<>>)
    <3>1. out' \in Seq(Seq(Fragments))
      BY <1>3, <1>14, <2>1
    <3>2. ReaderTypes' /\ KeptInv' /\ reader'.lo \in Nat /\ reader.lo <= reader'.lo
      BY <1>10, <1>14, <2>0, <2>1, <3>1, Advances
    <3>3. reader'.lo = n
      BY <2>1
    <3> DEFINE o == <<f>>
    <3>4. /\ o \in Seq(Fragments) /\ o # <<>> /\ out' = Append(out, o)
          /\ \A j \in 1 .. Len(o) : o[j].rec = o[1].rec /\ o[j].frag = j
          /\ o[1].type \in {"full", "first"} /\ o[Len(o)].type \in {"full", "last"}
          /\ o[1].rec = b.rec
      BY <1>8, <1>9, <1>14, <2>1
    <3> HIDE DEF o
    <3>5. OutInv' /\ OnlyWholeRecords'
      <4>1. /\ reader.lo + 1 \in 1 .. reader'.lo /\ file[reader.lo + 1].rec = o[1].rec
            /\ file[reader.lo + 1].type \in {"full", "last"}
            /\ \A j \in 1 .. Len(out) : out[j][1].rec < o[1].rec
        BY <1>2, <1>10, <1>11, <2>1, <3>3, <3>4
      <4> QED BY <2>0, <3>2, <3>4, <4>1, OutGrows
    <3> QED BY <3>2, <3>5 DEF ReaderInv
  <2>2. CASE b.type = "first" /\ out' = out /\ reader' = to(<<f>>)
    <3> DEFINE o == <<f>>
    <3>1. /\ o \in Seq(Fragments) /\ o[1].type = "first" /\ reader' = to(o)
          /\ LastOf(file[n], o[1].rec, Len(o))
          /\ \A j \in 1 .. Len(o) : o[j].rec = o[1].rec /\ o[j].frag = j
      BY <1>7, <1>8, <1>9, <1>14, <2>2 DEF LastOf
    <3> HIDE DEF o
    <3>2. ReaderTypes' /\ KeptInv' /\ reader'.lo \in Nat /\ reader.lo <= reader'.lo
      BY <1>3, <1>10, <2>0, <2>2, <3>1, Advances
    <3>3. UNCHANGED <<file, out>>
      BY <2>0, <2>2
    <3> QED BY <3>2, <3>3, OutKept DEF ReaderInv
  <2>3. CASE /\ b.type = "middle" /\ out' = out
             /\ reader' = IF InFragmentedRecord THEN to(Append(s, f)) ELSE to(s)
    <3>1. UNCHANGED <<file, out>> /\ out' \in Seq(Seq(Fragments))
      BY <1>3, <2>0, <2>3
    <3>2. ReaderTypes' /\ KeptInv' /\ reader'.lo \in Nat /\ reader.lo <= reader'.lo
      <4>1. CASE InFragmentedRecord
        <5> DEFINE o == Append(s, f)
        <5>1. /\ o \in Seq(Fragments) /\ o[1].type = "first" /\ reader' = to(o)
              /\ o[1].rec = b.rec /\ Len(o) = b.frag
              /\ \A j \in 1 .. Len(o) : o[j].rec = o[1].rec /\ o[j].frag = j
          BY <1>15, <2>3, <4>1
        <5> HIDE DEF o
        <5>2. LastOf(file[n], o[1].rec, Len(o))
          BY <1>7, <2>3, <5>1 DEF LastOf
        <5> QED BY <1>10, <2>0, <3>1, <5>1, <5>2, Advances
      <4>2. CASE ~InFragmentedRecord
        <5>1. s = <<>> /\ reader' = to(s)
          BY <2>3, <4>2 DEF InFragmentedRecord, s
        <5> QED BY <1>3, <1>10, <2>0, <3>1, <5>1, Advances
      <4> QED BY <4>1, <4>2
    <3> QED BY <3>1, <3>2, OutKept DEF ReaderInv
  <2>4. CASE /\ b.type = "last" /\ reader' = to(<<>>)
             /\ out' = IF InFragmentedRecord THEN Append(out, Append(s, f)) ELSE out
    <3>0. ASSUME out' \in Seq(Seq(Fragments))
          PROVE  ReaderTypes' /\ KeptInv' /\ reader'.lo \in Nat /\ reader.lo <= reader'.lo
      BY <1>10, <1>14, <2>0, <2>4, <3>0, Advances
    <3>1. CASE InFragmentedRecord
      <4> DEFINE o == Append(s, f)
      <4>1. /\ o \in Seq(Fragments) /\ o # <<>> /\ out' = Append(out, o)
            /\ \A j \in 1 .. Len(o) : o[j].rec = o[1].rec /\ o[j].frag = j
            /\ o[1].type \in {"full", "first"} /\ o[Len(o)].type \in {"full", "last"}
            /\ o[1].rec = b.rec
        BY <1>9, <1>15, <2>4, <3>1
      <4> HIDE DEF o
      <4>2. out' \in Seq(Seq(Fragments)) /\ reader'.lo = n
        BY <1>3, <2>4, <4>1
      <4>3. ReaderTypes' /\ KeptInv' /\ reader'.lo \in Nat /\ reader.lo <= reader'.lo
        BY <3>0, <4>2
      <4>4. /\ reader.lo + 1 \in 1 .. reader'.lo /\ file[reader.lo + 1].rec = o[1].rec
            /\ file[reader.lo + 1].type \in {"full", "last"}
            /\ \A j \in 1 .. Len(out) : out[j][1].rec < o[1].rec
        BY <1>2, <1>10, <1>11, <2>4, <4>1, <4>2
      <4>5. OutInv' /\ OnlyWholeRecords'
        BY <2>0, <4>1, <4>3, <4>4, OutGrows
      <4> QED BY <4>3, <4>5 DEF ReaderInv
    <3>2. CASE ~InFragmentedRecord
      <4>1. UNCHANGED <<file, out>> /\ out' \in Seq(Seq(Fragments))
        BY <1>3, <2>0, <2>4, <3>2
      <4> QED BY <3>0, <4>1, OutKept DEF ReaderInv
    <3> QED BY <3>1, <3>2
  <2> QED BY <1>6, <2>1, <2>2, <2>3, <2>4
<1>17. UNCHANGED <<file, synced, cur, records, whole>> /\ blockOffset' \in 0 .. kBlockSize
  BY <1>1 DEF IInv, TypeOK
<1>18. FlagTypes'
  <2>1. reported' \in BOOLEAN
    <3>1. \E x \in BOOLEAN : reported' = (reported \/ x)
      BY DEF ReadFragment
    <3>2. reported \in BOOLEAN
      BY Parts DEF FlagTypes
    <3> QED BY <3>1, <3>2
  <2> QED BY <1>1, <2>1, Parts DEF FlagTypes
<1> QED BY <1>16, <1>17, <1>18, FileKept, PartsNext
-----------------------------------------------------------------------------
(* The theorems                                                            *)

(* The invariant holds in every state of every behaviour. *)
LEMMA Invariance == Spec => []IInv
<1>1. Init => IInv
  <2> SUFFICES ASSUME Init PROVE IInv
    OBVIOUS
  <2> USE Sizes
  <2>1. /\ file = <<>> /\ synced = 0 /\ blockOffset = 0 /\ cur = Idle /\ records = 0
        /\ whole = <<>> /\ mode = "write" /\ reader = NewReader /\ out = <<>>
        /\ reported = FALSE /\ tainted = FALSE /\ crashes = 0 /\ errors = 0 /\ reuse \in Reuse
    BY DEF Init
  <2>2. /\ file \in Seq(Byte) /\ Len(file) = 0 /\ out \in Seq(Seq(Fragments)) /\ Len(out) = 0
        /\ DOMAIN whole = {} /\ DOMAIN out = {}
    BY <2>1
  <2>3. /\ NewReader \in [lo : Nat, hi : Nat, eof : BOOLEAN, scratch : Seq(Fragments)]
        /\ NewReader.lo = 0 /\ NewReader.hi = 0 /\ NewReader.scratch = <<>>
    BY DEF NewReader
  <2>4. FileTypes
    BY <2>1, <2>2, IdleFacts DEF FileTypes
  <2>5. FileInv
    BY <2>1, <2>2, <2>4 DEF FileInv, Chained, Ascending, WriterInv
  <2>6. ReaderInv
    BY <2>1, <2>2, <2>3 DEF ReaderInv, ReaderTypes, KeptInv, OutInv, OnlyWholeRecords, ToSet
  <2>7. FlagTypes
    <3>1. crashes \in 0 .. MaxCrashes /\ errors \in 0 .. MaxErrors
      BY <2>1
    <3> QED BY <2>1, <3>1 DEF FlagTypes
  <2> QED BY <2>5, <2>6, <2>7, Parts
<1>2. IInv /\ [Next]_vars => IInv'
  <2> SUFFICES ASSUME IInv, [Next]_vars PROVE IInv'
    OBVIOUS
  <2>1. CASE Next
    <3>1. ASSUME NEW n \in Lengths, AddRecord(n) PROVE IInv'
      BY <3>1, AddRecordStep
    <3>2. CASE EmitPhysicalRecord
      BY <3>2, EmitPhysicalRecordStep
    <3>13. CASE TrailerFails
      BY <3>13, TrailerFailsStep
    <3>3. CASE EmitFails
      BY <3>3, EmitFailsStep
    <3>4. CASE Sync
      BY <3>4, SyncStep
    <3>5. CASE ProcessCrash
      BY <3>5, ProcessCrashStep
    <3>6. CASE MachineCrash
      BY <3>6, MachineCrashStep
    <3>7. CASE ReadBlock
      BY <3>7, ReadBlockStep
    <3>8. CASE ReadFragment
      BY <3>8, ReadFragmentStep
    <3>9. CASE DropBuffer
      BY <3>9, DropBufferStep
    <3>10. CASE ReadEof
      BY <3>10, ReadEofStep
    <3> QED
      BY <2>1, <3>1, <3>2, <3>3, <3>4, <3>5, <3>6, <3>7, <3>8, <3>9, <3>10, <3>13 DEF Next
  <2>2. CASE UNCHANGED vars
    BY <2>2 DEF vars, writerVars, readerVars, bounds, IInv, TypeOK, Chained, Ascending,
                WriterInv, Earlier, KeptInv, OutInv, OnlyWholeRecords, Size
  <2> QED BY <2>1, <2>2
<1> QED BY <1>1, <1>2, PTL DEF Spec

(* Every variable of log::Writer and log::Reader keeps its type; block_offset_ stays within
   a block and the reader's buffer within the file. *)
THEOREM TypeCorrect == Spec => []TypeOK
BY Invariance, PTL DEF IInv

(* log::Reader::ReadRecord returns whole records only, each made of its own fragments in
   order, none twice and all in the order of the calls of AddRecord, whatever a crash, a
   failing write or an append behind a torn record has left in the file. *)
THEOREM WholeRecordsOnly == Spec => []OnlyWholeRecords
BY Invariance, PTL DEF IInv
=============================================================================
