-------------------------- MODULE FileContentProofs --------------------------
(***************************************************************************)
(* Proofs about FileContent, for any number of threads, any chunk size,    *)
(* any set of bytes and any largest file.                                  *)
(*                                                                         *)
(* A position p of a file is byte p % ChunkSize of chunk p \div ChunkSize. *)
(* Two facts carry the refinement: no chunk is longer than its part of the *)
(* file, so that bytes after the old end read as zeroes when the file      *)
(* grows; and while the content lock is held nothing else changes the      *)
(* file, so that a plan still describes it when it is committed.           *)
(***************************************************************************)
EXTENDS FileContent, FiniteSetTheorems, SequenceTheorems, TLAPS

ByteAt(rows, p) ==
  LET chunk == rows[p \div ChunkSize]
  IN  IF p % ChunkSize < Len(chunk) THEN chunk[(p % ChunkSize) + 1] ELSE ZeroByte

\* What a plan says of itself, whatever has happened since.
PlanFits(plan) ==
  /\ Len(plan.data) > 0
  /\ plan.offset + Len(plan.data) <= MaxSize
  /\ plan.newSize = Greater(plan.oldSize, plan.offset + Len(plan.data))

Typed == TypeOK /\ \A t \in Threads : plans[t] # NoPlan => PlanFits(plans[t])

ChunksWithinFile == \A i \in Indexes : Len(chunks[i]) <= Extent(i, size)

\* The thread with a plan has the content lock: at most the truncation of a
\* create, which takes no lock, has come since.
OnePlan ==
  \A t \in Threads : plans[t] # NoPlan =>
    /\ size <= plans[t].oldSize
    /\ \A u \in Threads : plans[u] # NoPlan => u = t

Sound == Typed /\ ChunksWithinFile /\ OnePlan

\* Where create takes the lock, the plan is up to date.
PlanCurrent ==
  \A t \in Threads : plans[t] # NoPlan =>
    plans[t].oldSize = size /\ plans[t].rows = chunks

IInv == Sound /\ PlanCurrent


(***************************************************************************)
(* Chunks and positions.                                                   *)
(***************************************************************************)
\* A position is a chunk and a place in it, and no other.
LEMMA Position ==
  ASSUME NEW p \in Nat
  PROVE  /\ p \div ChunkSize \in Nat
         /\ p % ChunkSize \in 0 .. ChunkSize - 1
         /\ p = Start(p \div ChunkSize) + (p % ChunkSize)
         /\ Start(p \div ChunkSize) \in Nat
BY ChunkSizeAssumption DEF Start

LEMMA PositionUnique ==
  ASSUME NEW i \in Nat, NEW n \in 0 .. ChunkSize - 1
  PROVE  /\ (Start(i) + n) \div ChunkSize = i
         /\ (Start(i) + n) % ChunkSize = n
         /\ Start(i) \in Nat
BY ChunkSizeAssumption DEF Start

\* Chunks follow each other without a gap.
LEMMA StartsApart ==
  ASSUME NEW i \in Nat, NEW j \in Nat, i < j
  PROVE  Start(i) + ChunkSize <= Start(j)
BY ChunkSizeAssumption DEF Start

LEMMA DivMonotonic ==
  ASSUME NEW p \in Nat, NEW q \in Nat, p <= q
  PROVE  p \div ChunkSize <= q \div ChunkSize
BY ChunkSizeAssumption

LEMMA IndexesAreNat ==
  /\ Indexes \subseteq Nat
  /\ \A p \in 0 .. MaxSize - 1 : p \div ChunkSize \in Indexes
<1>1. ASSUME NEW p \in 0 .. MaxSize - 1 PROVE p \div ChunkSize \in Indexes
  <2>1. p \in Nat /\ MaxSize - 1 \in Nat /\ p <= MaxSize - 1
    BY MaxSizeAssumption
  <2>2. p \div ChunkSize <= (MaxSize - 1) \div ChunkSize
    BY <2>1, DivMonotonic
  <2>3. p \div ChunkSize \in Nat /\ (MaxSize - 1) \div ChunkSize \in Nat
    BY <2>1, Position
  <2> QED
    BY <2>2, <2>3 DEF Indexes, LastIndex
<1>2. LastIndex \in Nat
  BY Position, MaxSizeAssumption DEF LastIndex
<1> QED
  BY <1>1, <1>2 DEF Indexes

LEMMA StartIsNat == ASSUME NEW i \in Indexes PROVE i \in Nat /\ Start(i) \in Nat
BY IndexesAreNat, ChunkSizeAssumption DEF Start

LEMMA ExtentBounds ==
  ASSUME NEW i \in Indexes, NEW m \in Nat
  PROVE  /\ Extent(i, m) \in 0 .. ChunkSize
         /\ \A n \in Nat : n < Extent(i, m) <=> n < ChunkSize /\ Start(i) + n < m
         /\ \A q \in Nat : m <= q => Extent(i, m) <= Extent(i, q)
BY StartIsNat, ChunkSizeAssumption DEF Extent, Greater, Lesser

LEMMA PaddedBytes ==
  ASSUME NEW chunk \in Seq(Payload), NEW length \in Nat
  PROVE  /\ Padded(chunk, length) \in Seq(Payload)
         /\ Len(Padded(chunk, length)) = length
         /\ \A k \in 1 .. length : Padded(chunk, length)[k] =
              IF k <= Len(chunk) THEN chunk[k] ELSE ZeroByte
<1>1. Padded(chunk, length) \in [1 .. length -> Payload]
  BY DEF Padded, Payload
<1> QED
  BY <1>1 DEF Padded

(***************************************************************************)
(* The file as a string of bytes.                                          *)
(***************************************************************************)
LEMMA ContentIsByteAt ==
  ASSUME TypeOK
  PROVE  /\ Content = [k \in 1 .. size |-> ByteAt(chunks, k - 1)]
         /\ Len(Content) = size
         /\ size \in Nat
<1>1. size \in Nat
  BY MaxSizeAssumption DEF TypeOK
<1>2. ASSUME NEW k \in 1 .. size
      PROVE  LET chunk == chunks[(k - 1) \div ChunkSize]
                 n     == ((k - 1) % ChunkSize) + 1
             IN  (IF n <= Len(chunk) THEN chunk[n] ELSE ZeroByte) = ByteAt(chunks, k - 1)
  <2>1. k - 1 \in 0 .. MaxSize - 1 /\ k - 1 \in Nat
    BY <1>1, MaxSizeAssumption DEF TypeOK
  <2>2. (k - 1) \div ChunkSize \in Indexes
    BY <2>1, IndexesAreNat
  <2>3. Len(chunks[(k - 1) \div ChunkSize]) \in Nat
    BY <2>2 DEF TypeOK
  <2>4. (k - 1) % ChunkSize \in Nat
    BY <2>1, Position
  <2> QED
    BY <2>3, <2>4 DEF ByteAt
<1>3. Content = [k \in 1 .. size |-> ByteAt(chunks, k - 1)]
  BY <1>2 DEF Content
<1> QED
  BY <1>1, <1>3

LEMMA ContentIsByteAtNext ==
  TypeOK' => Content' = [k \in 1 .. size' |-> ByteAt(chunks', k - 1)]
<1> DEFINE Bytewise == Content = [k \in 1 .. size |-> ByteAt(chunks, k - 1)]
<1>1. TypeOK => Bytewise
  BY ContentIsByteAt
<1> HIDE DEF Bytewise
<1>2. TypeOK' => Bytewise'
  BY <1>1, PTL
<1> QED
  BY <1>2 DEF Bytewise

\* Past the end of the file there are only zeroes.
LEMMA ZeroAfterEnd ==
  ASSUME TypeOK, ChunksWithinFile, NEW p \in 0 .. MaxSize - 1, size <= p
  PROVE  ByteAt(chunks, p) = ZeroByte
<1> DEFINE i == p \div ChunkSize
           n == p % ChunkSize
<1>1. p \in Nat /\ size \in Nat
  BY MaxSizeAssumption DEF TypeOK
<1>2. i \in Indexes /\ n \in Nat /\ p = Start(i) + n
  BY <1>1, Position, IndexesAreNat
<1>3. ~ (n < Extent(i, size)) /\ Extent(i, size) \in Nat
  <2> HIDE DEF i, n
  <2> QED
    BY <1>1, <1>2, ExtentBounds
<1>4. Len(chunks[i]) <= Extent(i, size) /\ Len(chunks[i]) \in Nat
  BY <1>2 DEF ChunksWithinFile, TypeOK
<1>5. ~ (n < Len(chunks[i]))
  <2> HIDE DEF i, n
  <2> QED
    BY <1>2, <1>3, <1>4
<1> QED
  BY <1>5 DEF ByteAt


(***************************************************************************)
(* PreparedChunk and TouchedBy.                                            *)
(***************************************************************************)
LEMMA PlanTyped ==
  ASSUME NEW plan \in Plans, PlanFits(plan)
  PROVE  /\ plan.offset \in Nat
         /\ plan.data \in Seq(Bytes) /\ Len(plan.data) \in Nat \ {0}
         /\ plan.oldSize \in Nat /\ plan.newSize \in 0 .. MaxSize
         /\ plan.offset + Len(plan.data) <= plan.newSize
         /\ plan.oldSize <= plan.newSize
         /\ plan.rows \in [Indexes -> Seq(Payload)]
BY MaxSizeAssumption DEF Plans, PlanFits, Greater

\* The chunks a write touches are those with a position in its range.
LEMMA TouchedChunks ==
  ASSUME NEW plan \in Plans, PlanFits(plan)
  PROVE  /\ TouchedBy(plan) \subseteq Indexes
         /\ \A i \in TouchedBy(plan) : Start(i) < plan.offset + Len(plan.data)
         /\ \A p \in Nat : plan.offset <= p /\ p < plan.offset + Len(plan.data)
              => p \div ChunkSize \in TouchedBy(plan)
<1> DEFINE first == plan.offset
           last == plan.offset + Len(plan.data) - 1
<1>1. first \in Nat /\ last \in 0 .. MaxSize - 1 /\ last \in Nat /\ first <= last
  BY PlanTyped, MaxSizeAssumption DEF PlanFits
<1>2. TouchedBy(plan) = first \div ChunkSize .. last \div ChunkSize
  BY DEF TouchedBy
<1>3. last \div ChunkSize \in Indexes /\ first \div ChunkSize \in Nat
  BY <1>1, IndexesAreNat, Position
<1>4. \A p \in Nat : first <= p /\ p <= last => p \div ChunkSize \in TouchedBy(plan)
  <2> SUFFICES ASSUME NEW p \in Nat, first <= p, p <= last
               PROVE  p \div ChunkSize \in TouchedBy(plan)
    OBVIOUS
  <2>1. first \div ChunkSize <= p \div ChunkSize /\ p \div ChunkSize <= last \div ChunkSize
    BY <1>1, DivMonotonic
  <2>2. p \div ChunkSize \in Nat /\ last \div ChunkSize \in Nat
    BY <1>1, Position
  <2> HIDE DEF first, last
  <2> QED
    BY <2>1, <2>2, <1>2, <1>3
<1>5. TouchedBy(plan) \subseteq Indexes
  <2>1. /\ last \div ChunkSize \in Int /\ last \div ChunkSize <= LastIndex
        /\ first \div ChunkSize \in Nat
    BY <1>3 DEF Indexes
  <2>2. LastIndex \in Int
    BY Position, MaxSizeAssumption DEF LastIndex
  <2> HIDE DEF first, last
  <2> QED
    BY <1>2, <2>1, <2>2 DEF Indexes
<1>6. ASSUME NEW i \in TouchedBy(plan) PROVE Start(i) <= last
  <2>1. i \in Nat /\ i <= last \div ChunkSize
    BY <1>2, <1>3, <1>5, StartIsNat
  <2>2. Start(i) <= Start(last \div ChunkSize)
    <3>1. last \div ChunkSize \in Nat
      BY <1>1, Position
    <3>2. CASE i = last \div ChunkSize
      BY <3>1, <3>2, ChunkSizeAssumption DEF Start
    <3>3. CASE i # last \div ChunkSize
      <4>1. i < last \div ChunkSize
        BY <2>1, <3>1, <3>3
      <4>2. Start(i) + ChunkSize <= Start(last \div ChunkSize)
        BY <4>1, <2>1, <3>1, StartsApart
      <4> QED
        BY <4>2, <2>1, <3>1, ChunkSizeAssumption DEF Start
    <3> QED
      BY <3>2, <3>3
  <2>3. Start(last \div ChunkSize) <= last
    <3> HIDE DEF last
    <3>1. /\ last = Start(last \div ChunkSize) + (last % ChunkSize)
          /\ Start(last \div ChunkSize) \in Nat /\ last % ChunkSize \in Nat
      BY <1>1, Position, ChunkSizeAssumption
    <3> QED
      BY <3>1
  <2>4. Start(i) \in Nat /\ Start(last \div ChunkSize) \in Nat
    BY <2>1, <1>1, Position, PositionUnique, ChunkSizeAssumption
  <2> HIDE DEF last
  <2> QED
    BY <2>2, <2>3, <2>4, <1>1
<1>7. \A i \in TouchedBy(plan) : Start(i) < plan.offset + Len(plan.data)
  <2> SUFFICES ASSUME NEW i \in TouchedBy(plan)
               PROVE  Start(i) < plan.offset + Len(plan.data)
    OBVIOUS
  <2>1. Start(i) <= plan.offset + Len(plan.data) - 1 /\ Start(i) \in Nat
    BY <1>6, <1>5, StartIsNat
  <2> QED
    BY <2>1, PlanTyped
<1>8. ASSUME NEW p \in Nat, plan.offset <= p, p < plan.offset + Len(plan.data)
      PROVE  p \div ChunkSize \in TouchedBy(plan)
  <2>1. p <= last
    BY <1>8, PlanTyped
  <2> QED
    BY <2>1, <1>4, <1>8
<1> QED
  BY <1>5, <1>7, <1>8

\* The length of a chunk that starts before the end of the file.
LEMMA LastExtent ==
  ASSUME NEW i, Start(i) \in Nat, NEW s \in Nat, Start(i) < s
  PROVE  /\ Lesser(Start(i) + ChunkSize, s) - Start(i) = Extent(i, s)
         /\ Lesser(Start(i) + ChunkSize, s) - Start(i) \in Nat
<1>1. CASE Start(i) + ChunkSize < s
  BY <1>1, ChunkSizeAssumption DEF Extent, Lesser, Greater
<1>2. CASE ~ (Start(i) + ChunkSize < s)
  BY <1>2, ChunkSizeAssumption DEF Extent, Lesser, Greater
<1> QED
  BY <1>1, <1>2

\* The bytes of a prepared chunk.
LEMMA PreparedBytes ==
  ASSUME NEW plan \in Plans, PlanFits(plan), NEW i \in TouchedBy(plan)
  PROVE  /\ PreparedChunk(plan, i) \in Seq(Payload)
         /\ Len(PreparedChunk(plan, i)) = Extent(i, plan.newSize)
         /\ \A n \in Nat : n < Extent(i, plan.newSize) =>
              PreparedChunk(plan, i)[n + 1] =
                LET p == Start(i) + n
                IN  IF plan.offset <= p /\ p < plan.offset + Len(plan.data)
                    THEN plan.data[p + 1 - plan.offset]
                    ELSE IF p < plan.oldSize /\ n < Len(plan.rows[i])
                    THEN plan.rows[i][n + 1] ELSE ZeroByte
<1> DEFINE chunkLen   == Lesser(Start(i) + ChunkSize, plan.newSize) - Start(i)
           writeStart == Greater(plan.offset - Start(i), 0)
           writeStop  == Lesser(plan.offset + Len(plan.data) - Start(i), chunkLen)
           old        == Padded(plan.rows[i], Extent(i, plan.oldSize))
           written(k) == writeStart < k /\ k <= writeStop
           byte(k) == IF written(k) THEN plan.data[Start(i) + k - plan.offset]
                      ELSE IF k <= Len(old) THEN old[k] ELSE ZeroByte
<1>0. /\ plan.offset \in Nat
      /\ plan.data \in Seq(Bytes) /\ Len(plan.data) \in Nat \ {0}
      /\ plan.oldSize \in Nat /\ plan.newSize \in 0 .. MaxSize /\ plan.newSize \in Nat
      /\ plan.offset + Len(plan.data) <= plan.newSize
      /\ plan.oldSize <= plan.newSize
      /\ plan.rows \in [Indexes -> Seq(Payload)]
  BY PlanTyped, MaxSizeAssumption
<1> USE <1>0
<1>1. PreparedChunk(plan, i) = [k \in 1 .. chunkLen |-> byte(k)]
  BY DEF PreparedChunk
<1>2. i \in Indexes /\ Start(i) \in Nat /\ Start(i) < plan.offset + Len(plan.data)
  BY TouchedChunks, StartIsNat
<1>3. chunkLen = Extent(i, plan.newSize) /\ chunkLen \in Nat
  <2> HIDE DEF writeStart, writeStop, written, old, byte
  <2>1. plan.newSize \in Nat /\ Start(i) \in Nat /\ Start(i) < plan.newSize
    <3> HIDE DEF chunkLen
    <3> QED
      BY <1>2
  <2> QED
    BY <2>1, LastExtent
<1>4. ASSUME NEW k \in 1 .. chunkLen
      PROVE  written(k) <=> /\ plan.offset <= Start(i) + k - 1
                            /\ Start(i) + k - 1 < plan.offset + Len(plan.data)
  <2> HIDE DEF old, byte
  <2>1. /\ k \in Nat \ {0} /\ k <= chunkLen /\ chunkLen \in Nat
        /\ Start(i) \in Nat /\ plan.offset \in Nat /\ Len(plan.data) \in Nat
    <3> HIDE DEF chunkLen, writeStart, writeStop, written
    <3> QED
      BY <1>2, <1>3
  <2> HIDE DEF chunkLen
  <2>2. writeStart < k <=> plan.offset <= Start(i) + k - 1
    <3> HIDE DEF writeStop
    <3> QED
      BY ONLY <2>1 DEF Greater
  <2>3. k <= writeStop <=> Start(i) + k - 1 < plan.offset + Len(plan.data)
    <3> HIDE DEF writeStart
    <3> QED
      BY ONLY <2>1 DEF Lesser
  <2> HIDE DEF writeStart, writeStop
  <2> QED
    BY ONLY <2>2, <2>3
<1>5. /\ old \in Seq(Payload) /\ Len(old) = Extent(i, plan.oldSize)
      /\ Extent(i, plan.oldSize) \in Nat
      /\ \A k \in 1 .. Extent(i, plan.oldSize) : old[k] =
           IF k <= Len(plan.rows[i]) THEN plan.rows[i][k] ELSE ZeroByte
  <2>1. plan.rows[i] \in Seq(Payload) /\ Extent(i, plan.oldSize) \in Nat
    <3> HIDE DEF chunkLen, writeStart, writeStop, written, old, byte
    <3>1. plan.rows[i] \in Seq(Payload)
      BY <1>2
    <3>2. Extent(i, plan.oldSize) \in 0 .. ChunkSize
      BY <1>2, ExtentBounds
    <3> QED
      BY <3>1, <3>2, ChunkSizeAssumption
  <2> QED
    BY <2>1, PaddedBytes
<1>6. ASSUME NEW k \in 1 .. chunkLen PROVE byte(k) \in Payload
  <2>1. CASE written(k)
    <3>1. Start(i) + k - plan.offset \in 1 .. Len(plan.data)
      <4> HIDE DEF chunkLen, writeStart, writeStop, written, old, byte
      <4>1. /\ plan.offset <= Start(i) + k - 1
            /\ Start(i) + k - 1 < plan.offset + Len(plan.data)
        BY <1>4, <2>1
      <4>2. k \in Nat /\ Start(i) \in Nat
        BY <1>2, <1>3
      <4> QED
        BY <4>1, <4>2
    <3>2. plan.data[Start(i) + k - plan.offset] \in Bytes
      BY <3>1
    <3> QED
      BY <2>1, <3>2 DEF Payload
  <2>2. CASE ~ written(k)
    <3>1. k <= Len(old) => old[k] \in Payload
      <4> HIDE DEF chunkLen, old
      <4> QED
        BY <1>5, <1>3
    <3> HIDE DEF old
    <3> QED
      BY <2>2, <3>1 DEF Payload
  <2> QED
    BY <2>1, <2>2
<1>7. /\ PreparedChunk(plan, i) \in Seq(Payload)
      /\ Len(PreparedChunk(plan, i)) = Extent(i, plan.newSize)
  <2> HIDE DEF byte, chunkLen
  <2>1. [k \in 1 .. chunkLen |-> byte(k)] \in [1 .. chunkLen -> Payload]
    BY <1>6
  <2> QED
    BY <1>1, <1>3, <2>1
<1>8. ASSUME NEW n \in Nat, n < Extent(i, plan.newSize)
      PROVE  PreparedChunk(plan, i)[n + 1] =
                LET p == Start(i) + n
                IN  IF plan.offset <= p /\ p < plan.offset + Len(plan.data)
                    THEN plan.data[p + 1 - plan.offset]
                    ELSE IF p < plan.oldSize /\ n < Len(plan.rows[i])
                    THEN plan.rows[i][n + 1] ELSE ZeroByte
  <2>1. n + 1 \in 1 .. chunkLen
    <3> HIDE DEF chunkLen
    <3> QED
      BY <1>3, <1>8
  <2>2. PreparedChunk(plan, i)[n + 1] = byte(n + 1)
    <3> HIDE DEF chunkLen, byte
    <3> QED
      BY <1>1, <2>1
  <2>3. written(n + 1) <=> /\ plan.offset <= Start(i) + n
                           /\ Start(i) + n < plan.offset + Len(plan.data)
    <3>1. Start(i) + (n + 1) - 1 = Start(i) + n
      BY <1>2
    <3> HIDE DEF chunkLen, written
    <3> QED
      BY <1>4, <2>1, <3>1
  <2>4. Start(i) + (n + 1) - plan.offset = Start(i) + n + 1 - plan.offset
    <3>1. Start(i) \in Nat /\ plan.offset \in Nat
      BY <1>2
    <3>2. \A a, b \in Nat : a + (n + 1) - b = a + n + 1 - b
      OBVIOUS
    <3> QED
      BY <3>1, <3>2, Zenon
  <2>5. n < ChunkSize
    BY <1>2, <1>8, ExtentBounds
  <2>6. n + 1 <= Len(old) <=> Start(i) + n < plan.oldSize
    <3>1. n < Extent(i, plan.oldSize) <=> n < ChunkSize /\ Start(i) + n < plan.oldSize
      BY <1>2, ExtentBounds
    <3> HIDE DEF old
    <3> QED
      BY <3>1, <2>5, <1>5
  <2>7. n + 1 <= Len(old) => old[n + 1] =
          IF n < Len(plan.rows[i]) THEN plan.rows[i][n + 1] ELSE ZeroByte
    <3>1. Len(plan.rows[i]) \in Nat
      BY <1>2
    <3> HIDE DEF old
    <3> QED
      BY <1>5, <3>1
  <2> HIDE DEF chunkLen, written, old
  <2> QED
    BY <2>2, <2>3, <2>4, <2>6, <2>7
<1> QED
  BY <1>7, <1>8


(***************************************************************************)
(* What each step does to the file.                                        *)
(***************************************************************************)
LEMMA SizeIsNat == ASSUME TypeOK PROVE size \in Nat /\ size <= MaxSize
BY MaxSizeAssumption DEF TypeOK

LEMMA PlanOfThread ==
  ASSUME Typed, NEW t \in Threads, plans[t] # NoPlan
  PROVE  plans[t] \in Plans /\ PlanFits(plans[t])
BY DEF Typed, TypeOK

LEMMA CommitKeepsTypes ==
  ASSUME Typed, NEW t \in Threads, CommitWrite(t)
  PROVE  Typed'
<1> DEFINE plan == plans[t]
<1>1. plan \in Plans /\ PlanFits(plan)
  BY PlanOfThread DEF CommitWrite
<1>2. ASSUME NEW i \in Indexes
      PROVE  chunks'[i] \in Seq(Payload) /\ Len(chunks'[i]) <= ChunkSize
  <2>1. CASE i \in TouchedBy(plan)
    <3>1. chunks'[i] = PreparedChunk(plan, i)
      BY <2>1 DEF CommitWrite
    <3>2. /\ PreparedChunk(plan, i) \in Seq(Payload)
          /\ Len(PreparedChunk(plan, i)) = Extent(i, plan.newSize)
      BY <1>1, <2>1, PreparedBytes
    <3>3. plan.newSize \in Nat
      BY <1>1, PlanTyped, MaxSizeAssumption
    <3>4. Extent(i, plan.newSize) <= ChunkSize
      <4> HIDE DEF plan
      <4> QED
        BY <3>3, ExtentBounds
    <3> QED
      BY <3>1, <3>2, <3>4
  <2>2. CASE i \notin TouchedBy(plan)
    BY <2>2 DEF CommitWrite, Typed, TypeOK
  <2> QED
    BY <2>1, <2>2
<1>3. size' \in 0 .. MaxSize
  BY <1>1, PlanTyped DEF CommitWrite
<1>4. \A u \in Threads : plans'[u] \in {plans[u], NoPlan}
  BY DEF CommitWrite, Typed, TypeOK
<1>5. chunks' \in [Indexes -> Seq(Payload)]
  BY <1>2 DEF CommitWrite
<1>6. plans' \in [Threads -> Plans \cup {NoPlan}]
  BY DEF CommitWrite, Typed, TypeOK
<1>7. \A u \in Threads : plans'[u] # NoPlan => PlanFits(plans'[u])
  BY <1>4 DEF Typed
<1> QED
  BY <1>2, <1>3, <1>5, <1>6, <1>7 DEF Typed, TypeOK

\* A commit leaves no chunk longer than its part of the file.
LEMMA CommitKeepsExtents ==
  ASSUME Sound, NEW t \in Threads, CommitWrite(t)
  PROVE  ChunksWithinFile'
<1> DEFINE plan == plans[t]
<1>1. plan \in Plans /\ PlanFits(plan)
  BY PlanOfThread DEF CommitWrite, Sound
<1>2. /\ size' = plan.newSize
      /\ size \in Nat /\ plan.newSize \in Nat /\ size <= plan.newSize
  <2>1. size \in Nat /\ size <= plan.oldSize /\ size' = plan.newSize
    BY SizeIsNat DEF CommitWrite, Sound, Typed, OnePlan
  <2>2. plan.oldSize \in Nat /\ plan.newSize \in Nat /\ plan.oldSize <= plan.newSize
    BY <1>1, PlanTyped, MaxSizeAssumption
  <2> HIDE DEF plan
  <2> QED
    BY <2>1, <2>2
<1> HIDE DEF plan
<1>3. ASSUME NEW i \in Indexes PROVE Len(chunks'[i]) <= Extent(i, size')
  <2>1. CASE i \in TouchedBy(plan)
    <3>1. chunks'[i] = PreparedChunk(plan, i)
      BY <2>1 DEF CommitWrite, plan
    <3>2. Len(PreparedChunk(plan, i)) = Extent(i, plan.newSize)
      BY <1>1, <2>1, PreparedBytes
    <3> QED
      BY <3>1, <3>2, <1>2, ExtentBounds
  <2>2. CASE i \notin TouchedBy(plan)
    <3>1. chunks'[i] = chunks[i]
      BY <2>2 DEF CommitWrite, plan
    <3>2. Len(chunks[i]) \in Nat /\ Len(chunks[i]) <= Extent(i, size)
      BY DEF Sound, Typed, TypeOK, ChunksWithinFile
    <3>3. /\ Extent(i, size) <= Extent(i, plan.newSize)
          /\ Extent(i, size) \in Nat /\ Extent(i, plan.newSize) \in Nat
      BY <1>2, ExtentBounds, ChunkSizeAssumption
    <3> QED
      BY <3>1, <3>2, <3>3, <1>2
  <2> QED
    BY <2>1, <2>2
<1> QED
  BY <1>3 DEF ChunksWithinFile

LEMMA CommitWritesBytes ==
  ASSUME IInv, NEW t \in Threads, CommitWrite(t), NEW p \in 0 .. size' - 1
  PROVE  ByteAt(chunks', p) =
           IF plans[t].offset <= p /\ p < plans[t].offset + Len(plans[t].data)
           THEN plans[t].data[p + 1 - plans[t].offset]
           ELSE IF p < size THEN ByteAt(chunks, p) ELSE ZeroByte
<1> DEFINE plan == plans[t]
           i == p \div ChunkSize
           n == p % ChunkSize
<1>1. plan \in Plans /\ PlanFits(plan)
  BY PlanOfThread DEF CommitWrite, IInv, Sound
<1>2. /\ plan.oldSize = size /\ plan.rows = chunks /\ size' = plan.newSize
      /\ plan.newSize \in 0 .. MaxSize /\ size \in Nat
  BY <1>1, PlanTyped DEF CommitWrite, IInv, PlanCurrent
<1>3. p \in Nat /\ p \in 0 .. MaxSize - 1
  BY <1>2, MaxSizeAssumption
<1>4. i \in Indexes /\ n \in 0 .. ChunkSize - 1 /\ p = Start(i) + n /\ Start(i) \in Nat
  BY <1>3, Position, IndexesAreNat
<1> HIDE DEF plan, i, n
<1>5. Len(chunks[i]) \in Nat /\ chunks[i] \in Seq(Payload)
  BY <1>4 DEF IInv, Sound, Typed, TypeOK
<1>6. CASE i \in TouchedBy(plan)
  <2>1. chunks'[i] = PreparedChunk(plan, i)
    BY <1>4, <1>6 DEF CommitWrite, plan
  <2>2. n \in Nat /\ n < Extent(i, plan.newSize)
    <3>1. plan.newSize \in Nat /\ n \in Nat /\ n < ChunkSize /\ Start(i) + n < plan.newSize
      BY <1>2, <1>4, ChunkSizeAssumption, MaxSizeAssumption
    <3> QED
      BY <3>1, <1>4, ExtentBounds
  <2>3. /\ Len(PreparedChunk(plan, i)) = Extent(i, plan.newSize)
        /\ PreparedChunk(plan, i)[n + 1] =
             IF plan.offset <= p /\ p < plan.offset + Len(plan.data)
             THEN plan.data[p + 1 - plan.offset]
             ELSE IF p < size /\ n < Len(chunks[i]) THEN chunks[i][n + 1] ELSE ZeroByte
    BY <1>1, <1>2, <1>4, <1>6, <2>2, PreparedBytes
  <2>4. ByteAt(chunks', p) = PreparedChunk(plan, i)[n + 1]
    BY <2>1, <2>2, <2>3 DEF ByteAt, i, n
  <2>5. ByteAt(chunks, p) = IF n < Len(chunks[i]) THEN chunks[i][n + 1] ELSE ZeroByte
    BY DEF ByteAt, i, n
  <2>6. plan = plans[t]
    BY DEF plan
  <2> QED
    BY <2>3, <2>4, <2>5, <2>6
<1>7. CASE i \notin TouchedBy(plan)
  <2>1. chunks'[i] = chunks[i]
    BY <1>4, <1>7 DEF CommitWrite, plan
  <2>2. ByteAt(chunks', p) = ByteAt(chunks, p)
    BY <2>1 DEF ByteAt, i
  <2>3. ~ (plan.offset <= p /\ p < plan.offset + Len(plan.data))
    BY <1>1, <1>3, <1>7, TouchedChunks DEF i
  <2>4. CASE p < size
    BY <2>2, <2>3, <2>4 DEF plan
  <2>5. CASE ~ (p < size)
    <3>1. ByteAt(chunks, p) = ZeroByte
      BY <2>5, <1>2, <1>3, ZeroAfterEnd DEF IInv, Sound, Typed
    <3> QED
      BY <2>2, <2>3, <2>5, <3>1 DEF plan
  <2> QED
    BY <2>4, <2>5
<1> QED
  BY <1>6, <1>7


(***************************************************************************)
(* Truncation.                                                             *)
(***************************************************************************)
\* Rounding up finds the first chunk that begins at or after the length.
LEMMA FirstRemoved ==
  ASSUME NEW length \in Nat, NEW i \in Nat
  PROVE  i >= (length + ChunkSize - 1) \div ChunkSize <=> Start(i) >= length
<1> DEFINE a == length + ChunkSize - 1
           q == a \div ChunkSize
           r == a % ChunkSize
<1>1. a \in Nat
  BY ChunkSizeAssumption
<1>2. /\ q \in Nat /\ r \in 0 .. ChunkSize - 1
      /\ a = Start(q) + r /\ Start(q) \in Nat
  <2> HIDE DEF a
  <2> QED
    BY <1>1, Position
<1>3. Start(i) \in Nat
  BY ChunkSizeAssumption DEF Start
<1>4. CASE i < q
  <2>1. Start(i) + ChunkSize <= Start(q)
    <3> HIDE DEF q
    <3> QED
      BY <1>2, <1>4, StartsApart
  <2>2. Start(i) < length
    <3> HIDE DEF q, r
    <3> QED
      BY <1>2, <1>3, <2>1, ChunkSizeAssumption
  <2> HIDE DEF q
  <2>3. ~ (i >= q)
    BY <1>2, <1>4
  <2> QED
    BY <2>2, <2>3, <1>3 DEF q
<1>5. CASE ~ (i < q)
  <2>1. Start(q) <= Start(i)
    <3>1. CASE q = i
      BY <1>3, <3>1
    <3>2. CASE q # i
      <4>1. q < i
        <5> HIDE DEF q
        <5> QED
          BY <1>2, <1>5, <3>2
      <4>2. Start(q) + ChunkSize <= Start(i)
        <5> HIDE DEF q
        <5> QED
          BY <1>2, <4>1, StartsApart
      <4> HIDE DEF q
      <4> QED
        BY <1>2, <1>3, <4>2, ChunkSizeAssumption
    <3> QED
      BY <3>1, <3>2
  <2>2. Start(i) >= length
    <3> HIDE DEF q, r
    <3> QED
      BY <1>2, <1>3, <2>1, ChunkSizeAssumption
  <2>3. i >= q
    <3> HIDE DEF q
    <3> QED
      BY <1>2, <1>5
  <2> QED
    BY <2>2, <2>3
<1> QED
  BY <1>4, <1>5

\* The boundary chunk of a truncation keeps the bytes before the new end.
LEMMA CutChunk ==
  ASSUME Typed, NEW i \in Indexes, NEW length \in Nat,
         length < size, Start(i) < length, length < Start(i) + ChunkSize
  PROVE  LET cut == SubSeq(Padded(chunks[i], Extent(i, size)), 1, length - Start(i))
         IN  /\ cut \in Seq(Payload) /\ Len(cut) = length - Start(i)
             /\ \A n \in Nat : Start(i) + n < length => cut[n + 1] =
                  IF n < Len(chunks[i]) THEN chunks[i][n + 1] ELSE ZeroByte
<1> DEFINE e == Extent(i, size)
           old == Padded(chunks[i], e)
           m == length - Start(i)
           cut == SubSeq(old, 1, m)
<1>1. size \in Nat /\ Start(i) \in Nat /\ chunks[i] \in Seq(Payload)
  BY StartIsNat, SizeIsNat DEF Typed, TypeOK
<1>2. m \in Nat /\ e \in Nat /\ m <= e
  BY <1>1, ChunkSizeAssumption DEF Extent, Greater, Lesser
<1>3. /\ old \in Seq(Payload) /\ Len(old) = e
      /\ \A k \in 1 .. e : old[k] = IF k <= Len(chunks[i]) THEN chunks[i][k] ELSE ZeroByte
  <2> HIDE DEF e
  <2> QED
    BY <1>1, <1>2, PaddedBytes
<1>4. cut \in Seq(Payload) /\ Len(cut) = m /\ \A k \in 1 .. m : cut[k] = old[k]
  <2> HIDE DEF m, old, e
  <2> QED
    BY <1>2, <1>3
<1>5. ASSUME NEW n \in Nat, Start(i) + n < length
      PROVE  cut[n + 1] = IF n < Len(chunks[i]) THEN chunks[i][n + 1] ELSE ZeroByte
  <2>1. n + 1 \in 1 .. m
    BY <1>1, <1>5
  <2>2. n + 1 \in 1 .. e
    <3> HIDE DEF m, e
    <3> QED
      BY <1>2, <2>1
  <2>3. cut[n + 1] = IF n + 1 <= Len(chunks[i]) THEN chunks[i][n + 1] ELSE ZeroByte
    <3> HIDE DEF m, e, old, cut
    <3> QED
      BY <1>3, <1>4, <2>1, <2>2
  <2>4. n + 1 <= Len(chunks[i]) <=> n < Len(chunks[i])
    BY <1>1
  <2> HIDE DEF cut
  <2> QED
    BY <2>3, <2>4
<1> QED
  BY <1>4, <1>5

LEMMA TruncatedChunks ==
  ASSUME Typed, NEW length \in 0 .. MaxSize
  PROVE  /\ DOMAIN Truncated(length) = Indexes
         /\ \A i \in Indexes : Truncated(length)[i] =
              IF Start(i) >= length THEN <<>>
              ELSE IF length < size /\ length < Start(i) + ChunkSize
              THEN SubSeq(Padded(chunks[i], Extent(i, size)), 1, length - Start(i))
              ELSE chunks[i]
<1> DEFINE first == (length + ChunkSize - 1) \div ChunkSize
           last  == length \div ChunkSize
           keep  == length - Start(last)
           cut(i) == SubSeq(Padded(chunks[i], Extent(i, size)), 1, length - Start(i))
<1>1. length \in Nat /\ size \in Nat /\ size <= MaxSize
  BY SizeIsNat, MaxSizeAssumption DEF Typed
<1>2. /\ last \in Nat /\ Start(last) \in Nat /\ keep \in 0 .. ChunkSize - 1
      /\ length = Start(last) + keep
  <2>1. /\ last \in Nat /\ Start(last) \in Nat
        /\ length % ChunkSize \in 0 .. ChunkSize - 1
        /\ length = Start(last) + (length % ChunkSize)
    BY <1>1, Position
  <2> HIDE DEF last
  <2> QED
    BY <2>1
<1>3. \A i \in Indexes : i >= first <=> Start(i) >= length
  BY <1>1, FirstRemoved, IndexesAreNat
<1> HIDE DEF first
<1>4. DOMAIN RemovedFrom(first) = Indexes
  BY DEF RemovedFrom
<1>5. \A i \in Indexes :
        RemovedFrom(first)[i] = IF Start(i) >= length THEN <<>> ELSE chunks[i]
  BY <1>3 DEF RemovedFrom
<1>6. Truncated(length) = IF length < size /\ keep > 0
                          THEN [RemovedFrom(first) EXCEPT ![last] =
                                  SubSeq(Padded(@, Extent(last, size)), 1, keep)]
                          ELSE RemovedFrom(first)
  BY DEF Truncated, first
<1>7. ASSUME NEW i \in Indexes, Start(i) < length, length < Start(i) + ChunkSize
      PROVE  i = last /\ keep > 0
  <2>1. length - Start(i) \in 0 .. ChunkSize - 1 /\ i \in Nat
        /\ length = Start(i) + (length - Start(i))
    BY <1>1, <1>7, StartIsNat, ChunkSizeAssumption
  <2>2. last = i
    BY <2>1, PositionUnique
  <2> HIDE DEF last
  <2> QED
    BY <2>2, <1>7, <1>1, StartIsNat
<1>8. ASSUME NEW i \in Indexes, ~ (Start(i) < length /\ length < Start(i) + ChunkSize)
      PROVE  i # last \/ ~ (keep > 0)
  <2> HIDE DEF last
  <2> QED
    BY <1>1, <1>2, <1>8, ChunkSizeAssumption
<1> HIDE DEF last, keep
<1>9. DOMAIN Truncated(length) = Indexes
  BY <1>4, <1>6
<1>10. ASSUME NEW i \in Indexes
       PROVE  Truncated(length)[i] =
              IF Start(i) >= length THEN <<>>
              ELSE IF length < size /\ length < Start(i) + ChunkSize
              THEN SubSeq(Padded(chunks[i], Extent(i, size)), 1, length - Start(i))
              ELSE chunks[i]
  <2>0. Start(i) \in Nat
    BY StartIsNat
  <2>1. CASE Start(i) < length /\ length < Start(i) + ChunkSize /\ length < size
    <3>1. i = last /\ keep > 0 /\ keep = length - Start(i)
      BY <2>1, <1>7 DEF keep
    <3>2. ~ (Start(i) >= length)
      BY <2>0, <2>1, <1>1
    <3>3. RemovedFrom(first)[i] = chunks[i]
      BY <3>2, <1>5
    <3>4. Truncated(length)[i] =
            SubSeq(Padded(chunks[i], Extent(i, size)), 1, length - Start(i))
      BY <2>1, <3>1, <3>3, <1>4, <1>6
    <3> QED
      BY <2>1, <3>2, <3>4
  <2>2. CASE ~ (Start(i) < length /\ length < Start(i) + ChunkSize /\ length < size)
    <3>1. Truncated(length)[i] = RemovedFrom(first)[i]
      BY <2>2, <1>4, <1>6, <1>8
    <3> QED
      BY <2>0, <2>2, <3>1, <1>1, <1>5
  <2> QED
    BY <2>1, <2>2
<1> QED
  BY <1>9, <1>10

\* The bytes of a file that is truncated or extended.
LEMMA TruncatedBytes ==
  ASSUME Typed, ChunksWithinFile, NEW length \in 0 .. MaxSize,
         chunks' = Truncated(length), size' = length
  PROVE  /\ chunks' \in [Indexes -> Seq(Payload)]
         /\ \A i \in Indexes : Len(chunks'[i]) <= ChunkSize
         /\ ChunksWithinFile'
         /\ \A p \in 0 .. length - 1 :
              ByteAt(chunks', p) = IF p < size THEN ByteAt(chunks, p) ELSE ZeroByte
<1>1. length \in Nat /\ size \in Nat /\ size <= MaxSize
  BY SizeIsNat, MaxSizeAssumption DEF Typed
<1>2. ASSUME NEW i \in Indexes
      PROVE  /\ chunks'[i] \in Seq(Payload)
             /\ Len(chunks'[i]) <= Extent(i, length)
             /\ \A n \in 0 .. ChunkSize - 1 : Start(i) + n < length =>
                  ByteAt(chunks', Start(i) + n) = ByteAt(chunks, Start(i) + n)
  <2>1. /\ chunks[i] \in Seq(Payload) /\ Len(chunks[i]) \in Nat /\ Start(i) \in Nat
        /\ Len(chunks[i]) <= Extent(i, size) /\ i \in Nat
    BY StartIsNat DEF Typed, TypeOK, ChunksWithinFile
  <2>2. /\ Extent(i, length) \in 0 .. ChunkSize /\ Extent(i, size) \in 0 .. ChunkSize
        /\ size <= length => Extent(i, size) <= Extent(i, length)
    BY <1>1, ExtentBounds
  <2>3. ASSUME NEW n \in 0 .. ChunkSize - 1, NEW rows
        PROVE  ByteAt(rows, Start(i) + n) =
                 IF n < Len(rows[i]) THEN rows[i][n + 1] ELSE ZeroByte
    BY <2>1, PositionUnique DEF ByteAt
  <2>4. CASE Start(i) >= length
    <3>1. chunks'[i] = <<>>
      BY <2>4, TruncatedChunks
    <3>2. \A n \in 0 .. ChunkSize - 1 : ~ (Start(i) + n < length)
      BY <2>1, <2>4, <1>1
    <3> QED
      BY <2>2, <3>1, <3>2
  <2>5. CASE Start(i) < length /\ length < size /\ length < Start(i) + ChunkSize
    <3> DEFINE cut == SubSeq(Padded(chunks[i], Extent(i, size)), 1, length - Start(i))
    <3>1. chunks'[i] = cut
      <4>1. ~ (Start(i) >= length)
        BY <2>1, <2>5, <1>1
      <4> QED
        BY <2>5, <4>1, TruncatedChunks
    <3>2. /\ cut \in Seq(Payload) /\ Len(cut) = length - Start(i)
          /\ \A n \in Nat : Start(i) + n < length => cut[n + 1] =
               IF n < Len(chunks[i]) THEN chunks[i][n + 1] ELSE ZeroByte
      BY <1>1, <2>5, CutChunk
    <3> HIDE DEF cut
    <3>3. length - Start(i) <= Extent(i, length)
      BY <1>1, <2>1, <2>5, ChunkSizeAssumption DEF Extent, Greater, Lesser
    <3>4. ASSUME NEW n \in 0 .. ChunkSize - 1, Start(i) + n < length
          PROVE  ByteAt(chunks', Start(i) + n) = ByteAt(chunks, Start(i) + n)
      <4>1. n \in Nat /\ n < Len(cut)
        BY <3>2, <3>4, <1>1, <2>1
      <4>2. ByteAt(chunks', Start(i) + n) = cut[n + 1]
        BY <2>3, <3>1, <4>1
      <4> QED
        BY <2>3, <3>2, <3>4, <4>1, <4>2
    <3> QED
      BY <3>1, <3>2, <3>3, <3>4
  <2>6. CASE Start(i) < length /\ ~ (length < size /\ length < Start(i) + ChunkSize)
    <3>1. chunks'[i] = chunks[i]
      <4>1. ~ (Start(i) >= length)
        BY <2>1, <2>6, <1>1
      <4> QED
        BY <2>6, <4>1, TruncatedChunks
    <3>2. Len(chunks[i]) <= Extent(i, length)
      <4>1. CASE size <= length
        BY <2>1, <2>2, <4>1
      <4>2. CASE ~ (size <= length)
        <5>1. Extent(i, length) = ChunkSize
          BY <1>1, <2>1, <2>6, <4>2, ChunkSizeAssumption DEF Extent, Greater, Lesser
        <5> QED
          BY <2>1, <2>2, <5>1
      <4> QED
        BY <4>1, <4>2
    <3> QED
      BY <2>1, <2>3, <3>1, <3>2
  <2> QED
    BY <1>1, <2>1, <2>4, <2>5, <2>6
<1>3. chunks' \in [Indexes -> Seq(Payload)]
  <2>1. \A i \in Indexes : chunks'[i] \in Seq(Payload)
    BY <1>2
  <2>2. DOMAIN chunks' = Indexes
    BY TruncatedChunks
  <2>3. chunks' = [i \in Indexes |-> chunks'[i]]
    BY <2>2 DEF Truncated, RemovedFrom
  <2> QED
    BY <2>1, <2>3
<1>4. \A i \in Indexes : Len(chunks'[i]) <= ChunkSize
  <2> SUFFICES ASSUME NEW i \in Indexes PROVE Len(chunks'[i]) <= ChunkSize
    OBVIOUS
  <2>1. Len(chunks'[i]) <= Extent(i, length) /\ Len(chunks'[i]) \in Nat
    BY <1>2, <1>3
  <2>2. Extent(i, length) <= ChunkSize /\ Extent(i, length) \in Nat
    BY <1>1, ExtentBounds, ChunkSizeAssumption
  <2> QED
    BY <2>1, <2>2, ChunkSizeAssumption
<1>5. ChunksWithinFile'
  BY <1>2 DEF ChunksWithinFile
<1>6. ASSUME NEW p \in 0 .. length - 1
      PROVE  ByteAt(chunks', p) = IF p < size THEN ByteAt(chunks, p) ELSE ZeroByte
  <2> DEFINE i == p \div ChunkSize
             n == p % ChunkSize
  <2>1. p \in Nat /\ p \in 0 .. MaxSize - 1 /\ p < length
    BY <1>1, MaxSizeAssumption
  <2>2. i \in Indexes /\ n \in 0 .. ChunkSize - 1 /\ p = Start(i) + n
    BY <2>1, Position, IndexesAreNat
  <2>3. ByteAt(chunks', p) = ByteAt(chunks, p)
    <3> HIDE DEF i, n
    <3> QED
      BY <1>2, <2>1, <2>2
  <2>4. ~ (p < size) => ByteAt(chunks, p) = ZeroByte
    BY <1>1, <2>1, ZeroAfterEnd DEF Typed
  <2> QED
    BY <2>3, <2>4
<1> QED
  BY <1>3, <1>4, <1>5, <1>6


(***************************************************************************)
(* The inductive invariant.                                                *)
(***************************************************************************)
LEMMA InitIInv == Init => IInv
<1> SUFFICES ASSUME Init PROVE IInv
  OBVIOUS
<1>1. size = 0 /\ \A i \in Indexes : chunks[i] = <<>>
  BY DEF Init
<1>2. \A i \in Indexes : Extent(i, 0) \in Nat
  BY ExtentBounds
<1>3. TypeOK
  BY <1>1, ChunkSizeAssumption, MaxSizeAssumption DEF Init, TypeOK
<1>4. Typed /\ OnePlan /\ PlanCurrent
  BY <1>3 DEF Init, Typed, OnePlan, PlanCurrent
<1>5. ChunksWithinFile
  BY <1>1, <1>2 DEF ChunksWithinFile
<1> QED
  BY <1>4, <1>5 DEF IInv, Sound

\* A request to write, as Next enumerates it.
LEMMA PlanKeepsTypes ==
  ASSUME Typed, NEW t \in Threads, NEW offset \in 0 .. MaxSize - 1,
         NEW length \in 1 .. MaxSize - offset, NEW data \in [1 .. length -> Bytes],
         PlanWrite(t, offset, data)
  PROVE  Typed'
<1> DEFINE plan == [offset |-> offset, data |-> data, oldSize |-> size,
                    newSize |-> Greater(size, offset + Len(data)), rows |-> chunks]
<1>1. /\ data \in Seq(Bytes) /\ Len(data) = length /\ length \in Nat \ {0}
      /\ offset \in Nat /\ offset + length <= MaxSize
  BY MaxSizeAssumption
<1>2. size \in Nat /\ size <= MaxSize
  BY SizeIsNat DEF Typed
<1>3. Greater(size, offset + Len(data)) \in 0 .. MaxSize
  BY <1>1, <1>2 DEF Greater
<1>4. plan \in Plans
  BY <1>1, <1>3 DEF Plans, Typed, TypeOK
<1>5. PlanFits(plan)
  BY <1>1 DEF PlanFits
<1>6. /\ plans' = [plans EXCEPT ![t] = plan] /\ size' = size /\ chunks' = chunks
      /\ plans \in [Threads -> Plans \cup {NoPlan}]
  BY DEF PlanWrite, Typed, TypeOK
<1> HIDE DEF plan
<1>7. plans' \in [Threads -> Plans \cup {NoPlan}]
  BY <1>4, <1>6
<1>8. \A u \in Threads : plans'[u] # NoPlan => PlanFits(plans'[u])
  BY <1>5, <1>6 DEF Typed
<1> QED
  BY <1>6, <1>7, <1>8 DEF Typed, TypeOK

\* Who has the lock plans for the file as it is.
LEMMA PlanIsCurrent ==
  ASSUME Typed, NEW t \in Threads, NEW offset, NEW data, PlanWrite(t, offset, data)
  PROVE  OnePlan' /\ PlanCurrent'
<1> DEFINE plan == [offset |-> offset, data |-> data, oldSize |-> size,
                    newSize |-> Greater(size, offset + Len(data)), rows |-> chunks]
<1>1. /\ plans' = [plans EXCEPT ![t] = plan] /\ size' = size /\ chunks' = chunks
      /\ plans \in [Threads -> Plans \cup {NoPlan}]
      /\ \A u \in Threads : plans[u] = NoPlan
  BY DEF PlanWrite, ContentLockFree, Typed, TypeOK
<1>2. plan.oldSize = size /\ plan.rows = chunks /\ size <= plan.oldSize
  BY SizeIsNat DEF Typed
<1> HIDE DEF plan
<1>3. plans'[t] = plan /\ \A u \in Threads : u # t => plans'[u] = NoPlan
  BY <1>1
<1> QED
  BY <1>1, <1>2, <1>3 DEF OnePlan, PlanCurrent

\* The thread that has the lock gives it back, with or without a commit.
LEMMA PlanEnds ==
  ASSUME Sound, NEW t \in Threads, plans[t] # NoPlan,
         plans' = [plans EXCEPT ![t] = NoPlan]
  PROVE  OnePlan' /\ PlanCurrent'
<1>1. \A u \in Threads : plans'[u] = NoPlan
  BY DEF Sound, OnePlan, Typed, TypeOK
<1> QED
  BY <1>1 DEF OnePlan, PlanCurrent

LEMMA AbandonKeepsTypes ==
  ASSUME Typed, NEW t \in Threads, AbandonWrite(t)
  PROVE  Typed'
BY DEF AbandonWrite, Typed, TypeOK

LEMMA TruncationKeepsTypes ==
  ASSUME Typed, ChunksWithinFile, NEW length \in 0 .. MaxSize,
         chunks' = Truncated(length), size' = length, UNCHANGED plans
  PROVE  Typed' /\ ChunksWithinFile'
<1>1. /\ chunks' \in [Indexes -> Seq(Payload)]
      /\ \A i \in Indexes : Len(chunks'[i]) <= ChunkSize
      /\ ChunksWithinFile'
  BY TruncatedBytes
<1> QED
  BY <1>1 DEF Typed, TypeOK

\* create(O_TRUNC) removes what a truncation to nothing removes.
LEMMA CreateTruncates ==
  ASSUME Typed, CreateTruncating
  PROVE  chunks' = Truncated(0) /\ size' = 0 /\ 0 \in 0 .. MaxSize
<1>1. (0 + ChunkSize - 1) \div ChunkSize = 0
  BY ChunkSizeAssumption
<1>2. ~ (0 < size /\ 0 - Start(0 \div ChunkSize) > 0)
  BY ChunkSizeAssumption DEF Start
<1> QED
  BY <1>1, <1>2, MaxSizeAssumption DEF CreateTruncating, Truncated

\* Every step keeps Sound; where create takes the content lock it keeps the
\* plan up to date as well.
LEMMA NextKeepsBoth ==
  ASSUME Sound, [Next]_vars
  PROVE  /\ Sound'
         /\ ~ CreateBesideWrites /\ PlanCurrent => PlanCurrent'
<1> USE DEF Sound
<1>1. ASSUME NEW t \in Threads, NEW offset \in 0 .. MaxSize - 1,
             NEW length \in 1 .. MaxSize - offset, NEW data \in [1 .. length -> Bytes],
             PlanWrite(t, offset, data)
      PROVE  Sound' /\ PlanCurrent'
  <2>1. Typed' /\ OnePlan' /\ PlanCurrent'
    BY <1>1, PlanKeepsTypes, PlanIsCurrent
  <2>2. ChunksWithinFile'
    BY <1>1 DEF PlanWrite, ChunksWithinFile
  <2> QED
    BY <2>1, <2>2
<1>2. ASSUME NEW t \in Threads, CommitWrite(t) PROVE Sound' /\ PlanCurrent'
  <2>1. Typed' /\ ChunksWithinFile'
    BY <1>2, CommitKeepsTypes, CommitKeepsExtents
  <2>2. OnePlan' /\ PlanCurrent'
    BY <1>2, PlanEnds DEF CommitWrite
  <2> QED
    BY <2>1, <2>2
<1>3. ASSUME NEW t \in Threads, AbandonWrite(t) PROVE Sound' /\ PlanCurrent'
  <2>1. Typed'
    BY <1>3, AbandonKeepsTypes
  <2>2. OnePlan' /\ PlanCurrent'
    BY <1>3, PlanEnds DEF AbandonWrite
  <2>3. ChunksWithinFile'
    BY <1>3 DEF AbandonWrite, ChunksWithinFile
  <2> QED
    BY <2>1, <2>2, <2>3
<1>4. ASSUME ContentLockFree, UNCHANGED plans PROVE OnePlan' /\ PlanCurrent'
  BY <1>4 DEF ContentLockFree, OnePlan, PlanCurrent
<1>5. ASSUME NEW length \in 0 .. MaxSize, Truncate(length) PROVE Sound' /\ PlanCurrent'
  <2>1. Typed' /\ ChunksWithinFile'
    BY <1>5, TruncationKeepsTypes DEF Truncate
  <2> QED
    BY <1>4, <1>5, <2>1 DEF Truncate
<1>6. CASE CreateTruncating
  <2>1. Typed' /\ ChunksWithinFile' /\ size' = 0 /\ UNCHANGED plans
    BY <1>6, CreateTruncates, TruncationKeepsTypes DEF CreateTruncating
  <2>2. OnePlan'
    <3> SUFFICES ASSUME NEW t \in Threads, plans[t] # NoPlan
                 PROVE  /\ 0 <= plans[t].oldSize
                        /\ \A u \in Threads : plans[u] # NoPlan => u = t
      BY <2>1 DEF OnePlan
    <3>1. plans[t].oldSize \in Nat
      BY PlanOfThread, PlanTyped
    <3> QED
      BY <3>1 DEF OnePlan
  <2>3. ~ CreateBesideWrites => PlanCurrent'
    BY <1>4, <1>6, <2>1 DEF CreateTruncating
  <2> QED
    BY <2>1, <2>2, <2>3
<1>7. CASE UNCHANGED vars
  BY <1>7 DEF vars, Typed, TypeOK, ChunksWithinFile, OnePlan, PlanCurrent
<1> QED
  BY <1>1, <1>2, <1>3, <1>5, <1>6, <1>7 DEF Next

(***************************************************************************)
(* The steps of ByteFile.                                                  *)
(***************************************************************************)
LEMMA CommitIsPut ==
  ASSUME IInv, NEW t \in Threads, CommitWrite(t)
  PROVE  File!Next
<1> DEFINE plan == plans[t]
<1>1. plan \in Plans /\ PlanFits(plan)
  BY PlanOfThread DEF CommitWrite, IInv, Sound
<1>2. /\ plan.offset \in 0 .. MaxSize - 1 /\ plan.offset \in Nat
      /\ Len(plan.data) \in 1 .. MaxSize - plan.offset
      /\ plan.data \in [1 .. Len(plan.data) -> Bytes]
      /\ Len(plan.data) \in Nat
  <2>1. plan.offset \in 0 .. MaxSize - 1 /\ plan.data \in Seq(Bytes)
    BY <1>1 DEF Plans
  <2>2. Len(plan.data) > 0 /\ plan.offset + Len(plan.data) <= MaxSize
    BY <1>1 DEF PlanFits
  <2> HIDE DEF plan
  <2> QED
    BY <2>1, <2>2, MaxSizeAssumption
<1>3. /\ TypeOK /\ TypeOK' /\ size \in Nat /\ size' \in Nat
      /\ size' = Greater(size, plan.offset + Len(plan.data))
  <2>1. TypeOK /\ TypeOK'
    BY CommitKeepsTypes DEF IInv, Sound, Typed
  <2>2. size' = Greater(size, plan.offset + Len(plan.data))
    BY <1>1 DEF CommitWrite, PlanFits, IInv, PlanCurrent
  <2> QED
    BY <2>1, <2>2, MaxSizeAssumption DEF TypeOK
<1>4. /\ Content = [k \in 1 .. size |-> ByteAt(chunks, k - 1)] /\ Len(Content) = size
      /\ Content' = [k \in 1 .. size' |-> ByteAt(chunks', k - 1)]
  <2>1. Content' = [k \in 1 .. size' |-> ByteAt(chunks', k - 1)]
    BY <1>3, ContentIsByteAtNext
  <2> QED
    BY <1>3, <2>1, ContentIsByteAt
<1>5. \A p \in 0 .. size' - 1 : ByteAt(chunks', p) =
        IF plan.offset <= p /\ p < plan.offset + Len(plan.data)
        THEN plan.data[p + 1 - plan.offset]
        ELSE IF p < size THEN ByteAt(chunks, p) ELSE ZeroByte
  BY CommitWritesBytes
<1> HIDE DEF plan
<1>6. ASSUME NEW k \in 1 .. size'
      PROVE  ByteAt(chunks', k - 1) =
               IF plan.offset < k /\ k <= plan.offset + Len(plan.data)
               THEN plan.data[k - plan.offset]
               ELSE IF k <= Len(Content) THEN Content[k] ELSE File!ZeroByte
  <2>1. k - 1 \in 0 .. size' - 1 /\ (k - 1) + 1 = k
    BY <1>3
  <2>2. /\ plan.offset <= k - 1 <=> plan.offset < k
        /\ k - 1 < plan.offset + Len(plan.data) <=> k <= plan.offset + Len(plan.data)
        /\ k - 1 < size <=> k <= size
    BY <1>2, <1>3
  <2>3. k <= size => Content[k] = ByteAt(chunks, k - 1)
    BY <1>3, <1>4
  <2>4. ByteAt(chunks', k - 1) =
          IF plan.offset <= k - 1 /\ k - 1 < plan.offset + Len(plan.data)
          THEN plan.data[(k - 1) + 1 - plan.offset]
          ELSE IF k - 1 < size THEN ByteAt(chunks, k - 1) ELSE ZeroByte
    BY <1>5, <2>1
  <2>5. (k - 1) + 1 - plan.offset = k - plan.offset
    BY <1>2, <1>3
  <2>6. File!ZeroByte = ZeroByte
    BY DEF File!ZeroByte, ZeroByte
  <2> QED
    BY <1>4, <2>2, <2>3, <2>4, <2>5, <2>6
<1>7. size' = File!Larger(Len(Content), plan.offset + Len(plan.data))
  BY <1>3, <1>4 DEF File!Larger, Greater
<1>8. Content' = File!Overwritten(Content, plan.offset, plan.data)
  BY <1>4, <1>6, <1>7 DEF File!Overwritten
<1>9. File!Put(plan.offset, plan.data)
  BY <1>8 DEF File!Put
<1> QED
  BY <1>2, <1>9 DEF File!Next

LEMMA TruncationIsResize ==
  ASSUME IInv, IInv', NEW length \in 0 .. MaxSize,
         chunks' = Truncated(length), size' = length
  PROVE  File!Next
<1>1. TypeOK /\ TypeOK'
  BY DEF IInv, Sound, Typed
<1>2. size \in Nat /\ length \in Nat
  BY <1>1, SizeIsNat, MaxSizeAssumption
<1>3. /\ Content = [k \in 1 .. size |-> ByteAt(chunks, k - 1)] /\ Len(Content) = size
      /\ Content' = [k \in 1 .. length |-> ByteAt(chunks', k - 1)]
  <2>1. Content' = [k \in 1 .. size' |-> ByteAt(chunks', k - 1)]
    BY <1>1, ContentIsByteAtNext
  <2> QED
    BY <1>1, <2>1, ContentIsByteAt
<1>4. \A p \in 0 .. length - 1 :
        ByteAt(chunks', p) = IF p < size THEN ByteAt(chunks, p) ELSE ZeroByte
  BY TruncatedBytes DEF IInv, Sound
<1>5. ASSUME NEW k \in 1 .. length
      PROVE  ByteAt(chunks', k - 1) =
               IF k <= Len(Content) THEN Content[k] ELSE File!ZeroByte
  <2>1. k - 1 \in 0 .. length - 1 /\ (k - 1 < size <=> k <= size)
    BY <1>2
  <2>2. k <= size => Content[k] = ByteAt(chunks, k - 1)
    BY <1>2, <1>3
  <2>3. File!ZeroByte = ZeroByte
    BY DEF File!ZeroByte, ZeroByte
  <2> QED
    BY <1>3, <1>4, <2>1, <2>2, <2>3
<1>6. File!Resize(length)
  BY <1>3, <1>5 DEF File!Resize
<1> QED
  BY <1>6 DEF File!Next

LEMMA StepsAreFileSteps ==
  ASSUME ~ CreateBesideWrites
  PROVE  IInv /\ IInv' /\ [Next]_vars => [File!Next]_Content
<1> SUFFICES ASSUME IInv, IInv', [Next]_vars PROVE [File!Next]_Content
  OBVIOUS
<1>1. ASSUME size' = size, chunks' = chunks PROVE [File!Next]_Content
  BY <1>1 DEF Content
<1>2. ASSUME NEW t \in Threads, NEW offset, NEW data, PlanWrite(t, offset, data)
      PROVE  [File!Next]_Content
  BY <1>1, <1>2 DEF PlanWrite
<1>3. ASSUME NEW t \in Threads, CommitWrite(t) PROVE [File!Next]_Content
  BY <1>3, CommitIsPut
<1>4. ASSUME NEW t \in Threads, AbandonWrite(t) PROVE [File!Next]_Content
  BY <1>1, <1>4 DEF AbandonWrite
<1>5. ASSUME NEW length \in 0 .. MaxSize, Truncate(length) PROVE [File!Next]_Content
  BY <1>5, TruncationIsResize DEF Truncate
<1>6. CASE CreateTruncating
  BY <1>6, CreateTruncates, TruncationIsResize DEF IInv, Sound
<1>7. CASE UNCHANGED vars
  BY <1>1, <1>7 DEF vars
<1> QED
  BY <1>2, <1>3, <1>4, <1>5, <1>6, <1>7 DEF Next

(***************************************************************************)
(* Theorems.                                                               *)
(***************************************************************************)
LEMMA SpecSound == Spec => []Sound
<1>1. Init => Sound
  BY InitIInv DEF IInv
<1>2. Sound /\ [Next]_vars => Sound'
  BY NextKeepsBoth
<1> QED
  BY <1>1, <1>2, PTL DEF Spec

LEMMA SpecIInv == ASSUME ~ CreateBesideWrites PROVE Spec => []IInv
<1>1. IInv /\ [Next]_vars => IInv'
  BY NextKeepsBoth DEF IInv
<1> QED
  BY <1>1, InitIInv, PTL DEF Spec

\* The size, the chunks and the plans keep their types, with create(O_TRUNC)
\* beside writes or without: no chunk is longer than ChunkSize, no file than
\* MaxSize (write, truncate, create).
THEOREM FileContentTypeOK == Spec => []TypeOK
<1>1. Sound => TypeOK
  BY DEF Sound, Typed
<1> QED
  BY <1>1, SpecSound, PTL

\* For any chunk size, any bytes and any number of threads, every commit of a
\* write overwrites exactly its range of the file as it is then, and every
\* truncation cuts or fills with zeroes; the other steps leave the bytes alone.
THEOREM FileContentImplementsByteFile ==
  ASSUME ~ CreateBesideWrites
  PROVE  Spec => ImplementsByteFile
<1>1. Init => File!Init
  <2> SUFFICES ASSUME Init PROVE Content = <<>>
    BY DEF File!Init
  <2>1. size = 0
    BY DEF Init
  <2>2. DOMAIN Content = 1 .. 0
    BY <2>1 DEF Content
  <2> QED
    BY <2>1 DEF Content
<1>2. IInv /\ IInv' /\ [Next]_vars => [File!Next]_Content
  BY StepsAreFileSteps
<1> QED
  BY <1>1, <1>2, SpecIInv, PTL DEF Spec, ImplementsByteFile, File!Spec


(***************************************************************************)
(* Reading.  The loop over the chunks of a read is a recursive function;   *)
(* induction on a set of numbers shows what it computes.                   *)
(***************************************************************************)
\* A set that has 0 and every successor of a member has every number.  (The
\* intervals 0 .. n of numbers outside the set would have no smallest one.)
LEMMA SetOfNumbers ==
  ASSUME NEW A, 0 \in A, \A n \in Nat : n \in A => n + 1 \in A
  PROVE  \A n \in Nat : n \in A
<1> SUFFICES ASSUME NEW m \in Nat, m \notin A PROVE FALSE
  OBVIOUS
<1> DEFINE T == {0 .. n : n \in Nat \ A}
           R == StrictSubsetOrdering(Nat)
<1>1. \A n \in Nat : 0 .. n \in FiniteSubsetsOf(Nat)
  <2> SUFFICES ASSUME NEW n \in Nat PROVE 0 .. n \in FiniteSubsetsOf(Nat)
    OBVIOUS
  <2>1. IsFiniteSet(0 .. n)
    BY FS_Interval
  <2> QED
    BY <2>1 DEF FiniteSubsetsOf
<1>2. T \subseteq FiniteSubsetsOf(Nat) /\ T # {}
  BY <1>1
<1>3. IsWellFoundedOn(R, FiniteSubsetsOf(Nat))
  BY FS_StrictSubsetOrderingWellFounded
<1>4. PICK x \in T : \A y \in T : ~ (<<y, x>> \in R)
  <2> HIDE DEF T, R
  <2> QED
    BY <1>2, <1>3, WFMin
<1>5. PICK n \in Nat \ A : x = 0 .. n
  BY <1>4
<1>6. n # 0 /\ n - 1 \in Nat
  BY <1>5
<1>7. n - 1 \notin A
  BY <1>5, <1>6
<1>8. 0 .. n - 1 \in T
  BY <1>6, <1>7
<1>9. /\ 0 .. n - 1 \in SUBSET Nat /\ 0 .. n \in SUBSET Nat
      /\ 0 .. n - 1 \subseteq 0 .. n /\ 0 .. n - 1 # 0 .. n
  BY <1>6
<1>10. <<0 .. n - 1, x>> \in R
  BY <1>5, <1>9 DEF StrictSubsetOrdering
<1> QED
  BY <1>4, <1>8, <1>10

\* What a function that satisfies the equation of FlattenSeq is worth at its
\* end is the result.
JoinsUp(m, parts, joined) ==
  joined = [i \in 1 .. m |-> IF i = 1 THEN parts[i] ELSE joined[i - 1] \o parts[i]]

LEMMA FlattenSeqIs ==
  ASSUME NEW m \in Nat \ {0}, NEW parts, Len(parts) = m,
         NEW joined, JoinsUp(m, parts, joined)
  PROVE  FlattenSeq(parts) = joined[m]
<1>0. joined = [i \in 1 .. m |-> IF i = 1 THEN parts[i] ELSE joined[i - 1] \o parts[i]]
  BY DEF JoinsUp
<1> DEFINE Joins(f) == f = [i \in 1 .. m |-> IF i = 1 THEN parts[i]
                                             ELSE f[i - 1] \o parts[i]]
           f == CHOOSE g : Joins(g)
<1>1. FlattenSeq(parts) = f[m]
  BY DEF FlattenSeq
<1>2. Joins(f)
  <2>1. Joins(joined)
    BY <1>0
  <2> HIDE DEF Joins
  <2> QED
    BY <2>1
<1> HIDE DEF f
<1> DEFINE A == {i \in Nat : i + 1 \in 1 .. m => f[i + 1] = joined[i + 1]}
<1>3. 0 \in A
  BY <1>0, <1>2
<1>4. ASSUME NEW i \in Nat, i \in A PROVE i + 1 \in A
  <2> SUFFICES ASSUME i + 2 \in 1 .. m PROVE f[i + 2] = joined[i + 2]
    OBVIOUS
  <2>1. i + 1 \in 1 .. m /\ i + 2 # 1 /\ (i + 2) - 1 = i + 1
    OBVIOUS
  <2>2. f[i + 1] = joined[i + 1]
    BY <1>4, <2>1
  <2>3. f[i + 2] = f[i + 1] \o parts[i + 2]
    BY <1>2, <2>1
  <2>4. joined[i + 2] = joined[i + 1] \o parts[i + 2]
    BY <1>0, <2>1
  <2> QED
    BY <2>2, <2>3, <2>4
<1>5. \A i \in Nat : i \in A
  <2> HIDE DEF A
  <2> QED
    BY <1>3, <1>4, SetOfNumbers
<1>6. m - 1 \in Nat /\ (m - 1) + 1 = m /\ m \in 1 .. m
  <2> HIDE DEF A
  <2> QED
    OBVIOUS
<1>7. m - 1 \in A
  <2> HIDE DEF A
  <2> QED
    BY <1>5, <1>6
<1>8. f[m] = joined[m]
  <2>1. (m - 1) + 1 \in 1 .. m => f[(m - 1) + 1] = joined[(m - 1) + 1]
    BY <1>7, Zenon
  <2> HIDE DEF A
  <2> QED
    BY <1>6, <2>1
<1> QED
  <2> HIDE DEF A
  <2> QED
    BY <1>1, <1>8, Zenon


LEMMA ContentTyped ==
  ASSUME TypeOK
  PROVE  Content \in Seq(Payload)
<1>1. size \in Nat /\ Content = [k \in 1 .. size |-> ByteAt(chunks, k - 1)]
  BY ContentIsByteAt
<1>2. ASSUME NEW k \in 1 .. size PROVE ByteAt(chunks, k - 1) \in Payload
  <2>1. k - 1 \in 0 .. MaxSize - 1 /\ k - 1 \in Nat
    BY <1>1, MaxSizeAssumption DEF TypeOK
  <2>2. /\ (k - 1) \div ChunkSize \in Indexes
        /\ (k - 1) % ChunkSize \in Nat
    BY <2>1, IndexesAreNat, Position, ChunkSizeAssumption
  <2>3. chunks[(k - 1) \div ChunkSize] \in Seq(Payload)
    BY <2>2 DEF TypeOK
  <2> QED
    BY <2>2, <2>3 DEF ByteAt, Payload
<1>3. Content \in [1 .. size -> Payload]
  BY <1>1, <1>2
<1> QED
  BY <1>1, <1>3

\* What a read takes from a chunk are the bytes of the file in the chunk.
LEMMA ReadChunkBytes ==
  ASSUME TypeOK, NEW i \in Indexes, NEW offset \in Nat, NEW end \in Nat,
         offset < end, end <= size, offset < Start(i) + ChunkSize, Start(i) < end
  PROVE  ReadChunk(i, offset, end) =
           SubSeq(Content, Greater(offset, Start(i)) + 1, Lesser(end, Start(i) + ChunkSize))
<1> DEFINE e    == Extent(i, size)
           old  == Padded(chunks[i], e)
           from == Greater(offset - Start(i), 0) + 1
           to   == Lesser(end - Start(i), e)
           a    == Greater(offset, Start(i)) + 1
           b    == Lesser(end, Start(i) + ChunkSize)
<1>1. /\ size \in Nat /\ size <= MaxSize /\ Start(i) \in Nat /\ i \in Nat
      /\ chunks[i] \in Seq(Payload) /\ Len(chunks[i]) \in Nat
  BY SizeIsNat, StartIsNat DEF TypeOK
<1>2. ReadChunk(i, offset, end) = SubSeq(old, from, to)
  BY DEF ReadChunk
<1>3. /\ e \in Nat /\ from \in Nat \ {0} /\ to \in Nat /\ to <= e /\ to <= ChunkSize
      /\ a = Start(i) + from /\ b = Start(i) + to /\ a \in Nat \ {0} /\ b \in Nat
      /\ b <= size
  <2> HIDE DEF old
  <2>1. e \in Nat /\ e <= ChunkSize /\ (e = ChunkSize \/ e = size - Start(i))
    <3> HIDE DEF from, to, a, b
    <3> QED
      BY <1>1, ChunkSizeAssumption DEF Extent, Greater, Lesser
  <2>2. from \in Nat \ {0} /\ a = Start(i) + from /\ a \in Nat \ {0}
    <3> HIDE DEF e, to, b
    <3> QED
      BY <1>1 DEF Greater
  <2>3. Start(i) < end /\ end <= size /\ end \in Nat
    OBVIOUS
  <2>4. /\ to \in Nat /\ to <= e /\ to <= ChunkSize
        /\ b = Start(i) + to /\ b \in Nat /\ b <= size
    <3>1. CASE end - Start(i) <= e
      <4>1. to = end - Start(i)
        <5> HIDE DEF e, from, a, b
        <5> QED
          BY <1>1, <2>1, <3>1 DEF Lesser
      <4>2. b = end
        <5> HIDE DEF e, from, to, a
        <5> QED
          BY <1>1, <2>1, <2>3, <3>1, ChunkSizeAssumption DEF Lesser
      <4> HIDE DEF e, from, to, a, b
      <4> QED
        BY <1>1, <2>1, <2>3, <3>1, <4>1, <4>2, ChunkSizeAssumption
    <3>2. CASE ~ (end - Start(i) <= e)
      <4>1. to = e
        <5> HIDE DEF e, from, a, b
        <5> QED
          BY <1>1, <2>1, <3>2 DEF Lesser
      <4> HIDE DEF e, from, to, a
      <4>2. e = ChunkSize
        <5> HIDE DEF b
        <5> QED
          BY <1>1, <2>1, <2>3, <3>2
      <4>3. b = Start(i) + ChunkSize
        BY <1>1, <2>3, <3>2, <4>2, ChunkSizeAssumption DEF Lesser
      <4> HIDE DEF b
      <4> QED
        BY <1>1, <2>1, <2>3, <3>2, <4>1, <4>2, <4>3, ChunkSizeAssumption
    <3> QED
      BY <3>1, <3>2
  <2> HIDE DEF e, from, to, a, b
  <2> QED
    BY <2>1, <2>2, <2>4
<1> HIDE DEF e, from, to, a, b
<1>4. /\ old \in Seq(Payload) /\ Len(old) = e
      /\ \A k \in 1 .. e : old[k] = IF k <= Len(chunks[i]) THEN chunks[i][k] ELSE ZeroByte
  BY <1>1, <1>3, PaddedBytes
<1> HIDE DEF old
<1>5. /\ Content \in Seq(Payload) /\ Len(Content) = size
      /\ Content = [k \in 1 .. size |-> ByteAt(chunks, k - 1)]
  BY ContentTyped, ContentIsByteAt
<1>6. ASSUME NEW k \in from .. to PROVE old[k] = Content[Start(i) + k]
  <2>1. /\ k \in 1 .. e /\ k - 1 \in 0 .. ChunkSize - 1 /\ Start(i) + k \in 1 .. size
        /\ (Start(i) + k) - 1 = Start(i) + (k - 1)
    <3>1. k \in Nat \ {0} /\ k <= to
      BY <1>3
    <3>2. k <= e /\ k <= ChunkSize
      BY <1>3, <3>1, ChunkSizeAssumption
    <3>0. /\ b = Start(i) + to /\ b <= size
          /\ Start(i) \in Nat /\ to \in Nat /\ size \in Nat
      BY <1>1, <1>3
    <3>3. Start(i) + k <= b
      BY <3>0, <3>1
    <3>4. Start(i) + k <= size
      BY <3>0, <3>1, <3>3
    <3>5. k \in 1 .. e
      BY <1>3, <3>1, <3>2
    <3>6. k - 1 \in 0 .. ChunkSize - 1
      BY <3>1, <3>2, ChunkSizeAssumption
    <3>7. Start(i) + k \in 1 .. size
      BY <1>1, <3>1, <3>4
    <3>8. (Start(i) + k) - 1 = Start(i) + (k - 1)
      BY <1>1, <3>1
    <3> QED
      BY <3>5, <3>6, <3>7, <3>8
  <2>2. Content[Start(i) + k] = ByteAt(chunks, Start(i) + (k - 1))
    BY <1>5, <2>1
  <2>3. ByteAt(chunks, Start(i) + (k - 1)) =
          IF k - 1 < Len(chunks[i]) THEN chunks[i][(k - 1) + 1] ELSE ZeroByte
    <3>1. /\ (Start(i) + (k - 1)) \div ChunkSize = i
          /\ (Start(i) + (k - 1)) % ChunkSize = k - 1
      BY <1>1, <2>1, PositionUnique
    <3> QED
      BY <3>1 DEF ByteAt
  <2>4. (k - 1 < Len(chunks[i]) <=> k <= Len(chunks[i])) /\ (k - 1) + 1 = k
    BY <1>1, <2>1
  <2> QED
    BY <1>4, <2>1, <2>2, <2>3, <2>4
<1>7. /\ Len(SubSeq(old, from, to)) = IF from <= to THEN to - from + 1 ELSE 0
      /\ SubSeq(old, from, to) \in Seq(Payload)
      /\ \A k \in 1 .. to - from + 1 : SubSeq(old, from, to)[k] = old[from + k - 1]
  <2>1. \A k \in from .. to : old[k] \in Payload
    BY <1>3, <1>4
  <2> QED
    BY <1>3, <2>1, SubSeqProperties
<1>8. /\ Len(SubSeq(Content, a, b)) = IF a <= b THEN b - a + 1 ELSE 0
      /\ SubSeq(Content, a, b) \in Seq(Payload)
      /\ \A k \in 1 .. b - a + 1 : SubSeq(Content, a, b)[k] = Content[a + k - 1]
  <2>1. \A k \in a .. b : Content[k] \in Payload
    <3>1. \A k \in a .. b : k \in 1 .. Len(Content)
      BY <1>1, <1>3, <1>5
    <3> QED
      BY <1>5, <3>1, ElementOfSeq
  <2> QED
    BY <1>3, <2>1, SubSeqProperties
<1>9. Len(SubSeq(old, from, to)) = Len(SubSeq(Content, a, b))
  BY <1>1, <1>3, <1>7, <1>8
<1>10. ASSUME NEW k \in 1 .. Len(SubSeq(Content, a, b))
       PROVE  SubSeq(old, from, to)[k] = SubSeq(Content, a, b)[k]
  <2>1. /\ k \in 1 .. to - from + 1 /\ k \in 1 .. b - a + 1
        /\ from + k - 1 \in from .. to
        /\ a + k - 1 = Start(i) + (from + k - 1)
    <3>1. a <= b
      BY <1>3, <1>8
    <3>2. k \in 1 .. b - a + 1
      BY <1>8, <3>1
    <3>3. /\ from \in Nat /\ to \in Nat /\ Start(i) \in Nat /\ k \in Int
          /\ a = Start(i) + from /\ b = Start(i) + to /\ 1 <= k /\ k <= b - a + 1
      BY <1>1, <1>3, <3>2
    <3>4. \A x, y, z \in Nat, n \in Int : 1 <= n /\ n <= (x + z) - (x + y) + 1 =>
            /\ n \in 1 .. z - y + 1 /\ n \in 1 .. (x + z) - (x + y) + 1
            /\ y + n - 1 \in y .. z
            /\ (x + y) + n - 1 = x + (y + n - 1)
      OBVIOUS
    <3> QED
      BY <3>3, <3>4
  <2>2. SubSeq(old, from, to)[k] = old[from + k - 1]
    BY <1>7, <2>1
  <2>3. SubSeq(Content, a, b)[k] = Content[a + k - 1]
    BY <1>8, <2>1
  <2>4. old[from + k - 1] = Content[Start(i) + (from + k - 1)]
    BY <1>6, <2>1
  <2> QED
    BY <2>1, <2>2, <2>3, <2>4
<1>11. SubSeq(old, from, to) = SubSeq(Content, a, b)
  <2> DEFINE s == SubSeq(old, from, to)
             r == SubSeq(Content, a, b)
  <2>1. s \in Seq(Payload) /\ r \in Seq(Payload) /\ Len(s) = Len(r)
    BY <1>7, <1>8, <1>9
  <2>2. \A k \in 1 .. Len(r) : s[k] = r[k]
    BY <1>10
  <2> HIDE DEF s, r
  <2>3. s = r
    BY <2>1, <2>2
  <2> QED
    BY <2>3 DEF s, r
<1> QED
  BY <1>2, <1>11 DEF a, b

\* The loop joins the parts of the file in its order.
LEMMA ReadJoins ==
  ASSUME TypeOK, NEW offset \in Nat, NEW end \in Nat, offset < end, end <= size
  PROVE  LET first == offset \div ChunkSize
             last  == (end - 1) \div ChunkSize
         IN  FlattenSeq([n \in 1 .. last - first + 1 |->
                           ReadChunk(first + n - 1, offset, end)]) =
               SubSeq(Content, offset + 1, end)
<1> DEFINE first == offset \div ChunkSize
           last  == (end - 1) \div ChunkSize
           m     == last - first + 1
           parts == [n \in 1 .. m |-> ReadChunk(first + n - 1, offset, end)]
           upTo(n) == Lesser(end, Start(first + n))
           joined == [n \in 1 .. m |-> SubSeq(Content, offset + 1, upTo(n))]
<1>1. size \in Nat /\ size <= MaxSize /\ end - 1 \in Nat /\ offset <= end - 1
  BY SizeIsNat
<1>2. first \in Nat /\ last \in Nat /\ first <= last /\ last \in Indexes
  <2>1. first \in Nat /\ last \in Nat
    BY <1>1, Position
  <2>2. first <= last
    BY <1>1, DivMonotonic
  <2>3. end - 1 \in 0 .. MaxSize - 1
    BY <1>1, MaxSizeAssumption
  <2>4. last \in Indexes
    BY <2>3, IndexesAreNat
  <2> QED
    BY <2>1, <2>2, <2>4
<1>3. Content \in Seq(Payload) /\ Len(Content) = size
  BY ContentTyped, ContentIsByteAt
<1>4. /\ Start(first) <= offset /\ Start(first) \in Nat
      /\ offset < Start(first) + ChunkSize
  <2> HIDE DEF first
  <2>1. /\ offset = Start(first) + (offset % ChunkSize) /\ Start(first) \in Nat
        /\ offset % ChunkSize \in 0 .. ChunkSize - 1
    BY Position DEF first
  <2> QED
    BY <2>1, ChunkSizeAssumption
<1>5. Start(last) < end /\ Start(last) \in Nat /\ end <= Start(last) + ChunkSize
  <2> HIDE DEF last
  <2>1. /\ end - 1 = Start(last) + ((end - 1) % ChunkSize) /\ Start(last) \in Nat
        /\ (end - 1) % ChunkSize \in 0 .. ChunkSize - 1
    BY <1>1, Position DEF last
  <2> QED
    BY <1>1, <2>1, ChunkSizeAssumption
<1> HIDE DEF first, last
<1>6. m \in Nat \ {0}
  BY <1>2
<1>7. \A i \in Nat : Start(i + 1) = Start(i) + ChunkSize /\ Start(i) \in Nat
  BY ChunkSizeAssumption DEF Start
<1>8. ASSUME NEW n \in 1 .. m
      PROVE  LET i == first + n - 1
             IN  /\ i \in Nat /\ i \in Indexes /\ first + n = i + 1
                 /\ Start(i) < end /\ offset < Start(i) + ChunkSize
                 /\ Start(first) <= Start(i)
                 /\ n # 1 => offset < Start(i)
  <2> DEFINE i == first + n - 1
  <2>1. i \in Nat /\ first <= i /\ i <= last /\ first + n = i + 1 /\ (n # 1 => first < i)
    BY <1>2
  <2> HIDE DEF i
  <2>2. i \in Indexes
    <3>1. LastIndex \in Int
      BY MaxSizeAssumption, Position DEF LastIndex
    <3> QED
      BY <1>2, <2>1, <3>1 DEF Indexes
  <2>3. Start(i) <= Start(last)
    BY <1>2, <1>5, <1>7, <2>1, StartsApart, ChunkSizeAssumption
  <2>4. Start(first) <= Start(i) /\ (n # 1 => Start(first) + ChunkSize <= Start(i))
    <3>1. Start(first) \in Nat
      BY <1>4
    <3>2. CASE first = i
      BY <2>1, <3>1, <3>2
    <3>3. CASE first # i
      <4>1. first < i
        BY <1>2, <2>1, <3>3
      <4>2. Start(first) + ChunkSize <= Start(i)
        BY <1>2, <2>1, <4>1, StartsApart
      <4>3. Start(i) \in Nat
        BY <1>7, <2>1
      <4> QED
        BY <3>1, <4>2, <4>3, ChunkSizeAssumption
    <3> QED
      BY <3>2, <3>3
  <2>5. Start(i) \in Nat
    BY <1>7, <2>1
  <2>6. Start(i) < end /\ offset < Start(i) + ChunkSize /\ (n # 1 => offset < Start(i))
    BY <1>4, <1>5, <2>3, <2>4, <2>5, ChunkSizeAssumption
  <2> QED
    BY <2>1, <2>2, <2>4, <2>6 DEF i
<1>9. ASSUME NEW n \in 1 .. m
      PROVE  joined[n] = IF n = 1 THEN parts[n] ELSE joined[n - 1] \o parts[n]
  <2> DEFINE i == first + n - 1
  <2>1. /\ i \in Nat /\ i \in Indexes /\ first + n = i + 1
        /\ Start(i) < end /\ offset < Start(i) + ChunkSize
        /\ Start(first) <= Start(i)
        /\ n # 1 => offset < Start(i)
    BY <1>8
  <2>2. parts[n] = SubSeq(Content, Greater(offset, Start(i)) + 1,
                          Lesser(end, Start(i) + ChunkSize))
    <3>1. parts[n] = ReadChunk(i, offset, end)
      OBVIOUS
    <3> HIDE DEF parts, i
    <3> QED
      BY <2>1, <3>1, ReadChunkBytes
  <2>3. upTo(n) = Lesser(end, Start(i) + ChunkSize) /\ joined[n] = SubSeq(Content, offset + 1, upTo(n))
    BY <1>7, <2>1
  <2>4. CASE n = 1
    <3>1. Greater(offset, Start(i)) = offset
      BY <1>4, <2>4, <1>2 DEF Greater
    <3> HIDE DEF parts, joined, upTo, i
    <3> QED
      BY <2>2, <2>3, <2>4, <3>1
  <2>5. CASE n # 1
    <3>1. n - 1 \in 1 .. m /\ first + (n - 1) = i
      BY <2>5, <1>2
    <3>2. joined[n - 1] = SubSeq(Content, offset + 1, Lesser(end, Start(i)))
      BY <3>1
    <3> HIDE DEF parts, joined, upTo, i
    <3>3. /\ Greater(offset, Start(i)) = Start(i) /\ Lesser(end, Start(i)) = Start(i)
          /\ Start(i) \in Nat
      BY <1>7, <2>1, <2>5 DEF Greater, Lesser
    <3>4. Lesser(end, Start(i) + ChunkSize) \in Start(i) .. size
      BY <2>1, <3>3, <1>1, ChunkSizeAssumption DEF Lesser
    <3>5. offset + 1 \in 1 .. Len(Content) + 1 /\ Start(i) \in (offset + 1) - 1 .. Len(Content)
          /\ Lesser(end, Start(i) + ChunkSize) \in Start(i) .. Len(Content)
      BY <1>1, <1>3, <2>1, <2>5, <3>3, <3>4
    <3>6. SubSeq(Content, offset + 1, Start(i))
            \o SubSeq(Content, Start(i) + 1, Lesser(end, Start(i) + ChunkSize))
          = SubSeq(Content, offset + 1, Lesser(end, Start(i) + ChunkSize))
      BY <1>3, <3>5, ConcatAdjacentSubSeq
    <3> QED
      BY <2>2, <2>3, <2>5, <3>2, <3>3, <3>6
  <2> QED
    BY <2>4, <2>5
<1>10. JoinsUp(m, parts, joined)
  <2> HIDE DEF m, parts
  <2> QED
    BY <1>9 DEF JoinsUp
<1>11. Len(parts) = m
  BY <1>6
<1>12. joined[m] = SubSeq(Content, offset + 1, end)
  <2>1. first + m = last + 1
    <3> HIDE DEF parts, joined, upTo
    <3> QED
      BY <1>2
  <2>2. upTo(m) = end
    <3>1. upTo(m) = Lesser(end, Start(first + m))
      OBVIOUS
    <3> HIDE DEF parts, joined, upTo, m
    <3>2. Start(last + 1) = Start(last) + ChunkSize
      BY <1>2, <1>7
    <3>3. Lesser(end, Start(last) + ChunkSize) = end
      BY <1>1, <1>5, ChunkSizeAssumption DEF Lesser
    <3> QED
      BY <2>1, <3>1, <3>2, <3>3
  <2>3. m \in 1 .. m
    <3> HIDE DEF parts, joined, upTo, m
    <3> QED
      BY <1>6
  <2>4. joined[m] = SubSeq(Content, offset + 1, upTo(m))
    <3> HIDE DEF m, upTo
    <3> QED
      BY <2>3
  <2> HIDE DEF m, upTo, joined, parts
  <2> QED
    BY <2>2, <2>4
<1>13. FlattenSeq(parts) = joined[m]
  <2> HIDE DEF m, parts, joined, upTo
  <2> QED
    BY <1>6, <1>10, <1>11, FlattenSeqIs
<1> QED
  BY <1>12, <1>13 DEF first, last

LEMMA ReadIsExact ==
  ASSUME TypeOK, NEW offset \in 0 .. MaxSize, NEW length \in 0 .. MaxSize
  PROVE  Read(offset, length) =
           SubSeq(Content, offset + 1, Lesser(offset + length, size))
<1>1. size \in Nat /\ offset \in Nat /\ length \in Nat
  BY SizeIsNat, MaxSizeAssumption
<1>2. CASE length = 0 \/ offset >= size
  <2>1. Lesser(offset + length, size) < offset + 1 /\ Lesser(offset + length, size) \in Nat
    BY <1>1, <1>2 DEF Lesser
  <2>2. SubSeq(Content, offset + 1, Lesser(offset + length, size)) = <<>>
    BY <1>1, <2>1, SubSeqEmpty
  <2> QED
    BY <1>2, <2>2 DEF Read
<1>3. CASE ~ (length = 0 \/ offset >= size)
  <2> DEFINE end == Lesser(offset + length, size)
  <2>1. end \in Nat /\ offset < end /\ end <= size
    BY <1>1, <1>3 DEF Lesser
  <2>2. Read(offset, length) =
          LET first == offset \div ChunkSize
              last  == (end - 1) \div ChunkSize
          IN  FlattenSeq([n \in 1 .. last - first + 1 |->
                            ReadChunk(first + n - 1, offset, end)])
    BY <1>3 DEF Read
  <2> HIDE DEF end
  <2>3. Read(offset, length) = SubSeq(Content, offset + 1, end)
    BY <1>1, <2>1, <2>2, ReadJoins
  <2> QED
    BY <2>3 DEF end
<1> QED
  BY <1>2, <1>3

\* For any chunk size and any file, with create(O_TRUNC) beside writes or
\* without, a read of any range returns exactly those bytes of the file
\* (plan_read and execute_read_plan).
THEOREM FileContentReadsExact == Spec => []ReadsExact
<1>1. TypeOK => ReadsExact
  BY ReadIsExact DEF ReadsExact
<1> QED
  BY <1>1, FileContentTypeOK, PTL

=============================================================================
