---------------------------- MODULE FileContent -----------------------------
(***************************************************************************)
(* The bytes of one regular file, in chunks of ChunkSize bytes: planning,  *)
(* preparing and committing writes, truncating, and reading, by any number *)
(* of threads.  A chunk stands for the payload of the block its row in     *)
(* `file_chunks` maps to; payloads are immutable, so a plan that holds a   *)
(* row holds its bytes.  ByteFile is what this implements.                 *)
(***************************************************************************)
EXTENDS Integers, SequencesExt

CONSTANTS
  Threads,
  ChunkSize,
  Bytes,              \* what is written; zeroes also come from holes
  MaxSize,            \* bound: the largest file
  CreateBesideWrites, \* create(O_TRUNC) may come between the steps of a write
  NoPlan

ASSUME ChunkSizeAssumption == ChunkSize \in Nat \ {0}
ASSUME MaxSizeAssumption == MaxSize \in Nat \ {0}
ASSUME BytesAssumption == Bytes \subseteq Nat
ASSUME CreateAssumption == CreateBesideWrites \in BOOLEAN

VARIABLES
  size,         \* inodes.size
  chunks,       \* the payload of each chunk; <<>> where there is no row
  plans         \* the FileWritePlan of each thread between plan and commit

vars == <<size, chunks, plans>>

ZeroByte == 0
Payload == Bytes \cup {ZeroByte}
Lesser(m, n) == IF m <= n THEN m ELSE n
Greater(m, n) == IF m >= n THEN m ELSE n

LastIndex == (MaxSize - 1) \div ChunkSize
Indexes == 0 .. LastIndex
Plans == [offset : 0 .. MaxSize - 1, data : Seq(Bytes), oldSize : 0 .. MaxSize,
          newSize : 0 .. MaxSize, rows : [Indexes -> Seq(Payload)]]

ASSUME NoPlanAssumption == NoPlan \notin Plans

Start(i) == i * ChunkSize

\* Bytes of the file that fall into chunk i.
Extent(i, fileSize) == Greater(0, Lesser(ChunkSize, fileSize - Start(i)))

\* read_block_snapshot: cut or filled with zeroes to the expected size.
Padded(chunk, length) ==
  [k \in 1 .. length |-> IF k <= Len(chunk) THEN chunk[k] ELSE ZeroByte]

Init ==
  /\ size = 0
  /\ chunks = [i \in Indexes |-> <<>>]
  /\ plans = [t \in Threads |-> NoPlan]

\* No thread holds the content lock of the inode.
ContentLockFree == \A t \in Threads : plans[t] = NoPlan

(***************************************************************************)
(* write: the lock is taken, a read transaction plans, old payloads are    *)
(* read and the new ones prepared, a write transaction commits them.       *)
(***************************************************************************)
\* A mutated form: the plan is made without the content lock.
PlanWriteUnlocked(t, offset, data) ==
  /\ plans[t] = NoPlan
  /\ offset + Len(data) <= MaxSize
  /\ plans' = [plans EXCEPT ![t] =
       [offset |-> offset, data |-> data, oldSize |-> size,
        newSize |-> Greater(size, offset + Len(data)), rows |-> chunks]]
  /\ UNCHANGED <<size, chunks>>

PlanWrite(t, offset, data) ==
  /\ ContentLockFree
  /\ offset + Len(data) <= MaxSize
  /\ plans' = [plans EXCEPT ![t] =
       [offset |-> offset, data |-> data, oldSize |-> size,
        newSize |-> Greater(size, offset + Len(data)), rows |-> chunks]]
  /\ UNCHANGED <<size, chunks>>

TouchedBy(plan) ==
  plan.offset \div ChunkSize .. (plan.offset + Len(plan.data) - 1) \div ChunkSize

\* A mutated form: a chunk reaches to the end of the file.
PreparedChunkToEnd(plan, i) ==
  LET chunkLen   == plan.newSize - Start(i)
      writeStart == Greater(plan.offset - Start(i), 0)
      writeStop  == Lesser(plan.offset + Len(plan.data) - Start(i), chunkLen)
      old == Padded(plan.rows[i], Extent(i, plan.oldSize))
  IN  [k \in 1 .. chunkLen |->
         IF writeStart < k /\ k <= writeStop
         THEN plan.data[Start(i) + k - plan.offset]
         ELSE IF k <= Len(old) THEN old[k] ELSE ZeroByte]

\* The new payload of chunk i: the old one, filled with zeroes up to the new
\* length of the chunk, and overwritten.  (A write of the whole chunk does
\* not read the old payload, and shows none of it.)
PreparedChunk(plan, i) ==
  LET chunkLen   == Lesser(Start(i) + ChunkSize, plan.newSize) - Start(i)
      writeStart == Greater(plan.offset - Start(i), 0)
      writeStop  == Lesser(plan.offset + Len(plan.data) - Start(i), chunkLen)
      old == Padded(plan.rows[i], Extent(i, plan.oldSize))
  IN  [k \in 1 .. chunkLen |->
         IF writeStart < k /\ k <= writeStop
         THEN plan.data[Start(i) + k - plan.offset]
         ELSE IF k <= Len(old) THEN old[k] ELSE ZeroByte]

CommitWrite(t) ==
  LET plan == plans[t]
  IN  /\ plan # NoPlan
      /\ chunks' = [i \in Indexes |->
           IF i \in TouchedBy(plan) THEN PreparedChunk(plan, i) ELSE chunks[i]]
      /\ size' = plan.newSize
      /\ plans' = [plans EXCEPT ![t] = NoPlan]

\* An unreadable payload, or a transaction that fails, ends the write.
AbandonWrite(t) ==
  /\ plans[t] # NoPlan
  /\ plans' = [plans EXCEPT ![t] = NoPlan]
  /\ UNCHANGED <<size, chunks>>

(***************************************************************************)
(* Truncation: setattr and open(O_TRUNC) with the lock, create(O_TRUNC) of *)
(* an existing file without.                                               *)
(***************************************************************************)
\* remove_file_chunks
RemovedFrom(first) ==
  [i \in Indexes |-> IF i >= first THEN <<>> ELSE chunks[i]]

\* The boundary chunk of a truncation that shortens the file is rewritten
\* with the bytes before `length`.
Truncated(length) ==
  LET first == (length + ChunkSize - 1) \div ChunkSize
      last  == length \div ChunkSize
      keep  == length - Start(last)
  IN  IF length < size /\ keep > 0
      THEN [RemovedFrom(first) EXCEPT
              ![last] = SubSeq(Padded(@, Extent(last, size)), 1, keep)]
      ELSE RemovedFrom(first)

Truncate(length) ==
  /\ ContentLockFree
  /\ length # size
  /\ chunks' = Truncated(length)
  /\ size' = length
  /\ UNCHANGED plans

CreateTruncating ==
  /\ ContentLockFree \/ CreateBesideWrites
  /\ chunks' = RemovedFrom(0)
  /\ size' = 0
  /\ UNCHANGED plans

Next ==
  \/ \E t \in Threads, offset \in 0 .. MaxSize - 1 :
       \E length \in 1 .. MaxSize - offset : \E data \in [1 .. length -> Bytes] :
         PlanWrite(t, offset, data)
  \/ \E t \in Threads : CommitWrite(t) \/ AbandonWrite(t)
  \/ \E length \in 0 .. MaxSize : Truncate(length)
  \/ CreateTruncating

Spec == Init /\ [][Next]_vars

(***************************************************************************)
(* read: plan_read and execute_read_plan, in one read of the rows.         *)
(***************************************************************************)
\* A mutated form: the last chunk is taken to be full.
ReadChunkUnclamped(i, offset, end) ==
  SubSeq(Padded(chunks[i], ChunkSize),
         Greater(offset - Start(i), 0) + 1, Lesser(end - Start(i) + 1, ChunkSize))

\* What the read of offset .. end - 1 takes from chunk i.
ReadChunk(i, offset, end) ==
  LET expected == Extent(i, size)
  IN  SubSeq(Padded(chunks[i], expected),
             Greater(offset - Start(i), 0) + 1, Lesser(end - Start(i), expected))

Read(offset, length) ==
  IF length = 0 \/ offset >= size THEN <<>>
  ELSE LET end   == Lesser(offset + length, size)
           first == offset \div ChunkSize
           last  == (end - 1) \div ChunkSize
       IN  FlattenSeq([n \in 1 .. last - first + 1 |->
                         ReadChunk(first + n - 1, offset, end)])

(***************************************************************************)
(* Properties.                                                             *)
(***************************************************************************)
TypeOK ==
  /\ size \in 0 .. MaxSize
  /\ chunks \in [Indexes -> Seq(Payload)]
  /\ \A i \in Indexes : Len(chunks[i]) <= ChunkSize
  /\ plans \in [Threads -> Plans \cup {NoPlan}]

\* The file as one string: byte k lies in chunk (k - 1) \div ChunkSize.
Content ==
  [k \in 1 .. size |->
     LET chunk == chunks[(k - 1) \div ChunkSize]
         n     == ((k - 1) % ChunkSize) + 1
     IN  IF n <= Len(chunk) THEN chunk[n] ELSE ZeroByte]

\* Every read of every range, within or past the end of the file, over holes
\* and short chunks, returns exactly those bytes of the file (plan_read).
ReadsExact ==
  \A offset \in 0 .. MaxSize, length \in 0 .. MaxSize :
    Read(offset, length) =
      SubSeq(Content, offset + 1, Lesser(offset + length, size))

\* Writes and truncations by any threads take effect as ByteFile's steps:
\* none is lost, none mixes old bytes into another's (_content_lock).
File == INSTANCE ByteFile WITH content <- Content
ImplementsByteFile == File!Spec
=============================================================================
